SPECIFICATION FairSpec
CONSTANTS
    MaxFrames = 4
    MaxKeys = 5
    Window = 1
INVARIANTS
    TypeOK
    StreamsInOrder
    TerminalIsRestored
PROPERTIES
    HangUpEnds
    QuitEndsBridge
CHECK_DEADLOCK FALSE
