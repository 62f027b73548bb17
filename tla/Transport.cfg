SPECIFICATION FairSpec
CONSTANTS
    write = write
    read = read
    poll = poll
    Calls <- OneOfEach
    Commands <- MCCommands
    Mutating <- Writes
    Deadlined <- Polls
    Decoded <- MCDecoded
    Replies <- MCReplies
    MaxRetries = 2
    Limited = TRUE
    Burst = 1
    TicketLogin = TRUE
INVARIANTS
    TypeOK
    AtMostOnce
    RefusalIsFinal
    
    TransientFailureIsRetried
    RateBound
PROPERTIES
    ImplementsPromise
    EveryCallEnds
CHECK_DEADLOCK FALSE
