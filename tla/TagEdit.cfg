SPECIFICATION FairSpec
CONSTANTS
    g1 = g1
    g2 = g2
    a = a
    b = b
    Guests <- MCGuests
    Tags <- MCTags
    Names <- MCNames
    Digests = TRUE
    Commands <- MCCommands
    Scenarios <- MCScenarios
INVARIANTS
    TypeOK
    SuccessIsComplete
PROPERTIES
    ImplementsAtomicTags
    EveryEditEnds
CHECK_DEADLOCK FALSE
