SPECIFICATION FairSpec
CONSTANTS
    Guests = {100, 101}
    Names = {"daily", "base"}
    Prunes = {"p"}
    Ages <- MCAges
    Befores = {3}
    MaxClock = 3
INVARIANTS
    TypeOK
    SuccessIsDeleted
PROPERTIES
    DeletesAreAllowed
    ConfirmedPruneEnds
CHECK_DEADLOCK FALSE
