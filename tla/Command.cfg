SPECIFICATION FairCommand
CONSTANTS
    issuer = issuer
    follower = follower
    Issuer = issuer
    Followers <- OneFollower
    MaxRetries = 1
    ExitStatuses <- MCExitStatuses
    Vmids <- MCVmids
    Names <- MCNames
    Nodes <- MCNodes
    Remotes <- MCRemotes
    Fold <- MCFold
    Guests <- MCGuests
    Page = 2
    MaxLines = 5
INVARIANTS
    CommandTypeOK
    NeverPicksAmong
    SuccessIsReal
    FailureIsReal
    LogNoLossNoDup
    LogLastPageIsComplete
PROPERTIES
    OnlyTheNamedGuest
    
    WaitEndsWithTask
    BoundedWaitEnds
    LogFollowEndsWithTask
CHECK_DEADLOCK FALSE
