SPECIFICATION FairSpec
CONSTANTS
    issuer = issuer
    follower = follower
    Issuer = issuer
    Followers <- OneFollower
    MaxRetries = 1
    ExitStatuses <- MCExitStatuses
INVARIANTS
    WaitFlagWaits
CHECK_DEADLOCK FALSE
