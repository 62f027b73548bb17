SPECIFICATION FairSpec
CONSTANTS
    Page = 2
    MaxLines = 5
INVARIANTS
    NoTrailingLineLost
CHECK_DEADLOCK FALSE
