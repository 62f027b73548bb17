SPECIFICATION StoreSpec
CONSTANTS
    Strings <- MCStrings
    Files <- MCFiles
    Envs <- MCEnvs
    CommandLines <- MCCommandLines
    Keyrings <- MCKeyrings
    w1 = w1
    w2 = w2
    Writers <- MCWriters
    Names <- MCNames
    Jobs <- MCJobs
    Disks <- MCDisks
    Breaks <- MCBreaks
SYMMETRY Swap
INVARIANTS
    StoreTypeOK
    RefHasSecret
    OverridesWin
    OneProfileOnly
PROPERTIES
    CleanEdit
CHECK_DEADLOCK FALSE
