SPECIFICATION Spec
CONSTANTS
    Strings <- MCStrings
    Files <- MCFiles
    Envs <- MCEnvs
    CommandLines <- MCCommandLines
    Keyrings <- MCKeyrings
INVARIANTS
    ContextFlagWins
CHECK_DEADLOCK FALSE
