SPECIFICATION FairSpec

CONSTANTS
    MaxNodes = 8
    Longest = 12
    LastProduct = 36
    MaxStrikes = 37
    MaxCrashes = 2
    MaxFailures = 2

INVARIANTS
    TypeOK
    BacksOff
    NotAskedAgain

PROPERTY WorkResumes

CHECK_DEADLOCK FALSE
