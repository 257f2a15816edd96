SPECIFICATION Spec
CONSTANTS
    Clients = {c1, c2}
    Accounts = {a1}
    MaxBatches = 2
    MaxImports = 2
    MaxKills = 1
    MaxErrors = 1
INVARIANTS
    TypeOK
    OneOpenBatch
    OwnCookies
    ActiveHasJob
PROPERTIES
    ScansAreKept
    ScansEnd
CHECK_DEADLOCK FALSE
