SPECIFICATION Spec
CONSTANTS
    Jobs = {j1, j2, j3}
    v1 = v1
    v2 = v2
    Versions = {v1, v2}
    Size <- PostSize
    Longest = 2
    NoVersion = NoVersion
    NoJob = NoJob
    MaxErrors = 2
    MaxKills = 2
    MaxLosses = 1
SYMMETRY JobSymmetry
INVARIANTS
    TypeOK
    SuccessIsWhole
    AllOrNothing
    CompleteIsLeft
    FilesMatchRow
    NothingStray
CHECK_DEADLOCK FALSE
