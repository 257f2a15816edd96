SPECIFICATION Spec

CONSTANTS
    MaxNodes = 8
    Longest = 12
    LastProduct = 36
    MaxStrikes = 37
    MaxCrashes = 0
    MaxFailures = 0

PROPERTY EveryAnswerPauses

CHECK_DEADLOCK FALSE
