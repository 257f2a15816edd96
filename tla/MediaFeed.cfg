SPECIFICATION Spec

CONSTANTS
    Places = 5
    Limit = 3
    Near = 0
    MaxChanges = 2
    MaxOpens = 2
    MaxFailures = 1

INVARIANTS
    TypeOK
    FeedIsWhole

CHECK_DEADLOCK FALSE
