SPECIFICATION Spec

CONSTANTS
    Posts <- MostPosts
    Reels <- TwoReels
    Pinned <- NonePinned
    PageSize = 2
    Backlog = 2
    Burst = 3
    MaxStories = 1
    MaxFailures = 1
    MaxKills = 0
    MaxOthers = 1

INVARIANTS
    TypeOK
    NothingSkipped
    StopTakesEffect

CHECK_DEADLOCK FALSE
