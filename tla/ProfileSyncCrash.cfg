SPECIFICATION Spec

CONSTANTS
    Posts <- FivePosts
    Reels <- NoReels
    Pinned <- NonePinned
    PageSize = 2
    Backlog = 2
    Burst = 3
    MaxStories = 0
    MaxFailures = 0
    MaxKills = 1
    MaxOthers = 0

INVARIANT NothingSkipped

CHECK_DEADLOCK FALSE
