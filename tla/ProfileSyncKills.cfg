SPECIFICATION FairSpec

CONSTANTS
    Posts <- FivePosts
    Reels <- NoReels
    Pinned <- FirstPinned
    PageSize = 3
    Backlog = 4
    Burst = 2
    MaxStories = 0
    MaxFailures = 1
    MaxKills = 1
    MaxOthers = 0

INVARIANT NothingSkipped

PROPERTY EverythingIsTried

CHECK_DEADLOCK FALSE
