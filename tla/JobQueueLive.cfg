SPECIFICATION FairSpec

CONSTANTS
    a1 = a1
    a2 = a2
    b1 = b1
    alice = alice
    bob = bob
    NoProfile = NoProfile
    Profiles <- TwoProfiles
    Names <- TwoNames
    NameOf <- NamesOfTwo
    Clients = {c1}
    Requests = {"import", "sync", "schedule", "delete", "settings"}
    MaxJobs = 4
    MaxWorkerCrashes = 1
    MaxWebCrashes = 0

INVARIANT PendingDeletionHasJob

PROPERTIES
    DueReachesEveryProfile
    EveryJobEnds
    LocalJobsEnd
    DeletionSettles

CHECK_DEADLOCK FALSE
