SPECIFICATION Spec

CONSTANTS
    a1 = a1
    a2 = a2
    b1 = b1
    alice = alice
    bob = bob
    NoProfile = NoProfile
    Profiles <- TwoLives
    Names <- OneName
    NameOf <- NamesOfTwoLives
    Clients = {c1}
    Requests = {"add", "delete"}
    MaxJobs = 4
    MaxWorkerCrashes = 0
    MaxWebCrashes = 1

INVARIANTS
    PendingDeletionHasJob

CHECK_DEADLOCK FALSE
