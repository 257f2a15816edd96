SPECIFICATION Spec

CONSTANTS
    a1 = a1
    a2 = a2
    b1 = b1
    alice = alice
    bob = bob
    NoProfile = NoProfile
    Profiles <- TwoLives
    Names <- OneName
    NameOf <- NamesOfTwoLives
    Clients = {c1, c2}
    Requests = {"add", "sync", "sync_all", "switch", "delete", "schedule", "media", "import", "delete_media", "discover", "settings"}
    MaxJobs = 3
    MaxWorkerCrashes = 1
    MaxWebCrashes = 1

SYMMETRY ClientSymmetry

INVARIANTS
    TypeOK
    OneActiveSync
    RunningIsHeld
    ErasedWhenDeleted

PROPERTIES
    OutcomesStay
    ImplementsBoard

CHECK_DEADLOCK FALSE
