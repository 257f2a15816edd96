SPECIFICATION Spec

CONSTANTS
    a1 = a1
    a2 = a2
    a3 = a3
    a4 = a4
    admin = admin
    other = other
    here = here
    there = there
    everyone = everyone
    NoRow = NoRow
    Attempts <- FourAttempts
    Changes = {c1}
    Buckets <- FiveBuckets
    AccountOf <- Accounts
    AddressOf <- Addresses
    Everyone = everyone
    Known <- AsAdmin
    Max <- Limits
    Window = 2
    Block = 2
    Lease = 1
    Lifetime = 1
    Caps = {5, 12}
    Permits = 2
    MaxDelay = 1
    MaxTime = 2

SYMMETRY Alike

INVARIANTS
    TypeOK
    RetryIsEnough
    OnlyCurrentPassword

PROPERTY ImplementsLimit

CHECK_DEADLOCK FALSE
