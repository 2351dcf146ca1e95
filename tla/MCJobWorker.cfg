SPECIFICATION Spec
SYMMETRY Symmetry
CONSTANTS
    Jobs = {j1}
    WorkerIds = {a}
    Null = Null
    MaxAttempts = {2}
    MaxI32 = 2
    RetryGrant = 1
    AttemptCap = 2
    Lease = 3
    RetryBase = 1
    RetryMax = 1
    CompletedRetention = 0
    DeadRetention = 0
    ReapLimit = 1
    PurgeLimit = 1
    MaxStall = 0
    Horizon = 4
    Workers = {w1, w2}
    WorkerId <- SharedId
    Handled = {j1}
    MaxBatches = 1
    MaxOrphans = 1
INVARIANTS
    TypeOK
    OwnershipEstimate
    NoTwoOwners
    CompletedMeansHandled
PROPERTIES
    ImplementsLeasedQueue
CHECK_DEADLOCK TRUE
