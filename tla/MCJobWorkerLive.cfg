SPECIFICATION LiveSpec
CONSTANTS
    Jobs = {j1}
    WorkerIds = {a}
    Null = Null
    MaxAttempts = {1, 2}
    MaxI32 = 2
    RetryGrant = 1
    AttemptCap = 3
    Lease = 3
    RetryBase = 1
    RetryMax = 1
    CompletedRetention = 0
    DeadRetention = 0
    ReapLimit = 1
    PurgeLimit = 1
    MaxStall = 1
    Horizon = 5
    Workers = {w1}
    WorkerId <- SharedId
    Handled = {j1}
    MaxBatches = 2
    MaxOrphans = 1
INVARIANT
    OwnershipEstimate
PROPERTY
    EventuallySettled
