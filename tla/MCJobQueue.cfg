SPECIFICATION QSpec
SYMMETRY Symmetry
CONSTANTS
    Jobs = {j1, j2}
    WorkerIds = {a, b}
    Null = Null
    MaxAttempts = {0, 1, 2, 3}
    MaxI32 = 2
    RetryGrant = 1
    AttemptCap = 3
    Lease = 1
    RetryBase = 1
    RetryMax = 2
    CompletedRetention = 1
    DeadRetention = 2
    ReapLimit = 1
    PurgeLimit = 1
    MaxStall = 0
    Horizon = 3
INVARIANTS
    TableConstraints
    BudgetSpentExactlyWhenDead
PROPERTY
    AttemptsFence
