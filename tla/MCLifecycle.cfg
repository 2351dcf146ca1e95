SPECIFICATION LiveSpec
CONSTANTS
    Connections = {c1, c2}
    MaxConnections = 2
INVARIANTS
    NothingLeftAtExit
    FailureReported
    SuccessIsRequested
    AtMostOneMoreJob
PROPERTIES
    ShutdownCompletes
