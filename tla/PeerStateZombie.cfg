SPECIFICATION Spec
CONSTANTS
    p1 = p1
    p2 = p2
    b1 = b1
    Primaries = {p1, p2}
    Blobs = {}
    MaxParallel = 2
    HandshakeLimit = 1
    EventCapacity = 3
    EarlyClose = TRUE
    Workloads <- PrimaryWorkloads
INVARIANT RetainedWorkHasDialer
CHECK_DEADLOCK FALSE
