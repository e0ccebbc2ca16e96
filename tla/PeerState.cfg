SPECIFICATION FairSpec
CONSTANTS
    p1 = p1
    p2 = p2
    b1 = b1
    Primaries = {p1, p2}
    Blobs = {b1}
    MaxParallel = 2
    HandshakeLimit = 1
    EventCapacity = 1
    EarlyClose = FALSE
    Workloads <- MCWorkloads
INVARIANTS RetainedWorkHasDialer DeadHandleReported DialFlagHasTask NoOrphanCallis
PROPERTY ClosingEnds
CHECK_DEADLOCK FALSE
