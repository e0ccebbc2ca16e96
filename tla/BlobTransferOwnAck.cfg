SPECIFICATION SpecBothWays
CONSTANTS
    k1 = k1
    k2 = k2
    Callis = {k1, k2}
    ChunkSize = 1
    WindowSize = 2
    RecvWindow = 2
    MaxBytes = 4
    MaxMsgId = 5
    FinishIds = {9}
    AckCapacity = 4
    Workloads <- QuietWorkloads
SYMMETRY Symmetry
INVARIANT ResponsesKept
CHECK_DEADLOCK FALSE
