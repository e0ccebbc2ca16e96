SPECIFICATION Spec
CONSTANTS
    k1 = k1
    k2 = k2
    Callis = {k1, k2}
    ChunkSize = 1
    WindowSize = 2
    RecvWindow = 2
    MaxBytes = 4
    MaxMsgId = 5
    FinishIds = {9}
    AckCapacity = 4
    Workloads <- MCWorkloads
SYMMETRY Symmetry
INVARIANT AckedAccepted
INVARIANT CompleteMeansAll
INVARIANT NoGapOnOneCallis
INVARIANT AttemptAnswerable
INVARIANT SleeperWoken
INVARIANT CompleteComing
CHECK_DEADLOCK FALSE
