SPECIFICATION Spec
CONSTANTS
    k1 = k1
    k2 = k2
    Callis = {k1, k2}
    ChunkSize = 1
    WindowSize = 2
    RecvWindow = 2
    MaxBytes = 4
    MaxMsgId = 5
    FinishIds = {9}
    AckCapacity = 4
    Workloads <- ImpatientWorkloads
SYMMETRY Symmetry
INVARIANT EofOnlyAfterLast
CHECK_DEADLOCK FALSE
