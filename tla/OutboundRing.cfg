SPECIFICATION Spec
CONSTANTS
    k1 = k1
    k2 = k2
    Callis = {k1, k2}
    ChunkSize = 2
    WindowSize = 2
    MaxWrite = 5
    MaxBytes = 6
    MaxMsgId = 5
    MaxLosses = 2
SYMMETRY Symmetry
INVARIANT BytesConserved
INVARIANT BooksExact
INVARIANT OkMeansDelivered
PROPERTY FreedOnlyByItsAnswer
CHECK_DEADLOCK FALSE
