SPECIFICATION Spec
CONSTANTS
    Writers = {w1, w2}
    Pumps = {p1}
    Subscribers = {p1}
    BufferSize = 2
    PageSize = 2
    Backend = "sqlite"
    ReadsFail = FALSE
    MaxSeq = 2
    MaxBatch = 1
    MaxCrashes = 0
    MaxPrunes = 0
INVARIANTS NoGap
CHECK_DEADLOCK FALSE
