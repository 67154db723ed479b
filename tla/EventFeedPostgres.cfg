SPECIFICATION Spec
CONSTANTS
    Writers = {w1, w2}
    SseClients = {}
    Subscribers = {}
    PollClients = {q1}
    BufferSize = 1
    PageSize = 2
    Backend = "postgres"
    ReadsFail = FALSE
    MaxSeq = 3
    MaxBatch = 2
    MaxCrashes = 1
    MaxPrunes = 1
INVARIANTS PollNoGap
CHECK_DEADLOCK FALSE
