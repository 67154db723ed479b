SPECIFICATION FairSpec
CONSTANTS
    Writers = {w1}
    Pumps = {p1}
    Subscribers = {p1}
    BufferSize = 1
    PageSize = 2
    Backend = "sqlite"
    ReadsFail = FALSE
    MaxSeq = 4
    MaxBatch = 2
    MaxCrashes = 1
    MaxPrunes = 1
INVARIANTS TypeOK InOrder NoPhantom NoGap NoBacklog
PROPERTIES ImplementsDelivery EventuallyHanded StopsOnShutdown
CHECK_DEADLOCK FALSE
