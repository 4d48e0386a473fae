CONSTANTS
    BaseRows = 2
    TierRatio = 2
    MinMerge = 2
    MaxMerge = 3
    MaxOutputRows = 3
    MaxOutputBytes = 1000
    DeletedPercent = 20
    SmallDeletedPercent = 50
    SmallDeletedRows = 1
    GraphMinRows = 2
    PoolBytes = 1700
    Background = TRUE
    VectorFields = 1
    VectorDims = 2
    IndexedScalars = 0
    Threads = 2
    Pool = 1700
    FlushCalls = {"f1"}
    CompactCalls = {"c1"}
    Others <- Foreign
    StartSegs <- Empty
    MaxFrozen = 1
    FlushOps = 2
    MaxFlushFailures = 2
    MaxJobsPerCollection = 2
    MaxSeq = 2
    MaxFaults = 1
SPECIFICATION Spec
INVARIANTS NoLostWakeup PermitsAccounted ReservationsExact
PROPERTIES FlushAckCovers CompactAckIndexed EveryCallAnswered
CHECK_DEADLOCK FALSE
