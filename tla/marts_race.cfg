\* The watcher beside an ingest or a backfill, statement by statement, over
\* one mart of every kind.
SPECIFICATION Spec
CONSTANTS
    w1 = w1
    w2 = w2
    Workers = {w1, w2}
    Jobs <- WatchAndIngest
    NMarts = 4
    Kind <- EveryKind
    MaxMessages = 3
    Group <- MCGroup
    Batch = 2
    ChunkSize = 1
    ConvertMayFail = TRUE
    MaxFails = 1
    MaxJobs = 2
INVARIANTS TypeOK WatermarkCovered QuiescentFresh RecomputedOnce
PROPERTIES WatermarkNeverRetreats BackfillRecovers
CHECK_DEADLOCK FALSE
