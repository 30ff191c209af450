\* Two overlapping refreshes of an additive mart.
SPECIFICATION Spec
CONSTANTS
    w1 = w1
    w2 = w2
    Workers = {w1, w2}
    Jobs <- WatchAndIngest
    NMarts = 2
    Kind <- SumReplace
    MaxMessages = 3
    Group <- MCGroup
    Batch = 2
    ChunkSize = 2
    ConvertMayFail = TRUE
    MaxFails = 0
    MaxJobs = 3
INVARIANT CountedAtMostOnce
CHECK_DEADLOCK FALSE
