\* No job dies: every event reaches every mart.
SPECIFICATION FairSpec
CONSTANTS
    w1 = w1
    w2 = w2
    Workers = {w1, w2}
    Jobs <- WatchAndIngest
    NMarts = 2
    Kind <- SumReplace
    MaxMessages = 3
    Group <- MCGroup
    Batch = 2
    ChunkSize = 2
    ConvertMayFail = TRUE
    MaxFails = 0
    MaxJobs = 2
PROPERTIES EventuallyMarted ImplementsView
CHECK_DEADLOCK FALSE
