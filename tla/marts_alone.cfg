\* One worker, every job, the forced backfill included.
SPECIFICATION Spec
CONSTANTS
    w1 = w1
    w2 = w2
    Workers = {w1}
    Jobs <- OneOfAll
    NMarts = 4
    Kind <- EveryKind
    MaxMessages = 3
    Group <- MCGroup
    Batch = 2
    ChunkSize = 2
    ConvertMayFail = TRUE
    MaxFails = 1
    MaxJobs = 4
INVARIANTS QuiescentExact
CHECK_DEADLOCK FALSE
