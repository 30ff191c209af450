\* A sweep and the watcher on one file while it is written; a pass that fails or
\* a batch that is dropped.
SPECIFICATION FairSpec
CONSTANTS
    s1 = s1
    s2 = s2
    d1 = d1
    Sweeps = {s1}
    Watchers = {d1}
    MaxLines = 2
    MaxAborts = 1
    MaxRewrites = 0
    MaxBroken = 0
    MaxFaults = 1
    LineKinds <- MessagesOnly
INVARIANTS TypeOK LossOnlyAtTheEdge CaughtUp
PROPERTIES SkipIsSafe EventuallyIngested
CHECK_DEADLOCK FALSE
