\* Longer files with lines of any kind, failed reads and truncations.
SPECIFICATION Spec
CONSTANTS
    s1 = s1
    s2 = s2
    d1 = d1
    Sweeps = {s1}
    Watchers = {}
    MaxLines = 3
    MaxAborts = 1
    MaxRewrites = 1
    MaxBroken = 1
    MaxFaults = 2
    LineKinds <- AnyLine
PROPERTIES FullReadHeals
CHECK_DEADLOCK FALSE
