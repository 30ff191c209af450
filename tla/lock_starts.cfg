\* Three locked starts and one without the lock.
SPECIFICATION Spec
CONSTANTS
    p1 = p1
    p2 = p2
    p3 = p3
    p4 = p4
    NoProc = NoProc
    Procs = {p1, p2, p3, p4}
    MaxInodes = 8
    Unlocked = {p4}
INVARIANTS TypeOK SingleUntilDropped DisplayHonest
SYMMETRY Symmetric
CHECK_DEADLOCK FALSE
