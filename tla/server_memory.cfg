\* Two requests at a time, two projects, room for one of them, two jobs, one of
\* which may panic, and a restart.
SPECIFICATION Spec
CONSTANTS
    r1 = r1
    r2 = r2
    a = a
    b = b
    Requests = {r1, r2}
    Keys = {a, b}
    Slugs = {a, b}
    SlugOf <- Itself
    MaxEntries = 1
    MaxVersion = 1
    MaxJobs = 2
    MaxPanics = 1
    MaxRestarts = 1
INVARIANTS TypeOK FreshAnswers JobNeverVanishes
CHECK_DEADLOCK FALSE
