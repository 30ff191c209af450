\* Two hooks at a time and a dismissal, two sessions, room for one session in
\* the state, one kill, stall, or failed read, write
\* or removal.
SPECIFICATION FairSpec
CONSTANTS
    h1 = h1
    h2 = h2
    server = server
    s1 = s1
    s2 = s2
    n1 = n1
    n2 = n2
    Hooks = {h1, h2}
    Dismissers = {server}
    Sessions = {s1, s2}
    Nudges = {n1, n2}
    Asks <- TwoAndOne
    Dismissable = {n1}
    Kind = "kind"
    MaxPerSession = 1
    Threshold = 1
    Cooldown = 1
    MaxSessions = 1
    MaxClock = 2
    MaxDismissals = 1
    MaxFaults = 1
INVARIANTS TypeOK NeverTwice StaysMuted
PROPERTIES NeverWedged
CHECK_DEADLOCK FALSE
