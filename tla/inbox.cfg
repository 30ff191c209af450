\* A hook and an inbox --ack over three messages, a kill and a failed rename.
SPECIFICATION FairSpec
CONSTANTS
    h1 = h1
    ack = ack
    Messages = {1, 2, 3}
    Hooks = {h1}
    Ackers = {ack}
    MaxInject = 2
    MaxKills = 1
    MaxFails = 1
INVARIANTS NothingSwallowed AnnouncedOnce
PROPERTIES EventuallyShown
CHECK_DEADLOCK FALSE
