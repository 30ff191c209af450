\* Three callers of apply, on stores of any age, one of them killed anywhere.
SPECIFICATION FairSpec
CONSTANTS
    p1 = p1
    p2 = p2
    p3 = p3
    Procs = {p1, p2, p3}
    Migrations = {1, 2, 3, 4, 5, 6, 7, 8, 12, 13, 21, 28, 30}
    Guards = {3, 12, 13, 28}
    CreateTable = {1, 6, 7}
    AddColumn = {3, 12, 13}
    UpdateMessages = {4}
    Rebuild = {2}
    Partition = 8
    SingleColumn = {3, 12}
    Born = {0, 1, 2, 3, 4, 5, 6, 7, 8, 12, 28, 30}
    MaxKills = 1
INVARIANTS TypeOK VersionIsBacked OkMeansComplete
PROPERTIES EventuallyCurrent
