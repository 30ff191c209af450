\* Pushes and pulls that fail or are killed, a store that answers late.
SPECIFICATION FairSpec
CONSTANTS
    daily = daily
    project = project
    pu = pu
    pl = pl
    Shards = {daily, project}
    Versions = {1, 2}
    Pushers = {pu}
    Pullers = {pl}
    StaleReads = TRUE
    MaxChanges = 3
    MaxFails = 2
INVARIANTS TypeOK ManifestBacked Readable LandedWasCommitted
PROPERTIES GenerationGrows ImplementsReplica SkipIsComplete Converges
