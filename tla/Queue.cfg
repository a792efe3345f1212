\* Two drains over the requests of one sync and one checkpoint of one directory.
SPECIFICATION FairSpec
CONSTANTS
    Syncs = {s1}
    Checkpoints = {c1}
    Elsewhere = {}
    Drains = {d1, d2}
    MaxTextRetries = 2
    MaxAnchorRetries = 1
    MaxListEntries = 1
    MaxFaults = 1
INVARIANTS QueuedIsNotLost AcceptedOnce
PROPERTY QueueDrains
CHECK_DEADLOCK FALSE
