\* A sentinel whose data directory is not ~/.writersproof: is what it queues retried?
SPECIFICATION FairSpec
CONSTANTS
    Syncs = {s1}
    Checkpoints = {c1}
    Elsewhere = {c1}
    Drains = {d1}
    MaxTextRetries = 2
    MaxAnchorRetries = 1
    MaxListEntries = 2
    MaxFaults = 0
PROPERTY QueuedAnchorsAreRetried
CHECK_DEADLOCK FALSE
