SPECIFICATION Spec
CONSTANTS
    Requests = {r1, r2}
    Users = {u1}
    Times = {0, 2}
    MaxClockDrift = 2
    VdfMinInterval = 2
    MaxCommits = 2
    MaxFaults = 1
CONSTRAINT OneLapse
SYMMETRY Symmetry
INVARIANTS FileIsLinked FileVerifies MacCoversFile
PROPERTIES ImplementsLog
CHECK_DEADLOCK FALSE
