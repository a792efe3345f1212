\* Signing with and without counters, exporting, restarting and recovering.
SPECIFICATION Spec
CONSTANTS
    Hashes = {h1, h2, h3}
    HardwareCounter = FALSE
    MaxSessions = 1
    MaxOrdinal = 3
    MaxCounter = 2
    MaxExports = 2
SYMMETRY HashSymmetry
CONSTRAINT OneLapse
INVARIANTS OneHashPerKey NothingSignedIsForgotten EvidenceVerifies ExportsRecoverable
CHECK_DEADLOCK FALSE
