SPECIFICATION Spec
CONSTANTS
    Payloads = {small, big}
    Oversize = {big}
    Types = {cp, other}
    Checkpoint = cp
    Keys = {k1,k2}
    Times = {1,2}
    SyncInterval = 2
    MaxSize = 2
    MaxSeq = 1
    MaxFrames = 4
    MaxFiles = 2
INVARIANTS TypeOK NothingAckedIsLost WriterMatchesFile SequencesUniqueUnlessLapsed
PROPERTIES VerdictIsRight RecoveryRestoresWriter
SYMMETRY Symmetry
CONSTRAINT SmallAfterLapse
