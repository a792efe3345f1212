\* Two documents, two sessions of two entries, a buffer of two.
SPECIFICATION WalSpec
CONSTANTS
  EventLoop = EventLoop
  Ffi = Ffi
  Paths = {p, q}
  NoPath = NoPath
  MaxLogs = 2
  MaxEntries = 2
  MaxPending = 2
  MaxKeys = 2
  MaxWalFaults = 1
SYMMETRY Symmetry
CONSTRAINT OneLapse
INVARIANTS
  EachEntryOnce
  LogsInOrder
