SPECIFICATION Spec
CONSTANTS
  Data = {d1, d2, d3, d4}
  BufNodes = 2
  AutoSync = 6
  MaxLeaves = 7
  MaxCrashes = 1
SYMMETRY Symmetry
CONSTRAINT ShortAfterLapse
INVARIANTS
  RootCommitsToLeaves
  EveryLeafProvable
  EveryRangeProvable
  SyncedLeavesSurvive
  RetryAppendsOnce
CHECK_DEADLOCK FALSE
