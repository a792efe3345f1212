\* Two handles, two keys, five events, three days, two faults.
SPECIFICATION Spec
CONSTANTS
  Stores = {s1, s2}
  Keys = {k1, k2}
  NoKey = NoKey
  MaxTime = 2
  MaxEvents = 5
  MaxDay = 3
  MaxFaults = 2
SYMMETRY Symmetry
INVARIANTS
  StoreVerifies
  EachEventOnce
  ChainSpans
CHECK_DEADLOCK FALSE
