\* Sentinel.cfg with the lock order of AUD-041 taken at its word.
SPECIFICATION Spec
CONSTANTS
  Callers = {c1, c2}
  Loop = Loop
  Nobody = Nobody
  MaxTyped = 2
  MaxSessions = 2
  BaselineMin = 2
  MaxFaults = 1
SYMMETRY Symmetry
INVARIANT NoDeadlock
