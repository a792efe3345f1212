\* Two callers and the event loop, two keystrokes, two sessions.
SPECIFICATION Spec
CONSTANTS
  Callers = {c1, c2}
  Loop = Loop
  Nobody = Nobody
  MaxTyped = 2
  MaxSessions = 2
  BaselineMin = 2
  MaxFaults = 1
SYMMETRY Symmetry
CONSTRAINTS BeforeLapse UntilDeadlock
INVARIANTS
  NothingIsForgotten
  TotalsDoNotShrink
  StuckOnlyBehindStop
