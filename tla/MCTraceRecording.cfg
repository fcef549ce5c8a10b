SPECIFICATION Spec
CONSTANTS
  GID = {g1, g2}
  TxID = {t1, t2, t3, t4}
  Time = {0, 1}
  FlCountMax = 3
SYMMETRY Symmetry
INVARIANTS
  StackMirrorsApp
  NoPanic
  NothingForgotten
  ParentMatchesFrames
  GoroutineRunsWithItsCalls
  ClosedLogIsComplete
  EndedCallsAreBounded
PROPERTIES
  StoredCallsAreFinal
  ImplementsLedger
CHECK_DEADLOCK FALSE
