SPECIFICATION Spec
CONSTANTS
  GID = {g1}
  TxID = {t1, t2}
  Time = {0}
  FlCountMax = 3
  Reader = {r1}
  ChanCap = 2
CHECK_DEADLOCK FALSE
INVARIANTS
  ChannelKeepsSimulatorInStep
  ClosedLogIsComplete
  ReadersTellTheTruth
PROPERTIES
  WorkerTerminates
  EndedCallsGetSaved
