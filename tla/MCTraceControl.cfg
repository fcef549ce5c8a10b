SPECIFICATION Spec
CONSTANTS
  f1 = f1
  f2 = f2
  c1 = c1
  c2 = c2
  c3 = c3
  Funcs <- TwoFuncs
  Client = {c1, c2, c3}
  Command <- Commands
  Watcher = {w1}
  Tries <- FewTries
  IchCap = 1
  PchCap = 1
  WireCap = 1
  Worker = sync
  NoOne = none
CHECK_DEADLOCK FALSE
INVARIANTS
  NoLostUpdate
  ProcessInStep
PROPERTIES
  CommandsSettle
