SPECIFICATION Spec
CONSTANTS
  Logs = {l1, l2}
  MaxRecords = 1
  MaxMeta = 1
  MaxStarts = 3
CHECK_DEADLOCK FALSE
INVARIANTS
  LogsSurviveRestarts
  FailuresAreExplained
PROPERTY
  DeletedStaysAway
