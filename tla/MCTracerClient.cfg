SPECIFICATION Spec
CONSTANTS
  MaxEvents = 3
  MaxPings = 2
  MergeCap = 3
  SendListLen = 1
  MaxSessions = 2
CHECK_DEADLOCK FALSE
INVARIANTS
  ReceivedInOrder
  CloseDelivers
PROPERTIES
  MergedGetsSent
  CloseEnds
