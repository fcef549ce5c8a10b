SPECIFICATION Spec
CONSTANTS
  Conns = {c1, c2}
  ChanCap = 1
  MaxItems = 2
  MaxRequests = 1
  NoConn = NoConn
CHECK_DEADLOCK FALSE
INVARIANT ConnectionsAreIsolated
PROPERTIES
  HandlersReturn
  ShutdownCompletes
