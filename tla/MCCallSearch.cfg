SPECIFICATION Spec
CONSTANTS
  Recs <- TheRecs
  Requests <- TheRequests
  BufferSize = 1
  Goroutines <- TheGoroutines
  TimeRanges <- TheRanges
  GBufferSize = 1
  None = None
CHECK_DEADLOCK FALSE
INVARIANTS
  PoolIsSafe
  AnswerIsTheWindow
PROPERTIES
  RequestsEnd
