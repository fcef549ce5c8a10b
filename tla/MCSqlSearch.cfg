SPECIFICATION Spec
CONSTANTS
  Stmts <- TheStmts
  NewCall <- TheCalls
  EndTime = 4
  MaxCalls = 2
  Goroutines <- TheGoroutines
  Table <- TheTable
  Matches <- TheMatches
  Uncompilable <- TheInvalid
  TooLong <- TheTooLong
  PackageOf <- ThePackages
  ShortOf <- TheShorts
CHECK_DEADLOCK FALSE
CONSTRAINT Answering
INVARIANTS
  PanicsAreExplained
  LinesAreTheSelection
  CompleteAtEof
