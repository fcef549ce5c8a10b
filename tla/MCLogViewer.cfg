SPECIFICATION Spec
CONSTANTS
  Scenarios <- SmallScenarios
  MaxPending = 2
  MaxInputs = 1
CHECK_DEADLOCK FALSE
INVARIANTS
  NoForeignErrors
  
PROPERTIES
  ScreenFollows
