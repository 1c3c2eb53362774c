SPECIFICATION Spec
CONSTANTS
  ParkFloor = 4
  OpenMax = 20
  Interactive = FALSE
  MaxDepth = 2
  Mixed = TRUE
  MaxSteps = 2
INVARIANTS GivenAsWritten
CHECK_DEADLOCK FALSE
