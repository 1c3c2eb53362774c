SPECIFICATION Spec
CONSTANTS
  JobMax = 2
  NPids = 3
  RingSize = 4
  Interactive = TRUE
  MaxStages = 2
  HangupRounds = 1
  ParentExpands = TRUE
  FgFinished = FALSE
  Kills = {}
  OwnStops = FALSE
CHECK_DEADLOCK FALSE
INVARIANTS FgChildHeld
