SPECIFICATION FairSpec
CONSTANTS
  JobMax = 2
  NPids = 3
  RingSize = 2
  Interactive = FALSE
  MaxStages = 2
  HangupRounds = 1
  ParentExpands = TRUE
  FgFinished = TRUE
  Kills = {"STOP"}
  OwnStops = FALSE
CHECK_DEADLOCK FALSE
INVARIANTS TypeOK TableWellFormed LoopsAgree
PROPERTIES WaitReturns
