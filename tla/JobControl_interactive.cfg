SPECIFICATION FairSpec
CONSTANTS
  JobMax = 2
  NPids = 2
  RingSize = 4
  Interactive = TRUE
  MaxStages = 1
  HangupRounds = 1
  ParentExpands = FALSE
  FgFinished = FALSE
  Kills = {"TERM"}
  OwnStops = TRUE
CHECK_DEADLOCK FALSE
INVARIANTS CurrentElected StatusTold NothingLost EntriesTrue
PROPERTIES NoSilentEnd ExitHonest SessionMovesOn
