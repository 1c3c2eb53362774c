SPECIFICATION Spec
CONSTANTS
  Programs <- BreakInCondition
  Nodes <- TreesInCondition
  Interactive = FALSE
CHECK_DEADLOCK FALSE
INVARIANTS FlagsHaveTargets
