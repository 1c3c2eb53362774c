SPECIFICATION Spec
CONSTANTS
  Updaters = {"u"}
  Inodes = {1, 2, 3}
INVARIANTS FailureChangesNothing
CHECK_DEADLOCK FALSE
