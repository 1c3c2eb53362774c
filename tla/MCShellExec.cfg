SPECIFICATION FairSpec
CONSTANTS
  Programs <- AllPrograms
  Nodes <- AllTrees
  Interactive = FALSE
CHECK_DEADLOCK FALSE
INVARIANTS FlagsSound CountersPaired
PROPERTIES Refines UnwindingEnds
