SPECIFICATION Spec
CONSTANTS
  VarNames = {"x", "y", "r"}
  Values <- MCValues
  Environs <- MCEnvirons
  HashOf <- MCHash
  MinCap = 4
  EnvMax = 9
  Integers_ = {"x"}
  Refs <- MCRefs
  Directories <- MCDirectories
  Chains = FALSE
  Functions_ = {"f", "g"}
  Files = {"sh", "zsh"}
  Scripts <- MCScripts
  FramesShown = 1
  BodiesMax = 3
  Commands = {"ls", "vi"}
  Dirs = {"d", "e"}
  Paths <- MCPaths
  DefaultPath <- MCDefaultPath
  Kinds = {"none", "exec", "plain"}
  HashEarly = FALSE
  Posix = FALSE
  Tree <- MCTree
  Links <- MCLinks
  Fragile <- MCFragile
  Operands <- MCOperands
  Swaps <- MCSwaps
  Assigned <- MCAssigned
  HOME <- MCHome
  CDPATH <- MCCdPath
  Hooks <- MCHooks
  Forked = TRUE
  LogicalReader = FALSE
  MaxStack = 1
  ArgLists <- MCArgLists
  OptStrings <- MCOptStrings
  OptInds = {1, 2, 4}
  Addrs = {1, 2, 3}
  Liberties = {}
  Roots = {"p", "q"}
  Trees <- MCTrees
  Unseen = {"foreign"}
  GenMax = 1
  Updaters = {"u"}
  Inodes = {1, 2, 3}
INVARIANTS EnvironmentTrue CallsKeepTheirOwn HashNeverStale PlaceHolds OptionsOnce StarTrue BinaryWhole
CHECK_DEADLOCK FALSE
