SPECIFICATION Spec
CONSTANTS
  WordDepth = 2
  CharsMax = 4
  LinesMax = 3
  ItemsMax = 2
  WritesMax = 4
  ParkFloor = 4
  OpenMax = 20
  Interactive = FALSE
  MaxDepth = 2
  Mixed = FALSE
  MaxSteps = 2
INVARIANTS StoreIsFunction RedirectionsMean
PROPERTIES RoundTrip SpansAgree TokensExact HeredocBodies AliasOnlyCommands RecalledSame ExpressionsMean PatternsMean GlobFinds BracesMean FieldsSplit
CHECK_DEADLOCK FALSE
