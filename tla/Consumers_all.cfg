CONSTANTS
  ElementID <- IDs
  KindOf <- Kinds
  Documents <- ConsumersDocs
  Boundary <- Boundaries
  Tracked = "Tags"
  MaxHiccups = 1
  Binary = {"Block"}
SPECIFICATION ConsumersSpec
INVARIANT ScopeInv
INVARIANT ScopesAreWhatWasSeen
INVARIANT CliInv
CHECK_DEADLOCK FALSE
