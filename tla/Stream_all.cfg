CONSTANTS
  ElementID <- IDs
  KindOf <- Kinds
  Documents <- Docs
  Boundary <- Boundaries
  MaxHiccups = 1
SPECIFICATION StreamSpec
INVARIANT StreamSafe
INVARIANT DeliversTheSource
PROPERTY IterationEnds
