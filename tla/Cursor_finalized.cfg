CONSTANTS
  ElementID <- IDs
  KindOf <- Kinds
  Documents <- Docs
  Boundary <- Boundaries
SPECIFICATION Spec
INVARIANT FinalizedNeverNeedsMore
CHECK_DEADLOCK FALSE
