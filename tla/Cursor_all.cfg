CONSTANTS
  ElementID <- IDs
  KindOf <- Kinds
  Documents <- AllDocs
  Boundary <- Boundaries
SPECIFICATION Spec
INVARIANT CleanEOF
INVARIANT CursorInv
INVARIANT SplitInvariance
CHECK_DEADLOCK FALSE
