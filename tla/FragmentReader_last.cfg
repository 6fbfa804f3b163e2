CONSTANTS
  ElementID <- IDs
  KindOf <- Kinds
  Documents <- Docs
  Boundary <- Boundaries
  OptionSets <- ThreeOptions
  Undecodable <- Bads
SPECIFICATION RdSpec
INVARIANT FailureComesLast
