CONSTANTS
  ElementID <- IDs
  KindOf <- Kinds
  Documents <- Docs
  Boundary <- Boundaries
  OptionSets <- ThreeOptions
  Undecodable <- Bads
SPECIFICATION RdSpec
INVARIANT RdInv
INVARIANT ReaderDelivers
PROPERTY ReaderImplementsDelivery
PROPERTY AsksAreAnswered
