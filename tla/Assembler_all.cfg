CONSTANTS
  ElementID <- IDs
  KindOf <- Kinds
  Documents <- Docs
  Boundary <- Boundaries
  OptionSets <- Options
  Undecodable <- Bads
SPECIFICATION AsmSpec
INVARIANT AsmInv
INVARIANT RecoveryAdvances
INVARIANT FragmentsAreTheInput
INVARIANT HeldBeforeOpen
PROPERTY FailureIsFinal
PROPERTY CallsReturn
