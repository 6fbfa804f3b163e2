SPECIFICATION Spec
CONSTANTS
  ElementID <- MCElementID
  IllFormedID = {"bad"}
  IDWidth <- MCIDWidth
  SizeBits = 2
  MaxSizeWidth = 2
  PayloadSizes = {1, 11, 15}
  StartOffsets = {2}
  MaxDepth = 3
  MaxElements = 4
INVARIANT SinkInv
INVARIANT OpenPlaceholders
PROPERTIES
  AppendOnly
CHECK_DEADLOCK FALSE
