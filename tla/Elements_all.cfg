SPECIFICATION ElementsSpec
CONSTANTS
  ElementID <- MCIDs
  KindOf <- MCKinds
  IDWidth <- MCIDWidth
  Documents <- MCDocuments
  Text <- MCText
  SizeBits = 2
  MaxSizeWidth = 3
  TopLevelID = {"EBML", "Segment"}
  CRC = "CRC"
  IllFormedID = {"bad"}
  Caps <- MCCaps
  NewIDs = {"Block", "bad"}
  NewSizes = {0, 3, 60}
  MaxEdits <- MCEdits
  BuiltIn <- MCBuiltIn
  LegacyNames <- MCLegacy
  CompleteChildren <- MCChildren
  GlobalElements = {"Void"}
  Registrations <- MCRegistrations
  MaxRegistries = 3
  MaxCalls = 3
CHECK_DEADLOCK FALSE
INVARIANT TreeInv
INVARIANT PrefixIsKept
INVARIANT ByteExact
INVARIANT VerdictIsTheDocuments
INVARIANT ChangedTreeReadsBack
INVARIANT RegInv
PROPERTY RegistrationIsContained
