SPECIFICATION PartsSpec
CONSTANTS
  OctetBits = 6
  Bytes <- MCBytes
  Held <- MCHeld
  OwnBlocks <- MCOwnBlocks
  WordBits = 8
  Second = 9
  ByteBits = 2
  MaxWidth = 4
  EpochSec = 3
  PayloadBound = 5
  OwnValues <- MCOwnValues
  OtherSize = 2
  SingleBits = 6
  SingleFraction = 2
  DoubleFraction = 3
  TimecodeBits = 4
  DefaultScale = 2
  Base = 3
  FracDigits = 2
  MaxBlocks = 2
  MaxDigits = 5
  Instants <- MCInstants
  Ticks <- MCTicks
  Scales <- MCScales
  Timecodes <- MCTimecodes
  TrimAt = 3
  FirstCap = 3
  StartOffset = 5
  LastOffset = 16
  Chunks <- MCChunks
  HeaderLens <- MCHeaderLens
  Sizes <- MCSizes
  Spare <- MCSpare
  TagDocs <- MCTagDocs
  TagName = {"token", "error", "x"}
  Token = "token"
  ErrorCode = "error"
  MaxEdits = 1
  Streams <- AllStreams
CHECK_DEADLOCK FALSE
INVARIANT BlockInv
INVARIANT ValInv
INVARIANT TimeInv
INVARIANT GarbageIsBounded
INVARIANT ViewHolds
INVARIANT BufInv
INVARIANT TagsInv
PROPERTY StatedStays
INVARIANT KvsInv
PROPERTY StreamErrorIsFinal
PROPERTY EndIsClean
