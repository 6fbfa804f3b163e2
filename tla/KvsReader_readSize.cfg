CONSTANTS
  TagName = {"token", "error", "x"}
  Token = "token"
  ErrorCode = "error"
  MaxEdits = 1
  Streams <- TwoClusters
SPECIFICATION KvsSpec
INVARIANT ReadSizeChangesNothing
