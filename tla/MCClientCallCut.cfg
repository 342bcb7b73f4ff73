SPECIFICATION FairSpec
CONSTANTS
  Requests <- AllRequests
  MaxRetries = 0
  BaseBackoff = 200
  MaxBackoff = 300
  Jitter = {999}
  AllLanguages = 3
  MaxTexts = 2
  MaxWorkItems = 4
  WireRoom = 1
  MayPanic = FALSE
INVARIANT TextsIntact
CHECK_DEADLOCK FALSE
