SPECIFICATION FairSpec
CONSTANTS
  Requests <- AllRequests
  MaxRetries = 2
  BaseBackoff = 200
  MaxBackoff = 300
  Jitter = {999}
  AllLanguages = 3
  MaxTexts = 2
  MaxWorkItems = 4
  WireRoom = 1
  MayPanic = TRUE
INVARIANTS
  RetriedWhenTransient
  PausesBounded
  
  InOrder
  EndIsEverything
PROPERTIES
  TaskEnds
  StreamEnds
  CallReturns
CHECK_DEADLOCK FALSE
