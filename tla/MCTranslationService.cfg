SPECIFICATION FairSpec
CONSTANTS
  Calls = {c1, c2}
  Main = main
  MaxWork = 2
  QueueCapacity = 1
  MayFail = TRUE
  MayLose = TRUE
INVARIANTS
  OkIsComplete
  FailureHasCause
PROPERTIES
  EveryCallReturns
  EngineIsFreed
