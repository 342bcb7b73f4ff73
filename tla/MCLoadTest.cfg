SPECIFICATION FairSpec
CONSTANTS
  Scenarios <- MCScenarios
  Others <- MCOthers
  Requests <- MCRequests
  Route <- MCRoute
  Warmup = 1
  Count = 2
  Concurrency = 1
  Workers = 1
  BlockingThreads = 2
CHECK_DEADLOCK FALSE
INVARIANTS
  ReportsTellTheRest
PROPERTIES
  StaticRoutesAnswer
  DetectionsAnswer
  EveryScenarioReported
