CONSTANTS
  NJobs = 3
  PrJobs <- MCPrJobs
  Workers = {w1, w2}
  Approvers = {a1, a2}
  NoOne = NoOne
  NoWorker = NoWorker
  ScanLimit = 2
  MaxCrashes = 1
  TimelyRuns = TRUE
SPECIFICATION FairSpec
INVARIANTS
  TypeOK
  NoDoubleRun
  
  AtMostOneExecution
  
PROPERTIES
  FirstDecisionStands
  JobsSettle
  ImplementsLifecycle
