CONSTANTS
  logs = logs
  pr = pr
  slack = slack
  web = web
  Jobs <- MCJobs
  PrJobs <- MCPrJobs
  Approvers <- MCApprovers
  WebApprovers <- MCWebApprovers
  NoOne = NoOne
  NoJob = NoJob
  TheWorker = TheWorker
  NoWorker = NoWorker
  MaxCrashes = 2
SPECIFICATION FairSpec
INVARIANTS
  TypeOK
  TrailIsTrue
  TrailIsComplete
  OneEnding
  
  Measured
  PushIsTraceable
PROPERTIES
  RunsEnd
  ImplementsLifecycle
