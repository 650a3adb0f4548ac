CONSTANTS
  logs = logs
  pr = pr
  slack = slack
  web = web
  Jobs <- MCJobs
  PrJobs <- MCPrJobs
  Approvers <- MCApprovers
  WebApprovers <- MCWebApprovers
  NoOne = NoOne
  NoJob = NoJob
  TheWorker = TheWorker
  NoWorker = NoWorker
  MaxCrashes = 0
SPECIFICATION Spec
INVARIANT DonePrWasOpened
