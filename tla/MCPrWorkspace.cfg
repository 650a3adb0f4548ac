CONSTANTS
  code = code
  image = image
  bump = bump
  fix = fix
  v1 = v1
  v2 = v2
  Jobs = {1, 2}
  Requests <- MCRequests
  Request <- MCRequest
  Paths = {code, image}
  Opaque = {image}
  Values = {v1, v2}
  Absent = Absent
  BaseTree <- MCBaseTree
  NoJob = NoJob
  NoPlan = NoPlan
  TidyPrepare = TRUE
  MaxCrashes = 1
SPECIFICATION Spec
INVARIANTS
  TypeOK
  CommitIsApproved
  OneCommitPerApproval
  CredentialEndsWithTheStep
  FreshApprovalHolds
