CONSTANTS
    Jobs = {j1}
    Approvers = {ann, bob}
    Others = {eve}
    Web = web
    NoOne = NoOne
    NoJob = NoJob
    MaxTrouble = 2
SPECIFICATION Spec
INVARIANTS TypeOK NewsInOrder ThreadTellsTheTruth
 
CHECK_DEADLOCK FALSE
