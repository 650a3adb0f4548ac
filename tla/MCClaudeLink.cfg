CONSTANTS
    Own = {j1, j2}
    Others = {k}
    NoJob = NoJob
    plan = plan
    ride = ride
    push = push
    PlanTool = PlanTool
    PushTool = PushTool
    ReadTool = ReadTool
    EditTool = EditTool
    GlobTool = GlobTool
    Lines = {plan, ride, push}
    NoLine = NoLine
    Plain = {ReadTool, EditTool, GlobTool}
    NoTool = NoTool
    Fits <- MCFits
    Heads <- MCHeads
    Granted = {PlanTool, ReadTool}
    Allowed = {PlanTool, ReadTool}
    Capability <- MCCapability
    MaxTexts = 2
    MaxCalls = 2
SPECIFICATION Spec
INVARIANTS LinkedJobIsProposed
CHECK_DEADLOCK FALSE
