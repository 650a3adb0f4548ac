CONSTANTS
    Limit = 4
    Skew = 1
    MaxTime = 1
    ToolCalls = 0
    MaxLost = 1
SPECIFICATION Spec
INVARIANTS TypeOK VerifierIsExact 
CHECK_DEADLOCK FALSE
