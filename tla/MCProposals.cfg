CONSTANTS
    Alarms = {a1}
    Sessions = {s1}
    Monitor = m
    Keys = {incident, scan}
    Scans = {scan}
    Gated = {incident}
    WebKeys = {scan}
    SignalKey = incident
    NoKey = NoKey
    Window = 2
    Slots = 1
    MaxJobs = 3
    MaxDeaths = 1
SPECIFICATION Spec
INVARIANTS TypeOK StackIsBounded
PROPERTIES DueScansComeBack
