CONSTANTS
    Ids = {i1}
    Calls = {c1, c2}
    Limits = {0, 1}
    MaxRpm = 2
    Window = 1
    SlotTTL = 2
    FailClosed = FALSE
    None = None
    Faults = {"reload"}
    MaxTime = 1
    MaxCalls = 2
    MaxFaults = 1
SPECIFICATION Spec
PROPERTY ReleaseSafe
CHECK_DEADLOCK FALSE
