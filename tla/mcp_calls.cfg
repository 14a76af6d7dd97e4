CONSTANTS
    Ids = {i1}
    Calls = {c1, c2, c3}
    Limits = {1, 2}
    MaxRpm = 1
    Window = 3
    SlotTTL = 2
    FailClosed = FALSE
    None = None
    Faults = {"drop", "unlink", "restart", "reload"}
    MaxTime = 3
    MaxCalls = 4
    MaxFaults = 1
SPECIFICATION Spec
SYMMETRY Symmetry
INVARIANTS TypeOK SlotsBound SlotsExact LeakedSlotsExpire WindowBound
CHECK_DEADLOCK FALSE
