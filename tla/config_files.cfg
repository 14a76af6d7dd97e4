CONSTANTS
    Threads = {t1, t2}
    Instances = {i1}
    Primary = i1
    None = None
    Partial = Partial
    Ops = {"apply", "revert", "rollback", "ha"}
    MaxOps = 3
    MaxEdits = 1
    Invalid = {1}
    MaxKeep = 1
    Unchecked = FALSE
    Crashes = TRUE
SPECIFICATION FairSpec
INVARIANTS TypeOK  KeptBounded
PROPERTIES OperationsEnd  
CHECK_DEADLOCK FALSE
