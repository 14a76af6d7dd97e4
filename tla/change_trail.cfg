CONSTANTS
    u1 = u1
    Users = {u1}
    OnLeader = {u1}
    None = None
    Kinds = {"apply", "revert", "rollback"}
    Bad = {1}
    Faults = {"flip", "reply", "write", "crash", "cancel", "raise"}
    MaxChanges = 2
    MaxRefreshes = 2
    MaxTasks = 2
    MaxFaults = 1
SPECIFICATION FairSpec
INVARIANTS TypeOK LateSweepOnly AppliedShown
PROPERTIES  FeedArrives
CHECK_DEADLOCK FALSE
