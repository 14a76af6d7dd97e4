CONSTANTS
    Threads = {t1, t2}
    k1 = k1
    k2 = k2
    k3 = k3
    Keys = {k1, k2, k3}
    SlotCount = 2
    Home <- HomeOf
    Checked = 1
    TTL = 0
    None = None
    MaxStores = 3
    MaxServes = 1
    MaxTime = 1
    MaxEvents = 1
SPECIFICATION FairSpec
INVARIANTS TypeOK TableSound QuietServe
PROPERTIES StoreReturns ImplementsCache
CHECK_DEADLOCK FALSE
