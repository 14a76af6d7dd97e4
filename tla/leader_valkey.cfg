CONSTANTS
    Workers = {w1, w2, w3}
    None = None
    Dead = Dead
    LockTTL = 6
    RenewEvery = 2
    FirstRenew = 4
    Faults = {"crash"}
SPECIFICATION Spec
INVARIANT TypeOK
PROPERTY ImplementsLock
