CONSTANTS
    Workers = {w1, w2}
    None = None
    Dead = Dead
    LockTTL = 6
    RenewEvery = 2
    FirstRenew = 4
    Faults = {"crash", "valkey", "keyloss", "pg", "pgconn"}
SPECIFICATION FairSpec
PROPERTY RenewersConverge
