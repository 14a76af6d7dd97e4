CONSTANTS
    Calls = {c1, c2}
    Readers = {r1}
    NumLists = 2
    Threshold = 2
    Reset = 1
    None = None
    MaxVersions = 2
    MaxFaults = 2
SPECIFICATION FairSpec
INVARIANTS TypeOK CatalogWhole
PROPERTIES CircuitCloses CatalogCurrent DisabledGone
CHECK_DEADLOCK FALSE
