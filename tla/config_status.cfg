CONSTANTS
    Pollers = {p1, p2}
    Mutators = {m1}
    None = None
    TTL = 1
    MaxVersion = 2
    GenerationRaises = TRUE
SPECIFICATION FairSpec
INVARIANTS TypeOK SettledFresh
PROPERTY EventuallyCurrent
