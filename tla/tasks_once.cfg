CONSTANTS
    NumTasks = 2
    Issue = {2}
    Workers = {w1}
    Leader = w1
    Mortal = {w1}
    Faults = {"crash", "valkey", "pop", "expiry"}
SPECIFICATION Spec
INVARIANT TypeOK
PROPERTY ImplementsTicket
CHECK_DEADLOCK FALSE
