CONSTANTS
    NumTasks = 1
    Issue = {1}
    Workers = {w1, w2}
    Leader = w1
    Mortal = {w1, w2}
    Faults = {"crash", "pop", "poll"}
SPECIFICATION FairSpec
PROPERTIES CancelSeen 
CHECK_DEADLOCK FALSE
