CONSTANTS
    Interval = 8
    Never = Never
SPECIFICATION FairSpec
INVARIANTS TypeOK LateByOneInterval
PROPERTIES NoRedundantRun KeepsRunning
