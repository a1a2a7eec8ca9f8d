SPECIFICATION WorkerFairSpec
CONSTANTS
    Callers = {c1, c2}
    MaxSteps = 2
    MaxOps = 2
    MaxStarts = 2
    MaxAborts = 1
INVARIANTS
    WorkerTypeOK
    NoLostWake
    NoStrayLoop
PROPERTY
    StopEndsLoops
CHECK_DEADLOCK FALSE
