SPECIFICATION Spec
CONSTANTS
    r1 = r1
    r2 = r2
    t1 = t1
    t2 = t2
    RecordIds = {r1, r2}
    Targets = {"zvec", "faiss"}
    Registered = {"zvec"}
    Drivers = {t1, t2}
    Workers = {}
    Submissions <- VectorOps
    MaxAttempts = 2
    IndexSurvives = TRUE
    Free = Free
    MaxOps = 3
    MaxCrashes = 1
    MaxRetries = 1
    MaxAborts = 0
SYMMETRY ThreadSymmetry
INVARIANTS
    AppliedInOrder
    NewestDoneInIndex
CHECK_DEADLOCK FALSE
