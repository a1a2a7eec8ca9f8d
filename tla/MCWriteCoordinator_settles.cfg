SPECIFICATION FairSpec
CONSTANTS
    r1 = r1
    r2 = r2
    t1 = t1
    t2 = t2
    RecordIds = {r1, r2}
    Targets = {"zvec", "faiss"}
    Registered = {"zvec"}
    Drivers = {t1, t2}
    Workers = {t1}
    Submissions <- AllKindsOfOps
    MaxAttempts = 2
    IndexSurvives = TRUE
    Free = Free
    MaxOps = 2
    MaxCrashes = 1
    MaxRetries = 1
    MaxAborts = 1
INVARIANTS
    TypeOK
    AcksMatchOutcome
PROPERTIES
    ImplementsSerialIndex
    EveryOpSettles
CHECK_DEADLOCK FALSE
