SPECIFICATION EngineSpec
CONSTANTS
    Ids = {1, 2, 3}
    Existing = {1, 2}
    Mirrored = {1, 2}
    Jobs = {j1}
    NoJob = NoJob
    MaxContent = 1
    InitialEdges <- NoEdges
    QueuedUpserts = {}
    NeverIndexed = {}
    RequestModes = {"logical"}
    MaxPurgeRetries = 0
    MaxOpAttempts = 2
    MaxVectorFailures = 1
    MaxInterrupts = 0
    MaxJobRetries = 0
    t1 = t1
    t2 = t2
    Threads = {t1}
    Functions = {"write", "update", "correct", "merge"}
    PatchStatuses = {}
    MaxCalls = 3
INVARIANT
    ActiveMeansIndexed
CHECK_DEADLOCK FALSE
