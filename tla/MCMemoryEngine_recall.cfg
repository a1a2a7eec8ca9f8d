SPECIFICATION EngineSpec
CONSTANTS
    Ids = {1, 2}
    Existing = {1}
    Mirrored = {1}
    Jobs = {j1}
    NoJob = NoJob
    MaxContent = 0
    InitialEdges <- NoEdges
    QueuedUpserts = {}
    NeverIndexed = {}
    RequestModes = {"hard"}
    MaxPurgeRetries = 0
    MaxOpAttempts = 2
    MaxVectorFailures = 0
    MaxInterrupts = 1
    MaxJobRetries = 0
    t1 = t1
    t2 = t2
    Threads = {t1, t2}
    Functions = {"update", "patch", "correct", "merge", "recall"}
    PatchStatuses = {"active"}
    MaxCalls = 3
INVARIANT
    EngineTypeOK
PROPERTIES
    DeletionIntegrity
    CorrectionRespected
SYMMETRY
    ThreadSymmetry
CHECK_DEADLOCK FALSE
