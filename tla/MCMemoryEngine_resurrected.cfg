SPECIFICATION EngineSpec
CONSTANTS
    Ids = {1}
    Existing = {1}
    Mirrored = {1}
    Jobs = {j1}
    NoJob = NoJob
    MaxContent = 1
    InitialEdges <- NoEdges
    QueuedUpserts = {}
    NeverIndexed = {}
    RequestModes = {"hard"}
    MaxPurgeRetries = 0
    MaxOpAttempts = 2
    MaxVectorFailures = 0
    MaxInterrupts = 0
    MaxJobRetries = 0
    t1 = t1
    t2 = t2
    Threads = {t1}
    Functions = {"update"}
    PatchStatuses = {}
    MaxCalls = 2
PROPERTY
    HardDeletedStaysGone
CHECK_DEADLOCK FALSE
