SPECIFICATION ReflectionSpec
CONSTANTS
    Ids = {1, 2}
    Existing = {1, 2}
    InitialEdges <- NoEdges
    MaxContent = 1
    t1 = t1
    t2 = t2
    Jobs = {t1, t2}
    NoJob = NoJob
    Threads = {t1}
    Functions = {"consolidate", "apply", "update"}
    PatchStatuses = {}
    DeletionModes = {}
    Links <- Chain
    MaxCalls = 6
    Kind <- Kinds
    Sensitivity <- Normal
    RecallMax = 1
    ReflectionMax = 1
    ValidFrom <- Always
    ValidUntil <- Expiring
    Alike <- SameText
    Similar <- AllSimilar
    Length <- OneLength
    Budget <- SmallBudget
INVARIANT
    ClusterStaysKnown
CHECK_DEADLOCK FALSE
