SPECIFICATION ReflectionSpec
CONSTANTS
    Ids = {1, 2, 3, 4}
    Existing = {1, 2, 3}
    InitialEdges <- Contradiction
    MaxContent = 1
    t1 = t1
    t2 = t2
    Jobs = {t1, t2}
    NoJob = NoJob
    Threads = {t1, t2}
    Functions = {"consolidate", "audit", "apply", "reject", "patch", "update", "write", "link", "delete"}
    PatchStatuses = {"reinforced"}
    DeletionModes = {"logical", "hard"}
    Links <- Chain
    MaxCalls = 3
    Kind <- Kinds
    Sensitivity <- Normal
    RecallMax = 1
    ReflectionMax = 1
    ValidFrom <- Always
    ValidUntil <- Expiring
    Alike <- SameText
    Similar <- AllSimilar
    Length <- OneLength
    Budget <- SmallBudget
INVARIANTS
    ReflectionTypeOK
    BundlesSound
    BundlesComplete
    AppliedMeansMerged
    DeletionCascades
PROPERTY
    DeletionsStand
SYMMETRY
    ThreadSymmetry
CHECK_DEADLOCK FALSE
