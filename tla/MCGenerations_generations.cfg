SPECIFICATION GenerationsSpec
CONSTANTS
    Ids = {1, 2, 3}
    Existing = {1, 2}
    MaxContent = 1
    t1 = t1
    t2 = t2
    Jobs = {t1, t2}
    NoJob = NoJob
    Threads = {t1, t2}
    Functions <- HostAndOperator
    Generations = {1, 2}
    FirstGeneration = 1
    Stores = {"memory", "zvec", "turbovec"}
    MaxCalls = 3
    MaxRestarts = 1
INVARIANTS
    GenerationsTypeOK
    DeletionPreserved
    ActiveGenerationServes
PROPERTY
    ArchiveIsVectorIndex
CHECK_DEADLOCK FALSE
