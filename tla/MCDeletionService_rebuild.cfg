SPECIFICATION DeletionSpec
CONSTANTS
    Ids = {1, 3}
    Existing = {1, 3}
    Mirrored = {1, 3}
    Jobs = {j1, j2}
    NoJob = NoJob
    MaxContent = 0
    InitialEdges <- OneLink
    QueuedUpserts = {}
    NeverIndexed = {}
    RequestModes = {"logical", "hard"}
    MaxPurgeRetries = 1
    MaxOpAttempts = 2
    MaxVectorFailures = 0
    MaxInterrupts = 0
    MaxJobRetries = 0
INVARIANT
    VerifiedNotInLexical
CHECK_DEADLOCK FALSE
