SPECIFICATION DeletionFairSpec
CONSTANTS
    Ids = {1, 2}
    Existing = {1, 2}
    Mirrored = {1, 2}
    Jobs = {j1, j2}
    NoJob = NoJob
    MaxContent = 0
    InitialEdges <- OneLink
    QueuedUpserts = {1}
    NeverIndexed = {}
    RequestModes = {"logical"}
    MaxPurgeRetries = 1
    MaxOpAttempts = 2
    MaxVectorFailures = 1
    MaxInterrupts = 0
    MaxJobRetries = 0
INVARIANT
    VerifiedMeansGone
PROPERTY
    JobsSettle
CHECK_DEADLOCK FALSE
