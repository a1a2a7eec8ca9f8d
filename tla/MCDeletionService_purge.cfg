SPECIFICATION DeletionSpec
CONSTANTS
    Ids = {1, 2}
    Existing = {1, 2}
    Mirrored = {1, 2}
    Jobs = {j1, j2}
    NoJob = NoJob
    MaxContent = 0
    InitialEdges <- OneLink
    QueuedUpserts = {1}
    NeverIndexed = {}
    RequestModes = {"hard"}
    MaxPurgeRetries = 1
    MaxOpAttempts = 2
    MaxVectorFailures = 1
    MaxInterrupts = 1
    MaxJobRetries = 1
INVARIANTS
    DeletionTypeOK
    VerifiedMeansGone
PROPERTY
    CanonicalFirst
CHECK_DEADLOCK FALSE
