SPECIFICATION MemoryFairSpec
CONSTANTS
    j1 = j1  j2 = j2  u1 = u1  u2 = u2  w1 = w1  w2 = w2  p1 = p1  p2 = p2
    NoJob = NoJob
    Jobs = {j1, j2}
    Uids = {u1, u2}
    UidOf <- DistinctMedia
    DlWorkers = {w1}
    Producers = {p1}
    Sees <- AllSources
    Gated = {p1}
    IN_MEMORY_QUEUE_MAX = 1
    UPLOAD_READY_QUEUE_MAX = 1
    RETRY_LIMIT = 2
    MAX_RETRIES = 1
    QUEUE_RECOVERY_BATCH_LIMIT = 2
    Renewable = {j1, j2}
    Unroutable = {}
    Deleted = {}
    Unfetchable = {}
    LaggingFiles = FALSE
    MaxCrashes = 1
PROPERTY
    PendingIsRecovered
CHECK_DEADLOCK FALSE
