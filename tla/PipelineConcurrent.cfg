SPECIFICATION MemorySpec
CONSTANTS
    j1 = j1  j2 = j2  u1 = u1  u2 = u2  w1 = w1  w2 = w2  p1 = p1  p2 = p2
    NoJob = NoJob
    Jobs = {j1, j2}
    Uids = {u1}
    UidOf <- SharedMedia
    DlWorkers = {w1, w2}
    Producers = {p1, p2}
    Sees <- TwoSources
    Gated = {p2}
    IN_MEMORY_QUEUE_MAX = 1
    UPLOAD_READY_QUEUE_MAX = 1
    RETRY_LIMIT = 1
    MAX_RETRIES = 1
    QUEUE_RECOVERY_BATCH_LIMIT = 1
    Renewable = {j1}
    Unroutable = {j2}
    Deleted = {j2}
    Unfetchable = {j2}
    LaggingFiles = FALSE
    MaxCrashes = 1
INVARIANTS
    TypeOK
    LiveOnce
    HealedIsNotLive
    UploadHasFiles
PROPERTIES
    LifecycleRefines
CHECK_DEADLOCK FALSE
