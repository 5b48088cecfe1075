SPECIFICATION WorldSpec
CONSTANTS
    j1 = j1  j2 = j2  u1 = u1  u2 = u2  w1 = w1  w2 = w2  p1 = p1  p2 = p2
    NoJob = NoJob
    Jobs = {j1}
    Uids = {u1}
    UidOf <- OneJob
    DlWorkers = {w1}
    Producers = {p1}
    Sees <- OneSource
    Gated = {}
    IN_MEMORY_QUEUE_MAX = 1
    UPLOAD_READY_QUEUE_MAX = 1
    RETRY_LIMIT = 1
    MAX_RETRIES = 2
    QUEUE_RECOVERY_BATCH_LIMIT = 1
    Renewable = {j1}
    Unroutable = {}
    Deleted = {}
    Unfetchable = {}
    LaggingFiles = TRUE
    MaxCrashes = 2
    AlbumSize = 2
    Photos = {1}
    ZERO_BYTE_ITEM_MAX_RETRIES = 2
    MaxPaths = 3
    MaxFileBoots = 1
INVARIANTS
    LiveIsRecoverable
    NoDoubleDelivery
    UploadHasFiles
    FilesKept
CHECK_DEADLOCK FALSE
