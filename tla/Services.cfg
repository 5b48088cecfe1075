SPECIFICATION ServicesSpec
CONSTANTS
    Media = {m1, m2}
    MAX_HISTORY = 1
    MaxFaults = 1
    MaxRestarts = 1
    QueueItems = {i1}
    QueueWorkers = {w1, w2}
    Nobody = Nobody
    VisibilityTimeout = 2
    MaxDelay = 1
    MaxLockWait = 1
    MaxClock = 5
    InspectRequests = {q1, q2}
    HandlerThreads = {h1, h2}
    max_inflight = 1
    timestamp_skew_seconds = 1
    replay_ttl_seconds = 2
    replay_capacity = 1
    MaxHandlerDelay = 0
    MaxDeliveries = 3
    MaxHelperTime = 4
    PoolJobs = {j1}
    PoolLinks = {k1}
    NoWork = NoWork
    ADAPTIVE_DOWNLOAD_WORKERS_MAX = 2
    ADAPTIVE_WORKER_LOW_WATERMARK = 0
    RetryAdmissionLimit = 1
    WorkerStallAge = 2
    WorkerResumeGrace = 1
    MaxExtraId = 2
    MaxPauses = 1
INVARIANTS
    ServicesTypeOK
    DeliveredIsKnown
    LeaseHolds
    HelperExact
PROPERTIES
    LeaseRefines
    CancelsSoundly
CHECK_DEADLOCK FALSE
