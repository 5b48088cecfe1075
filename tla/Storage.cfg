SPECIFICATION StorageSpec
CONSTANTS
    StateNames = {s1, s2}
    LargeNames = {s2}
    NoName = NoName
    MaxVersion = 2
    MaxWriteFaults = 1
    MaxStops = 1
    MediaJobs = {j1}
    LinkJobs = {l1, l2}
    LINK_QUEUE_LIMIT = 1
    RETRY_QUEUE_LIMIT = 2
    MaxChanges = 5
    MaxCheckpointFaults = 1
    MaxReboots = 1
INVARIANTS
    StorageTypeOK
    PersistedIsOnDisk
    CleanIsSaved
    GenerationSurvives
PROPERTIES
    FlushMeansSaved
    SavesSettle
    LinksSurvive
    TerminalStays
    CheckpointSettles
CHECK_DEADLOCK FALSE
