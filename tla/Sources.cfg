SPECIFICATION SourcesSpec
VIEW SourcesView
CONSTANTS
    CHANNEL_RETIRE_ON_PEER_INVALID = TRUE
    CHANNEL_RETIRE_PEER_INVALID_AFTER = 2
    CHANNEL_HARD_DELETE_CONFIRMATIONS = 2
    MaxCommands = 2
    MaxScanErrors = 2
    MaxRegistryBoots = 1
    MaxId = 3
    AlbumIds = {2, 3}
    SOURCE_GUARD_LOOKBACK = 1
    SOURCE_GUARD_CATCHUP_LIMIT = 2
    HISTORICAL_BACKFILL_BATCH_IDS = 2
    MaxUpdateLag = 1
    MaxScanFaults = 1
    Copies = 1
    CallTries = 2
    UidKept = FALSE
    SecondSender = TRUE
    Renewable = FALSE
    StorageFaults = TRUE
    LedgerFaults = TRUE
    CircuitFaults = TRUE
    ScanFaults = TRUE
    SourceFaults = TRUE
    LateAccept = TRUE
    MaxTarget = 2
    MaxCrashes = 1
INVARIANTS
    SourcesTypeOK
    DecisionHolds
    CursorsCover
    PostedIsInTarget
    
CHECK_DEADLOCK FALSE
