SPECIFICATION TelegramSpec
CONSTANTS
    Copies = 2
    CallTries = 1
    UidKept = TRUE
    SecondSender = FALSE
    Renewable = TRUE
    StorageFaults = TRUE
    LedgerFaults = FALSE
    CircuitFaults = FALSE
    ScanFaults = TRUE
    SourceFaults = FALSE
    LateAccept = FALSE
    MaxTarget = 2
    MaxCrashes = 2
    SourceCount = 2
    FalselyDead = {1}
    MaxToggles = 1
    MaxHotCrashes = 1
    GateCalls = {"download", "validator"}
    TELEGRAM_CALL_RETRIES = 2
    MaxRecoveryTasks = 1
    MaxGateFaults = 2
INVARIANTS
    TelegramTypeOK
    
    
    CompletedWasScanned
    OnlyFreshStateDrops
    TransfersDrain
PROPERTIES
    
    HotScanSettles
    ClearedByStaleCall
    TransportReturns
CHECK_DEADLOCK FALSE
