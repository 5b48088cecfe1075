SPECIFICATION Spec
CONSTANTS
    Copies = 1
    CallTries = 2
    UidKept = TRUE
    SecondSender = FALSE
    Renewable = TRUE
    StorageFaults = FALSE
    LedgerFaults = FALSE
    CircuitFaults = FALSE
    ScanFaults = FALSE
    SourceFaults = FALSE
    LateAccept = FALSE
    MaxTarget = 2
    MaxCrashes = 0
INVARIANT
    AtMostOnce
