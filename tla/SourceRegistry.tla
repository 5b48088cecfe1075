--------------------------- MODULE SourceRegistry ---------------------------
(***************************************************************************)
(* One source channel, known by its user name and by its number, in the    *)
(* three places that must agree: the JSON record (channel_manager), the    *)
(* channels table and the set of active channels.  The administrator's     *)
(* commands run on the database thread, the scans and the peer resolver on *)
(* the event loop; every write to the table can fail, the JSON file lags   *)
(* behind, and a restart may find the table restored from a backup.        *)
(***************************************************************************)
EXTENDS Naturals, FiniteSets

CONSTANTS
    CHANNEL_RETIRE_ON_PEER_INVALID,
    CHANNEL_RETIRE_PEER_INVALID_AFTER,
    CHANNEL_HARD_DELETE_CONFIRMATIONS,
    MaxCommands,        \* bound on additions and removals
    MaxScanErrors,      \* bound on failed scans
    MaxRegistryBoots    \* bound on restarts

ASSUME RegistryAssumption ==
    /\ CHANNEL_RETIRE_ON_PEER_INVALID \in BOOLEAN
    /\ CHANNEL_RETIRE_PEER_INVALID_AFTER \in 2..6  \* the count stops at six
    /\ CHANNEL_HARD_DELETE_CONFIRMATIONS \in Nat \ {0, 1}
    /\ {MaxCommands, MaxScanErrors, MaxRegistryBoots} \subseteq Nat

Idents == {"name", "num"}

VARIABLES
    recordStatus,   \* status of the JSON record of each identifier
    recordNamed,    \* the record of the number has the user name: keys shared
    recordDisk,     \* what the JSON file holds: [status, named]
    channelRows, rowNamed, backupRows,
    olderRow,       \* of two rows the one inserted first
    activeSet,      \* ACTIVE_CHANNELS
    command, commandFor, commandNamed, \* step of the administrator's command
    loadRows,       \* rows load_channels has read
    scanOf,         \* identifiers with a scan or a resolution under way
    resolving,      \* step of activate_resolved_source
    peerCount, confirmCount,    \* in the cursor of each identifier
    intent,         \* "wanted", "removed", or "unclear": it was given up, or of
                    \* two records that share no key one was removed
    stranded,       \* a resolution failed half-way, a retirement met an
                    \* addition, or the row or record of a removed identifier
                    \* hid the source, and no active record was saved since
    revived,        \* a scan, a restart or the row of an alias undid a removal
    untouched,          \* nothing happened since the restart
    commands, scanErrors, registryBoots

tableVars == <<channelRows, rowNamed, olderRow, backupRows>>
recordVars == <<recordStatus, recordNamed>>
commandVars == <<command, commandFor, commandNamed, loadRows>>
countVars == <<peerCount, confirmCount>>
registryVars ==
    <<recordVars, recordDisk, tableVars, activeSet, commandVars, scanOf,
      resolving, countVars, intent, stranded, revived, untouched, commands,
      scanErrors, registryBoots>>

NoCounts == [i \in Idents |-> 0]

RegistryInit ==
    /\ recordStatus = [i \in Idents |-> "none"]
    /\ recordNamed = FALSE
    /\ recordDisk = [status |-> recordStatus, named |-> FALSE]
    /\ channelRows = {} /\ rowNamed = FALSE /\ backupRows = {}
    /\ olderRow = "name"
    /\ activeSet = {}
    /\ command = "idle" /\ commandFor = "name" /\ commandNamed = FALSE
    /\ loadRows = {}
    /\ scanOf = {} /\ resolving = "idle"
    /\ peerCount = NoCounts /\ confirmCount = NoCounts
    /\ intent = "removed"
    /\ stranded = FALSE /\ revived = FALSE /\ untouched = FALSE
    /\ commands = 0 /\ scanErrors = 0 /\ registryBoots = 0

(* expired_or_deleted, told apart by the reason the record gives: a deletion
   that was confirmed, or a peer that stayed unresolved. *)
Retirements == {"expired", "unresolved"}
Gone == {"removed"} \cup Retirements
Live(i) == recordStatus[i] \notin Gone \cup {"alias"}
Inserted(i) ==
    /\ channelRows' = channelRows \cup {i}
    /\ olderRow' = IF channelRows = {} THEN i
                   ELSE IF i \in channelRows THEN olderRow
                   ELSE CHOOSE j \in Idents : j # i
Others(i) == {j \in Idents \ {i} : recordStatus[j] \notin {"none", "removed"}}
Counted(x, max) == IF x < max THEN x + 1 ELSE x
Cleared(count, S) == [i \in Idents |-> IF i \in S THEN 0 ELSE count[i]]

(* The state writer saves the file within seconds: the lag of the file spans
   one operation, not several. *)
Saved == recordDisk = [status |-> recordStatus, named |-> recordNamed]

(* source_removal_targets: the identifiers that share a key. *)
Targets == IF recordNamed THEN Idents ELSE {commandFor}

(* record_channel; a removal that is undone is noted. *)
Recorded(i, status) == recordStatus' = [recordStatus EXCEPT ![i] = status]
NoteRevival(i) ==
    revived' = (\/ revived
                \/ /\ intent = "removed"
                   /\ \/ command \notin {"tracking", "removing"}
                      \/ i \notin Targets)

(* unique_active_channels: one identifier of a named source is scanned. *)
ScanList ==
    LET live == {i \in activeSet : Live(i)}
    IN  IF recordNamed /\ live = Idents
        THEN {{"name"}, {"num"}} ELSE {live}

-----------------------------------------------------------------------------
(* The administrator.  A name is resolved to its number with the user name,
   or saved as it is. *)

resolve_source_channel_input(i, named) == named => i = "num"

add_channel_db(i, named, ok) ==
    /\ command = "idle" /\ commands < MaxCommands
    /\ resolving = "idle" /\ Saved
    /\ resolve_source_channel_input(i, named)
    /\ commands' = commands + 1
    /\ IF ok
       THEN /\ Inserted(i)
            /\ rowNamed' = (rowNamed \/ named)
            /\ command' = "recording"
       ELSE UNCHANGED <<channelRows, olderRow, rowNamed, command>>
    /\ commandFor' = i /\ commandNamed' = named
    /\ untouched' = FALSE
    /\ UNCHANGED <<recordVars, recordDisk, backupRows, activeSet, loadRows,
                   scanOf, resolving, countVars, intent, stranded, revived,
                   scanErrors, registryBoots>>

add_records ==
    /\ command = "recording"
    /\ Recorded(commandFor, "active")
    /\ recordNamed' = (recordNamed \/ commandNamed)
    /\ intent' = "wanted" /\ revived' = FALSE
    /\ command' = "reload"
    /\ UNCHANGED <<recordDisk, tableVars, activeSet, commandFor, commandNamed,
                   loadRows, scanOf, resolving, countVars, stranded, untouched,
                   commands, scanErrors, registryBoots>>

(* The administrator picks a listed source. *)
rm_channel_db(i) ==
    /\ command = "idle" /\ commands < MaxCommands
    /\ resolving = "idle" /\ Saved
    /\ Live(i) /\ recordStatus[i] # "none"
    /\ commands' = commands + 1
    /\ command' = "tracking" /\ commandFor' = i
    /\ channelRows' = channelRows \ (IF recordNamed THEN Idents ELSE {i})
    /\ intent' = IF recordNamed \/ Others(i) = {} THEN "removed" ELSE "unclear"
    /\ untouched' = FALSE
    /\ UNCHANGED <<recordVars, recordDisk, rowNamed, olderRow, backupRows,
                   activeSet, commandNamed, loadRows, scanOf, resolving,
                   countVars, stranded, revived, scanErrors, registryBoots>>

clear_source_runtime_tracking ==
    /\ command = "tracking"
    /\ activeSet' = activeSet \ Targets
    /\ peerCount' = Cleared(peerCount, Targets)
    /\ confirmCount' = Cleared(confirmCount, Targets)
    /\ command' = "removing"
    /\ UNCHANGED <<recordVars, recordDisk, tableVars, commandFor,
                   commandNamed, loadRows, scanOf, resolving, intent,
                   stranded, revived, untouched, commands, scanErrors,
                   registryBoots>>

remove_channel_state ==
    /\ command = "removing"
    /\ recordStatus' = [i \in Idents |->
          IF i \in Targets /\ recordStatus[i] # "none"
          THEN "removed" ELSE recordStatus[i]]
    /\ command' = "reload"
    /\ UNCHANGED <<recordNamed, recordDisk, tableVars, activeSet, commandFor,
                   commandNamed, loadRows, scanOf, resolving, countVars,
                   intent, stranded, revived, untouched, commands, scanErrors,
                   registryBoots>>

-----------------------------------------------------------------------------
(* load_channels: the rows are read, the set is cleared and filled again.
   Of two rows that share a key the second is purged. *)

Kept(rows) == IF rows = Idents /\ rowNamed THEN {olderRow} ELSE rows

(* A mutant: a row counts whatever its record says. *)
MutantLoadsAll(kept, rows) ==
    [active |-> kept,
     status |-> [i \in Idents |->
        IF i \in kept THEN "active"
        ELSE IF i \in rows THEN "alias" ELSE recordStatus[i]]]

Loaded(kept, rows) ==
    LET loaded == {i \in kept : recordStatus[i] \notin Gone}
    IN  [active |-> loaded,
         status |-> [i \in Idents |->
            IF i \in loaded THEN "active"
            ELSE IF i \in rows \ kept THEN "alias" ELSE recordStatus[i]]]

(* The row that is kept belongs to a removed identifier, or is gone since. *)
PurgedWrongly(rows) ==
    /\ Kept(rows) # rows
    /\ \E i \in Kept(rows) : recordStatus[i] \in Gone \/ i \notin channelRows

load_reads ==
    /\ command = "reload"
    /\ loadRows' = channelRows
    /\ activeSet' = {}
    /\ command' = "filling"
    /\ UNCHANGED <<recordVars, recordDisk, tableVars, commandFor,
                   commandNamed, scanOf, resolving, countVars, intent,
                   stranded, revived, untouched, commands, scanErrors,
                   registryBoots>>

load_fills ==
    /\ command = "filling"
    /\ LET kept == Kept(loadRows)
           result == Loaded(kept, loadRows)
       IN   /\ activeSet' = activeSet \cup result.active
              /\ recordStatus' = result.status
              /\ channelRows' = channelRows \ (loadRows \ kept)
    /\ recordNamed' = (recordNamed \/ (rowNamed /\ "num" \in activeSet'))
    /\ stranded' = (stranded \/ PurgedWrongly(loadRows))
    /\ loadRows' = {} /\ command' = "idle"
    /\ commandFor' = "name" /\ commandNamed' = FALSE
    /\ UNCHANGED <<recordDisk, rowNamed, olderRow, backupRows, scanOf,
                   resolving, countVars, intent, revived, untouched, commands,
                   scanErrors, registryBoots>>

(* The table cannot be read: the set stays as it is. *)
load_fails ==
    /\ command = "reload"
    /\ command' = "idle" /\ commandFor' = "name" /\ commandNamed' = FALSE
    /\ UNCHANGED <<recordVars, recordDisk, tableVars, activeSet, loadRows,
                   scanOf, resolving, countVars, intent, stranded, revived,
                   untouched, commands, scanErrors, registryBoots>>

-----------------------------------------------------------------------------
(* Scans and their errors, on the event loop *)

(* A scan starts from the list; the other identifier of a named source is
   dropped and its record becomes an alias. *)
scan_starts(i) ==
    /\ resolving = "idle" /\ scanOf = {}
    /\ Saved
    /\ \E list \in ScanList :
          /\ i \in list
          /\ scanOf' = {i}
          /\ LET dropped == {j \in activeSet : Live(j)} \ list
             IN  /\ activeSet' = activeSet \ dropped
                 /\ recordStatus' = [j \in Idents |->
                       IF j \in dropped THEN "alias" ELSE recordStatus[j]]
    /\ untouched' = FALSE
    /\ UNCHANGED <<recordNamed, recordDisk, tableVars, commandVars, resolving,
                   countVars, intent, stranded, revived, commands, scanErrors,
                   registryBoots>>

(* set_guard_cursor *)
scan_ends ==
    /\ scanOf # {} /\ resolving = "idle"
    /\ scanOf' = {}
    /\ peerCount' = Cleared(peerCount, scanOf)
    /\ confirmCount' = Cleared(confirmCount, scanOf)
    /\ UNCHANGED <<recordVars, recordDisk, tableVars, activeSet, commandVars,
                   resolving, intent, stranded, revived, untouched, commands,
                   scanErrors, registryBoots>>

(* check_single_channel_health records whatever channel answered. *)
health_ok ==
    /\ scanOf # {} /\ resolving = "idle"
    /\ Recorded("num", "active")
    /\ NoteRevival("num")
    /\ scanOf' = {}
    /\ UNCHANGED <<recordNamed, recordDisk, tableVars, activeSet, commandVars,
                   resolving, countVars, intent, stranded, untouched, commands,
                   scanErrors, registryBoots>>

Erring(i) ==
    /\ scanOf = {i} /\ resolving = "idle"
    /\ scanErrors < MaxScanErrors
    /\ scanErrors' = scanErrors + 1
    /\ scanOf' = {}

(* The source is given up: the table row goes, the record says why.  An
   addition that is not saved yet loses its row. *)
Retired(i, status) ==
    /\ stranded' = (stranded \/ command # "idle" \/ ~Saved)
    /\ activeSet' = activeSet \ {i}
    /\ channelRows' = channelRows \ {i}
    /\ Recorded(i, status)

mark_peer_invalid_unresolved(i) ==
    LET count == Counted(peerCount[i], CHANNEL_RETIRE_PEER_INVALID_AFTER)
    IN  /\ Erring(i)
        /\ peerCount' = [peerCount EXCEPT ![i] = count]
        /\ IF /\ CHANNEL_RETIRE_ON_PEER_INVALID
              /\ count >= CHANNEL_RETIRE_PEER_INVALID_AFTER
           THEN Retired(i, "unresolved") /\ NoteRevival(i)
           ELSE UNCHANGED <<activeSet, channelRows, recordStatus, stranded,
                            revived>>
        /\ UNCHANGED <<recordNamed, recordDisk, rowNamed, olderRow,
                       backupRows, commandVars, resolving, confirmCount,
                       intent, untouched, commands, registryBoots>>

(* quarantine_channel, access refused: kept active, or added again. *)
quarantine_channel(i) ==
    /\ Erring(i)
    /\ activeSet' = activeSet \cup {i}
    /\ Recorded(i, "active")
    /\ NoteRevival(i)
    /\ UNCHANGED <<recordNamed, recordDisk, tableVars, commandVars, resolving,
                   countVars, intent, stranded, untouched, commands,
                   registryBoots>>

(* maybe_retire_deleted_channel: a deletion that was confirmed often enough. *)
maybe_retire_deleted_channel(i) ==
    LET count == Counted(confirmCount[i], CHANNEL_HARD_DELETE_CONFIRMATIONS)
    IN  /\ Erring(i)
        /\ confirmCount' = [confirmCount EXCEPT ![i] = count]
        /\ IF count >= CHANNEL_HARD_DELETE_CONFIRMATIONS
           THEN /\ Retired(i, "expired")
                /\ intent' = "unclear"
                /\ UNCHANGED revived
           ELSE /\ activeSet' = activeSet \cup {i}
                /\ Recorded(i, "active")
                /\ NoteRevival(i)
                /\ UNCHANGED <<channelRows, intent, stranded>>
        /\ UNCHANGED <<recordNamed, recordDisk, rowNamed, olderRow,
                       backupRows, commandVars, resolving, peerCount, untouched,
                       commands, registryBoots>>

-----------------------------------------------------------------------------
(* try_refresh_channel_peer found the channel: activate_resolved_source *)

(* mark_channel_resolved_alias of a name; the delete of its row may raise. *)
resolve_begins(ok) ==
    /\ scanOf # {} /\ resolving = "idle"
    /\ LET alias == scanOf \ {"num"}
       IN  /\ activeSet' = activeSet \ alias
           /\ IF ok
              THEN /\ channelRows' = channelRows \ alias
                   /\ recordStatus' = [i \in Idents |->
                         IF i \in alias THEN "alias" ELSE recordStatus[i]]
                   /\ resolving' = "adding"
                   /\ NoteRevival("num")
                   /\ UNCHANGED scanOf
              ELSE /\ scanOf' = {}
                   /\ UNCHANGED <<channelRows, recordStatus, resolving,
                                  revived>>
    /\ UNCHANGED <<recordNamed, recordDisk, rowNamed, olderRow, backupRows,
                   commandVars, countVars, intent, stranded, untouched,
                   commands, scanErrors, registryBoots>>

resolve_adds(ok) ==
    /\ resolving = "adding"
    /\ IF ok
       THEN /\ Inserted("num")
            /\ rowNamed' = TRUE
            /\ Recorded("num", "active")
            /\ recordNamed' = TRUE
            /\ NoteRevival("num")
            /\ UNCHANGED stranded
       ELSE /\ stranded' = TRUE
            /\ UNCHANGED <<channelRows, olderRow, rowNamed, recordVars,
                           revived>>
    /\ resolving' = "loading"
    /\ UNCHANGED <<recordDisk, backupRows, activeSet, commandVars, scanOf,
                   countVars, intent, untouched, commands, scanErrors,
                   registryBoots>>

resolve_loads ==
    /\ resolving = "loading"
    /\ LET kept == Kept(channelRows)
           result == Loaded(kept, channelRows)
       IN   /\ activeSet' = result.active
              /\ recordStatus' = [result.status EXCEPT !["num"] = "active"]
              /\ channelRows' = kept
    /\ recordNamed' = TRUE
    /\ NoteRevival("num")
    /\ stranded' = (stranded \/ PurgedWrongly(channelRows))
    /\ peerCount' = Cleared(peerCount, scanOf \cup {"num"})
    /\ resolving' = "idle" /\ scanOf' = {}
    /\ UNCHANGED <<recordDisk, rowNamed, olderRow, backupRows, commandVars,
                   confirmCount, intent, untouched, commands, scanErrors,
                   registryBoots>>

(* The load raised: the alias has no successor. *)
resolve_fails ==
    /\ resolving = "loading"
    /\ resolving' = "idle" /\ scanOf' = {}
    /\ stranded' = TRUE
    /\ UNCHANGED <<recordVars, recordDisk, tableVars, activeSet, commandVars,
                   countVars, intent, revived, untouched, commands, scanErrors,
                   registryBoots>>

-----------------------------------------------------------------------------
(* Files and restarts *)

json_saved ==
    /\ ~Saved
    /\ recordDisk' = [status |-> recordStatus, named |-> recordNamed]
    /\ stranded' = (stranded /\ \A i \in Idents : recordStatus[i] # "active")
    /\ UNCHANGED <<recordVars, tableVars, activeSet, commandVars, scanOf,
                   resolving, countVars, intent, revived, untouched, commands,
                   scanErrors, registryBoots>>

backup_taken ==
    /\ command = "idle" /\ resolving = "idle" /\ Saved
    /\ backupRows # channelRows
    /\ backupRows' = channelRows
    /\ UNCHANGED <<recordVars, recordDisk, channelRows, rowNamed, olderRow,
                   activeSet, commandVars, scanOf, resolving, countVars,
                   intent, stranded, revived, untouched, commands, scanErrors,
                   registryBoots>>

(* Active records whose keys no row has. *)
reconcile_active_json_sources_to_db(rows, rec) ==
    rows \cup {i \in Idents :
        /\ rec.status[i] = "active"
        /\ rec.named => rows = {}
        /\ rec.named /\ i = "name" => rec.status["num"] # "active"}

(* reactivate_recoverable_peer_sources: retired for an unresolved peer. *)
Reactivated(rec) == {i \in Idents : rec.status[i] = "unresolved"}

(* The load skips the row of an identifier whose record says removed: a
   source added again whose record was not saved, or, the reconciliation
   taking its keys for present, the other identifier of the source. *)
Hidden == \E i \in channelRows : recordStatus[i] \in Gone

(* A restart: the records of the file, the rows of the table, of its backup
   or of a new table, though not with an old file and an old table at once;
   what a step in flight meant to write is lost. *)
registry_boot(rows) ==
    /\ registryBoots < MaxRegistryBoots
    /\ registryBoots' = registryBoots + 1
    /\ rows = channelRows \/ Saved
    /\ LET again == Reactivated(recordDisk)
           filled == reconcile_active_json_sources_to_db(rows, recordDisk)
                     \cup again
           named == recordDisk.named \/ (rowNamed /\ "num" \in filled)
           before == [i \in Idents |->
                        IF i \in again THEN "active" ELSE recordDisk.status[i]]
       IN  \E kept \in IF filled = Idents /\ named
                       THEN {{"name"}, {"num"}} ELSE {filled} :
              LET loaded == {i \in kept : before[i] \notin Gone}
              IN  /\ channelRows' = kept
                  /\ activeSet' = loaded
                  /\ recordStatus' = [i \in Idents |->
                        IF i \in loaded THEN "active"
                        ELSE IF i \in filled \ kept THEN "alias"
                        ELSE before[i]]
                  /\ recordNamed' = named
                  /\ rowNamed' = (named /\ "num" \in kept)
    /\ stranded' = (stranded \/ resolving # "idle" \/ Hidden')
    /\ revived' = (\/ revived
                   \/ /\ intent = "removed"
                      /\ \/ ~Saved \/ command # "idle"
                         \/ \E i \in activeSet' : recordStatus[i] = "alias")
    /\ command' = "idle" /\ commandFor' = "name" /\ commandNamed' = FALSE
    /\ loadRows' = {} /\ scanOf' = {} /\ resolving' = "idle"
    /\ untouched' = TRUE
    /\ olderRow' \in IF channelRows' = Idents THEN Idents ELSE {olderRow}
    /\ peerCount' = Cleared(peerCount, Reactivated(recordDisk))
    /\ confirmCount' = Cleared(confirmCount, Reactivated(recordDisk))
    /\ UNCHANGED <<recordDisk, backupRows, intent, commands, scanErrors>>

RegistryNext ==
    \/ \E i \in Idents, named, ok \in BOOLEAN : add_channel_db(i, named, ok)
    \/ add_records
    \/ \E i \in Idents : rm_channel_db(i)
    \/ clear_source_runtime_tracking
    \/ remove_channel_state
    \/ load_reads \/ load_fills \/ load_fails
    \/ \E i \in Idents : scan_starts(i)
    \/ scan_ends
    \/ health_ok
    \/ \E i \in Idents : mark_peer_invalid_unresolved(i)
    \/ \E i \in Idents : quarantine_channel(i)
    \/ \E i \in Idents : maybe_retire_deleted_channel(i)
    \/ \E ok \in BOOLEAN : resolve_begins(ok)
    \/ \E ok \in BOOLEAN : resolve_adds(ok)
    \/ resolve_loads \/ resolve_fails
    \/ json_saved
    \/ backup_taken
    \/ \E rows \in {channelRows, backupRows, {}} : registry_boot(rows)

RegistrySpec == RegistryInit /\ [][RegistryNext]_registryVars

-----------------------------------------------------------------------------

RecordStatuses == {"none", "active", "alias"} \cup Gone

RegistryTypeOK ==
    /\ recordStatus \in [Idents -> RecordStatuses]
    /\ recordDisk \in [status : [Idents -> RecordStatuses], named : BOOLEAN]
    /\ {channelRows, backupRows, activeSet, loadRows, scanOf}
          \subseteq SUBSET Idents
    /\ command \in {"idle", "recording", "tracking", "removing", "reload",
                    "filling"}
    /\ commandFor \in Idents
    /\ resolving \in {"idle", "adding", "loading"}
    /\ intent \in {"wanted", "removed", "unclear"}
    /\ {recordNamed, rowNamed, commandNamed, stranded, revived, untouched}
          \subseteq BOOLEAN
    /\ peerCount \in [Idents -> 0..CHANNEL_RETIRE_PEER_INVALID_AFTER]
    /\ confirmCount \in [Idents -> 0..CHANNEL_HARD_DELETE_CONFIRMATIONS]

(* After a restart, with the table as it was, restored from its backup or
   empty, and with the JSON file behind, a source the administrator added is
   scanned, unless it is stranded. *)
WantedIsScanned ==
    untouched /\ intent = "wanted" /\ ~stranded => activeSet # {}

(* A removed source is not scanned again, whatever rows a backup or a load
   that overlaps the removal brings back, unless a scan under way, a crash
   before the JSON file was written or the row of an alias undid it. *)
RemovedStays ==
    command = "idle" /\ resolving = "idle" /\ intent = "removed" /\ ~revived =>
        \A i \in activeSet : recordStatus[i] # "active"

(* What the administrator decided last holds, in both directions. *)
DecisionHolds == WantedIsScanned /\ RemovedStays
=============================================================================
