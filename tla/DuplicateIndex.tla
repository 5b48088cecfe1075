--------------------------- MODULE DuplicateIndex ---------------------------
(***************************************************************************)
(* What the bot knows about media that are already in the target: the      *)
(* append-only delivery ledger, the SQLite mirror with its backup, repair, *)
(* salvage and online recovery, the JSON index, the set in memory, and the *)
(* scans of the target that rebuild them.  All of them are changed by      *)
(* threads and coroutines that run next to each other.                     *)
(***************************************************************************)
EXTENDS Naturals, FiniteSets

CONSTANTS
    Media,
    MAX_HISTORY,    \* TARGET_MEDIA_INDEX_MAX_HISTORY, 0 for a complete scan
    MaxFaults,      \* bound on disk and database faults
    MaxRestarts     \* bound on crashes of the process

ASSUME IndexAssumption ==
    /\ MAX_HISTORY \in Nat
    /\ MaxFaults \in Nat
    /\ MaxRestarts \in Nat

VARIABLES
    posted,         \* media in the target channel
    acked,          \* media whose worker was told that they are journaled
    batch,          \* what the critical writer holds
    writer,         \* its stage
    ledger,         \* media on readable lines of media_delivery_ledger.jsonl
    torn,           \* the last line of that file has no end
    dbHealth,       \* what PRAGMA integrity_check would say
    dbRows,         \* uids in the target_media_full_index table
    salvage,        \* rows readable in DB_PENDING_SALVAGE_SOURCES
    hasBackup,      \* a validated backup database exists
    backup,         \* its rows
    reindex,        \* DB_REQUIRES_TARGET_REINDEX
    items,          \* STATE["target_media_index"]["items"]
    itemsDisk,      \* the same in its file
    index,          \* target_media_full_index, the set in memory
    degraded,       \* DB_DEGRADED
    requested,      \* DB_RECOVERY_REQUESTED
    repair,         \* stage of perform_db_online_recovery_sync
    scan, seen,     \* stage and result of a scan of the target
    phase,          \* stage of main
    faults, restarts,
    overtaken       \* deliveries a complete scan did not see and replaced

deliveryVars == <<posted, acked, batch, writer>>
ledgerVars == <<ledger, torn>>
dbVars == <<dbHealth, dbRows, salvage, reindex>>
backupVars == <<hasBackup, backup>>
knownVars == <<items, itemsDisk, index>>
onlineVars == <<degraded, requested, repair>>
scanVars == <<scan, seen>>
historyVars == <<restarts, overtaken>>
boundVars == <<faults, historyVars>>
indexVars ==
    <<deliveryVars, ledgerVars, dbVars, backupVars, knownVars, onlineVars,
      scanVars, phase, boundVars>>

WriterStages == {"idle", "append", "commit", "ack"}
RepairStages == {"idle", "init", "rehydrate", "replay", "ready"}
ScanStages == {"idle", "due", "read", "merge", "replaced", "stored",
               "deep_read", "deep_stored"}
BootPhases == {"repair", "init", "replay", "load", "reindex", "up"}
Healths == {"ok", "index", "corrupt", "missing"}

IndexInit ==
    /\ posted = {} /\ acked = {} /\ batch = {} /\ writer = "idle"
    /\ ledger = {} /\ torn = FALSE
    /\ dbHealth = "missing" /\ dbRows = {} /\ salvage = {} /\ reindex = FALSE
    /\ hasBackup = FALSE /\ backup = {}
    /\ items = {} /\ itemsDisk = {} /\ index = {}
    /\ degraded = FALSE /\ requested = FALSE /\ repair = "idle"
    /\ scan = "idle" /\ seen = {}
    /\ phase = "repair" /\ faults = 0 /\ restarts = 0
    /\ overtaken = {}

Fault == faults < MaxFaults /\ faults' = faults + 1

-----------------------------------------------------------------------------
(* Deliveries *)

(* known_duplicate_uid: memory, then JSON, then the database.  A database that
   cannot be read raises, and the media is not sent. *)
known_duplicate_uid(m) ==
    \/ m \in index \cup items
    \/ dbHealth # "ok"
    \/ m \in dbRows

Pending == posted \ acked

(* The pipeline sends what it does not know. *)
deliver(m) ==
    /\ phase = "up"
    /\ m \notin Pending
    /\ ~known_duplicate_uid(m)
    /\ posted' = posted \cup {m}
    /\ UNCHANGED <<acked, batch, writer, ledgerVars, dbVars, backupVars,
                   knownVars, onlineVars, scanVars, phase, boundVars>>

writer_take(B) ==
    /\ phase = "up"
    /\ writer = "idle"
    /\ B # {}
    /\ batch' = B
    /\ writer' = "append"
    /\ UNCHANGED <<posted, acked, ledgerVars, dbVars, backupVars, knownVars,
                   onlineVars, scanVars, phase, boundVars>>

(* The first line appended continues a line that an earlier append left without
   an end, and is unreadable then. *)
Readable(lines) ==
    IF torn THEN {lines \ {first} : first \in lines} ELSE {lines}

(* The batch is appended and fsynced. *)
append_media_delivery_ledger_batch ==
    /\ writer = "append"
    /\ \E readable \in Readable(batch) : ledger' = ledger \cup readable
    /\ torn' = FALSE
    /\ writer' = "commit"
    /\ UNCHANGED <<posted, acked, batch, dbVars, backupVars, knownVars,
                   onlineVars, scanVars, phase, boundVars>>

(* An append that does not come to its end leaves some of its lines, perhaps
   all of them, and perhaps a part of the next. *)
AppendCutShort ==
    \/ torn' \in {torn, TRUE} /\ UNCHANGED ledger
    \/ \E lines \in SUBSET batch : \E readable \in Readable(lines) :
          ledger' = ledger \cup readable /\ torn' \in BOOLEAN

(* A mutant: the batch is not handed over. *)
MutantKeepsBatch ==
    /\ writer = "append"
    /\ Fault
    /\ AppendCutShort
    /\ writer' = "idle"
    /\ UNCHANGED <<posted, acked, batch, dbVars, backupVars, knownVars,
                   onlineVars, scanVars, phase, historyVars>>

(* The append raises: every future of the batch gets the error, whatever the
   file has of it. *)
append_fails ==
    /\ writer = "append"
    /\ Fault
    /\ AppendCutShort
    /\ batch' = {}
    /\ writer' = "idle"
    /\ UNCHANGED <<posted, acked, dbVars, backupVars, knownVars, onlineVars,
                   scanVars, phase, historyVars>>

(* The batch is mirrored; db_connect waits while a recovery is active. *)
_commit_mark_posted_batch ==
    /\ writer = "commit"
    /\ repair = "idle"
    /\ dbHealth = "ok"
    /\ dbRows' = dbRows \cup batch
    /\ writer' = "ack"
    /\ UNCHANGED <<posted, acked, batch, ledgerVars, dbHealth, salvage,
                   reindex, backupVars, knownVars, onlineVars, scanVars,
                   phase, boundVars>>

(* A corrupt database asks for its recovery, a busy one does not. *)
commit_fails ==
    /\ writer = "commit"
    /\ \/ dbHealth # "ok" /\ requested' = TRUE /\ UNCHANGED faults
       \/ Fault /\ UNCHANGED requested
    /\ degraded' = TRUE
    /\ writer' = "ack"
    /\ UNCHANGED <<posted, acked, batch, ledgerVars, dbVars, backupVars,
                   knownVars, repair, scanVars, phase, historyVars>>

(* The futures resolve and _finalize_mark_posted_memory runs. *)
_finalize_mark_posted_memory ==
    /\ writer = "ack"
    /\ acked' = acked \cup batch
    /\ index' = index \cup batch
    /\ items' = items \cup batch
    /\ batch' = {}
    /\ writer' = "idle"
    /\ UNCHANGED <<posted, ledgerVars, dbVars, backupVars, itemsDisk,
                   onlineVars, scanVars, phase, boundVars>>

(* The state writer gets to the index, a large file it saves now and then. *)
save_target_media_index ==
    /\ phase = "up"
    /\ itemsDisk # items
    /\ itemsDisk' = items
    /\ UNCHANGED <<deliveryVars, ledgerVars, dbVars, backupVars, items, index,
                   onlineVars, scanVars, phase, boundVars>>

-----------------------------------------------------------------------------
(* The database file *)

database_corrupted ==
    /\ phase = "up"
    /\ repair = "idle"
    /\ dbHealth = "ok"
    /\ Fault
    /\ dbHealth' \in {"index", "corrupt"}
    /\ UNCHANGED <<deliveryVars, ledgerVars, dbRows, salvage, reindex,
                   backupVars, knownVars, onlineVars, scanVars, phase,
                   historyVars>>

(* backup_state_snapshot: the JSON files are flushed, the compact copy of the
   database is kept only when it passes the integrity check. *)
backup_state_snapshot ==
    /\ phase = "up"
    /\ repair = "idle"
    /\ itemsDisk' = items
    /\ \/ dbHealth = "ok" /\ hasBackup' = TRUE /\ backup' = dbRows
          /\ UNCHANGED requested
       \/ dbHealth # "ok" /\ requested' = TRUE
          /\ UNCHANGED <<hasBackup, backup>>
    /\ UNCHANGED <<deliveryVars, ledgerVars, dbVars, items, index, degraded,
                   repair, scanVars, phase, boundVars>>

(* repair_db_from_backup_if_needed.  Index damage is repaired in place; a
   corrupt file is moved aside and replaced by the backup, or else its
   readable rows wait to be salvaged into a fresh file. *)
RepairFromBackup ==
    \/ /\ dbHealth = "ok"
       /\ UNCHANGED dbVars
    \/ /\ dbHealth = "missing"
       /\ reindex' = TRUE
       /\ UNCHANGED <<dbHealth, dbRows, salvage>>
    \/ /\ dbHealth = "index"
       /\ dbHealth' = "ok"
       /\ UNCHANGED <<dbRows, salvage, reindex>>
    \/ /\ dbHealth \in {"index", "corrupt"}
       /\ IF hasBackup
          THEN /\ dbHealth' = "ok"
               /\ dbRows' = backup
               /\ UNCHANGED <<salvage, reindex>>
          ELSE /\ dbHealth' = "missing"
               /\ dbRows' = {}
               /\ salvage' \in SUBSET dbRows
               /\ reindex' = TRUE

(* init_db: the schema is created when the file is new, then every readable
   row of the salvage sources is inserted. *)
InitDb ==
    /\ dbHealth' = "ok"
    /\ dbRows' = dbRows \cup salvage
    /\ salvage' = {}
    /\ UNCHANGED reindex

(* init_db raises after the list of salvage sources was emptied. *)
InitDbFails ==
    /\ dbHealth' = "ok"
    /\ salvage' = {}
    /\ UNCHANGED <<dbRows, reindex>>

(* A mutant: the ledger is not replayed. *)
MutantNoReplay == UNCHANGED <<dbRows, index, items, itemsDisk>>

replay_media_delivery_ledger_sync ==
    /\ dbRows' = dbRows \cup ledger
    /\ index' = index \cup ledger
    /\ items' = items \cup ledger
    /\ UNCHANGED itemsDisk

-----------------------------------------------------------------------------
(* perform_db_online_recovery_sync, started by db_health_guard_loop *)

recovery_start ==
    /\ phase = "up"
    /\ repair = "idle"
    /\ requested \/ dbHealth # "ok"
    /\ requested' = FALSE
    /\ RepairFromBackup
    /\ repair' = "init"
    /\ UNCHANGED <<deliveryVars, ledgerVars, backupVars, knownVars, degraded,
                   scanVars, phase, boundVars>>

recovery_init ==
    /\ repair = "init"
    /\ InitDb
    /\ repair' = "rehydrate"
    /\ UNCHANGED <<deliveryVars, ledgerVars, backupVars, knownVars, degraded,
                   requested, scanVars, phase, boundVars>>

(* A stage raises; the next pass of the guard starts over. *)
recovery_fails ==
    /\ repair # "idle"
    /\ IF repair = "init" THEN InitDbFails ELSE UNCHANGED dbVars
    /\ degraded' = TRUE
    /\ repair' = "idle"
    /\ UNCHANGED <<deliveryVars, ledgerVars, backupVars, knownVars, requested,
                   scanVars, phase, boundVars>>

rehydrate_db_from_authoritative_state_sync ==
    /\ repair = "rehydrate"
    /\ dbRows' = dbRows \cup items
    /\ repair' = "replay"
    /\ UNCHANGED <<deliveryVars, ledgerVars, dbHealth, salvage, reindex,
                   backupVars, knownVars, degraded, requested, scanVars,
                   phase, boundVars>>

recovery_replay ==
    /\ repair = "replay"
    /\ replay_media_delivery_ledger_sync
    /\ repair' = "ready"
    /\ UNCHANGED <<deliveryVars, ledgerVars, dbHealth, salvage, reindex,
                   backupVars, degraded, requested, scanVars, phase,
                   boundVars>>

(* A rebuilt database without any rehydrated target asks for a scan. *)
recovery_ready ==
    /\ repair = "ready"
    /\ repair' = "idle"
    /\ degraded' = FALSE
    /\ reindex' = FALSE
    /\ scan' = IF reindex /\ items = {} /\ scan = "idle" THEN "due" ELSE scan
    /\ UNCHANGED <<deliveryVars, ledgerVars, dbHealth, dbRows, salvage,
                   backupVars, knownVars, requested, seen, phase, boundVars>>

-----------------------------------------------------------------------------
(* build_target_media_index and the deep cleaner *)

(* target_media_index_loop waits for an idle pipeline, a recovered database
   does not. *)
scan_start ==
    /\ phase = "up"
    /\ scan = "due" \/ (scan = "idle" /\ Pending = {})
    /\ scan' = "read"
    /\ seen' = posted
    /\ UNCHANGED <<deliveryVars, ledgerVars, dbVars, backupVars, knownVars,
                   onlineVars, phase, boundVars>>

Limited == MAX_HISTORY # 0 /\ Cardinality(seen) > MAX_HISTORY

(* A sample is added, a complete history replaces what was known. *)
scan_sampled ==
    /\ scan = "read"
    /\ Limited
    /\ seen' \in {S \in SUBSET seen : Cardinality(S) = MAX_HISTORY}
    /\ index' = index \cup seen'
    /\ scan' = "merge"
    /\ UNCHANGED <<deliveryVars, ledgerVars, dbVars, backupVars, items,
                   itemsDisk, onlineVars, phase, boundVars>>

merge_target_index_db ==
    /\ scan = "merge"
    /\ repair = "idle"
    /\ dbHealth = "ok"
    /\ dbRows' = dbRows \cup seen
    /\ items' = items \cup seen
    /\ scan' = "idle"
    /\ seen' = {}
    /\ UNCHANGED <<deliveryVars, ledgerVars, dbHealth, salvage, reindex,
                   backupVars, itemsDisk, index, onlineVars, phase,
                   boundVars>>

Overtake == overtaken' = overtaken \cup ((acked \cup batch) \ seen)

scan_complete ==
    /\ scan = "read"
    /\ ~Limited
    /\ index' = seen
    /\ scan' = "replaced"
    /\ Overtake
    /\ UNCHANGED <<deliveryVars, ledgerVars, dbVars, backupVars, items,
                   itemsDisk, seen, onlineVars, phase, faults, restarts>>

replace_target_index_db ==
    /\ scan \in {"replaced", "deep_read"}
    /\ repair = "idle"
    /\ dbHealth = "ok"
    /\ dbRows' = seen
    /\ scan' = IF scan = "replaced" THEN "stored" ELSE "deep_stored"
    /\ Overtake
    /\ UNCHANGED <<deliveryVars, ledgerVars, dbHealth, salvage, reindex,
                   backupVars, knownVars, seen, onlineVars, phase, faults,
                   restarts>>

(* The JSON index follows; the deep cleaner changes the set with it. *)
scan_done ==
    /\ scan \in {"stored", "deep_stored"}
    /\ items' = seen
    /\ index' = IF scan = "deep_stored" THEN seen ELSE index
    /\ scan' = "idle"
    /\ seen' = {}
    /\ Overtake
    /\ UNCHANGED <<deliveryVars, ledgerVars, dbVars, backupVars, itemsDisk,
                   onlineVars, phase, faults, restarts>>

run_full_deep_cleaner ==
    /\ phase = "up"
    /\ scan = "idle"
    /\ scan' = "deep_read"
    /\ seen' = posted
    /\ UNCHANGED <<deliveryVars, ledgerVars, dbVars, backupVars, knownVars,
                   onlineVars, phase, boundVars>>

(* A page that cannot be read, or a database that refuses the result, ends the
   scan with what it has done so far. *)
scan_fails ==
    /\ scan \in {"read", "merge", "replaced", "deep_read"}
    /\ scan = "read" \/ dbHealth # "ok"
    /\ scan' = "idle"
    /\ seen' = {}
    /\ UNCHANGED <<deliveryVars, ledgerVars, dbVars, backupVars, knownVars,
                   onlineVars, phase, boundVars>>

-----------------------------------------------------------------------------
(* Restart *)

(* The process dies, perhaps in the middle of an append. *)
Die ==
    /\ restarts < MaxRestarts
    /\ restarts' = restarts + 1
    /\ \/ UNCHANGED <<ledgerVars, faults>>
       \/ writer = "append" /\ AppendCutShort /\ Fault
    /\ batch' = {} /\ writer' = "idle"
    /\ items' = itemsDisk /\ index' = {}
    /\ salvage' = {} /\ reindex' = FALSE
    /\ degraded' = FALSE /\ requested' = FALSE /\ repair' = "idle"
    /\ scan' = "idle" /\ seen' = {}
    /\ phase' = "repair"
    /\ UNCHANGED <<posted, acked, dbHealth, dbRows, backupVars, itemsDisk,
                   overtaken>>

boot_repair ==
    /\ phase = "repair"
    /\ RepairFromBackup
    /\ phase' = "init"
    /\ UNCHANGED <<deliveryVars, ledgerVars, backupVars, knownVars,
                   onlineVars, scanVars, boundVars>>

boot_init ==
    /\ phase = "init"
    /\ InitDb
    /\ phase' = "replay"
    /\ UNCHANGED <<deliveryVars, ledgerVars, backupVars, knownVars,
                   onlineVars, scanVars, boundVars>>

(* The exception leaves main; the supervisor of the process starts it again. *)
boot_fails ==
    /\ phase = "init"
    /\ Fault
    /\ dbHealth' = "ok"
    /\ salvage' = {} /\ reindex' = FALSE
    /\ phase' = "repair"
    /\ UNCHANGED <<deliveryVars, ledgerVars, dbRows, backupVars, knownVars,
                   onlineVars, scanVars, historyVars>>

boot_replay ==
    /\ phase = "replay"
    /\ replay_media_delivery_ledger_sync
    /\ phase' = "load"
    /\ UNCHANGED <<deliveryVars, ledgerVars, dbHealth, salvage, reindex,
                   backupVars, onlineVars, scanVars, boundVars>>

load_target_full_index_from_db ==
    /\ phase = "load"
    /\ index' = dbRows \cup items
    /\ phase' = IF reindex THEN "reindex" ELSE "up"
    /\ UNCHANGED <<deliveryVars, ledgerVars, dbVars, backupVars, items,
                   itemsDisk, onlineVars, scanVars, boundVars>>

(* "rebuilding target index before queue recovery or source admission" *)
boot_reindex ==
    /\ phase = "reindex"
    /\ LET limited == MAX_HISTORY # 0 /\ Cardinality(posted) > MAX_HISTORY IN
       \E S \in SUBSET posted :
          /\ IF limited THEN Cardinality(S) = MAX_HISTORY ELSE S = posted
          /\ index' = IF limited THEN index \cup S ELSE S
          /\ dbRows' = IF limited THEN dbRows \cup S ELSE S
          /\ items' = IF limited THEN items \cup S ELSE S
    /\ reindex' = FALSE
    /\ phase' = "up"
    /\ UNCHANGED <<deliveryVars, ledgerVars, dbHealth, salvage, backupVars,
                   itemsDisk, onlineVars, scanVars, boundVars>>

WriterNext ==
    \/ \E B \in SUBSET Pending : writer_take(B)
    \/ append_media_delivery_ledger_batch
    \/ append_fails
    \/ _commit_mark_posted_batch
    \/ commit_fails
    \/ _finalize_mark_posted_memory
    \/ save_target_media_index

RecoveryStep ==
    \/ recovery_start
    \/ recovery_init
    \/ recovery_fails
    \/ rehydrate_db_from_authoritative_state_sync
    \/ recovery_replay
    \/ recovery_ready

ScanNext ==
    \/ scan_start
    \/ scan_sampled
    \/ merge_target_index_db
    \/ scan_complete
    \/ replace_target_index_db
    \/ scan_done
    \/ run_full_deep_cleaner
    \/ scan_fails

BootNext ==
    \/ boot_repair
    \/ boot_init
    \/ boot_fails
    \/ boot_replay
    \/ load_target_full_index_from_db
    \/ boot_reindex

IndexNext ==
    \/ \E m \in Media : deliver(m)
    \/ WriterNext
    \/ database_corrupted
    \/ backup_state_snapshot
    \/ RecoveryStep
    \/ ScanNext
    \/ Die
    \/ BootNext

IndexSpec == IndexInit /\ [][IndexNext]_indexVars

-----------------------------------------------------------------------------

IndexTypeOK ==
    /\ posted \subseteq Media /\ acked \subseteq posted
    /\ batch \subseteq Pending /\ writer \in WriterStages
    /\ batch = {} <=> writer = "idle"
    /\ ledger \subseteq posted /\ torn \in BOOLEAN
    /\ dbHealth \in Healths /\ dbRows \subseteq posted
    /\ salvage \subseteq posted /\ reindex \in BOOLEAN
    /\ hasBackup \in BOOLEAN /\ backup \subseteq posted
    /\ items \subseteq posted /\ itemsDisk \subseteq posted
    /\ index \subseteq posted
    /\ degraded \in BOOLEAN /\ requested \in BOOLEAN
    /\ repair \in RepairStages
    /\ scan \in ScanStages /\ seen \subseteq posted
    /\ phase \in BootPhases
    /\ faults \in 0..MaxFaults /\ restarts \in 0..MaxRestarts
    /\ overtaken \subseteq posted

(* The duplicate check knows every acknowledged delivery while the pipeline
   runs, through online recoveries and restarts, except for the deliveries that
   a complete scan did not see: for good when the ledger has a readable line of
   it, and without one as long as nothing but the append that tore the line
   went wrong.  A second fault may be too many then: a commit that fails as
   well leaves the media with the unsaved JSON index only. *)
DeliveredIsKnown ==
    phase = "up" =>
        \A m \in acked \ overtaken :
            m \in ledger \/ faults <= 1 => known_duplicate_uid(m)
=============================================================================
