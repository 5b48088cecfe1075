------------------------------ MODULE HotScan -------------------------------
(***************************************************************************)
(* The durable startup scan: every active source is scanned once, in       *)
(* order, before adaptive intake and backfill are released.  A source that *)
(* cannot be read is deferred with a retry time, never completed; sources  *)
(* with falsely dead media are reopened once, with their exact message     *)
(* ids.  Progress is in sync_source_manager and survives a crash; a state  *)
(* without a source order is begun afresh.                                 *)
(***************************************************************************)
EXTENDS Naturals

CONSTANTS
    SourceCount,        \* sources are numbered in scan order
    FalselyDead,        \* sources whose dead media the migration releases
    MaxToggles,         \* bound on what other tasks do to the sources
    MaxHotCrashes

HotSources == 1..SourceCount

ASSUME HotAssumption ==
    /\ SourceCount \in Nat
    /\ FalselyDead \subseteq HotSources
    /\ MaxToggles \in Nat
    /\ MaxHotCrashes \in Nat

VARIABLES
    active,         \* active_source_channels
    sourceOrder,    \* source_order, {} when none is stored
    completed, deferred, repairSources, repairItems, hotStatus,
    reported,       \* sources with a queue record that a scan has left
    migrated,       \* LEGACY_FALSE_ZERO_BYTE_MIGRATION_ID is recorded
    retryLater,     \* deferred sources whose next_retry_at lies ahead
    hotCooling,        \* sources guard_next_check_allowed refuses
    hotStage, pendingPass, chosen, exactSuccess,
    released,       \* STARTUP_HOT_SCAN_COMPLETE
    scanned,        \* sources scanned to the end since they were last opened
    requeued,       \* sources whose exact items were enqueued
    removedOnce,    \* sources that were inactive when the state was reconciled
    dropped,        \* sources whose repair a state begun afresh has lost
    emptied,        \* the state was once reconciled without a source
    toggles, hotCrashes

durableHot ==
    <<sourceOrder, completed, deferred, repairSources, repairItems, hotStatus>>
reconcileHistory == <<removedOnce, dropped, emptied>>
hotLocals == <<hotStage, pendingPass, chosen, exactSuccess>>
hotVars ==
    <<active, durableHot, reported, migrated, retryLater, hotCooling, hotLocals,
      released, scanned, requeued, reconcileHistory, toggles, hotCrashes>>

(* No state is stored: an older build scanned the sources in order and stopped
   in one of them; a source it scanned left records or not. *)
NoScanStored ==
    /\ sourceOrder = {} /\ completed = {} /\ hotStatus = "none"
    /\ \E last \in 0..SourceCount :
          /\ scanned = 1..(last - 1)
          /\ reported \in SUBSET (1..last)

(* A build that stores its progress has scanned some of the sources. *)
ScanStored ==
    /\ sourceOrder = active /\ active # {}
    /\ completed \in SUBSET active
    /\ hotStatus = IF completed = active THEN "complete" ELSE "running"
    /\ scanned = completed /\ reported = {}

HotInit ==
    /\ active \in SUBSET HotSources
    /\ NoScanStored \/ ScanStored
    /\ deferred = {} /\ repairSources = {} /\ repairItems = {}
    /\ migrated = FALSE /\ retryLater = {} /\ hotCooling = {}
    /\ hotStage = "boot" /\ pendingPass = {} /\ chosen = 0
    /\ exactSuccess = TRUE /\ released = FALSE /\ requeued = {}
    /\ removedOnce = {} /\ dropped = {} /\ emptied = FALSE
    /\ toggles = 0 /\ hotCrashes = 0

-----------------------------------------------------------------------------

(* A source with records proves that every earlier one was completed. *)
infer_legacy_startup_hot_completed_sources ==
    {s \in active : \E later \in reported \cap active : s < later}

(* What the stored state says about the active sources: a source under repair
   is not completed, a completed one is not deferred.  Without a stored order
   the state is begun afresh, and nothing of the stored one is read. *)
Reconciled ==
    IF sourceOrder = {}
    THEN [completed |-> infer_legacy_startup_hot_completed_sources,
          deferred |-> {}, repairSources |-> {}, repairItems |-> {}]
    ELSE LET repairs == repairSources \cap active
             done == (completed \cap active) \ repairs
         IN  [completed |-> done,
              deferred |-> (deferred \cap active) \ done,
              repairSources |-> repairs,
              repairItems |-> repairItems \cap active]

HotStatus(r) ==
    IF r.deferred # {} THEN "deferred"
    ELSE IF r.repairSources = {} /\ r.completed = active THEN "complete"
    ELSE "running"

(* What a reconciliation writes besides the results of the sources. *)
OrderReconciled ==
    /\ sourceOrder' = active
    /\ repairSources' = Reconciled.repairSources
    /\ repairItems' = Reconciled.repairItems
    /\ removedOnce' = removedOnce \cup (HotSources \ active)
    /\ dropped' = dropped \cup
          IF sourceOrder = {} THEN repairSources \cap active ELSE {}
    /\ emptied' = (emptied \/ active = {})

StateReconciled(status) ==
    /\ completed' = Reconciled.completed
    /\ deferred' = Reconciled.deferred
    /\ retryLater' = retryLater \cap Reconciled.deferred
    /\ OrderReconciled
    /\ hotStatus' = status

reconcile_startup_hot_scan_state == StateReconciled(HotStatus(Reconciled))

(* Startup: the media released by the migration reopen their sources. *)
release_legacy_false_zero_byte_quarantine ==
    /\ hotStage = "boot"
    /\ IF migrated
       THEN UNCHANGED <<durableHot, migrated, scanned>>
       ELSE /\ migrated' = TRUE
            /\ completed' = completed \ FalselyDead
            /\ repairSources' = repairSources \cup FalselyDead
            /\ repairItems' = repairItems \cup FalselyDead
            /\ scanned' = scanned \ FalselyDead
            /\ hotStatus' = IF FalselyDead = {} THEN hotStatus ELSE "running"
            /\ UNCHANGED <<sourceOrder, deferred>>
    /\ hotStage' = "barrier"
    /\ UNCHANGED <<active, reported, retryLater, hotCooling, pendingPass,
                   chosen, exactSuccess, released, requeued, reconcileHistory,
                   toggles, hotCrashes>>

(* main reconciles the state; then QUEUE_RECOVERY_READY is awaited and the
   target index is built. *)
barrier_passed ==
    /\ hotStage = "barrier"
    /\ reconcile_startup_hot_scan_state
    /\ hotStage' = "top"
    /\ UNCHANGED <<active, reported, migrated, hotCooling, pendingPass, chosen,
                   exactSuccess, released, scanned, requeued, toggles,
                   hotCrashes>>

(* A mutant: a deferred source is not scanned again. *)
MutantDeferredNeverDue(r) == active \ (r.completed \cup r.deferred)

Due(r) == active \ (r.completed \cup (retryLater \cap r.deferred))

(* One turn of startup_hot_scan_loop: there is something to scan, *)
pass_begins ==
    /\ hotStage = "top"
    /\ Due(Reconciled) # {}
    /\ reconcile_startup_hot_scan_state
    /\ pendingPass' = Due(Reconciled)
    /\ hotStage' = "pass"
    /\ UNCHANGED <<active, reported, migrated, hotCooling, chosen,
                   exactSuccess, released, scanned, requeued, toggles,
                   hotCrashes>>

(* only deferred sources are left, *)
release_startup_hot_scan_admission ==
    /\ hotStage = "top"
    /\ Due(Reconciled) = {}
    /\ ~ active \subseteq Reconciled.completed
    /\ reconcile_startup_hot_scan_state
    /\ released' = TRUE
    /\ UNCHANGED <<active, reported, migrated, hotCooling, hotLocals, scanned,
                   requeued, toggles, hotCrashes>>

(* or everything is scanned. *)
finish_startup_hot_scan ==
    /\ hotStage = "top"
    /\ Due(Reconciled) = {}
    /\ active \subseteq Reconciled.completed
    /\ StateReconciled("complete")
    /\ released' = TRUE
    /\ UNCHANGED <<active, reported, migrated, hotCooling, hotLocals, scanned,
                   requeued, toggles, hotCrashes>>

(* A source of the pass that is gone or completed by now. *)
source_skipped(s) ==
    /\ hotStage = "pass"
    /\ s \in pendingPass
    /\ s \notin active \/ s \in Reconciled.completed
    /\ reconcile_startup_hot_scan_state
    /\ pendingPass' = pendingPass \ {s}
    /\ UNCHANGED <<active, reported, migrated, hotCooling, hotStage, chosen,
                   exactSuccess, released, scanned, requeued, toggles,
                   hotCrashes>>

(* record_startup_hot_source_result(success=False) *)
Deferral(s, r) ==
    /\ completed' = r.completed
    /\ deferred' = r.deferred \cup {s}
    /\ retryLater' = (retryLater \cap r.deferred) \cup {s}
    /\ pendingPass' = pendingPass \ {s}
    /\ hotStage' = "pass"
    /\ chosen' = 0

(* A mutant: cooling down counts as a scan. *)
MutantCoolingCompletes(s) ==
    /\ hotStage = "pass"
    /\ s \in (pendingPass \cap active \cap hotCooling) \ Reconciled.completed
    /\ completed' = completed \cup {s}
    /\ pendingPass' = pendingPass \ {s}
    /\ UNCHANGED <<active, sourceOrder, deferred, repairSources, repairItems,
                   hotStatus, reported, migrated, retryLater, hotCooling,
                   hotStage, chosen, exactSuccess, released, scanned, requeued,
                   reconcileHistory, toggles, hotCrashes>>

source_cooling(s) ==
    /\ hotStage = "pass"
    /\ s \in (pendingPass \cap active \cap hotCooling) \ Reconciled.completed
    /\ Deferral(s, Reconciled)
    /\ OrderReconciled
    /\ hotStatus' = HotStatus(Reconciled)
    /\ UNCHANGED <<active, reported, migrated, hotCooling, exactSuccess,
                   released, scanned, requeued, toggles, hotCrashes>>

(* set_startup_hot_current_source *)
source_chosen(s) ==
    /\ hotStage = "pass"
    /\ s \in (pendingPass \cap active) \ (hotCooling \cup Reconciled.completed)
    /\ StateReconciled("running")
    /\ chosen' = s
    /\ exactSuccess' = TRUE
    /\ hotStage' = IF s \in Reconciled.repairSources THEN "exact" ELSE "sync"
    /\ UNCHANGED <<active, reported, migrated, hotCooling, pendingPass,
                   released, scanned, requeued, toggles, hotCrashes>>

(* A mutant: the ids are dropped although the source cools down. *)
MutantForgetsItems ==
    /\ hotStage = "exact"
    /\ chosen \in hotCooling
    /\ repairItems' = repairItems \ {chosen}
    /\ exactSuccess' = FALSE
    /\ hotStage' = "sync"
    /\ UNCHANGED <<active, sourceOrder, completed, deferred, repairSources,
                   hotStatus, reported, migrated, retryLater, hotCooling,
                   pendingPass, chosen, released, scanned, requeued,
                   reconcileHistory, toggles, hotCrashes>>

(* enqueue_validator_repair_exact_items: ids are left and the source may not
   be asked, *)
exact_refused ==
    /\ hotStage = "exact"
    /\ chosen \in repairItems \cap hotCooling
    /\ exactSuccess' = FALSE
    /\ hotStage' = "sync"
    /\ UNCHANGED <<active, durableHot, reported, migrated, retryLater,
                   hotCooling, pendingPass, chosen, released, scanned,
                   requeued, reconcileHistory, toggles, hotCrashes>>

(* Media of the source are queued, or it has none that are new. *)
LeavesRecords == reported' \in {reported, reported \cup {chosen}}

(* or they are fetched and enqueued, or there are none. *)
exact_enqueued ==
    /\ hotStage = "exact"
    /\ chosen \notin repairItems \cap hotCooling
    /\ LeavesRecords
    /\ requeued' = requeued \cup (repairItems \cap {chosen})
    /\ repairItems' = repairItems \ {chosen}
    /\ hotStage' = "sync"
    /\ UNCHANGED <<active, sourceOrder, completed, deferred, repairSources,
                   hotStatus, migrated, retryLater, hotCooling, pendingPass,
                   chosen, exactSuccess, released, scanned, reconcileHistory,
                   toggles, hotCrashes>>

complete_validator_repair_source ==
    /\ repairSources' = repairSources \ {chosen}
    /\ repairItems' = repairItems \ {chosen}

(* run_sync_for_channel read the history: the source is completed unless its
   exact ids were refused. *)
scan_succeeds ==
    /\ hotStage = "sync"
    /\ LeavesRecords
    /\ IF exactSuccess
       THEN /\ completed' = completed \cup {chosen}
            /\ deferred' = deferred \ {chosen}
            /\ retryLater' = retryLater \ {chosen}
            /\ complete_validator_repair_source
            /\ pendingPass' = pendingPass \ {chosen}
            /\ scanned' = scanned \cup {chosen}
            /\ hotStage' = "pass" /\ chosen' = 0
       ELSE /\ Deferral(chosen, [completed |-> completed,
                                 deferred |-> deferred])
            /\ UNCHANGED <<repairSources, repairItems, scanned>>
    /\ UNCHANGED <<active, sourceOrder, hotStatus, migrated, hotCooling,
                   exactSuccess, released, requeued, reconcileHistory, toggles,
                   hotCrashes>>

(* The errors of a source add up to a time in which it is not asked. *)
register_guard_temp_error ==
    hotCooling' \in {hotCooling, hotCooling \cup {chosen}}

(* The scan returned with an error or raised. *)
scan_fails ==
    /\ hotStage \in {"exact", "sync"}
    /\ Deferral(chosen, [completed |-> completed, deferred |-> deferred])
    /\ LeavesRecords
    /\ register_guard_temp_error
    /\ UNCHANGED <<active, sourceOrder, repairSources, repairItems, hotStatus,
                   migrated, exactSuccess, released, scanned, requeued,
                   reconcileHistory, toggles, hotCrashes>>

pass_ends ==
    /\ hotStage = "pass"
    /\ pendingPass = {}
    /\ reconcile_startup_hot_scan_state
    /\ hotStage' = "top"
    /\ UNCHANGED <<active, reported, migrated, hotCooling, pendingPass,
                   chosen, exactSuccess, released, scanned, requeued, toggles,
                   hotCrashes>>

-----------------------------------------------------------------------------
(* The surroundings *)

retry_time_passes(s) ==
    /\ s \in retryLater
    /\ retryLater' = retryLater \ {s}
    /\ UNCHANGED <<active, durableHot, reported, migrated, hotCooling,
                   hotLocals, released, scanned, requeued, reconcileHistory,
                   toggles, hotCrashes>>

cooldown_passes(s) ==
    /\ s \in hotCooling
    /\ hotCooling' = hotCooling \ {s}
    /\ UNCHANGED <<active, durableHot, reported, migrated, retryLater,
                   hotLocals, released, scanned, requeued, reconcileHistory,
                   toggles, hotCrashes>>

(* The records a scan left are worked off. *)
records_finish(s) ==
    /\ s \in reported
    /\ reported' = reported \ {s}
    /\ UNCHANGED <<active, durableHot, migrated, retryLater, hotCooling,
                   hotLocals, released, scanned, requeued, reconcileHistory,
                   toggles, hotCrashes>>

(* A source is removed, or added again; its media are new to the scan. *)
source_toggled(s) ==
    /\ toggles < MaxToggles
    /\ toggles' = toggles + 1
    /\ active' = IF s \in active THEN active \ {s} ELSE active \cup {s}
    /\ UNCHANGED <<durableHot, reported, migrated, retryLater, hotCooling,
                   hotLocals, released, scanned, requeued, reconcileHistory,
                   hotCrashes>>

(* The source guard, or another task that reads the source, meets an error. *)
source_guard_error(s) ==
    /\ toggles < MaxToggles
    /\ toggles' = toggles + 1
    /\ s \notin hotCooling
    /\ hotCooling' = hotCooling \cup {s}
    /\ UNCHANGED <<active, durableHot, reported, migrated, retryLater,
                   hotLocals, released, scanned, requeued, reconcileHistory,
                   hotCrashes>>

hot_crash ==
    /\ hotCrashes < MaxHotCrashes
    /\ hotCrashes' = hotCrashes + 1
    /\ hotStage' = "boot" /\ pendingPass' = {} /\ chosen' = 0
    /\ exactSuccess' = TRUE /\ released' = FALSE
    /\ UNCHANGED <<active, durableHot, reported, migrated, retryLater,
                   hotCooling, scanned, requeued, reconcileHistory, toggles>>

HotLoop ==
    \/ release_legacy_false_zero_byte_quarantine
    \/ barrier_passed
    \/ pass_begins
    \/ release_startup_hot_scan_admission
    \/ finish_startup_hot_scan
    \/ \E s \in HotSources : source_skipped(s)
    \/ \E s \in HotSources : source_cooling(s)
    \/ \E s \in HotSources : source_chosen(s)
    \/ exact_refused
    \/ exact_enqueued
    \/ scan_succeeds
    \/ scan_fails
    \/ pass_ends

HotNext ==
    \/ HotLoop
    \/ \E s \in HotSources : retry_time_passes(s)
    \/ \E s \in HotSources : cooldown_passes(s)
    \/ \E s \in HotSources : records_finish(s)
    \/ \E s \in HotSources : source_toggled(s)
    \/ \E s \in HotSources : source_guard_error(s)
    \/ hot_crash

HotSpec == HotInit /\ [][HotNext]_hotVars

HotTypeOK ==
    /\ {active, sourceOrder, completed, deferred, repairSources, repairItems,
        reported, retryLater, hotCooling, pendingPass, scanned, requeued,
        removedOnce, dropped} \subseteq SUBSET HotSources
    /\ hotStatus \in {"none", "running", "deferred", "complete"}
    /\ hotStage \in {"boot", "barrier", "top", "pass", "exact", "sync"}
    /\ chosen \in 0..SourceCount
    /\ {migrated, exactSuccess, released, emptied} \subseteq BOOLEAN
    /\ toggles \in 0..MaxToggles /\ hotCrashes \in 0..MaxHotCrashes

(* A source counts as completed only after a scan of it that came to its end
   since it was last opened: not because it cools down, because it was
   deferred, or because an older build stopped in it.  The one exception is a
   repair that was lost when the state was begun afresh.  After the state was
   reconciled without any source, records of this build are taken for those of
   an older one, and nothing is claimed. *)
CompletedWasScanned == ~emptied => completed \subseteq scanned \cup dropped

(* "Repair work survives legacy-state initialization": the exact ids of falsely
   dead media are enqueued or still listed, through cooldowns, failures,
   refusals and crashes, unless their source was removed meanwhile. *)
RepairSurvives ==
    migrated => FalselyDead \subseteq repairItems \cup requeued \cup removedOnce

(* What can be said for it: a reconciliation that finds no stored order is the
   only step that loses a repair. *)
OnlyFreshStateDrops ==
    migrated =>
        FalselyDead \subseteq repairItems \cup requeued \cup removedOnce
                                  \cup dropped

(* Every active source is scanned in the end, once the process has begun with
   it, through cooldowns, postponements and crashes. *)
HotScanSettles ==
    \A s \in HotSources :
        s \in active /\ hotStage # "boot" ~> s \in completed \/ s \notin active
=============================================================================
