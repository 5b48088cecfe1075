--------------------------- MODULE QueueRecovery ---------------------------
(***************************************************************************)
(* recover_queue_state and its two callers: recover_queue_state_once, which *)
(* holds the QUEUE_RECOVERY_READY barrier after a restart, and             *)
(* queue_healer_loop, which runs a pass when a record has gone stale.  A   *)
(* pass snapshots the live ids and both files, then handles the snapshot's *)
(* jobs one by one, awaiting Telegram and admission in between.            *)
(***************************************************************************)
EXTENDS Admission

HealStages == {"idle", "scan", "fetch", "filter", "admit"}

Lanes == {"upload", "download"}

(* Mutant: the snapshot takes every stuck record, owned or not. *)
MutantSnapshotOfAll ==
    /\ healStage' = "scan"
    /\ healUp' = {j \in Jobs : Stuck(ul[j])}
    /\ healDown' = {j \in Jobs : Stuck(dl[j]) /\ ~Stuck(ul[j])}
    /\ recovered' = 0
    /\ UNCHANGED <<healJob, healLane>>

(* The snapshot a pass starts from: the upload lane, then the jobs stuck in
   the download lane only. *)
heal_snapshot ==
    /\ healStage' = "scan"
    /\ healUp' = {j \in Jobs \ live_pipeline_job_ids : Stuck(ul[j])}
    /\ healDown' = {j \in Jobs \ live_pipeline_job_ids :
                        Stuck(dl[j]) /\ ~Stuck(ul[j])}
    /\ recovered' = 0
    /\ UNCHANGED <<healJob, healLane>>

(* Startup: passes repeat until nothing is pending. *)
recovery_pass_start ==
    /\ healStage = "idle"
    /\ ~ready
    /\ heal_snapshot
    /\ UNCHANGED <<recordVars, queueVars, mediaVars, dlVars, upVars, admVars,
                   bootVars>>

(* Mutant: the healer waits for an idle pipeline. *)
MutantHealerWhenIdle ==
    /\ healStage = "idle"
    /\ ready
    /\ persisted_recovery_pending_job_ids # {}
    /\ pipeline_idle
    /\ processing' = {}
    /\ heal_snapshot
    /\ UNCHANGED <<recordVars, queueVars, files, attempt, known, delivered,
                   dlVars, upVars, admVars, bootVars>>

(* The healer, once the barrier is open and a record is stale; an idle
   pipeline's processing keys are dropped first. *)
healer_pass_start ==
    /\ healStage = "idle"
    /\ ready
    /\ persisted_recovery_pending_job_ids # {}
    /\ processing' = IF pipeline_idle THEN {} ELSE processing
    /\ heal_snapshot
    /\ UNCHANGED <<recordVars, queueVars, files, attempt, known, delivered,
                   dlVars, upVars, admVars, bootVars>>

(* The next record of the snapshot: upload lane first. *)
HealNext(j, lane) ==
    /\ healStage = "scan"
    /\ \/ lane = "upload" /\ j \in healUp
       \/ lane = "download" /\ healUp = {} /\ j \in healDown

HealDrop(j) ==
    /\ healUp' = healUp \ {j}
    /\ healDown' = healDown \ {j}

SkipDuplicate(j, lane) ==
    IF lane = "upload"
    THEN record_both(j, IF dl[j] = "none" THEN "none" ELSE "skipped_duplicate",
                     "skipped_duplicate")
    ELSE record_download_job(j, "skipped_duplicate")

(* recovery_record_is_complete: every media of the record is known. *)
heal_complete(j, lane) ==
    /\ HealNext(j, lane)
    /\ UidOf[j] \in known
    /\ SkipDuplicate(j, lane)
    /\ HealDrop(j)
    /\ UNCHANGED <<healStage, healJob, healLane, recovered, queueVars,
                   mediaVars, dlVars, upVars, admVars, bootVars>>

(* Deferred to a later pass: an older job owns the media, or the batch of this
   pass is full. *)
heal_deferred(j, lane) ==
    /\ HealNext(j, lane)
    /\ UidOf[j] \notin known
    /\ \/ reservation_blocks_owner(j)
       \/ recovered >= QUEUE_RECOVERY_BATCH_LIMIT
    /\ HealDrop(j)
    /\ UNCHANGED <<healStage, healJob, healLane, recovered, recordVars,
                   queueVars, mediaVars, dlVars, upVars, admVars, bootVars>>

heal_fetch(j, lane) ==
    /\ HealNext(j, lane)
    /\ UidOf[j] \notin known
    /\ ~reservation_blocks_owner(j)
    /\ recovered < QUEUE_RECOVERY_BATCH_LIMIT
    /\ HealDrop(j)
    /\ healStage' = "fetch"
    /\ healJob' = j
    /\ healLane' = lane
    /\ UNCHANGED <<recovered, recordVars, queueVars, mediaVars, dlVars,
                   upVars, admVars, bootVars>>

HealResume(count) ==
    /\ healStage' = "scan"
    /\ healJob' = NoJob
    /\ recovered' = count
    /\ UNCHANGED <<healLane, healUp, healDown>>

(* fetch_messages_from_meta returns nothing: deleted, or an exception it
   swallowed.  The lane's record becomes terminal. *)
heal_missing ==
    /\ healStage = "fetch"
    /\ healJob \in Unfetchable
    /\ IF healLane = "upload" THEN record_upload_job(healJob, "failed")
       ELSE record_download_job(healJob, "failed")
    /\ HealResume(recovered)
    /\ UNCHANGED <<queueVars, mediaVars, dlVars, upVars, admVars, bootVars>>

(* Mutant: the record is trusted and the files are not looked at. *)
MutantHealUploadUnchecked ==
    /\ healStage = "fetch"
    /\ healLane = "upload"
    /\ record_upload_job(healJob, "queued_recovered")
    /\ attempt' = [attempt EXCEPT ![healJob] = 1]
    /\ ~upload_full
    /\ uq' = uq \cup {healJob}
    /\ processing' = processing \cup {UidOf[healJob]}
    /\ HealResume(recovered + 1)
    /\ UNCHANGED <<dq, retryDl, retryUl, files, known, delivered, dlVars,
                   upVars, admVars, bootVars>>

(* Upload lane with every file complete: back to the upload queue, or to the
   retry scheduler; refused by both, the job stays recorded and deferred. *)
heal_upload ==
    /\ healStage = "fetch"
    /\ healLane = "upload"
    /\ files[healJob]
    /\ record_upload_job(healJob, "queued_recovered")
    /\ attempt' = [attempt EXCEPT ![healJob] = 1]
    /\ \/ /\ healJob \in uq \/ ~upload_full
          /\ uq' = uq \cup {healJob}
          /\ processing' = processing \cup {UidOf[healJob]}
          /\ HealResume(recovered + 1)
          /\ UNCHANGED retryUl
       \/ /\ healJob \notin uq /\ upload_full
          /\ can_schedule_upload(healJob)
          /\ retryUl' = retryUl \cup {healJob}
          /\ processing' = processing \cup {UidOf[healJob]}
          /\ HealResume(recovered + 1)
          /\ UNCHANGED uq
       \/ /\ healJob \notin uq /\ upload_full
          /\ ~can_schedule_upload(healJob)
          /\ processing' = processing \ {UidOf[healJob]}
          /\ HealResume(recovered)
          /\ UNCHANGED <<uq, retryUl>>
    /\ UNCHANGED <<dq, retryDl, files, known, delivered, dlVars, upVars,
                   admVars, bootVars>>

(* Otherwise enqueue_media_job is called with the job as reservation owner. *)
heal_readmit ==
    /\ healStage = "fetch"
    /\ healLane = "upload" => ~files[healJob]
    /\ processing' = processing \cup {UidOf[healJob]}
    /\ healStage' = "filter"
    /\ UNCHANGED <<healJob, healLane, healUp, healDown, recovered, recordVars,
                   queueVars, files, attempt, known, delivered, dlVars,
                   upVars, admVars, bootVars>>

(* The filter of enqueue_media_job drops it: complete by now, or deferred. *)
heal_filter_drops ==
    /\ healStage = "filter"
    /\ filter_drops_recovered(healJob)
    /\ processing' = processing \ {UidOf[healJob]}
    /\ IF UidOf[healJob] \in known THEN SkipDuplicate(healJob, healLane)
       ELSE UNCHANGED recordVars
    /\ HealResume(recovered)
    /\ UNCHANGED <<queueVars, files, attempt, known, delivered, dlVars,
                   upVars, admVars, bootVars>>

heal_filter_passes ==
    /\ healStage = "filter"
    /\ ~filter_drops_recovered(healJob)
    /\ healStage' = "admit"
    /\ UNCHANGED <<healJob, healLane, healUp, healDown, recovered, recordVars,
                   queueVars, mediaVars, dlVars, upVars, admVars, bootVars>>

heal_retained ==
    /\ healStage = "admit"
    /\ retain_media_job_for_admission_backpressure(healJob)
    /\ HealResume(recovered + 1)
    /\ UNCHANGED <<files, processing, known, delivered, dlVars, upVars,
                   admVars, bootVars>>

heal_queued ==
    /\ healStage = "admit"
    /\ enqueue_download(healJob)
    /\ HealResume(recovered + 1)
    /\ UNCHANGED <<files, processing, known, delivered, dlVars, upVars,
                   admVars, bootVars>>

(* The pass is over; the startup loop opens the barrier when nothing pends. *)
recovery_pass_end ==
    /\ healStage = "scan"
    /\ healUp = {} /\ healDown = {}
    /\ healStage' = "idle"
    /\ healLane' = "upload"
    /\ recovered' = 0
    /\ ready' = (ready \/ persisted_recovery_pending_job_ids = {})
    /\ UNCHANGED <<healJob, healUp, healDown, crashes, recordVars, queueVars,
                   mediaVars, dlVars, upVars, admVars>>

RecoveryNext ==
    \/ recovery_pass_start
    \/ healer_pass_start
    \/ \E j \in Jobs, lane \in Lanes :
          \/ heal_complete(j, lane)
          \/ heal_deferred(j, lane)
          \/ heal_fetch(j, lane)
    \/ heal_missing
    \/ heal_upload
    \/ heal_readmit
    \/ heal_filter_drops
    \/ heal_filter_passes
    \/ heal_retained
    \/ heal_queued
    \/ recovery_pass_end
=============================================================================
