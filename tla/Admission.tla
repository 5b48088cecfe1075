----------------------------- MODULE Admission -----------------------------
(***************************************************************************)
(* Source admission: a producer (auto_monitor, source guard, startup scan, *)
(* sync, backfill) meets a message, marks it in the processing cache and   *)
(* calls enqueue_media_job, which filters duplicates, waits for local      *)
(* capacity, tries copyMessage and otherwise queues a download.            *)
(***************************************************************************)
EXTENDS PipelineState

(* The tail of enqueue_media_job that every admitted job takes, shared with
   queue recovery.  A refused retry keeps the durable record recoverable. *)

(* Cooldown, or no local capacity before the deadline: the job is recorded as
   retry_later and handed to the retry scheduler. *)
retain_media_job_for_admission_backpressure(j) ==
    /\ record_download_job(j, "retry_later")
    /\ retryDl' = IF can_schedule_download(j) THEN retryDl \cup {j} ELSE retryDl
    /\ attempt' = [attempt EXCEPT ![j] = 1]
    /\ UNCHANGED <<dq, uq, retryUl>>

(* Capacity: the job is recorded as queued and put on the download queue; a
   full queue turns it into a retry, a full scheduler into retry_later. *)
enqueue_download(j) ==
    /\ attempt' = [attempt EXCEPT ![j] = 1]
    /\ UNCHANGED <<uq, retryUl>>
    /\ \/ /\ j \in dq \/ ~download_full
          /\ record_download_job(j, "queued")
          /\ dq' = dq \cup {j}
          /\ UNCHANGED retryDl
       \/ /\ j \notin dq /\ download_full
          /\ can_schedule_download(j)
          /\ record_download_job(j, "queued")
          /\ retryDl' = retryDl \cup {j}
          /\ UNCHANGED dq
       \/ /\ j \notin dq /\ download_full
          /\ ~can_schedule_download(j)
          /\ record_download_job(j, "retry_later")
          /\ UNCHANGED <<dq, retryDl>>

(* filter_new_messages_async drops the job's media; owner-aware for recovery *)
filter_drops_new(j) == reservation_blocks_anyone(UidOf[j]) \/ UidOf[j] \in known

filter_drops_recovered(j) == reservation_blocks_owner(j) \/ UidOf[j] \in known

-----------------------------------------------------------------------------

(* check_and_mark_processing accepts a message and marks it.  It runs on the
   one-thread db executor, so check and mark are one step. *)
check_and_mark_processing(p, j) ==
    /\ admStage[p] = "idle"
    /\ p \in Gated => ready
    /\ j \in Sees[p]
    /\ ~reservation_blocks_anyone(UidOf[j])
    /\ UidOf[j] \notin processing
    /\ UidOf[j] \notin known
    /\ processing' = processing \cup {UidOf[j]}
    /\ admJob' = [admJob EXCEPT ![p] = j]
    /\ admStage' = [admStage EXCEPT ![p] = "marked"]
    /\ UNCHANGED <<recordVars, queueVars, files, attempt, known, delivered,
                   dlVars, upVars, healVars, bootVars>>

Release(p) ==
    /\ admJob' = [admJob EXCEPT ![p] = NoJob]
    /\ admStage' = [admStage EXCEPT ![p] = "idle"]

(* enqueue_media_job filters the message again and drops a duplicate. *)
enqueue_duplicate(p) ==
    /\ admStage[p] = "marked"
    /\ filter_drops_new(admJob[p])
    /\ processing' = processing \ {UidOf[admJob[p]]}
    /\ Release(p)
    /\ UNCHANGED <<recordVars, queueVars, files, attempt, known, delivered,
                   dlVars, upVars, healVars, bootVars>>

(* A message is left to send: the gate after the filter refuses only what is
   no media, and those the filter before it has taken out. *)
enqueue_filtered(p) ==
    /\ admStage[p] = "marked"
    /\ ~filter_drops_new(admJob[p])
    /\ admStage' = [admStage EXCEPT ![p] = "filtered"]
    /\ UNCHANGED <<admJob, recordVars, queueVars, mediaVars, dlVars, upVars,
                   healVars, bootVars>>

enqueue_retained(p) ==
    /\ admStage[p] = "filtered"
    /\ retain_media_job_for_admission_backpressure(admJob[p])
    /\ Release(p)
    /\ UNCHANGED <<files, processing, known, delivered, dlVars, upVars,
                   healVars, bootVars>>

(* Mutant: a copied message is not marked as posted. *)
MutantCopyNotMarked(p) ==
    /\ admStage[p] = "filtered"
    /\ delivered' = [delivered EXCEPT ![UidOf[admJob[p]]] = @ + 1]
    /\ processing' = processing \ {UidOf[admJob[p]]}
    /\ Release(p)
    /\ UNCHANGED <<recordVars, queueVars, files, attempt, known, dlVars,
                   upVars, healVars, bootVars>>

(* copyMessage succeeds: mark_posted makes the uid known and drops its
   processing key; no queue record is ever written. *)
fast_path_copied(p) ==
    /\ admStage[p] = "filtered"
    /\ delivered' = [delivered EXCEPT ![UidOf[admJob[p]]] = @ + 1]
    /\ known' = known \cup {UidOf[admJob[p]]}
    /\ processing' = processing \ {UidOf[admJob[p]]}
    /\ Release(p)
    /\ UNCHANGED <<recordVars, queueVars, files, attempt, dlVars, upVars,
                   healVars, bootVars>>

(* copyMessage times out unconfirmed: the job is recorded as a download retry.
   Here an unconfirmed copy was not delivered; Delivery.tla has both cases. *)
fast_path_ambiguous(p) ==
    /\ admStage[p] = "filtered"
    /\ LET j == admJob[p]
       IN /\ record_download_job(j, "retry")
          /\ retryDl' = IF can_schedule_download(j) THEN retryDl \cup {j}
                        ELSE retryDl
          /\ attempt' = [attempt EXCEPT ![j] = 1]
    /\ Release(p)
    /\ UNCHANGED <<dq, uq, retryUl, files, processing, known, delivered,
                   dlVars, upVars, healVars, bootVars>>

(* copyMessage is refused or not applicable: the job goes to the workers. *)
enqueue_queued(p) ==
    /\ admStage[p] = "filtered"
    /\ enqueue_download(admJob[p])
    /\ Release(p)
    /\ UNCHANGED <<files, processing, known, delivered, dlVars, upVars,
                   healVars, bootVars>>

(* The source guard, a sync and auto recovery drop the keys they take for
   stale: nothing is queued, parked or held by a worker. *)
clear_processing_cache_if_idle ==
    /\ pipeline_idle
    /\ processing # {}
    /\ processing' = {}
    /\ UNCHANGED <<recordVars, queueVars, files, attempt, known, delivered,
                   dlVars, upVars, admVars, healVars, bootVars>>

ProducerNext(p) ==
    \/ \E j \in Jobs : check_and_mark_processing(p, j)
    \/ enqueue_duplicate(p)
    \/ enqueue_filtered(p)
    \/ enqueue_retained(p)
    \/ fast_path_copied(p)
    \/ fast_path_ambiguous(p)
    \/ enqueue_queued(p)
=============================================================================
