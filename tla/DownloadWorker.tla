--------------------------- MODULE DownloadWorker ---------------------------
(***************************************************************************)
(* channel_download_worker_loop: take a job, skip it if its media became   *)
(* known, download every item, record both lanes and hand the job to the   *)
(* upload queue.  Each exception handler is one action: the record, the    *)
(* request for a retry, the processing keys and the file cleanup together. *)
(***************************************************************************)
EXTENDS PipelineState

DlStages == {"idle", "taken", "fetching", "handoff"}

(* The worker's finally block: the worker is free again. *)
DlDone(w) ==
    /\ dlJob' = [dlJob EXCEPT ![w] = NoJob]
    /\ dlStage' = [dlStage EXCEPT ![w] = "idle"]

(* defer_download_cleanup: files of a failed attempt go away later, and only
   if nobody else claims them. *)
CleanedLater(j) ==
    \/ files' = [files EXCEPT ![j] = FALSE]
    \/ UNCHANGED files

DropProcessing(j) == processing' = processing \ {UidOf[j]}

(* schedule_queue_retry("download", ...) with the status written before it and
   the one that replaces it when the scheduler refuses. *)
RetryDownload(j, status, refused) ==
    \/ /\ can_schedule_download(j)
       /\ record_download_job(j, status)
       /\ retryDl' = retryDl \cup {j}
    \/ /\ ~can_schedule_download(j)
       /\ record_download_job(j, refused)
       /\ UNCHANGED retryDl

(* Mutant: a stalled job's attempt grows past the limit. *)
MutantUncappedAttempt(j) == attempt' = [attempt EXCEPT ![j] = @ + 1]

NextAttempt(j) ==
    attempt' = [attempt EXCEPT ![j] = IF @ < MAX_RETRIES THEN @ + 1 ELSE @]

FirstAttempt(j) == attempt' = [attempt EXCEPT ![j] = 1]

-----------------------------------------------------------------------------

download_take(w, j) ==
    /\ dlStage[w] = "idle"
    /\ j \in dq
    /\ dq' = dq \ {j}
    /\ dlJob' = [dlJob EXCEPT ![w] = j]
    /\ dlStage' = [dlStage EXCEPT ![w] = "taken"]
    /\ record_download_job(j, "downloading")
    /\ UNCHANGED <<uq, retryDl, retryUl, mediaVars, upVars, admVars, healVars,
                   bootVars>>

(* Every item is a known duplicate: nothing is left to download. *)
download_duplicate(w) ==
    /\ dlStage[w] = "taken"
    /\ LET j == dlJob[w]
       IN /\ UidOf[j] \in known
          /\ record_download_job(j, "skipped_duplicate")
          /\ DropProcessing(j)
          /\ CleanedLater(j)
    /\ DlDone(w)
    /\ UNCHANGED <<queueVars, attempt, known, delivered, upVars, admVars,
                   healVars, bootVars>>

download_start(w) ==
    /\ dlStage[w] = "taken"
    /\ UidOf[dlJob[w]] \notin known
    /\ dlStage' = [dlStage EXCEPT ![w] = "fetching"]
    /\ UNCHANGED <<dlJob, recordVars, queueVars, mediaVars, upVars, admVars,
                   healVars, bootVars>>

(* An item stays unavailable or is still cooling down: the whole job waits,
   with or without the scheduler's help. *)
download_deferred(w) ==
    /\ dlStage[w] \in {"taken", "fetching"}
    /\ LET j == dlJob[w]
       IN /\ RetryDownload(j, "retry_later", "retry_later")
          /\ FirstAttempt(j)
    /\ DlDone(w)
    /\ UNCHANGED <<dq, uq, retryUl, files, processing, known, delivered,
                   upVars, admVars, healVars, bootVars>>

(* Every file is complete: both lanes are recorded before the worker waits for
   local capacity. *)
download_complete(w) ==
    /\ dlStage[w] = "fetching"
    /\ LET j == dlJob[w]
       IN /\ record_both(j, "downloaded", "queued_upload")
          /\ files' = [files EXCEPT ![j] = TRUE]
    /\ dlStage' = [dlStage EXCEPT ![w] = "handoff"]
    /\ UNCHANGED <<dlJob, queueVars, attempt, processing, known, delivered,
                   upVars, admVars, healVars, bootVars>>

(* The upload descriptor starts at attempt 1, on the queue or, under pressure,
   as a retry.  If both refuse, the worker raises: download_error. *)
download_handoff(w) ==
    /\ dlStage[w] = "handoff"
    /\ LET j == dlJob[w]
       IN /\ \/ /\ ~upload_full
                /\ uq' = uq \cup {j}
                /\ UNCHANGED retryUl
             \/ /\ can_schedule_upload(j)
                /\ retryUl' = retryUl \cup {j}
                /\ UNCHANGED uq
          /\ FirstAttempt(j)
    /\ DlDone(w)
    /\ UNCHANGED <<dq, retryDl, recordVars, files, processing, known,
                   delivered, upVars, admVars, healVars, bootVars>>

-----------------------------------------------------------------------------
(* Exception handlers *)

(* cancel_stalled_worker_job cancelled the attempt, at whatever await. *)
download_stalled(w) ==
    /\ dlStage[w] # "idle"
    /\ LET j == dlJob[w]
       IN /\ NextAttempt(j)
          /\ RetryDownload(j, "retry", "retry_admission_failed")
          /\ IF can_schedule_download(j) THEN UNCHANGED files
             ELSE CleanedLater(j)
    /\ DlDone(w)
    /\ UNCHANGED <<dq, uq, retryUl, processing, known, delivered, upVars,
                   admVars, healVars, bootVars>>

(* schedule_source_job_retry_later, or "failed" when the job is not renewable
   or the scheduler refuses it. *)
RenewOrFail(j) ==
    \/ /\ j \in Renewable /\ can_schedule_download(j)
       /\ record_download_job(j, "retry_later")
       /\ retryDl' = retryDl \cup {j}
       /\ FirstAttempt(j)
       /\ UNCHANGED processing
    \/ /\ j \notin Renewable \/ ~can_schedule_download(j)
       /\ record_download_job(j, "failed")
       /\ DropProcessing(j)
       /\ UNCHANGED <<retryDl, attempt>>

(* FloodWait: a refused retry also gives the processing keys back. *)
download_flood_wait(w) ==
    /\ dlStage[w] = "fetching"
    /\ LET j == dlJob[w]
       IN /\ \/ /\ attempt[j] < MAX_RETRIES
                /\ NextAttempt(j)
                /\ RetryDownload(j, "retry", "retry_admission_failed")
                /\ IF can_schedule_download(j) THEN UNCHANGED processing
                   ELSE DropProcessing(j)
             \/ /\ attempt[j] >= MAX_RETRIES
                /\ RenewOrFail(j)
          /\ CleanedLater(j)
    /\ DlDone(w)
    /\ UNCHANGED <<dq, uq, retryUl, known, delivered, upVars, admVars,
                   healVars, bootVars>>

(* A transport error: reconnect and retry without spending an attempt. *)
download_reconnect(w) ==
    /\ dlStage[w] = "fetching"
    /\ LET j == dlJob[w]
       IN /\ RetryDownload(j, "retry", "retry_admission_failed")
          /\ CleanedLater(j)
    /\ DlDone(w)
    /\ UNCHANGED <<dq, uq, retryUl, attempt, processing, known, delivered,
                   upVars, admVars, healVars, bootVars>>

(* A deterministic dead-media error makes the uid known. *)
download_dead(w) ==
    /\ dlStage[w] = "fetching"
    /\ LET j == dlJob[w]
       IN /\ record_download_job(j, "skipped_dead_media")
          /\ known' = known \cup {UidOf[j]}
          /\ DropProcessing(j)
          /\ CleanedLater(j)
    /\ DlDone(w)
    /\ UNCHANGED <<queueVars, attempt, delivered, upVars, admVars, healVars,
                   bootVars>>

(* A channel error: the source is retired, or the job is renewed or fails. *)
download_source_error(w) ==
    /\ dlStage[w] = "fetching"
    /\ LET j == dlJob[w]
       IN /\ \/ /\ record_download_job(j, "skipped_source_retired")
                /\ DropProcessing(j)
                /\ UNCHANGED <<retryDl, attempt>>
             \/ RenewOrFail(j)
          /\ CleanedLater(j)
    /\ DlDone(w)
    /\ UNCHANGED <<dq, uq, retryUl, known, delivered, upVars, admVars,
                   healVars, bootVars>>

(* Any other exception, the refused handoff included.  A non-retryable route
   fails at once; worker offload is disabled in this build. *)
download_error(w) ==
    /\ dlStage[w] # "idle"
    /\ LET j == dlJob[w]
       IN /\ \/ /\ attempt[j] < MAX_RETRIES
                /\ NextAttempt(j)
                /\ RetryDownload(j, "retry", "retry_admission_failed")
                /\ UNCHANGED processing
             \/ /\ attempt[j] >= MAX_RETRIES
                /\ RenewOrFail(j)
             \/ /\ j \in Unroutable
                /\ record_download_job(j, "failed")
                /\ DropProcessing(j)
                /\ UNCHANGED <<retryDl, attempt>>
          /\ CleanedLater(j)
    /\ DlDone(w)
    /\ UNCHANGED <<dq, uq, retryUl, known, delivered, upVars, admVars,
                   healVars, bootVars>>

DownloadNext(w) ==
    \/ \E j \in Jobs : download_take(w, j)
    \/ download_duplicate(w)
    \/ download_start(w)
    \/ download_deferred(w)
    \/ download_complete(w)
    \/ download_handoff(w)
    \/ download_stalled(w)
    \/ download_flood_wait(w)
    \/ download_reconnect(w)
    \/ download_dead(w)
    \/ download_source_error(w)
    \/ download_error(w)
=============================================================================
