---------------------------- MODULE UploadWorker ----------------------------
(***************************************************************************)
(* upload_worker_loop, the one ordered target publisher: confirm earlier   *)
(* deliveries of the job, skip media that became known, send the files and *)
(* record the result in both lanes.  What happens between the send and its *)
(* acknowledgement is the subject of Delivery.tla; here a send either      *)
(* delivers the media and makes it known, or fails without delivering.     *)
(***************************************************************************)
EXTENDS PipelineState

UpStages == {"idle", "taken", "sending"}

UpFree ==
    /\ upJob' = NoJob
    /\ upStage' = "idle"

(* The finally block removes the local files unless the handler kept them. *)
Cleaned(j) == files' = [files EXCEPT ![j] = FALSE]

(* Mutant: the finally block removes the files of an accepted retry too. *)
MutantRetryWithoutFiles(j) ==
    /\ Cleaned(j)
    /\ \/ /\ can_schedule_upload(j)
          /\ record_upload_job(j, "retry")
          /\ retryUl' = retryUl \cup {j}
       \/ /\ ~can_schedule_upload(j)
          /\ record_upload_job(j, "retry_admission_failed")
          /\ UNCHANGED retryUl

(* schedule_queue_retry("upload", ...): the files stay exactly when the retry
   was accepted. *)
RetryUpload(j) ==
    \/ /\ can_schedule_upload(j)
       /\ record_upload_job(j, "retry")
       /\ retryUl' = retryUl \cup {j}
       /\ UNCHANGED files
    \/ /\ ~can_schedule_upload(j)
       /\ record_upload_job(j, "retry_admission_failed")
       /\ Cleaned(j)
       /\ UNCHANGED retryUl

(* schedule_source_job_retry_later writes retry_later in the download lane even
   when the scheduler then refuses the job; the upload lane gets the terminal
   status only in that case, or when the job is not renewable. *)
RenewOrFailUpload(j, status) ==
    /\ Cleaned(j)
    /\ UNCHANGED <<dq, uq, retryUl>>
    /\ \/ /\ j \in Renewable /\ can_schedule_download(j)
          /\ record_download_job(j, "retry_later")
          /\ retryDl' = retryDl \cup {j}
          /\ attempt' = [attempt EXCEPT ![j] = 1]
          /\ UNCHANGED processing
       \/ /\ j \in Renewable /\ ~can_schedule_download(j)
          /\ record_both(j, "retry_later", status)
          /\ processing' = processing \ {UidOf[j]}
          /\ UNCHANGED <<retryDl, attempt>>
       \/ /\ j \notin Renewable
          /\ record_upload_job(j, status)
          /\ processing' = processing \ {UidOf[j]}
          /\ UNCHANGED <<retryDl, attempt>>

-----------------------------------------------------------------------------

upload_take(j) ==
    /\ upStage = "idle"
    /\ j \in uq
    /\ uq' = uq \ {j}
    /\ upJob' = j
    /\ upStage' = "taken"
    /\ UNCHANGED <<dq, retryDl, retryUl, recordVars, mediaVars, dlVars,
                   admVars, healVars, bootVars>>

(* An earlier delivery of the job is unresolved and within its grace time. *)
upload_grace ==
    /\ upStage = "taken"
    /\ RetryUpload(upJob)
    /\ UpFree
    /\ UNCHANGED <<dq, uq, retryDl, attempt, processing, known, delivered,
                   dlVars, admVars, healVars, bootVars>>

(* Record "uploading", then look the media up again. *)
upload_duplicate ==
    /\ upStage = "taken"
    /\ UidOf[upJob] \in known
    /\ record_upload_job(upJob, "skipped_duplicate")
    /\ processing' = processing \ {UidOf[upJob]}
    /\ Cleaned(upJob)
    /\ UpFree
    /\ UNCHANGED <<queueVars, attempt, known, delivered, dlVars, admVars,
                   healVars, bootVars>>

upload_start ==
    /\ upStage = "taken"
    /\ UidOf[upJob] \notin known
    /\ record_upload_job(upJob, "uploading")
    /\ upStage' = "sending"
    /\ UNCHANGED <<upJob, queueVars, mediaVars, dlVars, admVars, healVars,
                   bootVars>>

(* Mutant: the delivery is not made known before the records are closed. *)
MutantUploadNotMarked ==
    /\ upStage = "sending"
    /\ files[upJob]
    /\ delivered' = [delivered EXCEPT ![UidOf[upJob]] = @ + 1]
    /\ processing' = processing \ {UidOf[upJob]}
    /\ record_both(upJob, "uploaded", "uploaded")
    /\ Cleaned(upJob)
    /\ UpFree
    /\ UNCHANGED <<queueVars, attempt, known, dlVars, admVars, healVars,
                   bootVars>>

upload_done ==
    /\ upStage = "sending"
    /\ files[upJob]
    /\ delivered' = [delivered EXCEPT ![UidOf[upJob]] = @ + 1]
    /\ known' = known \cup {UidOf[upJob]}
    /\ processing' = processing \ {UidOf[upJob]}
    /\ record_both(upJob, "uploaded", "uploaded")
    /\ Cleaned(upJob)
    /\ UpFree
    /\ UNCHANGED <<queueVars, attempt, dlVars, admVars, healVars, bootVars>>

-----------------------------------------------------------------------------
(* Exception handlers *)

(* The stalled attempt was cancelled; the attempt counter does not move. *)
upload_stalled ==
    /\ upStage # "idle"
    /\ RetryUpload(upJob)
    /\ UpFree
    /\ UNCHANGED <<dq, uq, retryDl, attempt, processing, known, delivered,
                   dlVars, admVars, healVars, bootVars>>

(* A transport error: reconnect and retry without spending an attempt. *)
upload_reconnect ==
    /\ upStage # "idle"
    /\ RetryUpload(upJob)
    /\ UpFree
    /\ UNCHANGED <<dq, uq, retryDl, attempt, processing, known, delivered,
                   dlVars, admVars, healVars, bootVars>>

(* FloodWait: a refused retry also gives the processing keys back. *)
upload_flood_wait ==
    /\ upStage # "idle"
    /\ LET j == upJob
       IN \/ /\ attempt[j] < MAX_RETRIES
             /\ attempt' = [attempt EXCEPT ![j] = @ + 1]
             /\ RetryUpload(j)
             /\ IF can_schedule_upload(j) THEN UNCHANGED processing
                ELSE processing' = processing \ {UidOf[j]}
             /\ UNCHANGED <<dq, uq, retryDl>>
          \/ /\ attempt[j] >= MAX_RETRIES
             /\ RenewOrFailUpload(j, "failed")
    /\ UpFree
    /\ UNCHANGED <<known, delivered, dlVars, admVars, healVars, bootVars>>

(* A corrupted upload session or a rejected artifact: drop the files and ask
   for a fresh download, now ("retry") or after a cooldown ("retry_later"). *)
upload_fresh_download ==
    /\ upStage = "sending"
    /\ LET j == upJob
       IN /\ \/ /\ can_schedule_download(j)
                /\ \E status \in {"retry", "retry_later"} :
                       record_both(j, status, "retry_download")
                /\ retryDl' = retryDl \cup {j}
             \/ /\ ~can_schedule_download(j)
                /\ record_both(j, "retry_later", "retry_download")
                /\ UNCHANGED retryDl
          /\ attempt' = [attempt EXCEPT ![j] = 1]
          /\ Cleaned(j)
    /\ UpFree
    /\ UNCHANGED <<dq, uq, retryUl, processing, known, delivered, dlVars,
                   admVars, healVars, bootVars>>

(* Telegram rejects the media for good: only the upload lane is closed. *)
upload_dead ==
    /\ upStage = "sending"
    /\ record_upload_job(upJob, "skipped_dead_media")
    /\ known' = known \cup {UidOf[upJob]}
    /\ processing' = processing \ {UidOf[upJob]}
    /\ Cleaned(upJob)
    /\ UpFree
    /\ UNCHANGED <<queueVars, attempt, delivered, dlVars, admVars, healVars,
                   bootVars>>

upload_invalid ==
    /\ upStage = "sending"
    /\ RenewOrFailUpload(upJob, "failed_invalid_media")
    /\ UpFree
    /\ UNCHANGED <<known, delivered, dlVars, admVars, healVars, bootVars>>

upload_error ==
    /\ upStage # "idle"
    /\ LET j == upJob
       IN \/ /\ attempt[j] < MAX_RETRIES
             /\ attempt' = [attempt EXCEPT ![j] = @ + 1]
             /\ RetryUpload(j)
             /\ UNCHANGED <<dq, uq, retryDl, processing>>
          \/ /\ attempt[j] >= MAX_RETRIES
             /\ RenewOrFailUpload(j, "failed")
    /\ UpFree
    /\ UNCHANGED <<known, delivered, dlVars, admVars, healVars, bootVars>>

UploadNext ==
    \/ \E j \in Jobs : upload_take(j)
    \/ upload_grace
    \/ upload_duplicate
    \/ upload_start
    \/ upload_done
    \/ upload_stalled
    \/ upload_reconnect
    \/ upload_flood_wait
    \/ upload_fresh_download
    \/ upload_dead
    \/ upload_invalid
    \/ upload_error
=============================================================================
