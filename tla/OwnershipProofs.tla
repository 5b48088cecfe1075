--------------------------- MODULE OwnershipProofs --------------------------
(***************************************************************************)
(* Who owns a job of the media pipeline, and how often its media reach the *)
(* target, for any sets of jobs, media, workers and producers, any bounds  *)
(* and any number of restarts.                                             *)
(*                                                                         *)
(* Ownership (OwnInv) is put together job by job: a step touches one job,  *)
(* and what it does not touch stays owned as it was.  Single delivery      *)
(* (OnceInv) rests on it: a media is claimed by the producer that holds    *)
(* its mark or by the oldest recorded job that carries it.  What keeps     *)
(* producers apart is the subject of MarkInv, and the last part shows that *)
(* the pipeline implements JobLifecycle.                                   *)
(***************************************************************************)
EXTENDS MediaPipelineProofs

(* No two producers hold the same job.  The mark in the processing cache is
   there for it; clearing the cache while a producer holds a mark is what can
   break it. *)
JobHeldOnce ==
    \A p, q \in Producers :
        p # q /\ admJob[p] # NoJob => admJob[p] # admJob[q]

-----------------------------------------------------------------------------
(* The invariant of one job *)

OnePlace(j) ==
    /\ j \in dq => j \notin uq /\ j \notin retryDl /\ j \notin retryUl
    /\ j \in uq => j \notin retryDl /\ j \notin retryUl
    /\ j \in retryDl => j \notin retryUl
    /\ j = upJob => /\ j \notin dq /\ j \notin uq
                    /\ j \notin retryDl /\ j \notin retryUl
    /\ \A w \in DlWorkers : j = dlJob[w] =>
          /\ j \notin dq /\ j \notin uq
          /\ j \notin retryDl /\ j \notin retryUl
          /\ j # upJob
          /\ \A v \in DlWorkers : dlJob[v] = j => v = w

LiveJob(j) ==
    \/ j \in dq \/ j \in uq \/ j \in retryDl \/ j \in retryUl
    \/ j = upJob
    \/ \E w \in DlWorkers : j = dlJob[w]

Rec(j) == persisted_queue_job_is_recoverable(j)

Healing(j) == j \in healUp \/ j \in healDown \/ j = healJob

Admitting(j) == \E p \in Producers : admJob[p] = j

(* A live job is recorded; what recovery is about to handle is recorded and
   not live; what a producer admits is not recorded yet; what is uploaded or
   about to be has its files. *)
JobOwned(j) ==
    /\ OnePlace(j)
    /\ LiveJob(j) => Rec(j)
    /\ Healing(j) => Rec(j) /\ ~LiveJob(j)
    /\ j = healJob => j \notin healUp /\ j \notin healDown
    /\ Admitting(j) => ~Rec(j)
    /\ j \in uq \/ j \in retryUl \/ j = upJob => files[j]
    /\ \A w \in DlWorkers :
          dlJob[w] = j /\ dlStage[w] = "handoff" => files[j]

OwnInv == TypeOK /\ \A j \in Jobs : JobOwned(j)

(* The invariant gives the four properties of the runs. *)
LEMMA OwnershipParts ==
    ASSUME OwnInv
    PROVE  LiveOnce /\ LiveIsRecoverable /\ HealedIsNotLive /\ UploadHasFiles
<1>1. /\ dq \subseteq Jobs /\ uq \subseteq Jobs
      /\ retryDl \subseteq Jobs /\ retryUl \subseteq Jobs
      /\ upJob \in Jobs \cup {NoJob} /\ NoJob \notin Jobs
      /\ \A w \in DlWorkers : dlJob[w] \in Jobs \cup {NoJob}
      /\ healUp \subseteq Jobs /\ healDown \subseteq Jobs
      /\ healJob \in Jobs \cup {NoJob}
  BY JobsAssumption
     DEF OwnInv, TypeOK, QueuesOK, UploaderOK, DownloadersOK, RecoveryOK
<1>2. \A j \in Jobs : OnePlace(j)
  BY DEF OwnInv, JobOwned
<1>3. LiveOnce
  BY <1>1, <1>2 DEF LiveOnce, OnePlace
<1>4. \A j \in Jobs : j \in live_pipeline_job_ids <=> LiveJob(j)
  <2> TAKE j \in Jobs
  <2>1. j \in {dlJob[w] : w \in DlWorkers} <=> \E w \in DlWorkers : j = dlJob[w]
    OBVIOUS
  <2> QED
    BY <2>1 DEF live_pipeline_job_ids, active_worker_jobs, LiveJob
<1>5. LiveIsRecoverable
  BY <1>4 DEF LiveIsRecoverable, OwnInv, JobOwned, Rec, live_pipeline_job_ids
<1>6. HealedIsNotLive
  BY <1>1, <1>4 DEF HealedIsNotLive, OwnInv, JobOwned, Healing, Rec
<1>7. UploadHasFiles
  BY <1>1 DEF UploadHasFiles, OwnInv, JobOwned
<1> QED
  BY <1>3, <1>5, <1>6, <1>7

-----------------------------------------------------------------------------
(* What a step leaves alone *)

SameRecord(k) == dl'[k] = dl[k] /\ ul'[k] = ul[k]

SameQueues(k) ==
    /\ (k \in dq' <=> k \in dq) /\ (k \in uq' <=> k \in uq)
    /\ (k \in retryDl' <=> k \in retryDl)
    /\ (k \in retryUl' <=> k \in retryUl)

SameWorkers(k) ==
    /\ (upJob' = k <=> upJob = k)
    /\ \A w \in DlWorkers :
          /\ (dlJob'[w] = k <=> dlJob[w] = k)
          /\ (dlJob[w] = k => dlStage'[w] = dlStage[w])

NoNewHolder(k) ==
    /\ (k \in healUp' => k \in healUp)
    /\ (k \in healDown' => k \in healDown)
    /\ (healJob' = k => healJob = k)
    /\ \A p \in Producers : (admJob'[p] = k => admJob[p] = k)

Untouched(k) ==
    /\ SameRecord(k) /\ files'[k] = files[k] /\ SameQueues(k)
    /\ SameWorkers(k) /\ NoNewHolder(k)

(* A job that no one touches stays owned as it was. *)
LEMMA UntouchedOwned ==
    ASSUME NEW k \in Jobs, JobOwned(k), Untouched(k)
    PROVE  JobOwned(k)'
<1>1. Rec(k)' <=> Rec(k)
  BY DEF Rec, persisted_queue_job_is_recoverable, Untouched, SameRecord, Stuck
<1>2. LiveJob(k)' <=> LiveJob(k)
  BY DEF LiveJob, Untouched, SameQueues, SameWorkers
<1>3. Healing(k)' => Healing(k)
  BY DEF Healing, Untouched, NoNewHolder
<1>4. Admitting(k)' => Admitting(k)
  BY DEF Admitting, Untouched, NoNewHolder
<1>5. OnePlace(k)'
  BY DEF JobOwned, OnePlace, Untouched, SameQueues, SameWorkers
<1>6. k = healJob' => k \notin healUp' /\ k \notin healDown'
  BY DEF JobOwned, Untouched, NoNewHolder
<1>7. (k \in uq' \/ k \in retryUl' \/ k = upJob') => files'[k]
  BY DEF JobOwned, Untouched, SameQueues, SameWorkers
<1>8. \A w \in DlWorkers :
          dlJob'[w] = k /\ dlStage'[w] = "handoff" => files'[k]
  BY DEF JobOwned, Untouched, SameWorkers
<1> QED
  BY <1>1, <1>2, <1>3, <1>4, <1>5, <1>6, <1>7, <1>8 DEF JobOwned
-----------------------------------------------------------------------------
(* What the handlers' helpers do to the records and queues *)

LEMMA StuckNames ==
    /\ \A s \in {"queued", "downloading", "downloaded", "queued_upload",
                  "uploading", "retry", "retry_later", "queued_recovered"} :
          Stuck(s)
    /\ \A s \in {"none", "retry_admission_failed", "retry_download"} : ~Stuck(s)
  BY DEF Stuck, QUEUE_STUCK_STATUSES

(* Writing a record touches the record of one job. *)
LEMMA RecordEffects ==
    ASSUME RecordsOK, NEW j \in Jobs, NEW s, NEW t
    PROVE  /\ record_download_job(j, s) =>
                /\ \A k \in Jobs \ {j} : SameRecord(k)
                /\ dl'[j] = s /\ ul'[j] = ul[j]
           /\ record_upload_job(j, s) =>
                /\ \A k \in Jobs \ {j} : SameRecord(k)
                /\ dl'[j] = dl[j] /\ ul'[j] = s
           /\ record_both(j, s, t) =>
                /\ \A k \in Jobs \ {j} : SameRecord(k)
                /\ dl'[j] = s /\ ul'[j] = t
<1>1. dl \in [Jobs -> Statuses] /\ ul \in [Jobs -> Statuses]
  BY DEF RecordsOK
<1>2. ASSUME record_download_job(j, s)
      PROVE  /\ dl' = [dl EXCEPT ![j] = s] /\ ul' = ul
  BY <1>2 DEF record_download_job, Records
<1>3. ASSUME record_upload_job(j, s)
      PROVE  /\ dl' = dl /\ ul' = [ul EXCEPT ![j] = s]
  BY <1>3 DEF record_upload_job, Records
<1>4. ASSUME record_both(j, s, t)
      PROVE  /\ dl' = [dl EXCEPT ![j] = s] /\ ul' = [ul EXCEPT ![j] = t]
  BY <1>4 DEF record_both, Records
<1> QED
  BY <1>1, <1>2, <1>3, <1>4 DEF SameRecord

(* The handlers of the download worker touch the record of one job and put it
   at most into the scheduler, with a record recovery can read. *)
DownloadEffect(j) ==
    /\ \A k \in Jobs \ {j} :
          SameRecord(k) /\ (k \in retryDl' <=> k \in retryDl)
    /\ (j \in retryDl' => j \in retryDl \/ Rec(j)')

LEMMA RetryDownloadEffect ==
    ASSUME RecordsOK, NEW j \in Jobs, NEW s, NEW r, Stuck(s),
           RetryDownload(j, s, r)
    PROVE  DownloadEffect(j)
<1>1. CASE can_schedule_download(j) /\ record_download_job(j, s)
           /\ retryDl' = retryDl \cup {j}
  BY <1>1, RecordEffects
     DEF DownloadEffect, Rec, persisted_queue_job_is_recoverable, Stuck
<1>2. CASE record_download_job(j, r) /\ UNCHANGED retryDl
  BY <1>2, RecordEffects DEF DownloadEffect
<1> QED
  BY <1>1, <1>2 DEF RetryDownload

LEMMA RenewOrFailEffect ==
    ASSUME RecordsOK, NEW j \in Jobs, RenewOrFail(j)
    PROVE  DownloadEffect(j)
<1>1. CASE record_download_job(j, "retry_later")
           /\ retryDl' = retryDl \cup {j}
  BY <1>1, RecordEffects, StuckNames
     DEF DownloadEffect, Rec, persisted_queue_job_is_recoverable, Stuck
<1>2. CASE record_download_job(j, "failed") /\ UNCHANGED retryDl
  BY <1>2, RecordEffects DEF DownloadEffect
<1> QED
  BY <1>1, <1>2 DEF RenewOrFail

(* The same of the upload worker, with the files of a retry it scheduled. *)
UploadEffect(j) ==
    /\ \A k \in Jobs \ {j} :
          /\ SameRecord(k) /\ files'[k] = files[k]
          /\ (k \in retryDl' <=> k \in retryDl)
          /\ (k \in retryUl' <=> k \in retryUl)
    /\ (j \in retryDl' => j \in retryDl \/ Rec(j)')
    /\ (j \in retryUl' =>
          j \in retryUl \/ (Rec(j)' /\ files'[j] = files[j]))
    /\ retryDl' = retryDl \/ retryUl' = retryUl

LEMMA RetryUploadEffect ==
    ASSUME RecordsOK, FilesOK, NEW j \in Jobs, RetryUpload(j),
           UNCHANGED retryDl
    PROVE  UploadEffect(j)
<1>1. CASE record_upload_job(j, "retry") /\ UNCHANGED files
           /\ retryUl' = retryUl \cup {j}
  BY <1>1, RecordEffects, StuckNames
     DEF UploadEffect, Rec, persisted_queue_job_is_recoverable, Stuck
<1>2. CASE record_upload_job(j, "retry_admission_failed") /\ Cleaned(j)
           /\ UNCHANGED retryUl
  BY <1>2, RecordEffects DEF UploadEffect, Cleaned, FilesOK
<1> QED
  BY <1>1, <1>2 DEF RetryUpload

LEMMA RenewOrFailUploadEffect ==
    ASSUME RecordsOK, FilesOK, NEW j \in Jobs, NEW s, RenewOrFailUpload(j, s)
    PROVE  UploadEffect(j) /\ dq' = dq /\ uq' = uq
<1>1. /\ Cleaned(j) /\ dq' = dq /\ uq' = uq /\ retryUl' = retryUl
      /\ \A k \in Jobs \ {j} : files'[k] = files[k]
  BY DEF RenewOrFailUpload, Cleaned, FilesOK
<1>2. CASE record_download_job(j, "retry_later")
           /\ retryDl' = retryDl \cup {j}
  BY <1>1, <1>2, RecordEffects, StuckNames
     DEF UploadEffect, Rec, persisted_queue_job_is_recoverable, Stuck
<1>3. CASE record_both(j, "retry_later", s) /\ UNCHANGED retryDl
  BY <1>1, <1>3, RecordEffects DEF UploadEffect
<1>4. CASE record_upload_job(j, s) /\ UNCHANGED retryDl
  BY <1>1, <1>4, RecordEffects DEF UploadEffect
<1> QED
  BY <1>1, <1>2, <1>3, <1>4 DEF RenewOrFailUpload

(* Admission, by a producer or by recovery, records the job before it puts it
   anywhere, and puts it in one place. *)
AdmitEffect(j) ==
    /\ \A k \in Jobs \ {j} : SameRecord(k) /\ SameQueues(k)
    /\ Rec(j)'
    /\ uq' = uq /\ retryUl' = retryUl
    /\ dq' = dq \/ (retryDl' = retryDl /\ dq' = dq \cup {j})

LEMMA RetainEffect ==
    ASSUME RecordsOK, NEW j \in Jobs,
           retain_media_job_for_admission_backpressure(j)
    PROVE  AdmitEffect(j)
  BY RecordEffects, StuckNames
     DEF AdmitEffect, retain_media_job_for_admission_backpressure, Rec,
         persisted_queue_job_is_recoverable, SameQueues

LEMMA EnqueueEffect ==
    ASSUME RecordsOK, NEW j \in Jobs, enqueue_download(j)
    PROVE  AdmitEffect(j)
<1>1. uq' = uq /\ retryUl' = retryUl
  BY DEF enqueue_download
<1>2. CASE record_download_job(j, "queued") /\ dq' = dq \cup {j}
           /\ UNCHANGED retryDl
  BY <1>1, <1>2, RecordEffects, StuckNames
     DEF AdmitEffect, Rec, persisted_queue_job_is_recoverable, SameQueues
<1>3. CASE record_download_job(j, "queued") /\ retryDl' = retryDl \cup {j}
           /\ UNCHANGED dq
  BY <1>1, <1>3, RecordEffects, StuckNames
     DEF AdmitEffect, Rec, persisted_queue_job_is_recoverable, SameQueues
<1>4. CASE record_download_job(j, "retry_later") /\ UNCHANGED <<dq, retryDl>>
  BY <1>1, <1>4, RecordEffects, StuckNames
     DEF AdmitEffect, Rec, persisted_queue_job_is_recoverable, SameQueues
<1> QED
  BY <1>2, <1>3, <1>4 DEF enqueue_download

-----------------------------------------------------------------------------
(* How a job stays owned *)

(* A job that is nowhere is owned, whatever its record. *)
LEMMA FreeOwned ==
    ASSUME NEW j \in Jobs, ~LiveJob(j)', ~Healing(j)', ~Admitting(j)'
    PROVE  JobOwned(j)'
  BY DEF JobOwned, OnePlace, LiveJob, Healing

(* A recorded job in the hands of nobody but a queue or a worker is owned when
   it is in one place and, where needed, has its files. *)
LEMMA PlacedOwned ==
    ASSUME NEW j \in Jobs, OnePlace(j)', LiveJob(j)' => Rec(j)',
           ~Healing(j)', ~Admitting(j)',
           j \in uq' \/ j \in retryUl' \/ j = upJob' => files'[j],
           \A w \in DlWorkers :
               dlJob'[w] = j /\ dlStage'[w] = "handoff" => files'[j]
    PROVE  JobOwned(j)'
  BY DEF JobOwned, Healing

(* A job that is live is in the hands of no producer and of no recovery. *)
LEMMA LiveAlone ==
    ASSUME OwnInv, NEW j \in Jobs, LiveJob(j)
    PROVE  Rec(j) /\ ~Healing(j) /\ ~Admitting(j) /\ OnePlace(j)
  BY DEF OwnInv, JobOwned

(* A job of the healer is not live and no producer holds it. *)
LEMMA HealedAlone ==
    ASSUME OwnInv, NEW j \in Jobs, Healing(j)
    PROVE  Rec(j) /\ ~LiveJob(j) /\ ~Admitting(j)
  BY DEF OwnInv, JobOwned

(* A job that a producer holds is nowhere else. *)
LEMMA AdmittedAlone ==
    ASSUME OwnInv, NEW j \in Jobs, Admitting(j)
    PROVE  ~Rec(j) /\ ~LiveJob(j) /\ ~Healing(j)
  BY DEF OwnInv, JobOwned

-----------------------------------------------------------------------------
(* Download workers *)

(* A worker that leaves its job leaves it in the scheduler, with a record that
   recovery reads, or nowhere. *)
LEMMA DownloadLeaves ==
    ASSUME OwnInv, NEW w \in DlWorkers, NEW j \in Jobs, dlJob[w] = j,
           DlDone(w), DownloadEffect(j),
           UNCHANGED <<dq, uq, retryUl, upVars, admVars, healVars>>,
           \A k \in Jobs \ {j} : files'[k] = files[k]
    PROVE  \A k \in Jobs : JobOwned(k)'
<1>1. j # NoJob
  BY JobsAssumption
<1>2. LiveJob(j)
  BY DEF LiveJob
<1>3. ~Healing(j) /\ ~Admitting(j) /\ OnePlace(j)
  BY <1>2, LiveAlone
<1>4. /\ j \notin dq /\ j \notin uq /\ j \notin retryDl /\ j \notin retryUl
      /\ j # upJob
      /\ \A v \in DlWorkers \ {w} : dlJob[v] # j
  BY <1>3 DEF OnePlace
<1>5. /\ dlJob' = [dlJob EXCEPT ![w] = NoJob]
      /\ dlStage' = [dlStage EXCEPT ![w] = "idle"]
      /\ dlJob \in [DlWorkers -> Jobs \cup {NoJob}]
      /\ dlStage \in [DlWorkers -> DlStages]
  BY DEF DlDone, OwnInv, TypeOK, DownloadersOK
<1>6. /\ dlJob'[w] = NoJob
      /\ \A v \in DlWorkers \ {w} : /\ dlJob'[v] = dlJob[v]
                                    /\ dlStage'[v] = dlStage[v]
  BY <1>5
<1>7. ASSUME NEW k \in Jobs, k # j
      PROVE  JobOwned(k)'
  <2>1. k # NoJob
    BY JobsAssumption
  <2>2. SameRecord(k) /\ SameQueues(k)
    BY <1>7 DEF DownloadEffect, SameQueues
  <2>3. SameWorkers(k)
    <3>1. \A v \in DlWorkers : /\ (dlJob'[v] = k <=> dlJob[v] = k)
                               /\ (dlJob[v] = k => dlStage'[v] = dlStage[v])
      BY <1>6, <1>7, <2>1
    <3> QED
      BY <3>1 DEF SameWorkers, upVars
  <2>4. NoNewHolder(k)
    BY DEF NoNewHolder, admVars, healVars
  <2> QED
    BY <1>7, <2>2, <2>3, <2>4, UntouchedOwned DEF Untouched, OwnInv
<1>8. JobOwned(j)'
  <2>1. ~Healing(j)' /\ ~Admitting(j)'
    BY <1>3 DEF Healing, Admitting, admVars, healVars
  <2>2. \A v \in DlWorkers : dlJob'[v] # j
    BY <1>1, <1>4, <1>6
  <2>3. OnePlace(j)'
    BY <1>4, <2>2 DEF OnePlace, upVars
  <2>4. LiveJob(j)' => Rec(j)'
    BY <1>4, <2>2 DEF LiveJob, DownloadEffect, upVars
  <2> QED
    BY <1>1, <1>4, <2>1, <2>2, <2>3, <2>4, PlacedOwned DEF upVars
<1> QED
  BY <1>7, <1>8

(* A handler that only closes the record of its job leaves it nowhere. *)
LEMMA ClosedDownload ==
    ASSUME RecordsOK, NEW j \in Jobs, NEW s, record_download_job(j, s),
           UNCHANGED retryDl
    PROVE  DownloadEffect(j)
  BY RecordEffects DEF DownloadEffect

LEMMA CleanedLaterKeeps ==
    ASSUME FilesOK, NEW j, CleanedLater(j)
    PROVE  \A k \in Jobs \ {j} : files'[k] = files[k]
  BY DEF CleanedLater, FilesOK

(* What a handler of the download worker that gives its job up does. *)
GivenUp(w, j) ==
    /\ DlDone(w)
    /\ DownloadEffect(j)
    /\ UNCHANGED <<dq, uq, retryUl, upVars, admVars, healVars>>
    /\ \A k \in Jobs \ {j} : files'[k] = files[k]

LEMMA DownloadHandlers ==
    ASSUME TypeOK, NEW w \in DlWorkers, NEW j \in Jobs, dlJob[w] = j,
           \/ download_duplicate(w) \/ download_deferred(w)
           \/ download_stalled(w) \/ download_flood_wait(w)
           \/ download_reconnect(w) \/ download_dead(w)
           \/ download_source_error(w) \/ download_error(w)
    PROVE  GivenUp(w, j)
<1>1. RecordsOK /\ FilesOK
  BY MediaParts DEF TypeOK
<1>2. CASE download_duplicate(w)
  BY <1>1, <1>2, ClosedDownload, CleanedLaterKeeps
     DEF GivenUp, download_duplicate, queueVars
<1>3. CASE download_deferred(w)
  BY <1>1, <1>3, RetryDownloadEffect, StuckNames DEF GivenUp, download_deferred
<1>4. CASE download_stalled(w)
  <2>1. \A k \in Jobs \ {j} : files'[k] = files[k]
    BY <1>1, <1>4, CleanedLaterKeeps DEF download_stalled
  <2> QED
    BY <1>1, <1>4, <2>1, RetryDownloadEffect, StuckNames
       DEF GivenUp, download_stalled
<1>5. CASE download_flood_wait(w)
  <2>1. DownloadEffect(j)
    BY <1>1, <1>5, RetryDownloadEffect, RenewOrFailEffect, StuckNames
       DEF download_flood_wait
  <2> QED
    BY <1>1, <1>5, <2>1, CleanedLaterKeeps DEF GivenUp, download_flood_wait
<1>6. CASE download_reconnect(w)
  BY <1>1, <1>6, RetryDownloadEffect, StuckNames, CleanedLaterKeeps
     DEF GivenUp, download_reconnect
<1>7. CASE download_dead(w)
  BY <1>1, <1>7, ClosedDownload, CleanedLaterKeeps
     DEF GivenUp, download_dead, queueVars
<1>8. CASE download_source_error(w)
  <2>1. DownloadEffect(j)
    BY <1>1, <1>8, ClosedDownload, RenewOrFailEffect
       DEF download_source_error
  <2> QED
    BY <1>1, <1>8, <2>1, CleanedLaterKeeps DEF GivenUp, download_source_error
<1>9. CASE download_error(w)
  <2>1. DownloadEffect(j)
    BY <1>1, <1>9, ClosedDownload, RetryDownloadEffect, RenewOrFailEffect,
       StuckNames
       DEF download_error
  <2> QED
    BY <1>1, <1>9, <2>1, CleanedLaterKeeps DEF GivenUp, download_error
<1> QED
  BY <1>2, <1>3, <1>4, <1>5, <1>6, <1>7, <1>8, <1>9

(* A worker takes a job from the queue, and records it before it goes on. *)
LEMMA TakeOwned ==
    ASSUME OwnInv, NEW w \in DlWorkers, NEW j \in Jobs, download_take(w, j)
    PROVE  \A k \in Jobs : JobOwned(k)'
<1>1. LiveJob(j) /\ j \in dq /\ j # NoJob /\ dlJob[w] = NoJob
  BY JobsAssumption
     DEF LiveJob, download_take, OwnInv, TypeOK, DownloadersOK
<1>2. Rec(j) /\ ~Healing(j) /\ ~Admitting(j) /\ OnePlace(j)
  BY <1>1, LiveAlone
<1>3. /\ j \notin uq /\ j \notin retryDl /\ j \notin retryUl /\ j # upJob
      /\ \A v \in DlWorkers : dlJob[v] # j
  BY <1>1, <1>2 DEF OnePlace
<1>4. /\ dlJob'[w] = j /\ dlStage'[w] = "taken"
      /\ \A v \in DlWorkers \ {w} :
            dlJob'[v] = dlJob[v] /\ dlStage'[v] = dlStage[v]
  BY DEF download_take, OwnInv, TypeOK, DownloadersOK
<1>5. /\ dq' = dq \ {j}
      /\ UNCHANGED <<uq, retryDl, retryUl, files, upVars, admVars, healVars>>
      /\ \A k \in Jobs \ {j} : SameRecord(k)
      /\ dl'[j] = "downloading"
  BY RecordEffects DEF download_take, mediaVars, OwnInv, TypeOK
<1>6. ASSUME NEW k \in Jobs, k # j
      PROVE  JobOwned(k)'
  <2>1. k # NoJob
    BY JobsAssumption
  <2>2. SameRecord(k) /\ SameQueues(k) /\ files'[k] = files[k]
    BY <1>5, <1>6 DEF SameQueues
  <2>3. SameWorkers(k)
    <3>1. \A v \in DlWorkers : /\ (dlJob'[v] = k <=> dlJob[v] = k)
                               /\ (dlJob[v] = k => dlStage'[v] = dlStage[v])
      BY <1>1, <1>4, <1>6, <2>1
    <3> QED
      BY <1>5, <3>1 DEF SameWorkers, upVars
  <2>4. NoNewHolder(k)
    BY <1>5 DEF NoNewHolder, admVars, healVars
  <2> QED
    BY <2>2, <2>3, <2>4, UntouchedOwned DEF Untouched, OwnInv
<1>7. JobOwned(j)'
  <2>1. ~Healing(j)' /\ ~Admitting(j)'
    BY <1>2, <1>5 DEF Healing, Admitting, admVars, healVars
  <2>2. Rec(j)'
    BY <1>5, StuckNames DEF Rec, persisted_queue_job_is_recoverable, Stuck
  <2>3. OnePlace(j)'
    BY <1>3, <1>4, <1>5 DEF OnePlace, upVars
  <2>4. \A v \in DlWorkers : dlJob'[v] = j => dlStage'[v] # "handoff"
    BY <1>3, <1>4
  <2> QED
    BY <1>3, <1>5, <2>1, <2>2, <2>3, <2>4, PlacedOwned DEF upVars
<1> QED
  BY <1>6, <1>7

(* Moving on to the next stage of the download changes nobody's place. *)
LEMMA StartOwned ==
    ASSUME OwnInv, NEW w \in DlWorkers, download_start(w)
    PROVE  \A k \in Jobs : JobOwned(k)'
<1>1. PICK j \in Jobs : dlJob[w] = j
  BY DlBusy DEF download_start, OwnInv, TypeOK
<1>2. /\ dlJob' = dlJob /\ dlStage'[w] = "fetching"
      /\ \A v \in DlWorkers \ {w} : dlStage'[v] = dlStage[v]
  BY DEF download_start, OwnInv, TypeOK, DownloadersOK
<1>3. /\ UNCHANGED <<dl, ul, dq, uq, retryDl, retryUl, files, upVars, admVars,
                     healVars>>
  BY DEF download_start, recordVars, queueVars, mediaVars
<1>4. \A k \in Jobs : Rec(k)' <=> Rec(k)
  BY <1>3 DEF Rec, persisted_queue_job_is_recoverable, Stuck
<1>5. \A k \in Jobs : OnePlace(k)' /\ (LiveJob(k)' => Rec(k)')
  BY <1>2, <1>3, <1>4 DEF OwnInv, JobOwned, OnePlace, LiveJob, upVars
<1>6. \A k \in Jobs : /\ Healing(k)' => Rec(k)' /\ ~LiveJob(k)'
                      /\ Admitting(k)' => ~Rec(k)'
  BY <1>2, <1>3, <1>4
     DEF OwnInv, JobOwned, Healing, LiveJob, Admitting, upVars, admVars,
         healVars
<1>7. \A k \in Jobs, v \in DlWorkers :
          dlJob'[v] = k /\ dlStage'[v] = "handoff" => files'[k]
  BY <1>2, <1>3 DEF OwnInv, JobOwned
<1>8. \A k \in Jobs :
          /\ k = healJob' => k \notin healUp' /\ k \notin healDown'
          /\ k \in uq' \/ k \in retryUl' \/ k = upJob' => files'[k]
  BY <1>3 DEF OwnInv, JobOwned, upVars, healVars
<1> QED
  BY <1>5, <1>6, <1>7, <1>8 DEF JobOwned

(* The files are complete and both lanes recorded while the worker still holds
   the job. *)
LEMMA CompleteOwned ==
    ASSUME OwnInv, NEW w \in DlWorkers, download_complete(w)
    PROVE  \A k \in Jobs : JobOwned(k)'
<1>1. PICK j \in Jobs : dlJob[w] = j
  BY DlBusy DEF download_complete, OwnInv, TypeOK
<1>2. /\ dlJob' = dlJob
      /\ \A v \in DlWorkers \ {w} : dlStage'[v] = dlStage[v]
  BY DEF download_complete, OwnInv, TypeOK, DownloadersOK
<1>3. UNCHANGED <<dq, uq, retryDl, retryUl, upVars, admVars, healVars>>
  BY DEF download_complete, queueVars
<1>4. /\ \A k \in Jobs \ {j} : SameRecord(k) /\ files'[k] = files[k]
      /\ dl'[j] = "downloaded" /\ files'[j]
  BY <1>1, RecordEffects
     DEF download_complete, OwnInv, TypeOK, MediaOK
<1>5. LiveJob(j) /\ Rec(j) /\ ~Healing(j) /\ ~Admitting(j) /\ OnePlace(j)
  BY <1>1, LiveAlone DEF LiveJob
<1>6. ASSUME NEW k \in Jobs, k # j
      PROVE  JobOwned(k)'
  <2>1. SameWorkers(k)
    BY <1>1, <1>2, <1>3, <1>6 DEF SameWorkers, upVars
  <2>2. SameQueues(k) /\ NoNewHolder(k)
    BY <1>3 DEF SameQueues, NoNewHolder, admVars, healVars
  <2> QED
    BY <1>4, <1>6, <2>1, <2>2, UntouchedOwned DEF Untouched, OwnInv
<1>7. JobOwned(j)'
  <2>1. ~Healing(j)' /\ ~Admitting(j)'
    BY <1>3, <1>5 DEF Healing, Admitting, admVars, healVars
  <2>2. Rec(j)'
    BY <1>4, StuckNames DEF Rec, persisted_queue_job_is_recoverable, Stuck
  <2>3. OnePlace(j)'
    BY <1>2, <1>3, <1>5 DEF OnePlace, upVars
  <2> QED
    BY <1>4, <2>1, <2>2, <2>3, PlacedOwned
<1> QED
  BY <1>6, <1>7

(* The handoff moves the job to the upload lane, files included. *)
LEMMA HandoffOwned ==
    ASSUME OwnInv, NEW w \in DlWorkers, download_handoff(w)
    PROVE  \A k \in Jobs : JobOwned(k)'
<1>1. PICK j \in Jobs : dlJob[w] = j
  BY DlBusy DEF download_handoff, OwnInv, TypeOK
<1>2. LiveJob(j) /\ Rec(j) /\ ~Healing(j) /\ ~Admitting(j) /\ OnePlace(j)
  BY <1>1, LiveAlone DEF LiveJob
<1>3. files[j]
  BY <1>1 DEF download_handoff, OwnInv, JobOwned
<1>4. /\ j \notin dq /\ j \notin uq /\ j \notin retryDl /\ j \notin retryUl
      /\ j # upJob /\ j # NoJob
      /\ \A v \in DlWorkers \ {w} : dlJob[v] # j
  BY <1>1, <1>2, JobsAssumption DEF OnePlace
<1>5. /\ dlJob'[w] = NoJob
      /\ \A v \in DlWorkers \ {w} : /\ dlJob'[v] = dlJob[v]
                                    /\ dlStage'[v] = dlStage[v]
  BY DEF download_handoff, DlDone, OwnInv, TypeOK, DownloadersOK
<1>6. UNCHANGED <<dl, ul, dq, retryDl, files, upVars, admVars, healVars>>
  BY DEF download_handoff, recordVars
<1>7. \/ uq' = uq \cup {j} /\ retryUl' = retryUl
      \/ uq' = uq /\ retryUl' = retryUl \cup {j}
  BY <1>1 DEF download_handoff
<1>8. ASSUME NEW k \in Jobs, k # j
      PROVE  JobOwned(k)'
  <2>1. k # NoJob
    BY JobsAssumption
  <2>2. SameRecord(k) /\ SameQueues(k) /\ files'[k] = files[k]
    BY <1>6, <1>7, <1>8 DEF SameQueues, SameRecord
  <2>3. SameWorkers(k)
    <3>1. \A v \in DlWorkers : /\ (dlJob'[v] = k <=> dlJob[v] = k)
                               /\ (dlJob[v] = k => dlStage'[v] = dlStage[v])
      BY <1>1, <1>5, <1>8, <2>1
    <3> QED
      BY <1>6, <3>1 DEF SameWorkers, upVars
  <2>4. NoNewHolder(k)
    BY <1>6 DEF NoNewHolder, admVars, healVars
  <2> QED
    BY <2>2, <2>3, <2>4, UntouchedOwned DEF Untouched, OwnInv
<1>9. JobOwned(j)'
  <2>1. ~Healing(j)' /\ ~Admitting(j)'
    BY <1>2, <1>6 DEF Healing, Admitting, admVars, healVars
  <2>2. Rec(j)'
    BY <1>2, <1>6 DEF Rec, persisted_queue_job_is_recoverable, Stuck
  <2>3. \A v \in DlWorkers : dlJob'[v] # j
    BY <1>4, <1>5
  <2>4. OnePlace(j)'
    BY <1>4, <1>6, <1>7, <2>3 DEF OnePlace, upVars
  <2> QED
    BY <1>3, <1>6, <2>1, <2>2, <2>3, <2>4, PlacedOwned
<1> QED
  BY <1>8, <1>9

(* Every step of a download worker keeps every job owned. *)
LEMMA DownloadOwned ==
    ASSUME OwnInv, NEW w \in DlWorkers, DownloadNext(w)
    PROVE  \A k \in Jobs : JobOwned(k)'
<1>1. CASE \E j \in Jobs : download_take(w, j)
  BY <1>1, TakeOwned
<1>2. CASE download_start(w) \/ download_complete(w) \/ download_handoff(w)
  BY <1>2, StartOwned, CompleteOwned, HandoffOwned
<1>3. CASE \/ download_duplicate(w) \/ download_deferred(w)
           \/ download_stalled(w) \/ download_flood_wait(w)
           \/ download_reconnect(w) \/ download_dead(w)
           \/ download_source_error(w) \/ download_error(w)
  <2>1. dlStage[w] # "idle"
    BY <1>3
       DEF download_duplicate, download_deferred, download_stalled,
           download_flood_wait, download_reconnect, download_dead,
           download_source_error, download_error
  <2>2. PICK j \in Jobs : dlJob[w] = j
    BY <2>1, DlBusy DEF OwnInv, TypeOK
  <2>3. GivenUp(w, j)
    BY <1>3, <2>2, DownloadHandlers DEF OwnInv
  <2> QED
    BY <2>2, <2>3, DownloadLeaves DEF GivenUp
<1> QED
  BY <1>1, <1>2, <1>3 DEF DownloadNext

-----------------------------------------------------------------------------
(* Upload worker *)

(* A worker that leaves its job leaves it in one lane of the scheduler, in the
   upload lane with its files, or nowhere. *)
LEMMA UploadLeaves ==
    ASSUME OwnInv, NEW j \in Jobs, upJob = j, UpFree, UploadEffect(j),
           UNCHANGED <<dq, uq, dlVars, admVars, healVars>>
    PROVE  \A k \in Jobs : JobOwned(k)'
<1>1. LiveJob(j) /\ j # NoJob
  BY JobsAssumption DEF LiveJob
<1>2. ~Healing(j) /\ ~Admitting(j) /\ OnePlace(j) /\ files[j]
  BY <1>1, LiveAlone DEF OwnInv, JobOwned
<1>3. /\ j \notin dq /\ j \notin uq /\ j \notin retryDl /\ j \notin retryUl
      /\ \A v \in DlWorkers : dlJob[v] # j
  BY <1>2 DEF OnePlace
<1>4. upJob' = NoJob
  BY DEF UpFree
<1>5. ASSUME NEW k \in Jobs, k # j
      PROVE  JobOwned(k)'
  <2>1. k # NoJob
    BY JobsAssumption
  <2>2. SameRecord(k) /\ SameQueues(k) /\ files'[k] = files[k]
    BY <1>5 DEF UploadEffect, SameQueues
  <2>3. SameWorkers(k)
    BY <1>4, <1>5, <2>1 DEF SameWorkers, dlVars
  <2>4. NoNewHolder(k)
    BY DEF NoNewHolder, admVars, healVars
  <2> QED
    BY <2>2, <2>3, <2>4, UntouchedOwned DEF Untouched, OwnInv
<1>6. JobOwned(j)'
  <2>1. ~Healing(j)' /\ ~Admitting(j)'
    BY <1>2 DEF Healing, Admitting, admVars, healVars
  <2>2. \A v \in DlWorkers : dlJob'[v] # j
    BY <1>3 DEF dlVars
  <2>3. OnePlace(j)'
    BY <1>1, <1>3, <1>4, <2>2 DEF OnePlace, UploadEffect
  <2>4. LiveJob(j)' => Rec(j)'
    BY <1>1, <1>3, <1>4, <2>2 DEF LiveJob, UploadEffect
  <2>5. j \in uq' \/ j \in retryUl' \/ j = upJob' => files'[j]
    BY <1>1, <1>2, <1>3, <1>4 DEF UploadEffect
  <2> QED
    BY <2>1, <2>2, <2>3, <2>4, <2>5, PlacedOwned
<1> QED
  BY <1>5, <1>6

(* What a handler of the upload worker that gives its job up does. *)
UploadGivenUp(j) ==
    /\ UpFree
    /\ UploadEffect(j)
    /\ UNCHANGED <<dq, uq, dlVars, admVars, healVars>>

(* A handler that closes the records and removes the files. *)
LEMMA ClosedUpload ==
    ASSUME RecordsOK, FilesOK, NEW j \in Jobs, NEW s,
           \/ record_upload_job(j, s)
           \/ record_both(j, s, s),
           Cleaned(j), UNCHANGED queueVars
    PROVE  UploadEffect(j) /\ UNCHANGED <<dq, uq>>
<1>1. \A k \in Jobs \ {j} : SameRecord(k)
  BY RecordEffects
<1>2. \A k \in Jobs \ {j} : files'[k] = files[k]
  BY DEF Cleaned, FilesOK
<1> QED
  BY <1>1, <1>2 DEF UploadEffect, queueVars

(* A fresh download is asked of the scheduler, or left to recovery. *)
LEMMA FreshDownload ==
    ASSUME RecordsOK, FilesOK, NEW j \in Jobs, upJob = j, upload_fresh_download
    PROVE  UploadEffect(j)
<1>1. \A k \in Jobs \ {j} : files'[k] = files[k]
  BY DEF upload_fresh_download, Cleaned, FilesOK
<1>2. retryUl' = retryUl
  BY DEF upload_fresh_download
<1>3. \E s \in {"retry", "retry_later"} :
          record_both(j, s, "retry_download")
  BY DEF upload_fresh_download
<1>4. PICK s \in {"retry", "retry_later"} : record_both(j, s, "retry_download")
  BY <1>3
<1>5. (\A k \in Jobs \ {j} : SameRecord(k)) /\ dl'[j] = s
  BY <1>4, RecordEffects
<1>6. Rec(j)'
  BY <1>5, StuckNames DEF Rec, persisted_queue_job_is_recoverable, Stuck
<1>7. retryDl' = retryDl \/ retryDl' = retryDl \cup {j}
  BY DEF upload_fresh_download
<1> QED
  BY <1>1, <1>2, <1>5, <1>6, <1>7 DEF UploadEffect

LEMMA UploadHandlers ==
    ASSUME TypeOK, NEW j \in Jobs, upJob = j,
           \/ upload_grace \/ upload_duplicate \/ upload_done
           \/ upload_stalled \/ upload_reconnect \/ upload_flood_wait
           \/ upload_fresh_download \/ upload_dead \/ upload_invalid
           \/ upload_error
    PROVE  UploadGivenUp(j)
<1>1. RecordsOK /\ FilesOK
  BY MediaParts DEF TypeOK
<1>2. CASE upload_grace \/ upload_stalled \/ upload_reconnect
  <2>1. UploadEffect(j)
    BY <1>1, <1>2, RetryUploadEffect
       DEF upload_grace, upload_stalled, upload_reconnect
  <2> QED
    BY <1>2, <2>1
       DEF UploadGivenUp, upload_grace, upload_stalled, upload_reconnect
<1>3. CASE upload_duplicate
  BY <1>1, <1>3, ClosedUpload DEF UploadGivenUp, upload_duplicate
<1>4. CASE upload_done
  BY <1>1, <1>4, ClosedUpload DEF UploadGivenUp, upload_done
<1>5. CASE upload_dead
  BY <1>1, <1>5, ClosedUpload DEF UploadGivenUp, upload_dead
<1>6. CASE upload_fresh_download
  BY <1>1, <1>6, FreshDownload DEF UploadGivenUp, upload_fresh_download
<1>7. CASE upload_invalid
  BY <1>1, <1>7, RenewOrFailUploadEffect DEF UploadGivenUp, upload_invalid
<1>8. CASE upload_flood_wait
  <2>1. UploadEffect(j) /\ dq' = dq /\ uq' = uq
    BY <1>1, <1>8, RetryUploadEffect, RenewOrFailUploadEffect
       DEF upload_flood_wait
  <2> QED
    BY <1>8, <2>1 DEF UploadGivenUp, upload_flood_wait
<1>9. CASE upload_error
  <2>1. UploadEffect(j) /\ dq' = dq /\ uq' = uq
    BY <1>1, <1>9, RetryUploadEffect, RenewOrFailUploadEffect
       DEF upload_error
  <2> QED
    BY <1>9, <2>1 DEF UploadGivenUp, upload_error
<1> QED
  BY <1>2, <1>3, <1>4, <1>5, <1>6, <1>7, <1>8, <1>9

(* The worker takes a job out of the upload queue. *)
LEMMA UploadTakeOwned ==
    ASSUME OwnInv, NEW j \in Jobs, upload_take(j)
    PROVE  \A k \in Jobs : JobOwned(k)'
<1>1. j \in uq /\ LiveJob(j) /\ upJob = NoJob /\ j # NoJob
  BY JobsAssumption DEF LiveJob, upload_take, OwnInv, TypeOK, UploaderOK
<1>2. Rec(j) /\ ~Healing(j) /\ ~Admitting(j) /\ OnePlace(j) /\ files[j]
  BY <1>1, LiveAlone DEF OwnInv, JobOwned
<1>3. /\ j \notin dq /\ j \notin retryDl /\ j \notin retryUl
      /\ \A v \in DlWorkers : dlJob[v] # j
  BY <1>1, <1>2 DEF OnePlace
<1>4. /\ uq' = uq \ {j} /\ upJob' = j
      /\ UNCHANGED <<dq, retryDl, retryUl, dl, ul, files, dlVars, admVars,
                     healVars>>
  BY DEF upload_take, recordVars, mediaVars
<1>5. ASSUME NEW k \in Jobs, k # j
      PROVE  JobOwned(k)'
  <2>1. k # NoJob
    BY JobsAssumption
  <2>2. SameRecord(k) /\ SameQueues(k) /\ files'[k] = files[k]
    BY <1>4, <1>5 DEF SameQueues, SameRecord
  <2>3. SameWorkers(k)
    BY <1>1, <1>4, <1>5, <2>1 DEF SameWorkers, dlVars
  <2>4. NoNewHolder(k)
    BY <1>4 DEF NoNewHolder, admVars, healVars
  <2> QED
    BY <2>2, <2>3, <2>4, UntouchedOwned DEF Untouched, OwnInv
<1>6. JobOwned(j)'
  <2>1. ~Healing(j)' /\ ~Admitting(j)'
    BY <1>2, <1>4 DEF Healing, Admitting, admVars, healVars
  <2>2. Rec(j)'
    BY <1>2, <1>4 DEF Rec, persisted_queue_job_is_recoverable, Stuck
  <2>3. OnePlace(j)'
    BY <1>3, <1>4 DEF OnePlace, dlVars
  <2>4. files'[j]
    BY <1>2, <1>4
  <2> QED
    BY <2>1, <2>2, <2>3, <2>4, PlacedOwned
<1> QED
  BY <1>5, <1>6

(* The worker records "uploading" before it sends. *)
LEMMA UploadStartOwned ==
    ASSUME OwnInv, upload_start
    PROVE  \A k \in Jobs : JobOwned(k)'
<1>1. PICK j \in Jobs : upJob = j
  BY DEF upload_start, OwnInv, TypeOK, UploaderOK
<1>2. Rec(j) /\ ~Healing(j) /\ ~Admitting(j) /\ OnePlace(j) /\ files[j]
  BY <1>1, LiveAlone DEF OwnInv, JobOwned, LiveJob
<1>3. /\ upJob' = upJob
      /\ UNCHANGED <<dq, uq, retryDl, retryUl, files, dlVars, admVars,
                     healVars>>
  BY DEF upload_start, queueVars, mediaVars
<1>4. (\A k \in Jobs \ {j} : SameRecord(k)) /\ ul'[j] = "uploading"
  BY <1>1, RecordEffects DEF upload_start, OwnInv, TypeOK
<1>5. ASSUME NEW k \in Jobs, k # j
      PROVE  JobOwned(k)'
  <2>1. SameQueues(k) /\ SameWorkers(k) /\ NoNewHolder(k)
    BY <1>3
       DEF SameQueues, SameWorkers, NoNewHolder, dlVars, admVars, healVars
  <2> QED
    BY <1>3, <1>4, <1>5, <2>1, UntouchedOwned DEF Untouched, OwnInv
<1>6. JobOwned(j)'
  <2>1. ~Healing(j)' /\ ~Admitting(j)'
    BY <1>2, <1>3 DEF Healing, Admitting, admVars, healVars
  <2>2. Rec(j)'
    BY <1>4, StuckNames DEF Rec, persisted_queue_job_is_recoverable, Stuck
  <2>3. OnePlace(j)'
    BY <1>2, <1>3 DEF OnePlace, dlVars
  <2>4. files'[j]
    BY <1>2, <1>3
  <2> QED
    BY <2>1, <2>2, <2>3, <2>4, PlacedOwned
<1> QED
  BY <1>5, <1>6

(* Every step of the upload worker keeps every job owned. *)
LEMMA UploadOwned ==
    ASSUME OwnInv, UploadNext
    PROVE  \A k \in Jobs : JobOwned(k)'
<1>1. CASE \E j \in Jobs : upload_take(j)
  BY <1>1, UploadTakeOwned
<1>2. CASE upload_start
  BY <1>2, UploadStartOwned
<1>3. CASE \/ upload_grace \/ upload_duplicate \/ upload_done
           \/ upload_stalled \/ upload_reconnect \/ upload_flood_wait
           \/ upload_fresh_download \/ upload_dead \/ upload_invalid
           \/ upload_error
  <2>1. upStage # "idle"
    BY <1>3
       DEF upload_grace, upload_duplicate, upload_done, upload_stalled,
           upload_reconnect, upload_flood_wait, upload_fresh_download,
           upload_dead, upload_invalid, upload_error
  <2>2. PICK j \in Jobs : upJob = j
    BY <2>1 DEF OwnInv, TypeOK, UploaderOK
  <2>3. UploadGivenUp(j)
    BY <1>3, <2>2, UploadHandlers DEF OwnInv
  <2> QED
    BY <2>2, <2>3, UploadLeaves DEF UploadGivenUp
<1> QED
  BY <1>1, <1>2, <1>3 DEF UploadNext

-----------------------------------------------------------------------------
(* Admission, the scheduler and the state files *)

(* A step that writes no record, moves no job and gives none to a producer or
   to recovery keeps every job owned. *)
LEMMA QuietOwned ==
    ASSUME OwnInv, UNCHANGED <<dl, ul, files, queueVars, dlVars, upVars>>,
           \A k \in Jobs : NoNewHolder(k)
    PROVE  \A k \in Jobs : JobOwned(k)'
<1> SUFFICES ASSUME NEW k \in Jobs PROVE JobOwned(k)'
  OBVIOUS
<1>1. SameRecord(k) /\ SameQueues(k) /\ SameWorkers(k)
  BY DEF SameRecord, SameQueues, SameWorkers, queueVars, dlVars, upVars
<1> QED
  BY <1>1, UntouchedOwned DEF Untouched, OwnInv

(* A producer that lets its job go holds none, and the others keep theirs. *)
LEMMA ReleaseEffect ==
    ASSUME ProducersOK, NEW p \in Producers, Release(p)
    PROVE  /\ admJob'[p] = NoJob
           /\ \A q \in Producers \ {p} : admJob'[q] = admJob[q]
  BY DEF ProducersOK, Release

(* A producer that hands its job over, recorded, to a queue, to the scheduler or
   to recovery; nobody else holds it. *)
LEMMA HandedOver ==
    ASSUME OwnInv, JobHeldOnce, NEW p \in Producers, NEW j \in Jobs,
           admJob[p] = j, Release(p), AdmitEffect(j),
           UNCHANGED <<files, dlVars, upVars, healVars>>
    PROVE  \A k \in Jobs : JobOwned(k)'
<1>1. ~LiveJob(j) /\ ~Healing(j) /\ j # NoJob
  BY AdmittedAlone, JobsAssumption DEF Admitting
<1>2. /\ admJob'[p] = NoJob
      /\ \A q \in Producers \ {p} : admJob'[q] = admJob[q]
  BY ReleaseEffect DEF OwnInv, TypeOK
<1>3. \A q \in Producers \ {p} : admJob[q] # j
  BY <1>1 DEF JobHeldOnce
<1>4. ASSUME NEW k \in Jobs, k # j
      PROVE  JobOwned(k)'
  <2>1. k # NoJob
    BY JobsAssumption
  <2>2. SameRecord(k) /\ SameQueues(k)
    BY <1>4 DEF AdmitEffect
  <2>3. SameWorkers(k)
    BY DEF SameWorkers, dlVars, upVars
  <2>4. NoNewHolder(k)
    BY <1>2, <2>1 DEF NoNewHolder, healVars
  <2> QED
    BY <2>2, <2>3, <2>4, UntouchedOwned DEF Untouched, OwnInv
<1>5. JobOwned(j)'
  <2>1. ~Healing(j)'
    BY <1>1 DEF Healing, healVars
  <2>2. ~Admitting(j)'
    BY <1>1, <1>2, <1>3 DEF Admitting
  <2>3. OnePlace(j)'
    BY <1>1 DEF LiveJob, OnePlace, AdmitEffect, dlVars, upVars
  <2>4. Rec(j)'
    BY DEF AdmitEffect
  <2>5. /\ ~(j \in uq' \/ j \in retryUl' \/ j = upJob')
        /\ \A w \in DlWorkers : dlJob'[w] # j
    BY <1>1 DEF LiveJob, AdmitEffect, dlVars, upVars
  <2> QED
    BY <2>1, <2>2, <2>3, <2>4, <2>5, PlacedOwned
<1> QED
  BY <1>4, <1>5

(* The three ways in which a producer hands its job over. *)
LEMMA AdmissionEffect ==
    ASSUME OwnInv, NEW p \in Producers, NEW j \in Jobs, admJob[p] = j,
           enqueue_retained(p) \/ fast_path_ambiguous(p) \/ enqueue_queued(p)
    PROVE  AdmitEffect(j)
<1>1. CASE enqueue_retained(p)
  BY <1>1, RetainEffect DEF enqueue_retained, OwnInv, TypeOK
<1>2. CASE enqueue_queued(p)
  BY <1>2, EnqueueEffect DEF enqueue_queued, OwnInv, TypeOK
<1>3. CASE fast_path_ambiguous(p)
  <2>1. /\ record_download_job(j, "retry")
        /\ UNCHANGED <<dq, uq, retryUl>>
        /\ retryDl' = retryDl \cup {j} \/ retryDl' = retryDl
    BY <1>3 DEF fast_path_ambiguous
  <2>2. (\A k \in Jobs \ {j} : SameRecord(k)) /\ dl'[j] = "retry"
    BY <2>1, RecordEffects DEF OwnInv, TypeOK
  <2>3. Rec(j)'
    BY <2>2, StuckNames DEF Rec, persisted_queue_job_is_recoverable, Stuck
  <2> QED
    BY <2>1, <2>2, <2>3 DEF AdmitEffect, SameQueues
<1> QED
  BY <1>1, <1>2, <1>3

(* Every step of a producer keeps every job owned, as long as no two hold the
   same. *)
LEMMA ProducerOwned ==
    ASSUME OwnInv, JobHeldOnce, NEW p \in Producers, ProducerNext(p)
    PROVE  \A k \in Jobs : JobOwned(k)'
<1>1. ASSUME NEW j \in Jobs, check_and_mark_processing(p, j)
      PROVE  \A k \in Jobs : JobOwned(k)'
  <2>1. ~Rec(j) /\ j # NoJob
    BY <1>1, JobsAssumption
       DEF check_and_mark_processing, reservation_blocks_anyone, Rec
  <2>2. ~LiveJob(j) /\ ~Healing(j)
    BY <2>1 DEF OwnInv, JobOwned
  <2>3. /\ admJob'[p] = j
        /\ \A q \in Producers \ {p} : admJob'[q] = admJob[q]
    BY <1>1 DEF check_and_mark_processing, OwnInv, TypeOK, ProducersOK
  <2>4. UNCHANGED <<dl, ul, files, queueVars, dlVars, upVars, healVars>>
    BY <1>1 DEF check_and_mark_processing, recordVars
  <2>5. ASSUME NEW k \in Jobs, k # j
        PROVE  JobOwned(k)'
    <3>1. NoNewHolder(k)
      BY <2>3, <2>4, <2>5 DEF NoNewHolder, healVars
    <3>2. SameRecord(k) /\ SameQueues(k) /\ SameWorkers(k)
      BY <2>4 DEF SameRecord, SameQueues, SameWorkers, queueVars, dlVars, upVars
    <3> QED
      BY <2>4, <3>1, <3>2, UntouchedOwned DEF Untouched, OwnInv
  <2>6. JobOwned(j)'
    <3>1. ~LiveJob(j)'
      BY <2>2, <2>4 DEF LiveJob, queueVars, dlVars, upVars
    <3>2. ~Healing(j)'
      BY <2>2, <2>4 DEF Healing, healVars
    <3>3. ~Rec(j)'
      BY <2>1, <2>4 DEF Rec, persisted_queue_job_is_recoverable, Stuck
    <3>4. OnePlace(j)'
      BY <3>1 DEF OnePlace, LiveJob
    <3> QED
      BY <3>1, <3>2, <3>3, <3>4 DEF JobOwned, LiveJob, Healing
  <2> QED
    BY <2>5, <2>6
<1>2. CASE enqueue_duplicate(p) \/ fast_path_copied(p)
  <2>1. Release(p) /\ UNCHANGED <<dl, ul, files, queueVars, dlVars, upVars,
                                  healVars>>
    BY <1>2 DEF enqueue_duplicate, fast_path_copied, recordVars
  <2>2. \A k \in Jobs : NoNewHolder(k)
    BY <2>1, ReleaseEffect, JobsAssumption
       DEF NoNewHolder, healVars, OwnInv, TypeOK
  <2> QED
    BY <2>1, <2>2, QuietOwned
<1>3. CASE enqueue_filtered(p)
  <2>1. UNCHANGED <<admJob, dl, ul, files, queueVars, dlVars, upVars, healVars>>
    BY <1>3 DEF enqueue_filtered, recordVars, mediaVars
  <2>2. \A k \in Jobs : NoNewHolder(k)
    BY <2>1 DEF NoNewHolder, healVars
  <2> QED
    BY <2>1, <2>2, QuietOwned
<1>4. ASSUME enqueue_retained(p) \/ fast_path_ambiguous(p) \/ enqueue_queued(p)
      PROVE  \A k \in Jobs : JobOwned(k)'
  <2>1. PICK j \in Jobs : admJob[p] = j
    <3>1. admStage[p] # "idle"
      BY <1>4 DEF enqueue_retained, fast_path_ambiguous, enqueue_queued
    <3> QED
      BY <3>1 DEF OwnInv, TypeOK, ProducersOK
  <2>2. Release(p) /\ UNCHANGED <<files, dlVars, upVars, healVars>>
    BY <1>4 DEF enqueue_retained, fast_path_ambiguous, enqueue_queued
  <2>3. AdmitEffect(j)
    BY <1>4, <2>1, AdmissionEffect
  <2> QED
    BY <2>1, <2>2, <2>3, HandedOver
<1> QED
  BY <1>1, <1>2, <1>3, <1>4 DEF ProducerNext

(* A due retry moves from its lane to the queue of that lane. *)
LEMMA SchedulerOwned ==
    ASSUME OwnInv, NEW j \in Jobs,
           retry_scheduler_download(j) \/ retry_scheduler_upload(j)
    PROVE  \A k \in Jobs : JobOwned(k)'
<1>1. UNCHANGED <<dl, ul, files, dlVars, upVars, admVars, healVars>>
  BY DEF retry_scheduler_download, retry_scheduler_upload, recordVars, mediaVars
<1>2. \/ /\ j \in retryDl /\ retryDl' = retryDl \ {j} /\ dq' = dq \cup {j}
         /\ UNCHANGED <<uq, retryUl>>
      \/ /\ j \in retryUl /\ retryUl' = retryUl \ {j} /\ uq' = uq \cup {j}
         /\ UNCHANGED <<dq, retryDl>>
  BY DEF retry_scheduler_download, retry_scheduler_upload
<1>3. Rec(j) /\ ~Healing(j) /\ ~Admitting(j) /\ OnePlace(j)
  BY <1>2, LiveAlone DEF LiveJob
<1>4. ASSUME NEW k \in Jobs, k # j
      PROVE  JobOwned(k)'
  <2>1. SameRecord(k) /\ SameQueues(k) /\ SameWorkers(k) /\ NoNewHolder(k)
    BY <1>1, <1>2, <1>4
       DEF SameRecord, SameQueues, SameWorkers, NoNewHolder, dlVars, upVars,
           admVars, healVars
  <2> QED
    BY <1>1, <2>1, UntouchedOwned DEF Untouched, OwnInv
<1>5. JobOwned(j)'
  <2>1. ~Healing(j)' /\ ~Admitting(j)'
    BY <1>1, <1>3 DEF Healing, Admitting, admVars, healVars
  <2>2. Rec(j)'
    BY <1>1, <1>3 DEF Rec, persisted_queue_job_is_recoverable, Stuck
  <2>3. OnePlace(j)'
    BY <1>1, <1>2, <1>3 DEF OnePlace, dlVars, upVars
  <2>4. /\ j \in uq' \/ j \in retryUl' \/ j = upJob' => files'[j]
        /\ \A w \in DlWorkers : dlJob'[w] = j => dlStage'[w] # "handoff"
    BY <1>1, <1>2, <1>3 DEF OwnInv, JobOwned, OnePlace, dlVars, upVars
  <2> QED
    BY <2>1, <2>2, <2>3, <2>4, PlacedOwned
<1> QED
  BY <1>4, <1>5

(* Saving a file and clearing the processing cache touch no job. *)
LEMMA AsideOwned ==
    ASSUME OwnInv,
           clear_processing_cache_if_idle \/ save_download_queue
               \/ save_upload_queue
    PROVE  \A k \in Jobs : JobOwned(k)'
<1>1. UNCHANGED <<dl, ul, files, queueVars, dlVars, upVars, admVars, healVars>>
  BY DEF clear_processing_cache_if_idle, save_download_queue,
         save_upload_queue, recordVars, mediaVars
<1>2. \A k \in Jobs : NoNewHolder(k)
  BY <1>1 DEF NoNewHolder, admVars, healVars
<1> QED
  BY <1>1, <1>2, QuietOwned

(* After a restart nothing is live and nobody holds a job. *)
LEMMA RestartOwned ==
    ASSUME OwnInv, Restart
    PROVE  \A k \in Jobs : JobOwned(k)'
<1> SUFFICES ASSUME NEW k \in Jobs PROVE JobOwned(k)'
  OBVIOUS
<1>1. k # NoJob
  BY JobsAssumption
<1>2. ~LiveJob(k)'
  BY <1>1 DEF LiveJob, Restart
<1>3. ~Healing(k)' /\ ~Admitting(k)'
  BY <1>1 DEF Healing, Admitting, Restart
<1> QED
  BY <1>2, <1>3, FreeOwned

-----------------------------------------------------------------------------
(* Recovery *)

LEMMA SkipDuplicateEffect ==
    ASSUME RecordsOK, NEW j \in Jobs, NEW lane, SkipDuplicate(j, lane)
    PROVE  \A k \in Jobs \ {j} : SameRecord(k)
<1>1. CASE lane = "upload"
  BY <1>1, RecordEffects DEF SkipDuplicate
<1>2. CASE lane # "upload"
  BY <1>2, RecordEffects DEF SkipDuplicate
<1> QED
  BY <1>1, <1>2

(* A pass starts from the recorded jobs that nobody holds. *)
LEMMA SnapshotOwned ==
    ASSUME OwnInv, recovery_pass_start \/ healer_pass_start
    PROVE  \A k \in Jobs : JobOwned(k)'
<1> SUFFICES ASSUME NEW k \in Jobs PROVE JobOwned(k)'
  OBVIOUS
<1>1. /\ heal_snapshot /\ healJob' = healJob /\ healJob = NoJob
      /\ UNCHANGED <<dl, ul, files, queueVars, dlVars, upVars, admVars>>
  BY DEF recovery_pass_start, healer_pass_start, heal_snapshot, recordVars,
         mediaVars, OwnInv, TypeOK, RecoveryOK
<1>2. Rec(k)' <=> Rec(k)
  BY <1>1 DEF Rec, persisted_queue_job_is_recoverable, Stuck
<1>3. LiveJob(k)' <=> LiveJob(k)
  BY <1>1 DEF LiveJob, queueVars, dlVars, upVars
<1>4. LiveJob(k) => k \in live_pipeline_job_ids
  <2>1. \A w \in DlWorkers : k = dlJob[w] => k \in {dlJob[v] : v \in DlWorkers}
    OBVIOUS
  <2> QED
    BY <2>1 DEF live_pipeline_job_ids, active_worker_jobs, LiveJob
<1>5. Healing(k)' => Rec(k) /\ ~LiveJob(k)
  <2>1. k # NoJob
    BY JobsAssumption
  <2> QED
    BY <1>1, <1>4, <2>1
       DEF Healing, heal_snapshot, Rec, persisted_queue_job_is_recoverable
<1>6. Admitting(k)' => Admitting(k)
  BY <1>1 DEF Admitting, admVars
<1>7. OnePlace(k)'
  BY <1>1 DEF OwnInv, JobOwned, OnePlace, queueVars, dlVars, upVars
<1>8. k # healJob'
  BY <1>1, JobsAssumption
<1>9. /\ k \in uq' \/ k \in retryUl' \/ k = upJob' => files'[k]
      /\ \A w \in DlWorkers :
            dlJob'[w] = k /\ dlStage'[w] = "handoff" => files'[k]
  BY <1>1 DEF OwnInv, JobOwned, queueVars, dlVars, upVars
<1> QED
  BY <1>2, <1>3, <1>5, <1>6, <1>7, <1>8, <1>9 DEF OwnInv, JobOwned

(* Recovery closes the record of a job it has not fetched. *)
LEMMA CompletedOwned ==
    ASSUME OwnInv, NEW j \in Jobs, NEW lane, heal_complete(j, lane)
    PROVE  \A k \in Jobs : JobOwned(k)'
<1>1. /\ healJob' = healJob /\ healJob = NoJob
      /\ healUp' = healUp \ {j} /\ healDown' = healDown \ {j}
      /\ UNCHANGED <<queueVars, files, dlVars, upVars, admVars>>
  BY DEF heal_complete, HealNext, HealDrop, mediaVars, OwnInv, TypeOK,
         RecoveryOK
<1>2. Healing(j)
  BY DEF heal_complete, HealNext, Healing
<1>3. \A k \in Jobs \ {j} : SameRecord(k)
  BY SkipDuplicateEffect DEF heal_complete, OwnInv, TypeOK
<1>4. ASSUME NEW k \in Jobs, k # j
      PROVE  JobOwned(k)'
  <2>1. SameQueues(k) /\ SameWorkers(k) /\ NoNewHolder(k)
    BY <1>1
       DEF SameQueues, SameWorkers, NoNewHolder, queueVars, dlVars, upVars,
           admVars
  <2> QED
    BY <1>1, <1>3, <1>4, <2>1, UntouchedOwned DEF Untouched, OwnInv
<1>5. JobOwned(j)'
  <2>1. ~LiveJob(j)'
    BY <1>1, <1>2, HealedAlone DEF LiveJob, queueVars, dlVars, upVars
  <2>2. ~Healing(j)'
    BY <1>1, JobsAssumption DEF Healing
  <2>3. ~Admitting(j)'
    BY <1>1, <1>2, HealedAlone DEF Admitting, admVars
  <2> QED
    BY <2>1, <2>2, <2>3, FreeOwned
<1> QED
  BY <1>4, <1>5

(* Recovery turns to the next job of the snapshot. *)
LEMMA FetchOwned ==
    ASSUME OwnInv, NEW j \in Jobs, NEW lane, heal_fetch(j, lane)
    PROVE  \A k \in Jobs : JobOwned(k)'
<1>1. /\ healJob' = j
      /\ healUp' = healUp \ {j} /\ healDown' = healDown \ {j}
      /\ UNCHANGED <<dl, ul, files, queueVars, dlVars, upVars, admVars>>
  BY DEF heal_fetch, HealDrop, recordVars, mediaVars
<1>2. Healing(j)
  BY DEF heal_fetch, HealNext, Healing
<1>3. \A k \in Jobs : SameRecord(k) /\ SameQueues(k) /\ SameWorkers(k)
  BY <1>1
     DEF SameRecord, SameQueues, SameWorkers, queueVars, dlVars, upVars
<1>4. ASSUME NEW k \in Jobs, k # j
      PROVE  JobOwned(k)'
  <2>1. NoNewHolder(k)
    BY <1>1, <1>4 DEF NoNewHolder, admVars
  <2> QED
    BY <1>1, <1>3, <2>1, UntouchedOwned DEF Untouched, OwnInv
<1>5. JobOwned(j)'
  <2>1. Rec(j)'
    BY <1>1, <1>2, HealedAlone
       DEF Rec, persisted_queue_job_is_recoverable, Stuck
  <2>2. ~LiveJob(j)'
    BY <1>1, <1>2, HealedAlone DEF LiveJob, queueVars, dlVars, upVars
  <2>3. ~Admitting(j)'
    BY <1>1, <1>2, HealedAlone DEF Admitting, admVars
  <2>4. j \notin healUp' /\ j \notin healDown'
    BY <1>1
  <2> QED
    BY <2>1, <2>2, <2>3, <2>4 DEF JobOwned, OnePlace, LiveJob
<1> QED
  BY <1>4, <1>5

(* Recovery is done with the job it fetched: the job is in one place with a
   record, or nowhere. *)
LEMMA ResumeOwned ==
    ASSUME OwnInv, NEW j \in Jobs, healJob = j, NEW c, HealResume(c),
           UNCHANGED <<dlVars, upVars, admVars, files>>,
           \A k \in Jobs \ {j} : SameRecord(k) /\ SameQueues(k),
           \/ UNCHANGED queueVars
           \/ /\ Rec(j)'
              /\ \/ retryDl' = retryDl
                 \/ dq' = dq
              /\ uq' = uq /\ retryUl' = retryUl
           \/ /\ Rec(j)' /\ files[j]
              /\ \/ retryUl' = retryUl
                 \/ uq' = uq
              /\ dq' = dq /\ retryDl' = retryDl
    PROVE  \A k \in Jobs : JobOwned(k)'
<1>1. healJob' = NoJob /\ healUp' = healUp /\ healDown' = healDown
  BY DEF HealResume
<1>2. ~LiveJob(j) /\ ~Admitting(j)
  BY HealedAlone DEF Healing
<1>3. j \notin healUp /\ j \notin healDown /\ j # NoJob
  BY JobsAssumption DEF OwnInv, JobOwned
<1>4. ASSUME NEW k \in Jobs, k # j
      PROVE  JobOwned(k)'
  <2>1. k # NoJob
    BY JobsAssumption
  <2>2. SameWorkers(k) /\ NoNewHolder(k)
    BY <1>1, <2>1 DEF SameWorkers, NoNewHolder, dlVars, upVars, admVars
  <2> QED
    BY <1>4, <2>2, UntouchedOwned DEF Untouched, OwnInv
<1>5. JobOwned(j)'
  <2>1. ~Healing(j)'
    BY <1>1, <1>3 DEF Healing
  <2>2. ~Admitting(j)'
    BY <1>2 DEF Admitting, admVars
  <2>3. j # upJob' /\ \A w \in DlWorkers : dlJob'[w] # j
    BY <1>2 DEF LiveJob, dlVars, upVars
  <2>4. OnePlace(j)'
    BY <1>2, <2>3 DEF LiveJob, OnePlace, queueVars
  <2>5. LiveJob(j)' => Rec(j)'
    BY <1>2, <2>3 DEF LiveJob, queueVars
  <2>6. j \in uq' \/ j \in retryUl' \/ j = upJob' => files'[j]
    BY <1>2, <2>3 DEF LiveJob, queueVars
  <2> QED
    BY <2>1, <2>2, <2>3, <2>4, <2>5, <2>6, PlacedOwned
<1> QED
  BY <1>4, <1>5

(* What recovery does to the job it fetched touches no other record or queue. *)
LEMMA HealedEffect ==
    ASSUME RecordsOK, NEW j \in Jobs, healJob = j,
           \/ heal_missing \/ heal_upload \/ heal_filter_drops
           \/ heal_retained \/ heal_queued
    PROVE  \A k \in Jobs \ {j} : SameRecord(k) /\ SameQueues(k)
<1>1. CASE heal_missing
  <2>1. record_upload_job(j, "failed") \/ record_download_job(j, "failed")
    BY <1>1 DEF heal_missing
  <2> QED
    BY <1>1, <2>1, RecordEffects DEF heal_missing, SameQueues, queueVars
<1>2. CASE heal_filter_drops
  <2>1. \A k \in Jobs \ {j} : SameRecord(k)
    BY <1>2, SkipDuplicateEffect DEF heal_filter_drops, SameRecord, recordVars
  <2> QED
    BY <1>2, <2>1 DEF heal_filter_drops, SameQueues, queueVars
<1>3. CASE heal_retained \/ heal_queued
  BY <1>3, RetainEffect, EnqueueEffect
     DEF heal_retained, heal_queued, AdmitEffect
<1>4. CASE heal_upload
  <2>1. \A k \in Jobs \ {j} : SameRecord(k)
    BY <1>4, RecordEffects DEF heal_upload
  <2>2. /\ UNCHANGED <<dq, retryDl>>
        /\ \/ uq' = uq \cup {j} /\ retryUl' = retryUl
           \/ uq' = uq /\ (retryUl' = retryUl \cup {j} \/ retryUl' = retryUl)
    BY <1>4 DEF heal_upload
  <2> QED
    BY <2>1, <2>2 DEF SameQueues
<1> QED
  BY <1>1, <1>2, <1>3, <1>4

(* Every step of recovery keeps every job owned. *)
LEMMA RecoveryOwned ==
    ASSUME OwnInv, RecoveryNext
    PROVE  \A k \in Jobs : JobOwned(k)'
<1>1. CASE recovery_pass_start \/ healer_pass_start
  BY <1>1, SnapshotOwned
<1>2. ASSUME NEW j \in Jobs, NEW lane \in Lanes,
             heal_complete(j, lane) \/ heal_deferred(j, lane)
                 \/ heal_fetch(j, lane)
      PROVE  \A k \in Jobs : JobOwned(k)'
  <2>1. CASE heal_complete(j, lane)
    BY <2>1, CompletedOwned
  <2>2. CASE heal_fetch(j, lane)
    BY <2>2, FetchOwned
  <2>3. CASE heal_deferred(j, lane)
    <3>1. /\ UNCHANGED <<dl, ul, files, queueVars, dlVars, upVars, admVars>>
          /\ healJob' = healJob
          /\ healUp' = healUp \ {j} /\ healDown' = healDown \ {j}
      BY <2>3 DEF heal_deferred, HealDrop, recordVars, mediaVars
    <3>2. \A k \in Jobs : NoNewHolder(k)
      BY <3>1 DEF NoNewHolder, admVars
    <3> QED
      BY <3>1, <3>2, QuietOwned
  <2> QED
    BY <1>2, <2>1, <2>2, <2>3
<1>3. ASSUME heal_readmit \/ heal_filter_passes \/ recovery_pass_end
      PROVE  \A k \in Jobs : JobOwned(k)'
  <2>1. UNCHANGED <<dl, ul, files, queueVars, dlVars, upVars, admVars, healJob,
                    healUp, healDown>>
    BY <1>3 DEF heal_readmit, heal_filter_passes, recovery_pass_end, recordVars,
               mediaVars
  <2>2. \A k \in Jobs : NoNewHolder(k)
    BY <2>1 DEF NoNewHolder, admVars
  <2> QED
    BY <2>1, <2>2, QuietOwned
<1>4. ASSUME \/ heal_missing \/ heal_upload \/ heal_filter_drops
             \/ heal_retained \/ heal_queued
      PROVE  \A k \in Jobs : JobOwned(k)'
  <2>1. PICK j \in Jobs : healJob = j
    <3>1. healStage \in {"fetch", "filter", "admit"}
      BY <1>4 DEF heal_missing, heal_upload, heal_filter_drops, heal_retained,
                 heal_queued
    <3> QED
      BY <3>1 DEF OwnInv, TypeOK, RecoveryOK
  <2>2. RecordsOK
    BY DEF OwnInv, TypeOK
  <2>3. \A k \in Jobs \ {j} : SameRecord(k) /\ SameQueues(k)
    BY <1>4, <2>1, <2>2, HealedEffect
  <2>4. CASE heal_missing \/ heal_filter_drops
    <3>1. /\ HealResume(recovered) /\ UNCHANGED queueVars
          /\ UNCHANGED <<dlVars, upVars, admVars, files>>
      BY <2>4 DEF heal_missing, heal_filter_drops, mediaVars
    <3> QED
      BY <2>1, <2>3, <3>1, ResumeOwned
  <2>5. CASE heal_retained \/ heal_queued
    <3>1. /\ HealResume(recovered + 1)
          /\ UNCHANGED <<dlVars, upVars, admVars, files>>
      BY <2>5 DEF heal_retained, heal_queued
    <3>2. AdmitEffect(j)
      BY <2>1, <2>2, <2>5, RetainEffect, EnqueueEffect
         DEF heal_retained, heal_queued
    <3> QED
      BY <2>1, <3>1, <3>2, ResumeOwned DEF AdmitEffect
  <2>6. CASE heal_upload
    <3>1. /\ \E c : HealResume(c)
          /\ UNCHANGED <<dlVars, upVars, admVars, files, dq, retryDl>>
          /\ files[j]
      BY <2>1, <2>6 DEF heal_upload
    <3>2. ul'[j] = "queued_recovered"
      BY <2>1, <2>2, <2>6, RecordEffects DEF heal_upload
    <3>3. Rec(j)'
      BY <3>2, StuckNames DEF Rec, persisted_queue_job_is_recoverable, Stuck
    <3>4. uq' = uq \/ retryUl' = retryUl
      BY <2>6 DEF heal_upload
    <3> QED
      BY <2>1, <2>3, <3>1, <3>3, <3>4, ResumeOwned
  <2> QED
    BY <1>4, <2>4, <2>5, <2>6
<1> QED
  BY <1>1, <1>2, <1>3, <1>4 DEF RecoveryNext

-----------------------------------------------------------------------------
(* The properties *)

LEMMA OwnInit == Init => OwnInv
<1> SUFFICES ASSUME Init PROVE OwnInv
  OBVIOUS
<1>1. TypeOK
  BY InitType
<1>2. ASSUME NEW k \in Jobs PROVE JobOwned(k)
  <2>1. k # NoJob
    BY JobsAssumption
  <2>2. ~LiveJob(k) /\ ~Healing(k) /\ ~Admitting(k)
    BY <2>1 DEF LiveJob, Healing, Admitting, Init
  <2> QED
    BY <2>2 DEF JobOwned, OnePlace, LiveJob, Healing
<1> QED
  BY <1>1, <1>2 DEF OwnInv

LEMMA OwnNext ==
    ASSUME OwnInv, JobHeldOnce, [Next]_vars
    PROVE  OwnInv'
<1>1. TypeOK'
  BY NextType DEF OwnInv
<1>2. \A k \in Jobs : JobOwned(k)'
  <2>1. CASE Next
    BY <2>1, ProducerOwned, AsideOwned, DownloadOwned, UploadOwned,
       SchedulerOwned, RecoveryOwned, RestartOwned
       DEF Next
  <2>2. CASE UNCHANGED vars
    <3>1. UNCHANGED <<dl, ul, files, queueVars, dlVars, upVars, admVars,
                      healVars>>
      BY <2>2 DEF vars, recordVars, mediaVars
    <3>2. \A k \in Jobs : NoNewHolder(k)
      BY <3>1 DEF NoNewHolder, admVars, healVars
    <3> QED
      BY <3>1, <3>2, QuietOwned
  <2> QED
    BY <2>1, <2>2
<1> QED
  BY <1>1, <1>2 DEF OwnInv

(* Whatever handlers, the scheduler, recovery and restarts do, in any order and
   for any bounds: as long as no two producers hold one job, every job is owned.
   What recovery has in hand stays recorded and unowned, which is why a pass
   needs no lock against the workers. *)
LEMMA Owned == Spec /\ []JobHeldOnce => []OwnInv
  BY OwnInit, OwnNext, PTL DEF Spec

(* No two of the queues, the scheduler's lanes and the workers hold one job. *)
THEOREM JobsHaveOneOwner == Spec /\ []JobHeldOnce => []LiveOnce
  BY Owned, OwnershipParts, PTL

(* A job in flight has a record from which a restart recovers it. *)
THEOREM NothingInFlightIsForgotten ==
    Spec /\ []JobHeldOnce => []LiveIsRecoverable
  BY Owned, OwnershipParts, PTL

(* Recovery handles only recorded jobs that nobody else has in hand, although
   its snapshot grows old while it awaits Telegram. *)
THEOREM RecoveryHandlesUnowned == Spec /\ []JobHeldOnce => []HealedIsNotLive
  BY Owned, OwnershipParts, PTL

(* A job in the upload lane has its files. *)
THEOREM UploadsHaveFiles == Spec /\ []JobHeldOnce => []UploadHasFiles
  BY Owned, OwnershipParts, PTL

-----------------------------------------------------------------------------
(* Media are delivered once.  A uid is claimed by a producer that holds its
   mark or by the oldest of the recorded jobs that carry it, and only a claimant
   delivers. *)

Busy(p) == admStage[p] # "idle"

(* No two producers hold the same media. *)
MediaHeldOnce ==
    \A p, q \in Producers :
        p # q /\ Busy(p) /\ Busy(q) => UidOf[admJob[p]] # UidOf[admJob[q]]

(* An older recorded job carries the same media. *)
Blocked(j) ==
    \E k \in Jobs \ {j} : UidOf[k] = UidOf[j] /\ Rec(k) /\ <<k, j>> \in older

Holding(j) == LiveJob(j) \/ healJob = j

Claimed(u) == \E k \in Jobs : UidOf[k] = u /\ Rec(k)

(* Age orders the recorded jobs, and no others. *)
OrderOK ==
    /\ \A a, b \in Jobs : <<a, b>> \in older => Rec(a) /\ Rec(b)
    /\ \A a, b \in Jobs :
          a # b /\ Rec(a) /\ Rec(b) => <<a, b>> \in older \/ <<b, a>> \in older

OldestHeld == \A j \in Jobs : Holding(j) => ~Blocked(j)

FreshMarks ==
    \A p \in Producers :
        Busy(p) => UidOf[admJob[p]] \notin known /\ ~Claimed(UidOf[admJob[p]])

SendingUnknown == upStage = "sending" => UidOf[upJob] \notin known

Counted ==
    \A u \in Uids : delivered[u] <= 1 /\ (u \notin known => delivered[u] = 0)

OnceInv ==
    OwnInv /\ OrderOK /\ OldestHeld /\ FreshMarks /\ SendingUnknown /\ Counted

LEMMA HoldingRec ==
    ASSUME OwnInv, NEW j \in Jobs, Holding(j)
    PROVE  Rec(j)
  BY DEF OwnInv, JobOwned, Holding, Healing

(* Of the jobs with one media at most one is in hand. *)
LEMMA OneHolder ==
    ASSUME OnceInv, NEW i \in Jobs, NEW j \in Jobs, Holding(i), Holding(j),
           UidOf[i] = UidOf[j]
    PROVE  i = j
<1>1. Rec(i) /\ Rec(j)
  BY HoldingRec DEF OnceInv
<1> QED
  BY <1>1 DEF OnceInv, OrderOK, OldestHeld, Blocked

-----------------------------------------------------------------------------
(* What a step does to the order of the records and to who holds a job *)

(* The record of at most one job changes; a job that becomes recoverable is
   younger than all that were. *)
RecordWrite(j) ==
    /\ \A k \in Jobs \ {j} : SameRecord(k)
    /\ \A a, b \in Jobs :
          <<a, b>> \in older' <=>
              /\ Rec(a)' /\ Rec(b)'
              /\ <<a, b>> \in older \/ (Rec(a) /\ ~Rec(b))

(* At most one job gets into new hands. *)
Moves(j) ==
    /\ dq' \subseteq dq \cup {j} /\ uq' \subseteq uq \cup {j}
    /\ retryDl' \subseteq retryDl \cup {j}
    /\ retryUl' \subseteq retryUl \cup {j}
    /\ upJob' \in {upJob, NoJob, j}
    /\ \A w \in DlWorkers : dlJob'[w] \in {dlJob[w], NoJob, j}
    /\ healJob' \in {healJob, NoJob, j}

LEMMA RecordsWrite ==
    ASSUME NEW j, NEW d, NEW u, Records(d, u),
           \A k \in Jobs \ {j} : d[k] = dl[k] /\ u[k] = ul[k]
    PROVE  RecordWrite(j)
<1> DEFINE was == {k \in Jobs : persisted_queue_job_is_recoverable(k)}
           now == {k \in Jobs : Stuck(d[k]) \/ Stuck(u[k])}
<1>1. /\ dl' = d /\ ul' = u
      /\ older' = (older \cap (now \X now)) \cup ((was \cap now) \X (now \ was))
  BY DEF Records
<1>2. \A k \in Jobs : (k \in was <=> Rec(k)) /\ (k \in now <=> Rec(k)')
  BY <1>1 DEF Rec, persisted_queue_job_is_recoverable, Stuck
<1> HIDE DEF was, now
<1>3. \A a, b \in Jobs :
          <<a, b>> \in older' <=>
              \/ <<a, b>> \in older /\ a \in now /\ b \in now
              \/ a \in was /\ a \in now /\ b \in now /\ b \notin was
  BY <1>1
<1>4. \A k \in Jobs \ {j} : SameRecord(k)
  BY <1>1 DEF SameRecord
<1> QED
  BY <1>2, <1>3, <1>4 DEF RecordWrite

(* Each way to write a record. *)
LEMMA RecordWrites ==
    ASSUME RecordsOK, NEW j \in Jobs, NEW s, NEW t,
           record_download_job(j, s) \/ record_upload_job(j, s)
               \/ record_both(j, s, t)
    PROVE  RecordWrite(j)
<1>1. dl \in [Jobs -> Statuses] /\ ul \in [Jobs -> Statuses]
  BY DEF RecordsOK
<1>2. CASE record_download_job(j, s)
  BY <1>1, <1>2, RecordsWrite DEF record_download_job
<1>3. CASE record_upload_job(j, s)
  BY <1>1, <1>3, RecordsWrite DEF record_upload_job
<1>4. CASE record_both(j, s, t)
  <2> DEFINE d == [dl EXCEPT ![j] = s]
             u == [ul EXCEPT ![j] = t]
  <2>1. \A k \in Jobs \ {j} : d[k] = dl[k] /\ u[k] = ul[k]
    BY <1>1
  <2>2. Records(d, u)
    BY <1>4 DEF record_both
  <2> HIDE DEF d, u
  <2> QED
    BY <2>1, <2>2, RecordsWrite
<1> QED
  BY <1>2, <1>3, <1>4

LEMMA NoWrite ==
    ASSUME OrderOK, UNCHANGED <<dl, ul, older>>, NEW j
    PROVE  RecordWrite(j)
<1>1. \A k \in Jobs : SameRecord(k) /\ (Rec(k)' <=> Rec(k))
  BY DEF SameRecord, Rec, persisted_queue_job_is_recoverable, Stuck
<1> QED
  BY <1>1 DEF RecordWrite, OrderOK

LEMMA OthersRecorded ==
    ASSUME NEW j, RecordWrite(j), NEW k \in Jobs, k # j
    PROVE  Rec(k)' <=> Rec(k)
  BY DEF RecordWrite, SameRecord, Rec, persisted_queue_job_is_recoverable, Stuck

LEMMA OrderStays ==
    ASSUME OrderOK, NEW j, RecordWrite(j)
    PROVE  OrderOK'
<1>1. ASSUME NEW a \in Jobs, NEW b \in Jobs, <<a, b>> \in older'
      PROVE  Rec(a)' /\ Rec(b)'
  BY <1>1 DEF RecordWrite
<1>2. ASSUME NEW a \in Jobs, NEW b \in Jobs, a # b, Rec(a)', Rec(b)'
      PROVE  <<a, b>> \in older' \/ <<b, a>> \in older'
  <2>1. Rec(a) \/ Rec(b)
    BY <1>2, OthersRecorded
  <2> QED
    BY <1>2, <2>1 DEF RecordWrite, OrderOK
<1> QED
  BY <1>1, <1>2 DEF OrderOK

LEMMA MovesHolding ==
    ASSUME NEW i, Moves(i), NEW k \in Jobs, Holding(k)'
    PROVE  Holding(k) \/ k = i
<1>1. k # NoJob
  BY JobsAssumption
<1>2. CASE healJob' = k
  BY <1>1, <1>2 DEF Moves, Holding
<1>3. CASE LiveJob(k)'
  <2>1. \/ k \in dq' \/ k \in uq' \/ k \in retryDl' \/ k \in retryUl'
        \/ k = upJob'
        \/ \E w \in DlWorkers : k = dlJob'[w]
    BY <1>3 DEF LiveJob
  <2> QED
    BY <1>1, <2>1 DEF Moves, Holding, LiveJob
<1> QED
  BY <1>2, <1>3 DEF Holding

(* Who comes to hold a job holds the oldest one of its media: it was recorded
   and not blocked, or no recorded job had the media. *)
LEMMA OldestStays ==
    ASSUME OnceInv, OwnInv', NEW j, RecordWrite(j), NEW i, Moves(i),
           i \in Jobs => \/ Rec(i) /\ ~Blocked(i)
                         \/ ~Claimed(UidOf[i])
    PROVE  OrderOK' /\ OldestHeld'
<1>1. OrderOK /\ OrderOK'
  BY OrderStays DEF OnceInv
<1>2. ASSUME NEW k \in Jobs, Holding(k)', Blocked(k)'
      PROVE  FALSE
  <2>1. Rec(k)'
    <3>1. ASSUME OwnInv', Holding(k)' PROVE Rec(k)'
      BY <3>1 DEF OwnInv, JobOwned, Holding, Healing
    <3> QED
      BY <1>2, <3>1
  <2>2. PICK a \in Jobs \ {k} :
            UidOf[a] = UidOf[k] /\ Rec(a)' /\ <<a, k>> \in older'
    BY <1>2 DEF Blocked
  <2>3. CASE Rec(k)
    <3>1. <<a, k>> \in older
      BY <2>2, <2>3 DEF RecordWrite
    <3>2. Blocked(k)
      BY <1>1, <2>2, <3>1 DEF Blocked, OrderOK
    <3>3. ~Holding(k)
      BY <3>2 DEF OnceInv, OldestHeld
    <3>4. k = i
      BY <1>2, <3>3, MovesHolding
    <3> QED
      BY <2>3, <3>2, <3>4 DEF Claimed
  <2>4. CASE ~Rec(k)
    <3>1. ~Holding(k)
      BY <2>4, HoldingRec DEF OnceInv
    <3>2. k = i
      BY <1>2, <3>1, MovesHolding
    <3>3. ~Claimed(UidOf[k])
      BY <2>4, <3>2
    <3>4. k = j
      BY <2>1, <2>4, OthersRecorded
    <3>5. Rec(a)
      BY <2>2, <3>4, OthersRecorded
    <3> QED
      BY <2>2, <3>3, <3>5 DEF Claimed
  <2> QED
    BY <2>3, <2>4
<1> QED
  BY <1>1, <1>2 DEF OldestHeld

(* Marks stay fresh over a step that changes a recorded job. *)
LEMMA MarksStay ==
    ASSUME OnceInv, NEW j, RecordWrite(j), j \in Jobs => Rec(j),
           UNCHANGED admVars,
           \/ known' = known
           \/ j \in Jobs /\ known' = known \cup {UidOf[j]}
    PROVE  FreshMarks'
<1> SUFFICES ASSUME NEW p \in Producers, Busy(p)'
             PROVE  UidOf[admJob'[p]] \notin known'
                        /\ ~Claimed(UidOf[admJob[p]])'
  BY DEF FreshMarks
<1>1. PICK u : u = UidOf[admJob[p]] /\ u = UidOf[admJob'[p]]
  BY DEF admVars
<1>2. u \notin known /\ ~Claimed(u)
  BY <1>1 DEF OnceInv, FreshMarks, Busy, admVars
<1>3. u \notin known'
  BY <1>2 DEF Claimed
<1>4. ~Claimed(u)'
  BY <1>2, OthersRecorded DEF Claimed
<1> QED
  BY <1>1, <1>3, <1>4 DEF Claimed

(* A step of a worker, the scheduler or recovery on a job that is in hand or
   about to be keeps the invariant when it leaves the uploader alone. *)
LEMMA HandlerOnce ==
    ASSUME OnceInv, OwnInv', NEW j, RecordWrite(j), NEW i, Moves(i),
           j \in Jobs => Rec(j),
           i \in Jobs => Rec(i) /\ ~Blocked(i),
           UNCHANGED <<admVars, upVars, delivered>>,
           \/ known' = known
           \/ /\ j \in Jobs /\ Holding(j) /\ j # upJob
              /\ known' = known \cup {UidOf[j]}
    PROVE  OnceInv'
<1>1. OrderOK' /\ OldestHeld'
  BY OldestStays
<1>2. FreshMarks'
  BY MarksStay
<1>3. SendingUnknown'
  <2>1. upStage = "sending" => upJob \in Jobs /\ Holding(upJob)
    BY DEF OnceInv, OwnInv, TypeOK, UploaderOK, Holding, LiveJob
  <2>2. upStage = "sending" => UidOf[upJob] \notin known'
    <3>1. upStage = "sending" => UidOf[upJob] \notin known
      BY DEF OnceInv, SendingUnknown
    <3>2. ASSUME j \in Jobs, Holding(j), upJob \in Jobs, Holding(upJob),
                 j # upJob
          PROVE  UidOf[j] # UidOf[upJob]
      BY <3>2, OneHolder
    <3> QED
      BY <2>1, <3>1, <3>2
  <2> QED
    BY <2>2 DEF SendingUnknown, upVars
<1>4. Counted'
  BY DEF OnceInv, Counted
<1> QED
  BY <1>1, <1>2, <1>3, <1>4 DEF OnceInv

(* A step that writes no record and moves no job. *)
LEMMA QuietOnce ==
    ASSUME OnceInv, OwnInv',
           UNCHANGED <<dl, ul, older, queueVars, dlVars, upVars, healJob,
                       admVars, known, delivered>>
    PROVE  OnceInv'
<1>1. RecordWrite(NoJob)
  BY NoWrite DEF OnceInv
<1>2. Moves(NoJob)
  BY DEF Moves, queueVars, dlVars, upVars
<1> QED
  BY <1>1, <1>2, HandlerOnce, JobsAssumption

-----------------------------------------------------------------------------
(* The workers *)

LEMMA RetryDownloadWrite ==
    ASSUME RecordsOK, NEW j \in Jobs, NEW s, NEW r, RetryDownload(j, s, r)
    PROVE  RecordWrite(j) /\ retryDl' \subseteq retryDl \cup {j}
  BY RecordWrites DEF RetryDownload

LEMMA RenewOrFailWrite ==
    ASSUME RecordsOK, NEW j \in Jobs, RenewOrFail(j)
    PROVE  RecordWrite(j) /\ retryDl' \subseteq retryDl \cup {j}
  BY RecordWrites DEF RenewOrFail

LEMMA DownloadWrites ==
    ASSUME TypeOK, OrderOK, NEW w \in DlWorkers, NEW j \in Jobs, dlJob[w] = j,
           \/ download_start(w) \/ download_complete(w) \/ download_handoff(w)
           \/ download_duplicate(w) \/ download_deferred(w)
           \/ download_stalled(w) \/ download_flood_wait(w)
           \/ download_reconnect(w) \/ download_dead(w)
           \/ download_source_error(w) \/ download_error(w)
    PROVE  /\ RecordWrite(j) /\ Moves(j)
           /\ known' = known \/ known' = known \cup {UidOf[j]}
           /\ UNCHANGED <<admVars, upVars, delivered>>
<1>1. RecordsOK /\ dlJob \in [DlWorkers -> Jobs \cup {NoJob}]
  BY DEF TypeOK, DownloadersOK
<1>2. DlDone(w) => \A v \in DlWorkers : dlJob'[v] \in {dlJob[v], NoJob, j}
  BY <1>1 DEF DlDone
<1>3. CASE download_start(w)
  BY <1>3, NoWrite
     DEF download_start, Moves, recordVars, queueVars, mediaVars, upVars,
         healVars
<1>4. CASE download_complete(w)
  BY <1>1, <1>4, RecordWrites
     DEF download_complete, Moves, queueVars, upVars, healVars
<1>5. CASE download_handoff(w)
  <2>1. RecordWrite(j)
    BY <1>5, NoWrite DEF download_handoff, recordVars
  <2>2. Moves(j)
    BY <1>2, <1>5 DEF download_handoff, Moves, upVars, healVars
  <2> QED
    BY <1>5, <2>1, <2>2 DEF download_handoff
<1>6. CASE download_duplicate(w) \/ download_dead(w)
  <2>1. RecordWrite(j)
    BY <1>1, <1>6, RecordWrites DEF download_duplicate, download_dead
  <2>2. Moves(j)
    BY <1>2, <1>6
       DEF download_duplicate, download_dead, Moves, queueVars, upVars, healVars
  <2> QED
    BY <1>6, <2>1, <2>2 DEF download_duplicate, download_dead
<1>7. ASSUME \/ download_deferred(w) \/ download_stalled(w)
             \/ download_flood_wait(w) \/ download_reconnect(w)
             \/ download_source_error(w) \/ download_error(w)
      PROVE  /\ RecordWrite(j) /\ Moves(j) /\ known' = known
             /\ UNCHANGED <<admVars, upVars, delivered>>
  <2>1. RecordWrite(j) /\ retryDl' \subseteq retryDl \cup {j}
    <3>1. CASE \/ download_deferred(w) \/ download_stalled(w)
               \/ download_reconnect(w)
      BY <1>1, <3>1, RetryDownloadWrite
         DEF download_deferred, download_stalled, download_reconnect
    <3>2. CASE download_flood_wait(w)
      BY <1>1, <3>2, RetryDownloadWrite, RenewOrFailWrite
         DEF download_flood_wait
    <3>3. CASE download_source_error(w)
      BY <1>1, <3>3, RecordWrites, RenewOrFailWrite
         DEF download_source_error
    <3>4. CASE download_error(w)
      BY <1>1, <3>4, RecordWrites, RetryDownloadWrite, RenewOrFailWrite
         DEF download_error
    <3> QED
      BY <1>7, <3>1, <3>2, <3>3, <3>4
  <2>2. /\ DlDone(w)
        /\ UNCHANGED <<dq, uq, retryUl, admVars, upVars, healVars, known,
                       delivered>>
    BY <1>7
       DEF download_deferred, download_stalled, download_flood_wait,
           download_reconnect, download_source_error, download_error
  <2> QED
    BY <1>2, <2>1, <2>2 DEF Moves, upVars, healVars
<1> QED
  BY <1>3, <1>4, <1>5, <1>6, <1>7

LEMMA DownloadOnce ==
    ASSUME OnceInv, OwnInv', NEW w \in DlWorkers, DownloadNext(w)
    PROVE  OnceInv'
<1>1. TypeOK /\ OrderOK
  BY DEF OnceInv, OwnInv
<1>2. ASSUME NEW j \in Jobs, download_take(w, j) PROVE OnceInv'
  <2>1. Holding(j) /\ RecordWrite(j)
    BY <1>1, <1>2, RecordWrites DEF download_take, Holding, LiveJob, TypeOK
  <2>2. Moves(j)
    BY <1>1, <1>2 DEF download_take, Moves, upVars, healVars, TypeOK,
                     DownloadersOK
  <2>3. Rec(j) /\ ~Blocked(j)
    BY <2>1, HoldingRec DEF OnceInv, OldestHeld
  <2> QED
    BY <1>2, <2>1, <2>2, <2>3, HandlerOnce DEF download_take, mediaVars
<1>3. ASSUME ~\E j \in Jobs : download_take(w, j) PROVE OnceInv'
  <2>1. \/ download_start(w) \/ download_complete(w) \/ download_handoff(w)
        \/ download_duplicate(w) \/ download_deferred(w)
        \/ download_stalled(w) \/ download_flood_wait(w)
        \/ download_reconnect(w) \/ download_dead(w)
        \/ download_source_error(w) \/ download_error(w)
    BY <1>3 DEF DownloadNext
  <2>2. dlStage[w] # "idle"
    BY <2>1
       DEF download_start, download_complete, download_handoff,
           download_duplicate, download_deferred, download_stalled,
           download_flood_wait, download_reconnect, download_dead,
           download_source_error, download_error
  <2>3. PICK j \in Jobs : dlJob[w] = j
    BY <1>1, <2>2, DlBusy DEF TypeOK
  <2>4. Holding(j) /\ Rec(j) /\ ~Blocked(j)
    BY <2>3, HoldingRec DEF OnceInv, OldestHeld, Holding, LiveJob
  <2>5. j # upJob
    BY <2>3 DEF OnceInv, OwnInv, JobOwned, OnePlace
  <2>6. /\ RecordWrite(j) /\ Moves(j)
        /\ known' = known \/ known' = known \cup {UidOf[j]}
        /\ UNCHANGED <<admVars, upVars, delivered>>
    BY <1>1, <2>1, <2>3, DownloadWrites
  <2> QED
    BY <2>4, <2>5, <2>6, HandlerOnce
<1> QED
  BY <1>2, <1>3

LEMMA RetryUploadWrite ==
    ASSUME RecordsOK, NEW j \in Jobs, RetryUpload(j)
    PROVE  RecordWrite(j) /\ retryUl' \subseteq retryUl \cup {j}
  BY RecordWrites DEF RetryUpload

LEMMA RenewOrFailUploadWrite ==
    ASSUME RecordsOK, NEW j \in Jobs, NEW s, RenewOrFailUpload(j, s)
    PROVE  /\ RecordWrite(j) /\ retryDl' \subseteq retryDl \cup {j}
           /\ UNCHANGED <<dq, uq, retryUl>>
  BY RecordWrites DEF RenewOrFailUpload

(* Every step of the upload worker with its job but the first. *)
LEMMA UploadWrites ==
    ASSUME TypeOK, OrderOK, NEW j \in Jobs, upJob = j,
           \/ upload_start \/ upload_grace \/ upload_duplicate \/ upload_done
           \/ upload_stalled \/ upload_reconnect \/ upload_flood_wait
           \/ upload_fresh_download \/ upload_dead \/ upload_invalid
           \/ upload_error
    PROVE  /\ RecordWrite(j) /\ Moves(j)
           /\ known' = known \/ known' = known \cup {UidOf[j]}
           /\ UNCHANGED admVars
<1>1. RecordsOK
  BY DEF TypeOK
<1>2. CASE upload_start
  BY <1>1, <1>2, RecordWrites
     DEF upload_start, Moves, queueVars, mediaVars, dlVars, healVars
<1>3. CASE upload_duplicate \/ upload_done \/ upload_dead
  <2>1. RecordWrite(j)
    BY <1>1, <1>3, RecordWrites DEF upload_duplicate, upload_done, upload_dead
  <2>2. UpFree /\ UNCHANGED <<queueVars, dlVars, admVars, healVars>>
    BY <1>3 DEF upload_duplicate, upload_done, upload_dead
  <2>3. known' = known \/ known' = known \cup {UidOf[j]}
    BY <1>3 DEF upload_duplicate, upload_done, upload_dead
  <2> QED
    BY <2>1, <2>2, <2>3 DEF Moves, UpFree, queueVars, dlVars, healVars
<1>4. ASSUME \/ upload_grace \/ upload_stalled \/ upload_reconnect
             \/ upload_flood_wait \/ upload_fresh_download \/ upload_invalid
             \/ upload_error
      PROVE  /\ RecordWrite(j) /\ Moves(j) /\ known' = known
             /\ UNCHANGED admVars
  <2>1. UpFree /\ UNCHANGED <<known, dlVars, admVars, healVars>>
    BY <1>4
       DEF upload_grace, upload_stalled, upload_reconnect, upload_flood_wait,
           upload_fresh_download, upload_invalid, upload_error
  <2>2. /\ RecordWrite(j) /\ UNCHANGED <<dq, uq>>
        /\ retryDl' \subseteq retryDl \cup {j}
        /\ retryUl' \subseteq retryUl \cup {j}
    <3>1. CASE upload_grace \/ upload_stalled \/ upload_reconnect
      BY <1>1, <3>1, RetryUploadWrite
         DEF upload_grace, upload_stalled, upload_reconnect
    <3>2. CASE upload_flood_wait
      BY <1>1, <3>2, RetryUploadWrite, RenewOrFailUploadWrite
         DEF upload_flood_wait
    <3>3. CASE upload_error
      BY <1>1, <3>3, RetryUploadWrite, RenewOrFailUploadWrite
         DEF upload_error
    <3>4. CASE upload_invalid
      BY <1>1, <3>4, RenewOrFailUploadWrite DEF upload_invalid
    <3>5. CASE upload_fresh_download
      <4>1. RecordWrite(j)
        BY <1>1, <3>5, RecordWrites DEF upload_fresh_download
      <4> QED
        BY <3>5, <4>1 DEF upload_fresh_download
    <3> QED
      BY <1>4, <3>1, <3>2, <3>3, <3>4, <3>5
  <2> QED
    BY <2>1, <2>2 DEF Moves, UpFree, dlVars, healVars
<1> QED
  BY <1>2, <1>3, <1>4

LEMMA UploadOnce ==
    ASSUME OnceInv, OwnInv', UploadNext
    PROVE  OnceInv'
<1>1. TypeOK /\ OrderOK
  BY DEF OnceInv, OwnInv
<1>2. ASSUME NEW j \in Jobs, upload_take(j) PROVE OnceInv'
  <2>1. Holding(j) /\ RecordWrite(j) /\ Moves(j)
    BY <1>1, <1>2, NoWrite
       DEF upload_take, Holding, LiveJob, Moves, recordVars, dlVars, healVars
  <2>2. Rec(j) /\ ~Blocked(j)
    BY <2>1, HoldingRec DEF OnceInv, OldestHeld
  <2>3. UNCHANGED <<admVars, known, delivered>> /\ upStage' = "taken"
    BY <1>2 DEF upload_take, mediaVars
  <2>4. OrderOK' /\ OldestHeld'
    BY <2>1, <2>2, OldestStays
  <2>5. FreshMarks'
    BY <2>1, <2>2, <2>3, MarksStay
  <2>6. SendingUnknown' /\ Counted'
    BY <2>3 DEF SendingUnknown, OnceInv, Counted
  <2> QED
    BY <2>4, <2>5, <2>6 DEF OnceInv
<1>3. ASSUME ~\E j \in Jobs : upload_take(j) PROVE OnceInv'
  <2>1. \/ upload_start \/ upload_grace \/ upload_duplicate \/ upload_done
        \/ upload_stalled \/ upload_reconnect \/ upload_flood_wait
        \/ upload_fresh_download \/ upload_dead \/ upload_invalid
        \/ upload_error
    BY <1>3 DEF UploadNext
  <2>2. upStage # "idle"
    BY <2>1
       DEF upload_start, upload_grace, upload_duplicate, upload_done,
           upload_stalled, upload_reconnect, upload_flood_wait,
           upload_fresh_download, upload_dead, upload_invalid, upload_error
  <2>3. PICK j \in Jobs : upJob = j
    BY <1>1, <2>2 DEF TypeOK, UploaderOK
  <2>4. Rec(j) /\ ~Blocked(j)
    BY <2>3, HoldingRec DEF OnceInv, OldestHeld, Holding, LiveJob
  <2>5. /\ RecordWrite(j) /\ Moves(j)
        /\ known' = known \/ known' = known \cup {UidOf[j]}
        /\ UNCHANGED admVars
    BY <1>1, <2>1, <2>3, UploadWrites
  <2>6. OrderOK' /\ OldestHeld'
    BY <2>4, <2>5, OldestStays
  <2>7. FreshMarks'
    BY <2>4, <2>5, MarksStay
  <2>8. SendingUnknown'
    <3>1. CASE upload_start
      BY <3>1 DEF upload_start, SendingUnknown, mediaVars
    <3>2. CASE ~upload_start
      <4>1. UpFree
        BY <2>1, <3>2
           DEF upload_grace, upload_duplicate, upload_done, upload_stalled,
               upload_reconnect, upload_flood_wait, upload_fresh_download,
               upload_dead, upload_invalid, upload_error
      <4> QED
        BY <4>1 DEF UpFree, SendingUnknown
    <3> QED
      BY <3>1, <3>2
  <2>9. Counted'
    <3>1. CASE upload_done
      <4> DEFINE u == UidOf[j]
      <4>1. u \in Uids /\ delivered \in [Uids -> Nat]
        BY <1>1, JobsAssumption DEF TypeOK, MediaOK
      <4>2. /\ delivered' = [delivered EXCEPT ![u] = @ + 1]
            /\ known' = known \cup {u} /\ u \notin known
        BY <2>3, <3>1 DEF upload_done, OnceInv, SendingUnknown
      <4>3. Counted
        BY DEF OnceInv
      <4> HIDE DEF u
      <4>4. delivered[u] = 0
        BY <4>1, <4>2, <4>3 DEF Counted
      <4> QED
        BY <4>1, <4>2, <4>3, <4>4 DEF Counted
    <3>2. CASE ~upload_done
      <4>1. delivered' = delivered
        BY <2>1, <3>2
           DEF upload_start, upload_grace, upload_duplicate, upload_stalled,
               upload_reconnect, upload_flood_wait, upload_fresh_download,
               upload_dead, upload_invalid, upload_error, mediaVars
      <4> QED
        BY <2>5, <4>1 DEF OnceInv, Counted
    <3> QED
      BY <3>1, <3>2
  <2> QED
    BY <2>6, <2>7, <2>8, <2>9 DEF OnceInv
<1> QED
  BY <1>2, <1>3

-----------------------------------------------------------------------------
(* Recovery, the scheduler and the files *)

LEMMA AdmitWrites ==
    ASSUME RecordsOK, NEW j \in Jobs,
           retain_media_job_for_admission_backpressure(j) \/ enqueue_download(j)
    PROVE  /\ RecordWrite(j) /\ UNCHANGED <<uq, retryUl>>
           /\ dq' \subseteq dq \cup {j} /\ retryDl' \subseteq retryDl \cup {j}
<1>1. RecordWrite(j)
  BY RecordWrites
     DEF retain_media_job_for_admission_backpressure, enqueue_download
<1> QED
  BY <1>1 DEF retain_media_job_for_admission_backpressure, enqueue_download

LEMMA SkipDuplicateWrite ==
    ASSUME RecordsOK, NEW j \in Jobs, NEW lane, SkipDuplicate(j, lane)
    PROVE  RecordWrite(j)
<1>1. CASE lane = "upload"
  BY <1>1, RecordWrites DEF SkipDuplicate
<1>2. CASE lane # "upload"
  BY <1>2, RecordWrites DEF SkipDuplicate
<1> QED
  BY <1>1, <1>2

LEMMA RecoveryOnce ==
    ASSUME OnceInv, OwnInv', RecoveryNext
    PROVE  OnceInv'
<1>1. TypeOK /\ OrderOK /\ RecordsOK
  BY DEF OnceInv, OwnInv, TypeOK
<1>2. CASE \/ recovery_pass_start \/ healer_pass_start
           \/ heal_readmit \/ heal_filter_passes \/ recovery_pass_end
           \/ \E j \in Jobs, lane \in Lanes : heal_deferred(j, lane)
  <2>1. UNCHANGED <<dl, ul, older, queueVars, dlVars, upVars, healJob, admVars,
                    known, delivered>>
    BY <1>2
       DEF recovery_pass_start, healer_pass_start, heal_snapshot, heal_readmit,
           heal_filter_passes, recovery_pass_end, heal_deferred, recordVars,
           mediaVars
  <2> QED
    BY <2>1, QuietOnce
<1>3. ASSUME NEW j \in Jobs, NEW lane \in Lanes, heal_complete(j, lane)
      PROVE  OnceInv'
  <2>1. RecordWrite(j)
    BY <1>1, <1>3, SkipDuplicateWrite DEF heal_complete
  <2>2. /\ UNCHANGED <<queueVars, dlVars, upVars, healJob, admVars, known,
                       delivered>>
    BY <1>3 DEF heal_complete, mediaVars
  <2>3. Moves(NoJob)
    BY <2>2 DEF Moves, queueVars, dlVars, upVars
  <2>4. Rec(j)
    BY <1>3, HealedAlone DEF heal_complete, HealNext, Healing, OnceInv
  <2> QED
    BY <2>1, <2>2, <2>3, <2>4, HandlerOnce, JobsAssumption
<1>4. ASSUME NEW j \in Jobs, NEW lane \in Lanes, heal_fetch(j, lane)
      PROVE  OnceInv'
  <2>1. /\ UNCHANGED <<dl, ul, older, queueVars, dlVars, upVars, admVars, known,
                       delivered>>
        /\ healJob' = j
    BY <1>4 DEF heal_fetch, recordVars, mediaVars
  <2>2. RecordWrite(j) /\ Moves(j)
    BY <1>1, <2>1, NoWrite DEF Moves, queueVars, dlVars, upVars
  <2>3. Rec(j) /\ ~Blocked(j)
    <3>1. Rec(j)
      BY <1>4, HealedAlone DEF heal_fetch, HealNext, Healing, OnceInv
    <3> QED
      BY <1>4, <3>1
         DEF heal_fetch, reservation_blocks_owner, Blocked, Rec
  <2> QED
    BY <2>1, <2>2, <2>3, HandlerOnce
<1>5. ASSUME \/ heal_missing \/ heal_upload \/ heal_filter_drops
             \/ heal_retained \/ heal_queued
      PROVE  OnceInv'
  <2>1. PICK j \in Jobs : healJob = j
    <3>1. healStage \in {"fetch", "filter", "admit"}
      BY <1>5 DEF heal_missing, heal_upload, heal_filter_drops, heal_retained,
                 heal_queued
    <3> QED
      BY <1>1, <3>1 DEF TypeOK, RecoveryOK
  <2>2. Rec(j) /\ ~Blocked(j)
    BY <2>1, HoldingRec DEF OnceInv, OldestHeld, Holding
  <2>3. /\ UNCHANGED <<dlVars, upVars, admVars, known, delivered>>
        /\ healJob' = NoJob
    BY <1>5 DEF heal_missing, heal_upload, heal_filter_drops, heal_retained,
               heal_queued, HealResume, mediaVars
  <2>4. /\ RecordWrite(j)
        /\ dq' \subseteq dq \cup {j} /\ uq' \subseteq uq \cup {j}
        /\ retryDl' \subseteq retryDl \cup {j}
        /\ retryUl' \subseteq retryUl \cup {j}
    <3>1. CASE heal_missing
      BY <1>1, <2>1, <3>1, RecordWrites DEF heal_missing, queueVars
    <3>2. CASE heal_upload
      BY <1>1, <2>1, <3>2, RecordWrites DEF heal_upload
    <3>3. CASE heal_filter_drops
      <4>1. RecordWrite(j)
        BY <1>1, <2>1, <3>3, SkipDuplicateWrite, NoWrite
           DEF heal_filter_drops, recordVars
      <4> QED
        BY <3>3, <4>1 DEF heal_filter_drops, queueVars
    <3>4. CASE heal_retained \/ heal_queued
      BY <1>1, <2>1, <3>4, AdmitWrites DEF heal_retained, heal_queued
    <3> QED
      BY <1>5, <3>1, <3>2, <3>3, <3>4
  <2>5. Moves(j)
    BY <2>3, <2>4 DEF Moves, dlVars, upVars
  <2> QED
    BY <2>2, <2>3, <2>4, <2>5, HandlerOnce
<1> QED
  BY <1>2, <1>3, <1>4, <1>5 DEF RecoveryNext

(* The scheduler, the state files and the clearing of the cache. *)
LEMMA SystemOnce ==
    ASSUME OnceInv, OwnInv',
           \/ clear_processing_cache_if_idle
           \/ \E j \in Jobs :
                retry_scheduler_download(j) \/ retry_scheduler_upload(j)
           \/ save_download_queue \/ save_upload_queue
    PROVE  OnceInv'
<1>1. ASSUME NEW j \in Jobs,
             retry_scheduler_download(j) \/ retry_scheduler_upload(j)
      PROVE  OnceInv'
  <2>1. Holding(j)
    BY <1>1 DEF retry_scheduler_download, retry_scheduler_upload, Holding,
                LiveJob
  <2>2. UNCHANGED <<dl, ul, older, dlVars, upVars, admVars, healVars, known,
                    delivered>>
    BY <1>1 DEF retry_scheduler_download, retry_scheduler_upload, recordVars,
               mediaVars
  <2>3. Moves(j)
    BY <1>1 DEF retry_scheduler_download, retry_scheduler_upload, Moves, dlVars,
               upVars, healVars
  <2>4. RecordWrite(j) /\ Rec(j) /\ ~Blocked(j)
    BY <2>1, <2>2, NoWrite, HoldingRec DEF OnceInv, OldestHeld
  <2> QED
    BY <2>2, <2>3, <2>4, HandlerOnce
<1>2. CASE clear_processing_cache_if_idle \/ save_download_queue
               \/ save_upload_queue
  <2>1. UNCHANGED <<dl, ul, older, queueVars, dlVars, upVars, healJob, admVars,
                    known, delivered>>
    BY <1>2
       DEF clear_processing_cache_if_idle, save_download_queue,
           save_upload_queue, recordVars, mediaVars, healVars
  <2> QED
    BY <2>1, QuietOnce
<1> QED
  BY <1>1, <1>2

-----------------------------------------------------------------------------
(* Producers and restarts *)

(* What a producer with a job in hand does to it. *)
LEMMA ProducerWrites ==
    ASSUME TypeOK, OrderOK, NEW p \in Producers, NEW j \in Jobs, admJob[p] = j,
           \/ enqueue_duplicate(p) \/ enqueue_filtered(p) \/ enqueue_retained(p)
           \/ fast_path_copied(p) \/ fast_path_ambiguous(p) \/ enqueue_queued(p)
    PROVE  /\ RecordWrite(j) /\ Moves(j) /\ UNCHANGED upVars
           /\ known' = known \/ known' = known \cup {UidOf[j]}
<1>1. RecordsOK
  BY DEF TypeOK
<1>2. CASE enqueue_duplicate(p) \/ enqueue_filtered(p) \/ fast_path_copied(p)
  <2>1. UNCHANGED <<recordVars, queueVars, dlVars, upVars, healVars>>
    BY <1>2 DEF enqueue_duplicate, enqueue_filtered, fast_path_copied
  <2>2. known' = known \/ known' = known \cup {UidOf[j]}
    BY <1>2 DEF enqueue_duplicate, enqueue_filtered, fast_path_copied, mediaVars
  <2> QED
    BY <2>1, <2>2, NoWrite
       DEF Moves, recordVars, queueVars, dlVars, upVars, healVars
<1>3. ASSUME enqueue_retained(p) \/ fast_path_ambiguous(p) \/ enqueue_queued(p)
      PROVE  RecordWrite(j) /\ Moves(j) /\ UNCHANGED upVars /\ known' = known
  <2>1. UNCHANGED <<dlVars, upVars, healVars, known>>
    BY <1>3 DEF enqueue_retained, fast_path_ambiguous, enqueue_queued
  <2>2. /\ RecordWrite(j) /\ UNCHANGED <<uq, retryUl>>
        /\ dq' \subseteq dq \cup {j} /\ retryDl' \subseteq retryDl \cup {j}
    <3>1. CASE enqueue_retained(p) \/ enqueue_queued(p)
      BY <1>1, <3>1, AdmitWrites DEF enqueue_retained, enqueue_queued
    <3>2. CASE fast_path_ambiguous(p)
      BY <1>1, <3>2, RecordWrites DEF fast_path_ambiguous
    <3> QED
      BY <1>3, <3>1, <3>2
  <2> QED
    BY <2>1, <2>2 DEF Moves, dlVars, upVars, healVars
<1> QED
  BY <1>2, <1>3

LEMMA ProducerOnce ==
    ASSUME OnceInv, OwnInv', MediaHeldOnce, NEW p \in Producers, ProducerNext(p)
    PROVE  OnceInv'
<1>1. TypeOK /\ OrderOK /\ ProducersOK
  BY DEF OnceInv, OwnInv, TypeOK
<1>2. ASSUME NEW j \in Jobs, check_and_mark_processing(p, j) PROVE OnceInv'
  <2>1. UNCHANGED <<recordVars, queueVars, known, delivered, dlVars, upVars,
                    healVars>>
    BY <1>2 DEF check_and_mark_processing
  <2>2. RecordWrite(NoJob) /\ Moves(NoJob)
    BY <1>1, <2>1, NoWrite
       DEF Moves, recordVars, queueVars, dlVars, upVars, healVars
  <2>3. OrderOK' /\ OldestHeld'
    BY <2>2, OldestStays, JobsAssumption
  <2>4. FreshMarks'
    <3> SUFFICES ASSUME NEW q \in Producers, Busy(q)'
                 PROVE  UidOf[admJob'[q]] \notin known'
                            /\ ~Claimed(UidOf[admJob[q]])'
      BY DEF FreshMarks
    <3>1. UidOf[admJob'[q]] \notin known /\ ~Claimed(UidOf[admJob'[q]])
      <4>1. CASE q = p
        BY <1>1, <1>2, <4>1
           DEF check_and_mark_processing, ProducersOK, Claimed,
               reservation_blocks_anyone, Rec
      <4>2. CASE q # p
        <5>1. admJob'[q] = admJob[q] /\ Busy(q)
          BY <1>1, <1>2, <4>2 DEF check_and_mark_processing, ProducersOK, Busy
        <5> QED
          BY <5>1 DEF OnceInv, FreshMarks
      <4> QED
        BY <4>1, <4>2
    <3>2. \A k \in Jobs : Rec(k)' <=> Rec(k)
      BY <2>1 DEF recordVars, Rec, persisted_queue_job_is_recoverable, Stuck
    <3> QED
      BY <2>1, <3>1, <3>2 DEF Claimed
  <2>5. SendingUnknown' /\ Counted'
    BY <2>1 DEF OnceInv, SendingUnknown, Counted, upVars
  <2> QED
    BY <2>3, <2>4, <2>5 DEF OnceInv
<1>3. ASSUME \/ enqueue_duplicate(p) \/ enqueue_filtered(p)
             \/ enqueue_retained(p) \/ fast_path_copied(p)
             \/ fast_path_ambiguous(p) \/ enqueue_queued(p)
      PROVE  OnceInv'
  <2>1. Busy(p)
    BY <1>3 DEF Busy, enqueue_duplicate, enqueue_filtered, enqueue_retained,
               fast_path_copied, fast_path_ambiguous, enqueue_queued
  <2>2. PICK j \in Jobs : admJob[p] = j
    BY <1>1, <2>1 DEF ProducersOK, Busy
  <2>3. UidOf[j] \notin known /\ ~Claimed(UidOf[j])
    BY <2>1, <2>2 DEF OnceInv, FreshMarks
  <2>4. /\ RecordWrite(j) /\ Moves(j) /\ UNCHANGED upVars
        /\ known' = known \/ known' = known \cup {UidOf[j]}
    BY <1>1, <1>3, <2>2, ProducerWrites
  <2>5. OrderOK' /\ OldestHeld'
    BY <2>3, <2>4, OldestStays
  <2>6. FreshMarks'
    <3> SUFFICES ASSUME NEW q \in Producers, Busy(q)'
                 PROVE  UidOf[admJob'[q]] \notin known'
                            /\ ~Claimed(UidOf[admJob[q]])'
      BY DEF FreshMarks
    <3>1. CASE enqueue_filtered(p)
      <4>1. /\ UNCHANGED <<admJob, recordVars, known>> /\ Busy(q)
        BY <1>1, <2>1, <3>1 DEF enqueue_filtered, mediaVars, ProducersOK, Busy
      <4>2. UidOf[admJob[q]] \notin known /\ ~Claimed(UidOf[admJob[q]])
        BY <4>1 DEF OnceInv, FreshMarks
      <4>3. \A k \in Jobs : Rec(k)' <=> Rec(k)
        BY <4>1 DEF recordVars, Rec, persisted_queue_job_is_recoverable, Stuck
      <4> QED
        BY <4>1, <4>2, <4>3 DEF Claimed
    <3>2. CASE ~enqueue_filtered(p)
      <4>1. Release(p)
        BY <1>3, <3>2
           DEF enqueue_duplicate, enqueue_retained, fast_path_copied,
               fast_path_ambiguous, enqueue_queued
      <4>2. q # p /\ admJob'[q] = admJob[q] /\ Busy(q)
        BY <1>1, <4>1 DEF Release, ProducersOK, Busy
      <4>3. UidOf[admJob[q]] # UidOf[j]
        BY <2>1, <2>2, <4>2 DEF MediaHeldOnce
      <4>4. UidOf[admJob[q]] \notin known /\ ~Claimed(UidOf[admJob[q]])
        BY <4>2 DEF OnceInv, FreshMarks
      <4>5. \A k \in Jobs : UidOf[k] = UidOf[admJob[q]] => ~Rec(k)'
        BY <2>4, <4>3, <4>4, OthersRecorded DEF Claimed
      <4> QED
        BY <2>4, <4>2, <4>3, <4>4, <4>5 DEF Claimed
    <3> QED
      BY <3>1, <3>2
  <2>7. SendingUnknown'
    <3>1. upStage = "sending" => upJob \in Jobs /\ Rec(upJob)
      BY HoldingRec
         DEF OnceInv, OwnInv, TypeOK, UploaderOK, Holding, LiveJob
    <3> QED
      BY <2>3, <2>4, <3>1 DEF OnceInv, SendingUnknown, Claimed, upVars
  <2>8. Counted'
    <3>1. CASE fast_path_copied(p)
      <4> DEFINE u == UidOf[j]
      <4>1. u \in Uids /\ delivered \in [Uids -> Nat]
        BY <1>1, JobsAssumption DEF TypeOK, MediaOK
      <4>2. /\ delivered' = [delivered EXCEPT ![u] = @ + 1]
            /\ known' = known \cup {u} /\ u \notin known
        BY <2>2, <2>3, <3>1 DEF fast_path_copied
      <4>3. Counted
        BY DEF OnceInv
      <4> HIDE DEF u
      <4>4. delivered[u] = 0
        BY <4>1, <4>2, <4>3 DEF Counted
      <4> QED
        BY <4>1, <4>2, <4>3, <4>4 DEF Counted
    <3>2. CASE ~fast_path_copied(p)
      <4>1. delivered' = delivered
        BY <1>3, <3>2
           DEF enqueue_duplicate, enqueue_filtered, enqueue_retained,
               fast_path_ambiguous, enqueue_queued, mediaVars
      <4> QED
        BY <2>4, <4>1 DEF OnceInv, Counted
    <3> QED
      BY <3>1, <3>2
  <2> QED
    BY <2>5, <2>6, <2>7, <2>8 DEF OnceInv
<1> QED
  BY <1>2, <1>3 DEF ProducerNext

(* A restart ranks the recorded jobs anew; nobody holds one yet. *)
LEMMA RestartOnce ==
    ASSUME OnceInv, OwnInv', Restart
    PROVE  OnceInv'
<1>1. OrderOK'
  <2> DEFINE upOwners == {k \in Jobs : Stuck(ulDisk[k])}
             dlOwners == {k \in Jobs : Stuck(dlDisk[k])} \ upOwners
             all == upOwners \cup dlOwners
  <2>1. /\ older' \in SUBSET (all \X all)
        /\ \A a, b \in all :
              a # b => ((<<a, b>> \in older') <=> (<<b, a>> \notin older'))
    BY DEF Restart, ReservationOrders
  <2>2. \A k \in Jobs : k \in all <=> Rec(k)'
    BY DEF Restart, Rec, persisted_queue_job_is_recoverable, Stuck
  <2> HIDE DEF all
  <2> QED
    BY <2>1, <2>2 DEF OrderOK
<1>2. OldestHeld'
  BY JobsAssumption DEF Restart, OldestHeld, Holding, LiveJob
<1>3. FreshMarks'
  BY DEF Restart, FreshMarks, Busy
<1>4. SendingUnknown' /\ Counted'
  BY DEF Restart, SendingUnknown, OnceInv, Counted
<1> QED
  BY <1>1, <1>2, <1>3, <1>4 DEF OnceInv

LEMMA OnceInit == Init => OnceInv
<1> SUFFICES ASSUME Init PROVE OnceInv
  OBVIOUS
<1>1. OwnInv
  BY OwnInit
<1>2. OrderOK
  BY DEF Init, OrderOK, Rec, persisted_queue_job_is_recoverable, Stuck,
         QUEUE_STUCK_STATUSES
<1>3. OldestHeld /\ FreshMarks /\ SendingUnknown
  BY DEF Init, OldestHeld, Blocked, FreshMarks, Busy, SendingUnknown
<1>4. Counted
  BY DEF Init, Counted
<1> QED
  BY <1>1, <1>2, <1>3, <1>4 DEF OnceInv

(* Two producers with one job would hold its media twice. *)
LEMMA MediaThenJobs ==
    ASSUME ProducersOK, MediaHeldOnce
    PROVE  JobHeldOnce
  BY DEF ProducersOK, MediaHeldOnce, JobHeldOnce, Busy

LEMMA OnceNext ==
    ASSUME OnceInv, MediaHeldOnce, [Next]_vars
    PROVE  OnceInv'
<1>1. OwnInv'
  BY MediaThenJobs, OwnNext DEF OnceInv, OwnInv, TypeOK
<1>2. CASE Next
  BY <1>1, <1>2, ProducerOnce, DownloadOnce, UploadOnce, RecoveryOnce,
     SystemOnce, RestartOnce
     DEF Next
<1>3. CASE UNCHANGED vars
  <2>1. UNCHANGED <<dl, ul, older, queueVars, dlVars, upVars, healJob, admVars,
                    known, delivered>>
    BY <1>3 DEF vars, recordVars, mediaVars, healVars
  <2> QED
    BY <1>1, <2>1, QuietOnce
<1> QED
  BY <1>2, <1>3

LEMMA Once == Spec /\ []MediaHeldOnce => []OnceInv
  BY OnceInit, OnceNext, PTL DEF Spec

(* Media reach the target once, over all admissions, retries, recoveries and
   restarts, as long as no two producers hold the same media. *)
THEOREM MediaAreDeliveredOnce == Spec /\ []MediaHeldOnce => []NoDoubleDelivery
<1>1. OnceInv => NoDoubleDelivery
  BY DEF OnceInv, Counted, NoDoubleDelivery
<1> QED
  BY <1>1, Once, PTL

-----------------------------------------------------------------------------
(* When producers do not share media *)

(* The marks in the processing cache are what keeps producers apart. *)
MarkHeld == \A p \in Producers : Busy(p) => UidOf[admJob[p]] \in processing

(* A clearing of the cache that takes the mark of a producer at work. *)
ClearsMark ==
    /\ clear_processing_cache_if_idle \/ healer_pass_start
    /\ \E p \in Producers : Busy(p) /\ UidOf[admJob[p]] \notin processing'

MarkInv == OnceInv /\ MarkHeld /\ MediaHeldOnce

Unmarks(j) == processing \ {UidOf[j]} \subseteq processing'

(* A handler gives back the key of a recorded job only. *)
LEMMA UnmarkedRecorded ==
    ASSUME MarkInv, NEW j \in Jobs, Rec(j), Unmarks(j), UNCHANGED admVars
    PROVE  MarkHeld' /\ MediaHeldOnce'
<1>1. ASSUME NEW p \in Producers, Busy(p)
      PROVE  UidOf[admJob[p]] # UidOf[j]
  BY <1>1 DEF MarkInv, OnceInv, FreshMarks, Claimed
<1>2. MarkHeld'
  BY <1>1 DEF MarkInv, MarkHeld, Unmarks, Busy, admVars
<1>3. MediaHeldOnce'
  BY DEF MarkInv, MediaHeldOnce, Busy, admVars
<1> QED
  BY <1>2, <1>3

LEMMA KeptMarks ==
    ASSUME MarkInv, processing \subseteq processing', UNCHANGED admVars
    PROVE  MarkHeld' /\ MediaHeldOnce'
<1>1. MarkHeld'
  BY DEF MarkInv, MarkHeld, Busy, admVars
<1>2. MediaHeldOnce'
  BY DEF MarkInv, MediaHeldOnce, Busy, admVars
<1> QED
  BY <1>1, <1>2

LEMMA DownloadMarks ==
    ASSUME MarkInv, NEW w \in DlWorkers, DownloadNext(w)
    PROVE  MarkHeld' /\ MediaHeldOnce'
<1>1. CASE \/ \E j \in Jobs : download_take(w, j)
           \/ download_start(w) \/ download_deferred(w) \/ download_complete(w)
           \/ download_handoff(w) \/ download_stalled(w)
           \/ download_reconnect(w)
  <2>1. UNCHANGED <<processing, admVars>>
    BY <1>1
       DEF download_take, download_start, download_deferred, download_complete,
           download_handoff, download_stalled, download_reconnect, mediaVars
  <2> QED
    BY <2>1, KeptMarks
<1>2. ASSUME \/ download_duplicate(w) \/ download_flood_wait(w)
             \/ download_dead(w) \/ download_source_error(w)
             \/ download_error(w)
      PROVE  MarkHeld' /\ MediaHeldOnce'
  <2>1. dlStage[w] # "idle"
    BY <1>2
       DEF download_duplicate, download_flood_wait, download_dead,
           download_source_error, download_error
  <2>2. PICK j \in Jobs : dlJob[w] = j
    BY <2>1, DlBusy DEF MarkInv, OnceInv, OwnInv, TypeOK
  <2>3. Unmarks(j)
    BY <1>2, <2>2
       DEF download_duplicate, download_flood_wait, download_dead,
           download_source_error, download_error, RenewOrFail, DropProcessing,
           Unmarks
  <2>4. UNCHANGED admVars
    BY <1>2
       DEF download_duplicate, download_flood_wait, download_dead,
           download_source_error, download_error
  <2>5. Rec(j)
    BY <2>2, HoldingRec DEF MarkInv, OnceInv, Holding, LiveJob
  <2> QED
    BY <2>3, <2>4, <2>5, UnmarkedRecorded
<1> QED
  BY <1>1, <1>2 DEF DownloadNext

LEMMA UploadMarks ==
    ASSUME MarkInv, UploadNext
    PROVE  MarkHeld' /\ MediaHeldOnce'
<1>1. CASE \/ \E j \in Jobs : upload_take(j)
           \/ upload_start \/ upload_grace \/ upload_stalled
           \/ upload_reconnect \/ upload_fresh_download
  <2>1. UNCHANGED <<processing, admVars>>
    BY <1>1
       DEF upload_take, upload_start, upload_grace, upload_stalled,
           upload_reconnect, upload_fresh_download, mediaVars
  <2> QED
    BY <2>1, KeptMarks
<1>2. ASSUME \/ upload_duplicate \/ upload_done \/ upload_flood_wait
             \/ upload_dead \/ upload_invalid \/ upload_error
      PROVE  MarkHeld' /\ MediaHeldOnce'
  <2>1. upStage # "idle"
    BY <1>2 DEF upload_duplicate, upload_done, upload_flood_wait, upload_dead,
               upload_invalid, upload_error
  <2>2. PICK j \in Jobs : upJob = j
    BY <2>1 DEF MarkInv, OnceInv, OwnInv, TypeOK, UploaderOK
  <2>3. Unmarks(j)
    BY <1>2, <2>2
       DEF upload_duplicate, upload_done, upload_flood_wait, upload_dead,
           upload_invalid, upload_error, RenewOrFailUpload, Unmarks
  <2>4. UNCHANGED admVars
    BY <1>2 DEF upload_duplicate, upload_done, upload_flood_wait, upload_dead,
               upload_invalid, upload_error
  <2>5. Rec(j)
    BY <2>2, HoldingRec DEF MarkInv, OnceInv, Holding, LiveJob
  <2> QED
    BY <2>3, <2>4, <2>5, UnmarkedRecorded
<1> QED
  BY <1>1, <1>2 DEF UploadNext

LEMMA ProducerMarks ==
    ASSUME MarkInv, NEW p \in Producers, ProducerNext(p)
    PROVE  MarkHeld' /\ MediaHeldOnce'
<1>1. ProducersOK
  BY DEF MarkInv, OnceInv, OwnInv, TypeOK
<1>2. ASSUME NEW j \in Jobs, check_and_mark_processing(p, j)
      PROVE  MarkHeld' /\ MediaHeldOnce'
  <2>1. /\ UidOf[j] \notin processing
        /\ processing' = processing \cup {UidOf[j]}
        /\ admJob'[p] = j
        /\ \A q \in Producers \ {p} :
              admJob'[q] = admJob[q] /\ (Busy(q)' <=> Busy(q))
    BY <1>1, <1>2 DEF check_and_mark_processing, ProducersOK, Busy
  <2>2. MarkHeld'
    BY <2>1 DEF MarkInv, MarkHeld
  <2>3. MediaHeldOnce'
    BY <2>1 DEF MarkInv, MarkHeld, MediaHeldOnce
  <2> QED
    BY <2>2, <2>3
<1>3. CASE enqueue_filtered(p)
  <2>1. UNCHANGED <<admJob, processing>>
    BY <1>3 DEF enqueue_filtered, mediaVars
  <2>2. \A q \in Producers : Busy(q)' <=> Busy(q)
    BY <1>1, <1>3 DEF enqueue_filtered, ProducersOK, Busy
  <2>3. MarkHeld'
    BY <2>1, <2>2 DEF MarkInv, MarkHeld
  <2>4. MediaHeldOnce'
    BY <2>1, <2>2 DEF MarkInv, MediaHeldOnce
  <2> QED
    BY <2>3, <2>4
<1>4. ASSUME \/ enqueue_duplicate(p) \/ enqueue_retained(p)
             \/ fast_path_copied(p) \/ fast_path_ambiguous(p)
             \/ enqueue_queued(p)
      PROVE  MarkHeld' /\ MediaHeldOnce'
  <2>1. /\ Release(p) /\ Busy(p)
        /\ processing \ {UidOf[admJob[p]]} \subseteq processing'
    BY <1>4 DEF enqueue_duplicate, enqueue_retained, fast_path_copied,
               fast_path_ambiguous, enqueue_queued, Busy
  <2>2. /\ ~Busy(p)'
        /\ \A q \in Producers \ {p} :
              admJob'[q] = admJob[q] /\ (Busy(q)' <=> Busy(q))
    BY <1>1, <2>1 DEF Release, ProducersOK, Busy
  <2>3. \A q \in Producers \ {p} :
            Busy(q) => UidOf[admJob[q]] # UidOf[admJob[p]]
    BY <2>1 DEF MarkInv, MediaHeldOnce
  <2>4. MarkHeld'
    BY <2>1, <2>2, <2>3 DEF MarkInv, MarkHeld
  <2>5. MediaHeldOnce'
    BY <2>2 DEF MarkInv, MediaHeldOnce
  <2> QED
    BY <2>4, <2>5
<1> QED
  BY <1>2, <1>3, <1>4 DEF ProducerNext

LEMMA RecoveryMarks ==
    ASSUME MarkInv, RecoveryNext, ~ClearsMark
    PROVE  MarkHeld' /\ MediaHeldOnce'
<1>1. CASE healer_pass_start
  <2>1. UNCHANGED admVars
    BY <1>1 DEF healer_pass_start
  <2>2. \A p \in Producers : Busy(p) => UidOf[admJob[p]] \in processing'
    BY <1>1 DEF ClearsMark
  <2>3. MarkHeld'
    BY <2>1, <2>2 DEF MarkHeld, Busy, admVars
  <2>4. MediaHeldOnce'
    BY <2>1 DEF MarkInv, MediaHeldOnce, Busy, admVars
  <2> QED
    BY <2>3, <2>4
<1>2. CASE \/ recovery_pass_start
           \/ \E j \in Jobs, lane \in Lanes :
                 \/ heal_complete(j, lane) \/ heal_deferred(j, lane)
                 \/ heal_fetch(j, lane)
           \/ heal_missing \/ heal_readmit \/ heal_filter_passes
           \/ heal_retained \/ heal_queued \/ recovery_pass_end
  <2>1. processing \subseteq processing' /\ UNCHANGED admVars
    BY <1>2
       DEF recovery_pass_start, heal_complete, heal_deferred, heal_fetch,
           heal_missing, heal_readmit, heal_filter_passes, heal_retained,
           heal_queued, recovery_pass_end, mediaVars
  <2> QED
    BY <2>1, KeptMarks
<1>3. ASSUME heal_upload \/ heal_filter_drops
      PROVE  MarkHeld' /\ MediaHeldOnce'
  <2>1. PICK j \in Jobs : healJob = j
    <3>1. healStage \in {"fetch", "filter"}
      BY <1>3 DEF heal_upload, heal_filter_drops
    <3> QED
      BY <3>1 DEF MarkInv, OnceInv, OwnInv, TypeOK, RecoveryOK
  <2>2. Unmarks(j) /\ UNCHANGED admVars
    BY <1>3, <2>1 DEF heal_upload, heal_filter_drops, Unmarks
  <2>3. Rec(j)
    BY <2>1, HoldingRec DEF MarkInv, OnceInv, Holding
  <2> QED
    BY <2>2, <2>3, UnmarkedRecorded
<1> QED
  BY <1>1, <1>2, <1>3 DEF RecoveryNext

LEMMA SystemMarks ==
    ASSUME MarkInv, ~ClearsMark,
           \/ clear_processing_cache_if_idle
           \/ \E j \in Jobs :
                retry_scheduler_download(j) \/ retry_scheduler_upload(j)
           \/ save_download_queue \/ save_upload_queue
           \/ Restart
    PROVE  MarkHeld' /\ MediaHeldOnce'
<1>1. CASE clear_processing_cache_if_idle
  <2>1. UNCHANGED admVars
    BY <1>1 DEF clear_processing_cache_if_idle
  <2>2. \A p \in Producers : Busy(p) => UidOf[admJob[p]] \in processing'
    BY <1>1 DEF ClearsMark
  <2>3. MarkHeld'
    BY <2>1, <2>2 DEF MarkHeld, Busy, admVars
  <2>4. MediaHeldOnce'
    BY <2>1 DEF MarkInv, MediaHeldOnce, Busy, admVars
  <2> QED
    BY <2>3, <2>4
<1>2. CASE \/ \E j \in Jobs :
                retry_scheduler_download(j) \/ retry_scheduler_upload(j)
           \/ save_download_queue \/ save_upload_queue
  <2>1. UNCHANGED <<processing, admVars>>
    BY <1>2
       DEF retry_scheduler_download, retry_scheduler_upload,
           save_download_queue, save_upload_queue, mediaVars
  <2> QED
    BY <2>1, KeptMarks
<1>3. CASE Restart
  BY <1>3 DEF Restart, MarkHeld, MediaHeldOnce, Busy
<1> QED
  BY <1>1, <1>2, <1>3

LEMMA MarkInit == Init => MarkInv
  BY OnceInit DEF Init, MarkInv, MarkHeld, MediaHeldOnce, Busy

LEMMA MarkNext ==
    ASSUME MarkInv, [Next]_vars, [~ClearsMark]_vars
    PROVE  MarkInv'
<1>1. OnceInv'
  BY OnceNext DEF MarkInv
<1>2. CASE UNCHANGED vars
  BY <1>1, <1>2, KeptMarks DEF vars, mediaVars, MarkInv
<1>3. CASE Next /\ ~ClearsMark
  BY <1>1, <1>3, ProducerMarks, DownloadMarks, UploadMarks, RecoveryMarks,
     SystemMarks
     DEF Next, MarkInv
<1> QED
  BY <1>2, <1>3

LEMMA Marked == Spec /\ [][~ClearsMark]_vars => []MarkInv
  BY MarkInit, MarkNext, PTL DEF Spec

(* Clearing the processing cache under a producer at work is the only way in
   which the pipeline loses single delivery: without such a step media reach the
   target once, whoever meets them and however often. *)
THEOREM OnlyClearingDuplicates ==
    Spec /\ [][~ClearsMark]_vars => []NoDoubleDelivery
<1>1. MarkInv => NoDoubleDelivery
  BY DEF MarkInv, OnceInv, Counted, NoDoubleDelivery
<1> QED
  BY <1>1, Marked, PTL

(* Without such a step every job has one owner as well, whoever meets it. *)
THEOREM OnlyClearingSharesJobs ==
    Spec /\ [][~ClearsMark]_vars => [](LiveOnce /\ LiveIsRecoverable
                                          /\ HealedIsNotLive /\ UploadHasFiles)
<1>1. MarkInv => OwnInv
  BY DEF MarkInv, OnceInv
<1> QED
  BY <1>1, Marked, OwnershipParts, PTL

(* Each producer meets media of its own; a single producer is a special case. *)
SeparateMedia ==
    \A p, q \in Producers :
        p # q => \A i \in Sees[p], j \in Sees[q] : UidOf[i] # UidOf[j]

(* A producer holds a job of its own channels. *)
LEMMA HeldIsSeen ==
    Spec => [](TypeOK /\ \A p \in Producers :
                            Busy(p) => admJob[p] \in Sees[p])
<1> DEFINE Seen == \A p \in Producers : Busy(p) => admJob[p] \in Sees[p]
<1>1. Init => TypeOK /\ Seen
  BY InitType DEF Init, Busy
<1>2. ASSUME TypeOK, Seen, [Next]_vars
      PROVE  TypeOK' /\ Seen'
  <2>1. TypeOK'
    BY <1>2, NextType
  <2>2. Seen'
    <3>1. ASSUME NEW p \in Producers, ProducerNext(p) PROVE Seen'
      <4>1. ASSUME NEW j \in Jobs, check_and_mark_processing(p, j) PROVE Seen'
        BY <1>2, <4>1
           DEF check_and_mark_processing, TypeOK, ProducersOK, Busy
      <4>2. CASE enqueue_filtered(p)
        BY <1>2, <4>2 DEF enqueue_filtered, TypeOK, ProducersOK, Busy
      <4>3. ASSUME Release(p) PROVE Seen'
        BY <1>2, <4>3 DEF Release, TypeOK, ProducersOK, Busy
      <4> QED
        BY <3>1, <4>1, <4>2, <4>3
           DEF ProducerNext, enqueue_duplicate, enqueue_retained,
               fast_path_copied, fast_path_ambiguous, enqueue_queued
    <3>2. ASSUME UNCHANGED admVars PROVE Seen'
      BY <1>2, <3>2 DEF Busy, admVars
    <3>3. CASE Restart
      BY <3>3 DEF Restart, Busy
    <3>4. ASSUME NEW w \in DlWorkers, DownloadNext(w) PROVE UNCHANGED admVars
      BY <3>4
         DEF DownloadNext, download_take, download_duplicate, download_start,
             download_deferred, download_complete, download_handoff,
             download_stalled, download_flood_wait, download_reconnect,
             download_dead, download_source_error, download_error
    <3>5. ASSUME UploadNext PROVE UNCHANGED admVars
      BY <3>5
         DEF UploadNext, upload_take, upload_grace, upload_duplicate,
             upload_start, upload_done, upload_stalled, upload_reconnect,
             upload_flood_wait, upload_fresh_download, upload_dead,
             upload_invalid, upload_error
    <3>6. ASSUME RecoveryNext PROVE UNCHANGED admVars
      BY <3>6
         DEF RecoveryNext, recovery_pass_start, healer_pass_start,
             heal_complete, heal_deferred, heal_fetch, heal_missing,
             heal_upload, heal_readmit, heal_filter_drops, heal_filter_passes,
             heal_retained, heal_queued, recovery_pass_end
    <3>7. ASSUME \/ clear_processing_cache_if_idle
                 \/ \E j \in Jobs :
                      retry_scheduler_download(j) \/ retry_scheduler_upload(j)
                 \/ save_download_queue \/ save_upload_queue
                 \/ UNCHANGED vars
          PROVE  UNCHANGED admVars
      BY <3>7
         DEF clear_processing_cache_if_idle, retry_scheduler_download,
             retry_scheduler_upload, save_download_queue, save_upload_queue,
             vars
    <3> QED
      BY <1>2, <3>1, <3>2, <3>3, <3>4, <3>5, <3>6, <3>7 DEF Next
  <2> QED
    BY <2>1, <2>2
<1> QED
  BY <1>1, <1>2, PTL DEF Spec

(* Producers with media of their own, or a single producer, deliver once and
   share no job, whatever is cleared. *)
THEOREM SeparateProducersDeliverOnce ==
    ASSUME SeparateMedia
    PROVE  Spec => [](NoDoubleDelivery /\ LiveOnce)
<1>1. TypeOK /\ (\A p \in Producers : Busy(p) => admJob[p] \in Sees[p])
          => MediaHeldOnce
  BY DEF SeparateMedia, MediaHeldOnce
<1>2. OnceInv => NoDoubleDelivery /\ LiveOnce
  BY OwnershipParts DEF OnceInv, Counted, NoDoubleDelivery
<1> QED
  BY <1>1, <1>2, HeldIsSeen, Once, PTL

-----------------------------------------------------------------------------
(* The life cycle of a job: a step touches one job, and the invariant says where
   that one can be before and after it. *)

(* Where a job is that has one place. *)
LEMMA PlaceIs ==
    ASSUME NEW j \in Jobs, OnePlace(j)
    PROVE  /\ j \in dq => place[j] = "download queue"
           /\ j \in uq => place[j] = "upload queue"
           /\ j \in retryDl => place[j] = "download retry"
           /\ j \in retryUl => place[j] = "upload retry"
           /\ j = upJob => place[j] = "uploading"
           /\ (\E w \in DlWorkers : j = dlJob[w]) => place[j] = "downloading"
           /\ ~LiveJob(j) /\ Rec(j) => place[j] = "stranded"
           /\ ~LiveJob(j) /\ ~Rec(j) => place[j] = "away"
  BY DEF place, OnePlace, LiveJob, Rec

(* The same, after a step. *)
LEMMA PlaceNext ==
    ASSUME NEW j \in Jobs, OnePlace(j)'
    PROVE  /\ j \in dq' => place'[j] = "download queue"
           /\ j \in uq' => place'[j] = "upload queue"
           /\ j \in retryDl' => place'[j] = "download retry"
           /\ j \in retryUl' => place'[j] = "upload retry"
           /\ j = upJob' => place'[j] = "uploading"
           /\ (\E w \in DlWorkers : j = dlJob'[w])
                  => place'[j] = "downloading"
           /\ ~LiveJob(j)' /\ Rec(j)' => place'[j] = "stranded"
           /\ ~LiveJob(j)' /\ ~Rec(j)' => place'[j] = "away"
  BY DEF place, OnePlace, LiveJob, Rec

(* The queues and workers that hold a job are the same after a step. *)
SameHands(k) ==
    /\ SameQueues(k)
    /\ (upJob' = k <=> upJob = k)
    /\ \A w \in DlWorkers : (dlJob'[w] = k <=> dlJob[w] = k)

(* A job whose record, queues and workers stay is where it was. *)
LEMMA PlaceStays ==
    ASSUME NEW k \in Jobs, OnePlace(k), OnePlace(k)',
           SameRecord(k), SameHands(k)
    PROVE  place'[k] = place[k]
<1>1. (Rec(k)' <=> Rec(k)) /\ (LiveJob(k)' <=> LiveJob(k))
  BY DEF Rec, persisted_queue_job_is_recoverable, SameRecord, Stuck, LiveJob,
         SameHands, SameQueues
<1>2. /\ (k \in dq' <=> k \in dq) /\ (k \in uq' <=> k \in uq)
      /\ (k \in retryDl' <=> k \in retryDl)
      /\ (k \in retryUl' <=> k \in retryUl)
      /\ (k = upJob' <=> k = upJob)
      /\ ((\E w \in DlWorkers : k = dlJob'[w])
             <=> \E w \in DlWorkers : k = dlJob[w])
  BY DEF SameHands, SameQueues
<1>3. CASE k \in dq
  <2>1. place[k] = "download queue" /\ place'[k] = "download queue"
    BY <1>2, <1>3, PlaceIs, PlaceNext
  <2> QED
    BY <2>1
<1>4. CASE k \in uq
  <2>1. place[k] = "upload queue" /\ place'[k] = "upload queue"
    BY <1>2, <1>4, PlaceIs, PlaceNext
  <2> QED
    BY <2>1
<1>5. CASE k \in retryDl
  <2>1. place[k] = "download retry" /\ place'[k] = "download retry"
    BY <1>2, <1>5, PlaceIs, PlaceNext
  <2> QED
    BY <2>1
<1>6. CASE k \in retryUl
  <2>1. place[k] = "upload retry" /\ place'[k] = "upload retry"
    BY <1>2, <1>6, PlaceIs, PlaceNext
  <2> QED
    BY <2>1
<1>7. CASE k = upJob
  <2>1. place[k] = "uploading" /\ place'[k] = "uploading"
    BY <1>2, <1>7, PlaceIs, PlaceNext
  <2> QED
    BY <2>1
<1>8. CASE \E w \in DlWorkers : k = dlJob[w]
  <2>1. place[k] = "downloading" /\ place'[k] = "downloading"
    BY <1>2, <1>8, PlaceIs, PlaceNext
  <2> QED
    BY <2>1
<1>9. CASE ~LiveJob(k) /\ Rec(k)
  <2>1. place[k] = "stranded" /\ place'[k] = "stranded"
    BY <1>1, <1>9, PlaceIs, PlaceNext
  <2> QED
    BY <2>1
<1>10. CASE ~LiveJob(k) /\ ~Rec(k)
  <2>1. place[k] = "away" /\ place'[k] = "away"
    BY <1>1, <1>10, PlaceIs, PlaceNext
  <2> QED
    BY <2>1
<1> QED
  BY <1>3, <1>4, <1>5, <1>6, <1>7, <1>8, <1>9, <1>10 DEF LiveJob

LEMMA PlaceFunction ==
    /\ place = [j \in Jobs |-> place[j]]
    /\ place' = [j \in Jobs |-> place'[j]]
  BY DEF place

(* The step of the life cycle, or none. *)
LifecycleStep == [Lifecycle!LifecycleNext]_place

(* A step that leaves every other job where it was and takes this one along an
   edge, or nowhere, is a step of the life cycle. *)
LEMMA MoveRefines ==
    ASSUME OwnInv, OwnInv', NEW j \in Jobs,
           \A k \in Jobs \ {j} : SameRecord(k) /\ SameHands(k),
           \/ place'[j] = place[j]
           \/ <<place[j], place'[j]>> \in Lifecycle!Edges
    PROVE  LifecycleStep
<1>1. \A k \in Jobs \ {j} : place'[k] = place[k]
  BY PlaceStays DEF OwnInv, JobOwned
<1>2. CASE place'[j] = place[j]
  <2>1. place' = place
    BY <1>1, <1>2, PlaceFunction
  <2> QED
    BY <2>1 DEF LifecycleStep
<1>3. CASE <<place[j], place'[j]>> \in Lifecycle!Edges
  <2>1. Lifecycle!Move(j)
    BY <1>1, <1>3, PlaceFunction DEF Lifecycle!Move
  <2> QED
    BY <2>1 DEF Lifecycle!LifecycleNext, LifecycleStep
<1> QED
  BY <1>2, <1>3

(* A step that changes no record, queue or worker moves nothing. *)
LEMMA QuietRefines ==
    ASSUME UNCHANGED <<dl, ul, queueVars, dlJob, upJob>>
    PROVE  LifecycleStep
<1>1. place' = place
  BY DEF place, persisted_queue_job_is_recoverable, Stuck, queueVars
<1> QED
  BY <1>1 DEF LifecycleStep

(* The edges by name. *)
LEMMA EdgeNames ==
    /\ \A p \in {"download queue", "download retry", "stranded"} :
          <<"away", p>> \in Lifecycle!Edges
    /\ \A p \in {"upload queue", "upload retry", "download retry", "away",
                 "stranded"} :
          <<"downloading", p>> \in Lifecycle!Edges
    /\ \A p \in {"upload retry", "download retry", "away", "stranded"} :
          <<"uploading", p>> \in Lifecycle!Edges
    /\ \A p \in {"download queue", "download retry", "upload queue",
                 "upload retry", "away"} :
          <<"stranded", p>> \in Lifecycle!Edges
    /\ <<"download retry", "download queue">> \in Lifecycle!Edges
    /\ <<"upload retry", "upload queue">> \in Lifecycle!Edges
    /\ <<"download queue", "downloading">> \in Lifecycle!Edges
    /\ <<"upload queue", "uploading">> \in Lifecycle!Edges
  BY DEF Lifecycle!Edges, Lifecycle!Admitted, Lifecycle!Scheduled,
         Lifecycle!HandedOn, Lifecycle!Retried, Lifecycle!Left,
         Lifecycle!Recovered

-----------------------------------------------------------------------------
(* Download workers *)

(* A worker frees itself of its job: who else holds what does not change. *)
LEMMA WorkerLetsGo ==
    ASSUME OwnInv, NEW w \in DlWorkers, NEW j \in Jobs, dlJob[w] = j,
           DlDone(w), UNCHANGED upVars
    PROVE  /\ place[j] = "downloading"
           /\ j \notin dq /\ j \notin uq /\ j \notin retryDl /\ j \notin retryUl
           /\ j # upJob'
           /\ \A v \in DlWorkers : dlJob'[v] # j
           /\ \A k \in Jobs \ {j} :
                /\ (upJob' = k <=> upJob = k)
                /\ \A v \in DlWorkers : (dlJob'[v] = k <=> dlJob[v] = k)
<1>1. OnePlace(j) /\ \A k \in Jobs : k # NoJob
  BY JobsAssumption DEF OwnInv, JobOwned
<1>2. place[j] = "downloading"
  BY <1>1, PlaceIs
<1>3. /\ j \notin dq /\ j \notin uq /\ j \notin retryDl /\ j \notin retryUl
      /\ j # upJob
      /\ \A v \in DlWorkers \ {w} : dlJob[v] # j
  BY <1>1 DEF OnePlace
<1>4. dlJob'[w] = NoJob /\ \A v \in DlWorkers \ {w} : dlJob'[v] = dlJob[v]
  BY DEF DlDone, OwnInv, TypeOK, DownloadersOK
<1> QED
  BY <1>1, <1>2, <1>3, <1>4 DEF upVars

LEMMA DownloadRefines ==
    ASSUME OwnInv, OwnInv', NEW w \in DlWorkers, DownloadNext(w)
    PROVE  LifecycleStep
<1>1. ASSUME NEW j \in Jobs, download_take(w, j)
      PROVE  LifecycleStep
  <2>1. /\ j \in dq /\ dlJob[w] = NoJob
        /\ dq' = dq \ {j} /\ UNCHANGED <<uq, retryDl, retryUl, upVars>>
        /\ dlJob'[w] = j
        /\ \A v \in DlWorkers \ {w} : dlJob'[v] = dlJob[v]
    BY <1>1 DEF download_take, OwnInv, TypeOK, DownloadersOK
  <2>2. \A k \in Jobs \ {j} : SameRecord(k)
    BY <1>1, RecordEffects DEF download_take, OwnInv, TypeOK
  <2>3. \A k \in Jobs \ {j} : SameHands(k)
    BY <2>1, JobsAssumption DEF SameHands, SameQueues, upVars
  <2>4. place[j] = "download queue"
    BY <2>1, PlaceIs DEF OwnInv, JobOwned
  <2>5. place'[j] = "downloading"
    BY <2>1, PlaceNext DEF OwnInv, JobOwned
  <2> QED
    BY <2>2, <2>3, <2>4, <2>5, EdgeNames, MoveRefines
<1>2. CASE download_start(w)
  BY <1>2, QuietRefines DEF download_start, recordVars, upVars
<1>3. ASSUME download_complete(w)
      PROVE  LifecycleStep
  <2>1. PICK j \in Jobs : dlJob[w] = j
    BY <1>3, DlBusy DEF download_complete, OwnInv, TypeOK
  <2>2. dlJob' = dlJob /\ UNCHANGED <<queueVars, upVars>>
    BY <1>3 DEF download_complete
  <2>3. \A k \in Jobs \ {j} : SameRecord(k)
    BY <1>3, <2>1, RecordEffects DEF download_complete, OwnInv, TypeOK
  <2>4. \A k \in Jobs \ {j} : SameHands(k)
    BY <2>2 DEF SameHands, SameQueues, queueVars, upVars
  <2>5. place[j] = "downloading"
    BY <2>1, PlaceIs DEF OwnInv, JobOwned
  <2>6. place'[j] = "downloading"
    BY <2>1, <2>2, PlaceNext DEF OwnInv, JobOwned
  <2> QED
    BY <2>3, <2>4, <2>5, <2>6, MoveRefines
<1>4. ASSUME download_handoff(w)
      PROVE  LifecycleStep
  <2>1. PICK j \in Jobs : dlJob[w] = j
    BY <1>4, DlBusy DEF download_handoff, OwnInv, TypeOK
  <2>2. DlDone(w) /\ UNCHANGED <<dl, ul, dq, retryDl, upVars>>
    BY <1>4 DEF download_handoff, recordVars
  <2>3. \/ uq' = uq \cup {j} /\ retryUl' = retryUl
        \/ uq' = uq /\ retryUl' = retryUl \cup {j}
    BY <1>4, <2>1 DEF download_handoff
  <2>4. \A k \in Jobs \ {j} : SameRecord(k) /\ SameHands(k)
    BY <2>1, <2>2, <2>3, WorkerLetsGo DEF SameRecord, SameHands, SameQueues
  <2>5. place[j] = "downloading"
    BY <2>1, <2>2, WorkerLetsGo
  <2>6. place'[j] \in {"upload queue", "upload retry"}
    BY <2>3, PlaceNext DEF OwnInv, JobOwned
  <2> QED
    BY <2>4, <2>5, <2>6, EdgeNames, MoveRefines
<1>5. ASSUME \/ download_duplicate(w) \/ download_deferred(w)
             \/ download_stalled(w) \/ download_flood_wait(w)
             \/ download_reconnect(w) \/ download_dead(w)
             \/ download_source_error(w) \/ download_error(w)
      PROVE  LifecycleStep
  <2>1. dlStage[w] # "idle"
    BY <1>5
       DEF download_duplicate, download_deferred, download_stalled,
           download_flood_wait, download_reconnect, download_dead,
           download_source_error, download_error
  <2>2. PICK j \in Jobs : dlJob[w] = j
    BY <2>1, DlBusy DEF OwnInv, TypeOK
  <2>3. GivenUp(w, j)
    BY <1>5, <2>2, DownloadHandlers DEF OwnInv
  <2>4. \A k \in Jobs \ {j} : SameRecord(k) /\ SameHands(k)
    BY <2>2, <2>3, WorkerLetsGo
       DEF GivenUp, DownloadEffect, SameHands, SameQueues
  <2>5. place[j] = "downloading"
    BY <2>2, <2>3, WorkerLetsGo DEF GivenUp
  <2>6. LiveJob(j)' => j \in retryDl'
    BY <2>2, <2>3, WorkerLetsGo DEF GivenUp, LiveJob
  <2>7. place'[j] \in {"download retry", "away", "stranded"}
    BY <2>6, PlaceNext DEF OwnInv, JobOwned
  <2> QED
    BY <2>4, <2>5, <2>7, EdgeNames, MoveRefines
<1> QED
  BY <1>1, <1>2, <1>3, <1>4, <1>5 DEF DownloadNext

-----------------------------------------------------------------------------
(* Upload worker *)

(* The worker frees itself of its job. *)
LEMMA PublisherLetsGo ==
    ASSUME OwnInv, NEW j \in Jobs, upJob = j, UpFree, UNCHANGED dlVars
    PROVE  /\ place[j] = "uploading"
           /\ j \notin dq /\ j \notin uq /\ j \notin retryDl /\ j \notin retryUl
           /\ j # upJob'
           /\ \A v \in DlWorkers : dlJob'[v] # j
           /\ \A k \in Jobs \ {j} :
                /\ (upJob' = k <=> upJob = k)
                /\ \A v \in DlWorkers : (dlJob'[v] = k <=> dlJob[v] = k)
<1>1. OnePlace(j) /\ \A k \in Jobs : k # NoJob
  BY JobsAssumption DEF OwnInv, JobOwned
<1>2. place[j] = "uploading"
  BY <1>1, PlaceIs
<1> QED
  BY <1>1, <1>2 DEF OnePlace, UpFree, dlVars

LEMMA UploadRefines ==
    ASSUME OwnInv, OwnInv', UploadNext
    PROVE  LifecycleStep
<1>1. ASSUME NEW j \in Jobs, upload_take(j)
      PROVE  LifecycleStep
  <2>1. /\ j \in uq /\ upJob = NoJob /\ upJob' = j
        /\ uq' = uq \ {j}
        /\ UNCHANGED <<dl, ul, dq, retryDl, retryUl, dlVars>>
    BY <1>1 DEF upload_take, recordVars, OwnInv, TypeOK, UploaderOK
  <2>2. \A k \in Jobs \ {j} : SameRecord(k) /\ SameHands(k)
    BY <2>1, JobsAssumption DEF SameRecord, SameHands, SameQueues, dlVars
  <2>3. place[j] = "upload queue"
    BY <2>1, PlaceIs DEF OwnInv, JobOwned
  <2>4. place'[j] = "uploading"
    BY <2>1, PlaceNext DEF OwnInv, JobOwned
  <2> QED
    BY <2>2, <2>3, <2>4, EdgeNames, MoveRefines
<1>2. ASSUME upload_start
      PROVE  LifecycleStep
  <2>1. PICK j \in Jobs : upJob = j
    BY <1>2 DEF upload_start, OwnInv, TypeOK, UploaderOK
  <2>2. upJob' = upJob /\ UNCHANGED <<queueVars, dlVars>>
    BY <1>2 DEF upload_start
  <2>3. \A k \in Jobs \ {j} : SameRecord(k)
    BY <1>2, <2>1, RecordEffects DEF upload_start, OwnInv, TypeOK
  <2>4. \A k \in Jobs \ {j} : SameHands(k)
    BY <2>2 DEF SameHands, SameQueues, queueVars, dlVars
  <2>5. place[j] = "uploading"
    BY <2>1, PlaceIs DEF OwnInv, JobOwned
  <2>6. place'[j] = "uploading"
    BY <2>1, <2>2, PlaceNext DEF OwnInv, JobOwned
  <2> QED
    BY <2>3, <2>4, <2>5, <2>6, MoveRefines
<1>3. ASSUME \/ upload_grace \/ upload_duplicate \/ upload_done
             \/ upload_stalled \/ upload_reconnect \/ upload_flood_wait
             \/ upload_fresh_download \/ upload_dead \/ upload_invalid
             \/ upload_error
      PROVE  LifecycleStep
  <2>1. upStage # "idle"
    BY <1>3
       DEF upload_grace, upload_duplicate, upload_done, upload_stalled,
           upload_reconnect, upload_flood_wait, upload_fresh_download,
           upload_dead, upload_invalid, upload_error
  <2>2. PICK j \in Jobs : upJob = j
    BY <2>1 DEF OwnInv, TypeOK, UploaderOK
  <2>3. UploadGivenUp(j)
    BY <1>3, <2>2, UploadHandlers DEF OwnInv
  <2>4. \A k \in Jobs \ {j} : SameRecord(k) /\ SameHands(k)
    BY <2>2, <2>3, PublisherLetsGo
       DEF UploadGivenUp, UploadEffect, SameHands, SameQueues
  <2>5. place[j] = "uploading"
    BY <2>2, <2>3, PublisherLetsGo DEF UploadGivenUp
  <2>6. LiveJob(j)' => j \in retryDl' \/ j \in retryUl'
    BY <2>2, <2>3, PublisherLetsGo DEF UploadGivenUp, LiveJob
  <2>7. place'[j] \in {"upload retry", "download retry", "away", "stranded"}
    BY <2>6, PlaceNext DEF OwnInv, JobOwned
  <2> QED
    BY <2>4, <2>5, <2>7, EdgeNames, MoveRefines
<1> QED
  BY <1>1, <1>2, <1>3 DEF UploadNext

-----------------------------------------------------------------------------
(* Admission and the scheduler *)

(* A job that is not live is put into one of the four queues and lanes, or
   nowhere. *)
LEMMA PlacedRefines ==
    ASSUME OwnInv, OwnInv', NEW j \in Jobs, ~LiveJob(j),
           UNCHANGED <<dlVars, upVars>>,
           \A k \in Jobs \ {j} : SameRecord(k) /\ SameQueues(k),
           \/ Rec(j)
           \/ Rec(j)' /\ UNCHANGED <<uq, retryUl>>
    PROVE  LifecycleStep
<1>1. \A k \in Jobs \ {j} : SameHands(k)
  BY DEF SameHands, dlVars, upVars
<1>2. /\ place[j] \in {"away", "stranded"}
      /\ Rec(j) => place[j] = "stranded"
  BY PlaceIs DEF OwnInv, JobOwned
<1>3. j # upJob' /\ \A w \in DlWorkers : dlJob'[w] # j
  BY DEF LiveJob, dlVars, upVars
<1>4. CASE Rec(j)
  <2>1. place'[j] \in {"download queue", "download retry", "upload queue",
                       "upload retry", "away", "stranded"}
    BY <1>3, PlaceNext DEF OwnInv, JobOwned, LiveJob
  <2> QED
    BY <1>1, <1>2, <1>4, <2>1, EdgeNames, MoveRefines
<1>5. CASE Rec(j)' /\ UNCHANGED <<uq, retryUl>>
  <2>1. place'[j] \in {"download queue", "download retry", "stranded"}
    BY <1>3, <1>5, PlaceNext DEF OwnInv, JobOwned, LiveJob
  <2> QED
    BY <1>1, <1>2, <2>1, EdgeNames, MoveRefines
<1> QED
  BY <1>4, <1>5

LEMMA ProducerRefines ==
    ASSUME OwnInv, OwnInv', NEW p \in Producers, ProducerNext(p)
    PROVE  LifecycleStep
<1>1. ASSUME \/ \E j \in Jobs : check_and_mark_processing(p, j)
             \/ enqueue_duplicate(p) \/ enqueue_filtered(p)
             \/ fast_path_copied(p)
      PROVE  LifecycleStep
  <2>1. UNCHANGED <<dl, ul, queueVars, dlJob, upJob>>
    BY <1>1
       DEF check_and_mark_processing, enqueue_duplicate, enqueue_filtered,
           fast_path_copied, recordVars, dlVars, upVars
  <2> QED
    BY <2>1, QuietRefines
<1>2. ASSUME enqueue_retained(p) \/ fast_path_ambiguous(p) \/ enqueue_queued(p)
      PROVE  LifecycleStep
  <2>1. PICK j \in Jobs : admJob[p] = j
    <3>1. admStage[p] # "idle"
      BY <1>2 DEF enqueue_retained, fast_path_ambiguous, enqueue_queued
    <3> QED
      BY <3>1 DEF OwnInv, TypeOK, ProducersOK
  <2>2. UNCHANGED <<dlVars, upVars>>
    BY <1>2 DEF enqueue_retained, fast_path_ambiguous, enqueue_queued
  <2>3. AdmitEffect(j)
    BY <1>2, <2>1, AdmissionEffect
  <2>4. ~LiveJob(j)
    BY <2>1, AdmittedAlone DEF Admitting
  <2> QED
    BY <2>2, <2>3, <2>4, PlacedRefines DEF AdmitEffect
<1> QED
  BY <1>1, <1>2 DEF ProducerNext

LEMMA SchedulerRefines ==
    ASSUME OwnInv, OwnInv', NEW j \in Jobs,
           retry_scheduler_download(j) \/ retry_scheduler_upload(j)
    PROVE  LifecycleStep
<1>1. UNCHANGED <<dl, ul, dlVars, upVars>>
  BY DEF retry_scheduler_download, retry_scheduler_upload, recordVars
<1>2. CASE retry_scheduler_download(j)
  <2>1. /\ j \in retryDl /\ retryDl' = retryDl \ {j} /\ dq' = dq \cup {j}
        /\ UNCHANGED <<uq, retryUl>>
    BY <1>2 DEF retry_scheduler_download
  <2>2. \A k \in Jobs \ {j} : SameRecord(k) /\ SameHands(k)
    BY <1>1, <2>1 DEF SameRecord, SameHands, SameQueues, dlVars, upVars
  <2>3. place[j] = "download retry"
    BY <2>1, PlaceIs DEF OwnInv, JobOwned
  <2>4. place'[j] = "download queue"
    BY <2>1, PlaceNext DEF OwnInv, JobOwned
  <2> QED
    BY <2>2, <2>3, <2>4, EdgeNames, MoveRefines
<1>3. CASE retry_scheduler_upload(j)
  <2>1. /\ j \in retryUl /\ retryUl' = retryUl \ {j} /\ uq' = uq \cup {j}
        /\ UNCHANGED <<dq, retryDl>>
    BY <1>3 DEF retry_scheduler_upload
  <2>2. \A k \in Jobs \ {j} : SameRecord(k) /\ SameHands(k)
    BY <1>1, <2>1 DEF SameRecord, SameHands, SameQueues, dlVars, upVars
  <2>3. place[j] = "upload retry"
    BY <2>1, PlaceIs DEF OwnInv, JobOwned
  <2>4. place'[j] = "upload queue"
    BY <2>1, PlaceNext DEF OwnInv, JobOwned
  <2> QED
    BY <2>2, <2>3, <2>4, EdgeNames, MoveRefines
<1> QED
  BY <1>2, <1>3

-----------------------------------------------------------------------------
(* Recovery *)

(* Recovery touches the record and the queues of the job in hand. *)
LEMMA RecoveryRefines ==
    ASSUME OwnInv, OwnInv', RecoveryNext
    PROVE  LifecycleStep
<1>1. UNCHANGED <<dlVars, upVars>>
  BY DEF RecoveryNext, recovery_pass_start, healer_pass_start, heal_complete,
         heal_deferred, heal_fetch, heal_missing, heal_upload, heal_readmit,
         heal_filter_drops, heal_filter_passes, heal_retained, heal_queued,
         recovery_pass_end
<1>2. ASSUME \/ recovery_pass_start \/ healer_pass_start
             \/ \E j \in Jobs, lane \in Lanes :
                    heal_deferred(j, lane) \/ heal_fetch(j, lane)
             \/ heal_readmit \/ heal_filter_passes \/ recovery_pass_end
      PROVE  LifecycleStep
  <2>1. UNCHANGED <<dl, ul, queueVars>>
    BY <1>2
       DEF recovery_pass_start, healer_pass_start, heal_deferred, heal_fetch,
           heal_readmit, heal_filter_passes, recovery_pass_end, recordVars
  <2> QED
    BY <1>1, <2>1, QuietRefines DEF dlVars, upVars
<1>3. ASSUME NEW j \in Jobs, NEW lane \in Lanes, heal_complete(j, lane)
      PROVE  LifecycleStep
  <2>1. Rec(j) /\ ~LiveJob(j)
    BY <1>3, HealedAlone DEF heal_complete, HealNext, Healing
  <2>2. \A k \in Jobs \ {j} : SameRecord(k)
    BY <1>3, SkipDuplicateEffect DEF heal_complete, OwnInv, TypeOK
  <2>3. \A k \in Jobs \ {j} : SameQueues(k)
    BY <1>3 DEF heal_complete, SameQueues, queueVars
  <2> QED
    BY <1>1, <2>1, <2>2, <2>3, PlacedRefines
<1>4. ASSUME \/ heal_missing \/ heal_upload \/ heal_filter_drops
             \/ heal_retained \/ heal_queued
      PROVE  LifecycleStep
  <2>1. PICK j \in Jobs : healJob = j
    <3>1. healStage \in {"fetch", "filter", "admit"}
      BY <1>4 DEF heal_missing, heal_upload, heal_filter_drops, heal_retained,
                 heal_queued
    <3> QED
      BY <3>1 DEF OwnInv, TypeOK, RecoveryOK
  <2>2. RecordsOK
    BY DEF OwnInv, TypeOK
  <2>3. Rec(j) /\ ~LiveJob(j)
    BY <2>1, HealedAlone DEF Healing
  <2>4. \A k \in Jobs \ {j} : SameRecord(k) /\ SameQueues(k)
    BY <1>4, <2>1, <2>2, HealedEffect
  <2> QED
    BY <1>1, <2>3, <2>4, PlacedRefines
<1> QED
  BY <1>2, <1>3, <1>4 DEF RecoveryNext

-----------------------------------------------------------------------------
(* Restarts *)

(* Unless the files may lag, they hold what memory holds. *)
FilesFollow == ~LaggingFiles => dlDisk = dl /\ ulDisk = ul

(* A step that writes records, or none. *)
Written == UNCHANGED recordVars \/ \E d, u : Records(d, u)

LEMMA WrittenFollow ==
    ASSUME FilesFollow, Written
    PROVE  FilesFollow'
  BY DEF FilesFollow, Written, Records, recordVars

LEMMA RecordsWritten ==
    ASSUME NEW j, NEW s, NEW t,
           record_download_job(j, s) \/ record_upload_job(j, s)
               \/ record_both(j, s, t)
    PROVE  Written
  BY DEF Written, record_download_job, record_upload_job, record_both

(* The parts of handlers that write records write both lanes at once. *)
LEMMA HandlersWritten ==
    ASSUME NEW j, NEW s, NEW r,
           \/ RetryDownload(j, s, r) \/ RenewOrFail(j)
           \/ RetryUpload(j) \/ RenewOrFailUpload(j, s)
           \/ retain_media_job_for_admission_backpressure(j)
           \/ enqueue_download(j) \/ SkipDuplicate(j, r)
    PROVE  Written
  BY RecordsWritten
     DEF RetryDownload, RenewOrFail, RetryUpload, RenewOrFailUpload,
         retain_media_job_for_admission_backpressure, enqueue_download,
         SkipDuplicate

LEMMA DownloadWritten ==
    ASSUME NEW w \in DlWorkers, DownloadNext(w)
    PROVE  Written
<1>1. CASE \E j \in Jobs : download_take(w, j)
  BY <1>1, RecordsWritten DEF download_take
<1>2. CASE download_start(w) \/ download_handoff(w)
  BY <1>2 DEF download_start, download_handoff, Written
<1>3. CASE download_duplicate(w) \/ download_complete(w) \/ download_dead(w)
  BY <1>3, RecordsWritten DEF download_duplicate, download_complete,
     download_dead
<1>4. CASE download_deferred(w) \/ download_stalled(w) \/ download_reconnect(w)
  BY <1>4, HandlersWritten
     DEF download_deferred, download_stalled, download_reconnect
<1>5. CASE download_flood_wait(w)
  BY <1>5, HandlersWritten DEF download_flood_wait
<1>6. CASE download_source_error(w) \/ download_error(w)
  BY <1>6, HandlersWritten, RecordsWritten
     DEF download_source_error, download_error
<1> QED
  BY <1>1, <1>2, <1>3, <1>4, <1>5, <1>6 DEF DownloadNext

LEMMA UploadWritten ==
    ASSUME UploadNext
    PROVE  Written
<1>1. CASE \E j \in Jobs : upload_take(j)
  BY <1>1 DEF upload_take, Written
<1>2. CASE upload_grace \/ upload_stalled \/ upload_reconnect
  BY <1>2, HandlersWritten DEF upload_grace, upload_stalled, upload_reconnect
<1>3. CASE upload_duplicate \/ upload_start \/ upload_done \/ upload_dead
  BY <1>3, RecordsWritten
     DEF upload_duplicate, upload_start, upload_done, upload_dead
<1>4. CASE upload_flood_wait \/ upload_invalid \/ upload_error
  BY <1>4, HandlersWritten DEF upload_flood_wait, upload_invalid, upload_error
<1>5. CASE upload_fresh_download
  BY <1>5, RecordsWritten DEF upload_fresh_download
<1> QED
  BY <1>1, <1>2, <1>3, <1>4, <1>5 DEF UploadNext

LEMMA OthersWritten ==
    ASSUME \/ \E p \in Producers : ProducerNext(p)
           \/ clear_processing_cache_if_idle
           \/ \E j \in Jobs :
                 retry_scheduler_download(j) \/ retry_scheduler_upload(j)
           \/ RecoveryNext
    PROVE  Written
<1>1. ASSUME NEW p \in Producers, ProducerNext(p)
      PROVE  Written
  <2>1. CASE \/ \E j \in Jobs : check_and_mark_processing(p, j)
             \/ enqueue_duplicate(p) \/ enqueue_filtered(p)
             \/ fast_path_copied(p)
    BY <2>1
       DEF check_and_mark_processing, enqueue_duplicate, enqueue_filtered,
           fast_path_copied, Written
  <2>2. CASE enqueue_retained(p) \/ enqueue_queued(p)
    BY <2>2, HandlersWritten DEF enqueue_retained, enqueue_queued
  <2>3. CASE fast_path_ambiguous(p)
    BY <2>3, RecordsWritten DEF fast_path_ambiguous
  <2> QED
    BY <1>1, <2>1, <2>2, <2>3 DEF ProducerNext
<1>2. CASE \/ clear_processing_cache_if_idle
           \/ \E j \in Jobs :
                 retry_scheduler_download(j) \/ retry_scheduler_upload(j)
  BY <1>2
     DEF clear_processing_cache_if_idle, retry_scheduler_download,
         retry_scheduler_upload, Written
<1>3. CASE RecoveryNext
  <2>1. CASE \/ recovery_pass_start \/ healer_pass_start
             \/ \E j \in Jobs, lane \in Lanes :
                    heal_deferred(j, lane) \/ heal_fetch(j, lane)
             \/ heal_readmit \/ heal_filter_passes \/ recovery_pass_end
    BY <2>1
       DEF recovery_pass_start, healer_pass_start, heal_deferred, heal_fetch,
           heal_readmit, heal_filter_passes, recovery_pass_end, Written
  <2>2. CASE \E j \in Jobs, lane \in Lanes : heal_complete(j, lane)
    BY <2>2, HandlersWritten DEF heal_complete
  <2>3. CASE heal_missing \/ heal_upload
    BY <2>3, RecordsWritten DEF heal_missing, heal_upload
  <2>4. CASE heal_filter_drops
    BY <2>4, HandlersWritten DEF heal_filter_drops, Written
  <2>5. CASE heal_retained \/ heal_queued
    BY <2>5, HandlersWritten DEF heal_retained, heal_queued
  <2> QED
    BY <1>3, <2>1, <2>2, <2>3, <2>4, <2>5 DEF RecoveryNext
<1> QED
  BY <1>1, <1>2, <1>3

LEMMA FilesFollowNext ==
    ASSUME FilesFollow, [Next]_vars
    PROVE  FilesFollow'
<1>1. CASE \/ \E w \in DlWorkers : DownloadNext(w)
           \/ UploadNext
           \/ \E p \in Producers : ProducerNext(p)
           \/ clear_processing_cache_if_idle
           \/ \E j \in Jobs :
                 retry_scheduler_download(j) \/ retry_scheduler_upload(j)
           \/ RecoveryNext
  BY <1>1, DownloadWritten, UploadWritten, OthersWritten, WrittenFollow
<1>2. CASE UNCHANGED vars
  BY <1>2, WrittenFollow DEF vars, Written
<1>3. CASE save_download_queue \/ save_upload_queue
  BY <1>3 DEF save_download_queue, save_upload_queue, FilesFollow
<1>4. CASE Restart
  BY <1>4 DEF Restart, FilesFollow
<1> QED
  BY <1>1, <1>2, <1>3, <1>4 DEF Next

LEMMA RestartRefines ==
    ASSUME OwnInv, OwnInv', FilesFollow, Restart
    PROVE  LifecycleStep
<1>1. ASSUME NEW k \in Jobs
      PROVE  ~LiveJob(k)'
  BY <1>1, JobsAssumption DEF Restart, LiveJob
<1>2. ASSUME NEW k \in Jobs
      PROVE  /\ place'[k] \in {"away", "stranded"}
             /\ place'[k] = "away" <=> ~Rec(k)'
  BY <1>1, PlaceNext DEF OwnInv, JobOwned
<1>3. ASSUME NEW k \in Jobs
      PROVE  place[k] = "away" <=> ~Rec(k)
  <2>1. LiveJob(k) => Rec(k) /\ place[k] # "away"
    BY PlaceIs DEF OwnInv, JobOwned, LiveJob
  <2> QED
    BY <2>1, PlaceIs DEF OwnInv, JobOwned
<1>4. ~LaggingFiles => \A k \in Jobs : Rec(k)' <=> Rec(k)
  BY DEF FilesFollow, Restart, Rec, persisted_queue_job_is_recoverable, Stuck
<1>5. place' \in [Jobs -> {"away", "stranded"}]
  BY <1>2, PlaceFunction
<1>6. LaggingFiles
      \/ \A k \in Jobs : place[k] = "away" <=> place'[k] = "away"
  BY <1>2, <1>3, <1>4
<1> QED
  BY <1>5, <1>6 DEF LifecycleStep, Lifecycle!LifecycleNext, Lifecycle!Die

-----------------------------------------------------------------------------
(* The refinement *)

LEMMA LifecycleStarts == Init => Lifecycle!LifecycleInit
<1> SUFFICES ASSUME Init PROVE Lifecycle!LifecycleInit
  OBVIOUS
<1>1. ASSUME NEW j \in Jobs
      PROVE  place[j] = "away"
  <2>1. OnePlace(j)
    BY OwnInit DEF OwnInv, JobOwned
  <2>2. ~LiveJob(j)
    BY JobsAssumption DEF LiveJob, Init
  <2>3. ~Rec(j)
    BY StuckNames DEF Rec, persisted_queue_job_is_recoverable, Init
  <2> QED
    BY <2>1, <2>2, <2>3, PlaceIs
<1> QED
  BY <1>1, PlaceFunction DEF Lifecycle!LifecycleInit

LEMMA StepRefinesLifecycle ==
    ASSUME OwnInv, OwnInv', FilesFollow, [Next]_vars
    PROVE  [Lifecycle!LifecycleNext]_place
<1>1. CASE \/ clear_processing_cache_if_idle
           \/ save_download_queue \/ save_upload_queue
           \/ UNCHANGED vars
  <2>1. UNCHANGED <<dl, ul, queueVars, dlJob, upJob>>
    BY <1>1
       DEF clear_processing_cache_if_idle, save_download_queue,
           save_upload_queue, vars, recordVars, dlVars, upVars
  <2> QED
    BY <2>1, QuietRefines DEF LifecycleStep
<1>2. CASE Restart
  BY <1>2, RestartRefines DEF LifecycleStep
<1> QED
  BY <1>1, <1>2, ProducerRefines, DownloadRefines, UploadRefines,
     SchedulerRefines, RecoveryRefines
     DEF Next, LifecycleStep

(* As long as no two producers hold one job, the pipeline implements the life
   cycle of a job, whatever its queues hold, however old the snapshot recovery
   works from and wherever the process dies: a step moves one job along one
   edge, and without lagging files a restart forgets no recorded job and revives
   no closed one. *)
THEOREM PipelineImplementsLifecycle ==
    Spec /\ []JobHeldOnce => LifecycleRefines
<1>1. Init => FilesFollow
  BY DEF Init, FilesFollow
<1>2. OwnInv /\ OwnInv' /\ FilesFollow /\ [Next]_vars
          => [Lifecycle!LifecycleNext]_place
  BY StepRefinesLifecycle
<1>3. FilesFollow /\ [Next]_vars => FilesFollow'
  BY FilesFollowNext
<1> QED
  BY <1>1, <1>2, <1>3, LifecycleStarts, Owned, PTL
     DEF Spec, LifecycleRefines, Lifecycle!LifecycleSpec

(* Clearing the processing cache under a producer at work is the only way in
   which the pipeline leaves the life cycle, whoever meets a job. *)
THEOREM OnlyClearingBreaksLifecycle ==
    Spec /\ [][~ClearsMark]_vars => LifecycleRefines
<1>1. MarkInv => JobHeldOnce
  BY MediaThenJobs DEF MarkInv, OnceInv, OwnInv, TypeOK
<1> QED
  BY <1>1, Marked, PipelineImplementsLifecycle, PTL
=============================================================================
