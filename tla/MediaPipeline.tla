--------------------------- MODULE MediaPipeline ---------------------------
(***************************************************************************)
(* The media pipeline: admission, download workers, upload worker, retry   *)
(* scheduler and queue recovery over the shared state of PipelineState,    *)
(* with restarts that keep only what is on disk.                           *)
(***************************************************************************)
EXTENDS DownloadWorker, UploadWorker, QueueRecovery

Init ==
    /\ dl = [j \in Jobs |-> "none"] /\ ul = [j \in Jobs |-> "none"]
    /\ dlDisk = dl /\ ulDisk = ul
    /\ older = {}
    /\ files = [j \in Jobs |-> FALSE]
    /\ dq = {} /\ uq = {} /\ retryDl = {} /\ retryUl = {}
    /\ attempt = [j \in Jobs |-> 1]
    /\ processing = {} /\ known = {}
    /\ delivered = [u \in Uids |-> 0]
    /\ dlJob = [w \in DlWorkers |-> NoJob]
    /\ dlStage = [w \in DlWorkers |-> "idle"]
    /\ upJob = NoJob /\ upStage = "idle"
    /\ admJob = [p \in Producers |-> NoJob]
    /\ admStage = [p \in Producers |-> "idle"]
    /\ healStage = "idle" /\ healJob = NoJob /\ healLane = "upload"
    /\ healUp = {} /\ healDown = {} /\ recovered = 0
    /\ ready = FALSE
    /\ crashes = 0

Next ==
    \/ \E p \in Producers : ProducerNext(p)
    \/ clear_processing_cache_if_idle
    \/ \E w \in DlWorkers : DownloadNext(w)
    \/ UploadNext
    \/ \E j \in Jobs : retry_scheduler_download(j) \/ retry_scheduler_upload(j)
    \/ RecoveryNext
    \/ save_download_queue
    \/ save_upload_queue
    \/ Restart

Spec == Init /\ [][Next]_vars

(* Recovery passes are driven by loops that never end and every call they
   await is bounded by a timeout, so an enabled recovery step is taken. *)
FairSpec == Spec /\ WF_vars(RecoveryNext)

-----------------------------------------------------------------------------

RecordsOK ==
    /\ dl \in [Jobs -> Statuses] /\ ul \in [Jobs -> Statuses]
    /\ dlDisk \in [Jobs -> Statuses] /\ ulDisk \in [Jobs -> Statuses]
    /\ older \in SUBSET (Jobs \X Jobs)

QueuesOK ==
    /\ dq \in SUBSET Jobs /\ uq \in SUBSET Jobs
    /\ retryDl \in SUBSET Jobs /\ retryUl \in SUBSET Jobs

MediaOK ==
    /\ files \in [Jobs -> BOOLEAN]
    /\ attempt \in [Jobs -> 1..MAX_RETRIES]
    /\ processing \in SUBSET Uids /\ known \in SUBSET Uids
    /\ delivered \in [Uids -> Nat]

(* A worker, a producer or the healer holds a job exactly while it is busy. *)
DownloadersOK ==
    /\ dlJob \in [DlWorkers -> Jobs \cup {NoJob}]
    /\ dlStage \in [DlWorkers -> DlStages]
    /\ \A w \in DlWorkers : dlJob[w] = NoJob <=> dlStage[w] = "idle"

UploaderOK ==
    /\ upJob \in Jobs \cup {NoJob}
    /\ upStage \in UpStages
    /\ upJob = NoJob <=> upStage = "idle"

ProducersOK ==
    /\ admJob \in [Producers -> Jobs \cup {NoJob}]
    /\ admStage \in [Producers -> {"idle", "marked", "filtered"}]
    /\ \A p \in Producers : admJob[p] = NoJob <=> admStage[p] = "idle"

RecoveryOK ==
    /\ healStage \in HealStages
    /\ healLane \in Lanes
    /\ healJob \in Jobs \cup {NoJob}
    /\ healJob = NoJob <=> healStage \in {"idle", "scan"}
    /\ healUp \in SUBSET Jobs /\ healDown \in SUBSET Jobs
    /\ recovered \in Nat

BootOK == ready \in BOOLEAN /\ crashes \in Nat

(* Every variable has the values the code can give it. *)
TypeOK ==
    /\ RecordsOK
    /\ QueuesOK
    /\ MediaOK
    /\ DownloadersOK
    /\ UploaderOK
    /\ ProducersOK
    /\ RecoveryOK
    /\ BootOK

(* A job that is queued, parked for a retry or held by a worker has a record
   from which recovery would pick it up: whenever the process dies, nothing
   that was in flight is forgotten. *)
LiveIsRecoverable ==
    \A j \in live_pipeline_job_ids : persisted_queue_job_is_recoverable(j)

(* A job has one owner.  No two of the queues, the retry scheduler's lanes and
   the workers hold it at once, whatever handlers, the scheduler and recovery
   do to it. *)
LiveOnce ==
    /\ dq \cap uq = {} /\ dq \cap retryDl = {} /\ dq \cap retryUl = {}
    /\ uq \cap retryDl = {} /\ uq \cap retryUl = {} /\ retryDl \cap retryUl = {}
    /\ upJob \notin dq \cup uq \cup retryDl \cup retryUl
    /\ \A w \in DlWorkers :
          /\ dlJob[w] \notin dq \cup uq \cup retryDl \cup retryUl
          /\ dlJob[w] # NoJob =>
                /\ dlJob[w] # upJob
                /\ \A v \in DlWorkers \ {w} : dlJob[v] # dlJob[w]

(* Recovery works from a snapshot of the live ids and awaits Telegram between
   jobs; the job it is about to re-admit is nevertheless still an unowned,
   recoverable job when it does so. *)
HealedIsNotLive ==
    \A j \in healUp \cup healDown \cup ({healJob} \ {NoJob}) :
        /\ j \notin live_pipeline_job_ids
        /\ persisted_queue_job_is_recoverable(j)

(* A descriptor that waits for the upload worker, or that the worker holds,
   still has its files: each handler keeps them exactly when it kept the job
   in the upload lane. *)
UploadHasFiles ==
    \A j \in uq \cup retryUl \cup ({upJob} \ {NoJob}) : files[j]

(* Where each job is, as JobLifecycle counts it. *)
place ==
    [j \in Jobs |->
        CASE j \in dq -> "download queue"
          [] j \in uq -> "upload queue"
          [] j \in retryDl -> "download retry"
          [] j \in retryUl -> "upload retry"
          [] j = upJob -> "uploading"
          [] \E w \in DlWorkers : j = dlJob[w] -> "downloading"
          [] OTHER -> IF persisted_queue_job_is_recoverable(j) THEN "stranded"
                      ELSE "away"]

Lifecycle == INSTANCE JobLifecycle WITH at <- place, Lagging <- LaggingFiles

(* Queues, workers, scheduler, recovery and restarts implement the life cycle
   of a job: a step moves one job along one of its edges, admission takes no
   recorded job, recovery none that somebody holds, and a job leaves the
   pipeline from the hands of a worker or of recovery only. *)
LifecycleRefines == Lifecycle!LifecycleSpec

(* Media reach the target once, over all admissions of all jobs that carry
   them, retries, recoveries and restarts. *)
NoDoubleDelivery == \A u \in Uids : delivered[u] <= 1

(* A job that recovery owes an answer gets one: it is live again or its records
   are closed. *)
PendingIsRecovered ==
    \A j \in Jobs :
        (j \in persisted_recovery_pending_job_ids)
            ~> (j \notin persisted_recovery_pending_job_ids)

-----------------------------------------------------------------------------
(* What the documentation promises and the code does not keep *)

(* README.md: "A full window retains the job as a durable retry, never drops
   it."  A recorded job is recoverable or has reached a terminal status. *)
NeverDropped ==
    \A j \in Jobs :
        \/ dl[j] = "none"
        \/ persisted_queue_job_is_recoverable(j)
        \/ dl[j] \in QUEUE_TERMINAL_STATUSES
        \/ ul[j] \in QUEUE_TERMINAL_STATUSES
=============================================================================
