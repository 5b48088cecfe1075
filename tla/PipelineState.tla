--------------------------- MODULE PipelineState ---------------------------
(***************************************************************************)
(* The state shared by the coroutines of the media pipeline of             *)
(* royells_media_bot_ready.py: the persisted queue records, the bounded    *)
(* queues, the retry scheduler, the processing cache and the reservation   *)
(* map, with the helpers every handler uses to change them.                *)
(*                                                                         *)
(* A job is one single or one album; UidOf[j] is the media it carries (an  *)
(* album is one unit: the same album posted in two channels is two jobs    *)
(* with one uid).  asyncio switches coroutines only at an await, so an     *)
(* action is the code between two awaits at which another coroutine can    *)
(* observe or change the job.                                              *)
(***************************************************************************)
EXTENDS Naturals, FiniteSets

CONSTANTS
    Jobs,                    \* job ids
    Uids,                    \* media uids
    UidOf,                   \* the media a job carries
    NoJob,                   \* the absence of a job
    DlWorkers,               \* download worker tasks
    Producers,               \* coroutines that call enqueue_media_job
    Sees,                    \* the jobs a producer can meet in its channels
    Gated,                   \* producers that wait for QUEUE_RECOVERY_READY
    IN_MEMORY_QUEUE_MAX,     \* maxsize of channel_download_queue
    UPLOAD_READY_QUEUE_MAX,  \* maxsize of upload_queue
    RETRY_LIMIT,             \* maxsize of retry_admission_queue
    MAX_RETRIES,             \* max_attempts of a worker
    QUEUE_RECOVERY_BATCH_LIMIT,
    Renewable,               \* jobs for which source_job_retry_forever holds
    Unroutable,              \* jobs a download route may reject for good
    Deleted,                 \* jobs whose source messages may be deleted
    Unfetchable,             \* jobs whose messages a recovery fetch may miss
    LaggingFiles,            \* whether the two JSON files may lag memory
    MaxCrashes               \* bound on restarts

ASSUME JobsAssumption ==
    /\ NoJob \notin Jobs
    /\ UidOf \in [Jobs -> Uids]
    /\ Sees \in [Producers -> SUBSET Jobs]
    /\ Gated \subseteq Producers
    /\ Renewable \subseteq Jobs
    /\ Unroutable \subseteq Jobs
    /\ Unfetchable \subseteq Jobs
    /\ Deleted \subseteq Unfetchable
    /\ LaggingFiles \in BOOLEAN

ASSUME LimitsAssumption ==
    /\ IN_MEMORY_QUEUE_MAX \in Nat \ {0}
    /\ UPLOAD_READY_QUEUE_MAX \in Nat \ {0}
    /\ RETRY_LIMIT \in Nat
    /\ MAX_RETRIES \in Nat \ {0}
    /\ QUEUE_RECOVERY_BATCH_LIMIT \in Nat \ {0}
    /\ MaxCrashes \in Nat

VARIABLES
    dl, ul,                 \* status of the download / upload_queue record
    older,                  \* <<a, b>>: a reserved its keys before b
    dlDisk, ulDisk,         \* the two records as last written to their files
    files,                  \* every media file of the job is complete on disk
    dq, uq,                 \* channel_download_queue, upload_queue
    retryDl, retryUl,       \* retry_admission_queue, by lane
    attempt,                \* the attempt field of the live descriptor
    processing,             \* processing_cache
    known,                  \* uids known to be posted or dead (durable)
    delivered,              \* copies of a media in the target channel
    dlJob, dlStage,         \* what each download worker holds
    upJob, upStage,         \* what the upload worker holds
    admJob, admStage,       \* what each producer is admitting
    healStage, healJob, healLane, healUp, healDown, recovered,
    ready,                  \* QUEUE_RECOVERY_READY
    crashes

recordVars == <<dl, ul, older, dlDisk, ulDisk>>
queueVars == <<dq, uq, retryDl, retryUl>>
mediaVars == <<files, attempt, processing, known, delivered>>
dlVars == <<dlJob, dlStage>>
upVars == <<upJob, upStage>>
admVars == <<admJob, admStage>>
healVars == <<healStage, healJob, healLane, healUp, healDown, recovered>>
bootVars == <<ready, crashes>>
vars == <<recordVars, queueVars, mediaVars, dlVars, upVars, admVars,
          healVars, bootVars>>

-----------------------------------------------------------------------------
(* Record statuses.  The sets hold the statuses that the modelled handlers
   write; those of paths left out (partial albums, links, offloading) are not
   listed. *)

(* Mutant of the next definition: a status the handlers write is left out. *)
MutantStuckStatuses ==
    {"queued", "downloading", "downloaded", "queued_upload", "uploading",
     "retry", "queued_recovered"}

QUEUE_STUCK_STATUSES ==
    {"queued", "downloading", "downloaded", "queued_upload", "uploading",
     "retry", "retry_later", "queued_recovered"}

QUEUE_TERMINAL_STATUSES ==
    {"uploaded", "skipped_duplicate", "skipped_dead_media",
     "skipped_source_retired", "failed", "failed_invalid_media"}

(* "none": the lane has no record of the job.  The other two are statuses
   the code writes and lists neither as stuck nor as terminal. *)
Statuses ==
    QUEUE_STUCK_STATUSES \cup QUEUE_TERMINAL_STATUSES
        \cup {"none", "retry_admission_failed", "retry_download"}

Stuck(status) == status \in QUEUE_STUCK_STATUSES

persisted_queue_job_is_recoverable(j) == Stuck(dl[j]) \/ Stuck(ul[j])

(* Mutant: only the download lane's file is saved. *)
MutantUploadLaneUnsaved(newDl, newUl) ==
    LET was == {j \in Jobs : persisted_queue_job_is_recoverable(j)}
        now == {j \in Jobs : Stuck(newDl[j]) \/ Stuck(newUl[j])}
    IN /\ dl' = newDl
       /\ ul' = newUl
       /\ older' = (older \cap (now \X now))
                     \cup ((was \cap now) \X (now \ was))
       /\ dlDisk' = IF LaggingFiles THEN dlDisk ELSE newDl
       /\ UNCHANGED ulDisk

(* record_download_job, record_upload_job and update_persisted_queue_status
   write the record, request a save of its file and refresh the job's
   reservation: a recoverable job owns its keys, any other owns none.  The
   rank of an owner is its age, kept here as the relation "older". *)
Records(newDl, newUl) ==
    LET was == {j \in Jobs : persisted_queue_job_is_recoverable(j)}
        now == {j \in Jobs : Stuck(newDl[j]) \/ Stuck(newUl[j])}
    IN /\ dl' = newDl
       /\ ul' = newUl
       /\ older' = (older \cap (now \X now))
                     \cup ((was \cap now) \X (now \ was))
       /\ dlDisk' = IF LaggingFiles THEN dlDisk ELSE newDl
       /\ ulDisk' = IF LaggingFiles THEN ulDisk ELSE newUl

record_download_job(j, status) == Records([dl EXCEPT ![j] = status], ul)

record_upload_job(j, status) == Records(dl, [ul EXCEPT ![j] = status])

record_both(j, dlStatus, ulStatus) ==
    Records([dl EXCEPT ![j] = dlStatus], [ul EXCEPT ![j] = ulStatus])

(* ThreadSafeReservationMap.blocks without an owner: anybody owns the key. *)
reservation_blocks_anyone(u) ==
    \E k \in Jobs : UidOf[k] = u /\ persisted_queue_job_is_recoverable(k)

(* ThreadSafeReservationMap.blocks with owner j: the key is owned and its
   lowest-ranked owner is another job. *)
reservation_blocks_owner(j) ==
    \E k \in Jobs \ {j} :
        /\ UidOf[k] = UidOf[j]
        /\ persisted_queue_job_is_recoverable(k)
        /\ persisted_queue_job_is_recoverable(j) => <<k, j>> \in older

-----------------------------------------------------------------------------
(* Bounded queues and the retry scheduler *)

(* FairJobQueue.full / put_nowait: a job already queued is not queued twice,
   which a set expresses. *)
download_full == Cardinality(dq) >= IN_MEMORY_QUEUE_MAX
upload_full == Cardinality(uq) >= UPLOAD_READY_QUEUE_MAX
retry_full == Cardinality(retryDl) + Cardinality(retryUl) >= RETRY_LIMIT

(* schedule_queue_retry returns True: the key is scheduled already or the
   priority queue takes the entry.  The due time is left out. *)
can_schedule_download(j) == j \in retryDl \/ ~retry_full
can_schedule_upload(j) == j \in retryUl \/ ~retry_full

active_worker_jobs ==
    {upJob} \cup {dlJob[w] : w \in DlWorkers}

(* Mutant: parked retries are not counted as live. *)
MutantLiveWithoutRetries == Jobs \cap (dq \cup uq \cup active_worker_jobs)

live_pipeline_job_ids ==
    Jobs \cap (dq \cup uq \cup retryDl \cup retryUl \cup active_worker_jobs)

pipeline_idle == live_pipeline_job_ids = {}

persisted_recovery_pending_job_ids ==
    {j \in Jobs : persisted_queue_job_is_recoverable(j)} \ live_pipeline_job_ids

(* The retry scheduler moves a due entry to its queue, or keeps it when that
   queue is full. *)
retry_scheduler_download(j) ==
    /\ j \in retryDl
    /\ ~download_full
    /\ retryDl' = retryDl \ {j}
    /\ dq' = dq \cup {j}
    /\ UNCHANGED <<uq, retryUl, recordVars, mediaVars, dlVars, upVars,
                   admVars, healVars, bootVars>>

retry_scheduler_upload(j) ==
    /\ j \in retryUl
    /\ ~upload_full
    /\ retryUl' = retryUl \ {j}
    /\ uq' = uq \cup {j}
    /\ UNCHANGED <<dq, retryDl, recordVars, mediaVars, dlVars, upVars,
                   admVars, healVars, bootVars>>

-----------------------------------------------------------------------------
(* The state files *)

(* _state_save_worker writes one snapshot of one file. *)
save_download_queue ==
    /\ LaggingFiles
    /\ dlDisk # dl
    /\ dlDisk' = dl
    /\ UNCHANGED <<dl, ul, older, ulDisk, queueVars, mediaVars, dlVars,
                   upVars, admVars, healVars, bootVars>>

save_upload_queue ==
    /\ LaggingFiles
    /\ ulDisk # ul
    /\ ulDisk' = ul
    /\ UNCHANGED <<dl, ul, older, dlDisk, queueVars, mediaVars, dlVars,
                   upVars, admVars, healVars, bootVars>>

(* initialize_persisted_queue_reservations ranks the jobs of upload_queue
   before those found in download_queue only; the order within a file is the
   file's. *)
ReservationOrders(d, u) ==
    LET upOwners == {j \in Jobs : Stuck(u[j])}
        dlOwners == {j \in Jobs : Stuck(d[j])} \ upOwners
        all == upOwners \cup dlOwners
    IN {o \in SUBSET (all \X all) :
           /\ upOwners \X dlOwners \subseteq o
           /\ \A a, b \in all :
                a # b => ((<<a, b>> \in o) <=> (<<b, a>> \notin o))
           /\ \A a \in all : <<a, a>> \notin o
           /\ \A a, b, c \in all :
                <<a, b>> \in o /\ <<b, c>> \in o => <<a, c>> \in o}

(* A crash loses everything in memory; the restart loads the two files, ranks
   the reservations and starts with the recovery barrier closed.  No valid
   runtime checkpoint is assumed. *)
Restart ==
    /\ crashes < MaxCrashes
    /\ crashes' = crashes + 1
    /\ dl' = dlDisk
    /\ ul' = ulDisk
    /\ older' \in ReservationOrders(dlDisk, ulDisk)
    /\ dq' = {} /\ uq' = {} /\ retryDl' = {} /\ retryUl' = {}
    /\ attempt' = [j \in Jobs |-> 1]
    /\ processing' = {}
    /\ dlJob' = [w \in DlWorkers |-> NoJob]
    /\ dlStage' = [w \in DlWorkers |-> "idle"]
    /\ upJob' = NoJob
    /\ upStage' = "idle"
    /\ admJob' = [p \in Producers |-> NoJob]
    /\ admStage' = [p \in Producers |-> "idle"]
    /\ healStage' = "idle" /\ healJob' = NoJob /\ healLane' = "upload"
    /\ healUp' = {} /\ healDown' = {} /\ recovered' = 0
    /\ ready' = FALSE
    /\ UNCHANGED <<dlDisk, ulDisk, files, known, delivered>>
=============================================================================
