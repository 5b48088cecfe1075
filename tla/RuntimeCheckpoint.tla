------------------------- MODULE RuntimeCheckpoint --------------------------
(***************************************************************************)
(* The checksummed checkpoint of the live queues: when it is taken, how    *)
(* its two generations are written, and what a restart rebuilds from them. *)
(* Media jobs also have a record in the JSON queues; a link job exists in  *)
(* memory and in the checkpoint only.                                      *)
(***************************************************************************)
EXTENDS Naturals, FiniteSets

CONSTANTS
    MediaJobs,
    LinkJobs,
    LINK_QUEUE_LIMIT,
    RETRY_QUEUE_LIMIT,
    MaxChanges,         \* bound on changes of the queues
    MaxCheckpointFaults,\* bound on failed writes and damaged files
    MaxReboots          \* bound on crashes

ASSUME CheckpointAssumption ==
    /\ IsFiniteSet(MediaJobs) /\ IsFiniteSet(LinkJobs)
    /\ MediaJobs \cap LinkJobs = {}
    /\ LINK_QUEUE_LIMIT \in Nat \ {0}
    /\ RETRY_QUEUE_LIMIT \in Nat \ {0}
    /\ MaxChanges \in Nat
    /\ MaxCheckpointFaults \in Nat
    /\ MaxReboots \in Nat

VARIABLES
    lanes,          \* where a job is live: queues, retry, active_worker_jobs
    jobRecord,      \* the record of a media job in the JSON queues
    delivered,      \* media jobs whose media are all in the target
    dirty,          \* RUNTIME_CHECKPOINT_DIRTY
    generation,     \* RUNTIME_CHECKPOINT_DIRTY_GENERATION
    saving,         \* stage of checkpoint_runtime_state
    savedGen, payload,      \* its local variables
    sequence,       \* RUNTIME_CHECKPOINT_SEQUENCE
    primary, previous,      \* the two files
    ackedSeq,       \* sequence of the last save that returned
    boot,           \* stage of the restart
    loaded,         \* the payload that a restart uses
    restoredIds,    \* RUNTIME_CHECKPOINT_RESTORED_QUEUE_JOB_IDS
    checkpointFaults, reboots

liveVars == <<lanes, jobRecord, delivered>>
dirtyVars == <<dirty, generation>>
savingVars == <<saving, savedGen, payload, sequence, ackedSeq>>
fileVars == <<primary, previous>>
bootVars == <<boot, loaded, restoredIds>>
checkpointVars ==
    <<liveVars, dirtyVars, savingVars, fileVars, bootVars, checkpointFaults,
      reboots>>

AllJobs == MediaJobs \cup LinkJobs
Lanes == {"download", "upload", "link", "retry", "active"}
Statuses == {"none", "queued", "terminal"}
Payloads ==
    [lanes : [AllJobs -> SUBSET Lanes], record : [MediaJobs -> Statuses]]
SavingStages == {"idle", "copy", "write", "ack"}
RestoreStages == {"load", "queues", "links", "retries", "processing", "up"}

NoLanes == [j \in AllJobs |-> {}]
NoRecord == [j \in MediaJobs |-> "none"]
EmptyPayload == [lanes |-> NoLanes, record |-> NoRecord]
NoFile == [seq |-> 0, valid |-> FALSE, payload |-> EmptyPayload]

(* runtime_checkpoint_payload: the open records and every live descriptor. *)
runtime_checkpoint_payload ==
    [lanes |-> lanes,
     record |-> [j \in MediaJobs |->
                    IF jobRecord[j] = "queued" THEN "queued" ELSE "none"]]

CheckpointInit ==
    /\ lanes = NoLanes /\ jobRecord = NoRecord /\ delivered = {}
    /\ dirty = FALSE /\ generation = 0
    /\ saving = "idle" /\ savedGen = 0 /\ payload = EmptyPayload
    /\ sequence = 0 /\ ackedSeq = 0
    /\ primary = NoFile /\ previous = NoFile
    /\ boot = "load" /\ loaded = EmptyPayload /\ restoredIds = {}
    /\ checkpointFaults = 0 /\ reboots = 0

CheckpointFault ==
    /\ checkpointFaults < MaxCheckpointFaults
    /\ checkpointFaults' = checkpointFaults + 1

mark_runtime_checkpoint_dirty ==
    /\ dirty' = TRUE
    /\ generation' = generation + 1

-----------------------------------------------------------------------------
(* The queues change, and every change marks the checkpoint dirty. *)

Moves(j, from, to) ==
    /\ boot = "up"
    /\ generation < MaxChanges
    /\ lanes[j] = from
    /\ lanes' = [lanes EXCEPT ![j] = to]
    /\ mark_runtime_checkpoint_dirty
    /\ UNCHANGED <<savingVars, fileVars, bootVars, checkpointFaults, reboots>>

InLane(lane) == {j \in AllJobs : lane \in lanes[j]}

admit_media(j) ==
    /\ jobRecord[j] = "none"
    /\ Moves(j, {}, {"download"})
    /\ jobRecord' = [jobRecord EXCEPT ![j] = "queued"]
    /\ UNCHANGED delivered

admit_link(j) ==
    /\ Cardinality(InLane("link")) < LINK_QUEUE_LIMIT
    /\ Moves(j, {}, {"link"})
    /\ UNCHANGED <<jobRecord, delivered>>

worker_gets(j) ==
    /\ \E lane \in {"download", "upload", "link"} : Moves(j, {lane}, {"active"})
    /\ UNCHANGED <<jobRecord, delivered>>

download_done(j) ==
    /\ Moves(j, {"active"}, {"upload"})
    /\ UNCHANGED <<jobRecord, delivered>>

(* The worker schedules the retry while it still holds the job. *)
worker_retries(j) ==
    /\ Cardinality(InLane("retry")) < RETRY_QUEUE_LIMIT
    /\ Moves(j, {"active"}, {"active", "retry"})
    /\ UNCHANGED <<jobRecord, delivered>>

worker_releases(j) ==
    /\ Moves(j, {"active", "retry"}, {"retry"})
    /\ UNCHANGED <<jobRecord, delivered>>

retry_admitted(j) ==
    /\ IF j \in LinkJobs
       THEN /\ Cardinality(InLane("link")) < LINK_QUEUE_LIMIT
            /\ Moves(j, {"retry"}, {"link"})
       ELSE Moves(j, {"retry"}, {"download"})
    /\ UNCHANGED <<jobRecord, delivered>>

job_done(j) ==
    /\ Moves(j, {"active"}, {})
    /\ delivered' = delivered \cup {j}
    /\ jobRecord' =
          [i \in MediaJobs |-> IF i = j THEN "terminal" ELSE jobRecord[i]]

-----------------------------------------------------------------------------
(* checkpoint_runtime_state and atomic_checkpoint_save *)

(* A mutant: a save that failed holds back the next one. *)
MutantWaitsForLast ==
    /\ boot = "up"
    /\ saving = "idle"
    /\ dirty
    /\ sequence = ackedSeq
    /\ savedGen' = generation
    /\ payload' = runtime_checkpoint_payload
    /\ sequence' = sequence + 1
    /\ saving' = "copy"
    /\ UNCHANGED <<liveVars, dirtyVars, ackedSeq, fileVars, bootVars,
                   checkpointFaults, reboots>>

checkpoint_begin ==
    /\ boot = "up"
    /\ saving = "idle"
    /\ dirty
    /\ savedGen' = generation
    /\ payload' = runtime_checkpoint_payload
    /\ sequence' = sequence + 1
    /\ saving' = "copy"
    /\ UNCHANGED <<liveVars, dirtyVars, ackedSeq, fileVars, bootVars,
                   checkpointFaults, reboots>>

(* A mutant: the primary is copied without being validated. *)
MutantCopiesAnything ==
    /\ saving = "copy"
    /\ previous' = primary
    /\ saving' = "write"
    /\ UNCHANGED <<liveVars, dirtyVars, savedGen, payload, sequence, ackedSeq,
                   primary, bootVars, checkpointFaults, reboots>>

(* The old primary becomes the previous generation when it is valid. *)
keep_previous_generation ==
    /\ saving = "copy"
    /\ previous' = IF primary.valid THEN primary ELSE previous
    /\ saving' = "write"
    /\ UNCHANGED <<liveVars, dirtyVars, savedGen, payload, sequence, ackedSeq,
                   primary, bootVars, checkpointFaults, reboots>>

atomic_checkpoint_save ==
    /\ saving = "write"
    /\ primary' = [seq |-> sequence, valid |-> TRUE, payload |-> payload]
    /\ saving' = "ack"
    /\ UNCHANGED <<liveVars, dirtyVars, savedGen, payload, sequence, ackedSeq,
                   previous, bootVars, checkpointFaults, reboots>>

(* A write raises: the checkpoint stays dirty, the loop tries again. *)
checkpoint_fails ==
    /\ saving \in {"copy", "write"}
    /\ CheckpointFault
    /\ saving' = "idle"
    /\ UNCHANGED <<liveVars, dirtyVars, savedGen, payload, sequence, ackedSeq,
                   fileVars, bootVars, reboots>>

(* A mutant: a change during the write is overlooked. *)
MutantAlwaysClean ==
    /\ saving = "ack"
    /\ ackedSeq' = sequence
    /\ dirty' = FALSE
    /\ saving' = "idle"
    /\ UNCHANGED <<liveVars, generation, savedGen, payload, sequence,
                   fileVars, bootVars, checkpointFaults, reboots>>

checkpoint_runtime_state ==
    /\ saving = "ack"
    /\ ackedSeq' = sequence
    /\ dirty' = (savedGen # generation)
    /\ saving' = "idle"
    /\ UNCHANGED <<liveVars, generation, savedGen, payload, sequence,
                   fileVars, bootVars, checkpointFaults, reboots>>

-----------------------------------------------------------------------------
(* Restart *)

file_damaged ==
    /\ CheckpointFault
    /\ primary.valid
    /\ primary' = [primary EXCEPT !.valid = FALSE]
    /\ UNCHANGED <<liveVars, dirtyVars, savingVars, previous, bootVars,
                   reboots>>

process_dies ==
    /\ reboots < MaxReboots
    /\ reboots' = reboots + 1
    /\ lanes' = NoLanes
    /\ dirty' = FALSE
    /\ saving' = "idle"
    /\ boot' = "load" /\ loaded' = EmptyPayload /\ restoredIds' = {}
    /\ UNCHANGED <<jobRecord, delivered, generation, savedGen, payload,
                   sequence, ackedSeq, fileVars, checkpointFaults>>

load_checkpoint_with_fallback ==
    CASE primary.valid -> primary
      [] ~primary.valid /\ previous.valid -> previous
      [] OTHER -> NoFile

(* A mutant: the checkpoint's status wins over a terminal record. *)
MutantReopensTerminal(recs) ==
    [j \in MediaJobs |-> IF recs[j] = "none" THEN jobRecord[j] ELSE recs[j]]

(* A terminal record of the JSON queues is never reopened. *)
merge_checkpoint_queue_records(recs) ==
    [j \in MediaJobs |->
        IF jobRecord[j] = "terminal" \/ recs[j] = "none"
        THEN jobRecord[j] ELSE recs[j]]

restore_runtime_checkpoint_sync ==
    /\ boot = "load"
    /\ loaded' = load_checkpoint_with_fallback.payload
    /\ sequence' = load_checkpoint_with_fallback.seq
    /\ jobRecord' =
          merge_checkpoint_queue_records(
              load_checkpoint_with_fallback.payload.record)
    /\ boot' = "queues"
    /\ UNCHANGED <<lanes, delivered, dirtyVars, saving, savedGen, payload,
                   ackedSeq, fileVars, restoredIds, checkpointFaults,
                   reboots>>

WasIn(lane) == {j \in AllJobs : lane \in loaded.lanes[j]}

(* The two media queues: a job whose media are all in the target, or whose
   messages or files are gone, is left to queue recovery. *)
restore_media_queues ==
    /\ boot = "queues"
    /\ \E unavailable \in SUBSET MediaJobs :
          LET back(lane) == WasIn(lane) \ (delivered \cup unavailable)
          IN  /\ lanes' = [j \in AllJobs |->
                              lanes[j] \cup {l \in {"download", "upload"} :
                                                j \in back(l)}]
              /\ restoredIds' = back("download") \cup back("upload")
    /\ boot' = "links"
    /\ UNCHANGED <<jobRecord, delivered, dirtyVars, savingVars, fileVars,
                   loaded, checkpointFaults, reboots>>

(* A mutant: only the links that fit in the queue come back. *)
MutantLinksThatFit ==
    /\ boot = "links"
    /\ lanes' = [j \in AllJobs |->
                    lanes[j] \cup IF j \in WasIn("link") THEN {"link"} ELSE {}]
    /\ boot' = "up"
    /\ mark_runtime_checkpoint_dirty
    /\ UNCHANGED <<jobRecord, delivered, savingVars, fileVars, loaded,
                   restoredIds, checkpointFaults, reboots>>

restore_link_queue ==
    /\ boot = "links"
    /\ lanes' = [j \in AllJobs |->
                    lanes[j] \cup IF j \in WasIn("link") THEN {"link"} ELSE {}]
    /\ boot' = "retries"
    /\ UNCHANGED <<jobRecord, delivered, dirtyVars, savingVars, fileVars,
                   loaded, restoredIds, checkpointFaults, reboots>>

(* The retries; a restored retry is not added to the restored ids. *)
restore_retries ==
    /\ boot = "retries"
    /\ \E unavailable \in SUBSET MediaJobs :
          LET parked == WasIn("retry") \ (unavailable \cup restoredIds)
          IN  lanes' = [j \in AllJobs |->
                           lanes[j] \cup IF j \in parked THEN {"retry"} ELSE {}]
    /\ boot' = "processing"
    /\ UNCHANGED <<jobRecord, delivered, dirtyVars, savingVars, fileVars,
                   loaded, restoredIds, checkpointFaults, reboots>>

(* The jobs that workers held.  A link that does not fit in its queue waits
   as a retry, and is dropped when there is no room for it either. *)
restore_processing ==
    /\ boot = "processing"
    /\ LET held == WasIn("active") \ restoredIds
           linkRoom == LINK_QUEUE_LIMIT - Cardinality(InLane("link"))
           retryRoom == RETRY_QUEUE_LIMIT - Cardinality(InLane("retry"))
       IN  \E queued \in SUBSET (held \cap LinkJobs) :
           \E waiting \in SUBSET (held \cap LinkJobs) :
           \E unavailable \in SUBSET MediaJobs :
              LET rest == (held \cap LinkJobs) \ (queued \cup InLane("retry"))
              IN  /\ Cardinality(queued) <= linkRoom
                  /\ \/ queued = held \cap LinkJobs
                     \/ Cardinality(queued) = linkRoom
                  /\ waiting \subseteq rest
                  /\ Cardinality(waiting) <= retryRoom
                  /\ waiting = rest \/ Cardinality(waiting) = retryRoom
                  /\ lanes' = [j \in AllJobs |-> lanes[j] \cup
                        (IF j \in queued THEN {"link"} ELSE {}) \cup
                        (IF j \in waiting THEN {"retry"} ELSE {}) \cup
                        (IF j \in (held \cap MediaJobs)
                                     \ (unavailable \cup delivered)
                         THEN {"download"} ELSE {})]
    /\ boot' = "up"
    /\ mark_runtime_checkpoint_dirty
    /\ UNCHANGED <<jobRecord, delivered, savingVars, fileVars, loaded,
                   restoredIds, checkpointFaults, reboots>>

QueuesNext ==
    \/ \E j \in MediaJobs : admit_media(j)
    \/ \E j \in LinkJobs : admit_link(j)
    \/ \E j \in AllJobs : worker_gets(j)
    \/ \E j \in MediaJobs : download_done(j)
    \/ \E j \in AllJobs : worker_retries(j)
    \/ \E j \in AllJobs : worker_releases(j)
    \/ \E j \in AllJobs : retry_admitted(j)
    \/ \E j \in AllJobs : job_done(j)

SavingNext ==
    \/ checkpoint_begin
    \/ keep_previous_generation
    \/ atomic_checkpoint_save
    \/ checkpoint_runtime_state

RestoreNext ==
    \/ restore_runtime_checkpoint_sync
    \/ restore_media_queues
    \/ restore_link_queue
    \/ restore_retries
    \/ restore_processing

CheckpointNext ==
    \/ QueuesNext
    \/ SavingNext
    \/ checkpoint_fails
    \/ file_damaged
    \/ process_dies
    \/ RestoreNext

(* runtime_checkpoint_loop comes back to a dirty checkpoint. *)
CheckpointFairness ==
    WF_checkpointVars(SavingNext)

CheckpointSpec ==
    CheckpointInit /\ [][CheckpointNext]_checkpointVars /\ CheckpointFairness

-----------------------------------------------------------------------------

CheckpointTypeOK ==
    /\ lanes \in [AllJobs -> SUBSET Lanes]
    /\ jobRecord \in [MediaJobs -> Statuses] /\ delivered \subseteq AllJobs
    /\ dirty \in BOOLEAN /\ generation \in 0..(MaxChanges + MaxReboots + 1)
    /\ saving \in SavingStages
    /\ savedGen \in 0..generation /\ payload \in Payloads
    /\ sequence \in Nat /\ ackedSeq \in Nat
    /\ \A f \in {primary, previous} :
          f.seq \in Nat /\ f.valid \in BOOLEAN /\ f.payload \in Payloads
    /\ boot \in RestoreStages /\ loaded \in Payloads
    /\ restoredIds \subseteq AllJobs
    /\ checkpointFaults \in 0..MaxCheckpointFaults /\ reboots \in 0..MaxReboots

(* A clean flag can be trusted: while the bot runs and no save is under way,
   either the checkpoint is marked dirty or the primary file was written from
   exactly the present queues, although the queues go on changing while a
   write is in progress. *)
CleanIsSaved ==
    boot = "up" /\ saving = "idle" /\ ~dirty /\ primary.valid =>
        primary.payload = runtime_checkpoint_payload

(* One damaged file never costs more than one generation: after a save has
   returned, a restart finds that checkpoint or the one before it, at every
   instant of the next save. *)
GenerationSurvives ==
    ackedSeq > 1 /\ checkpointFaults <= 1 =>
        \E f \in {primary, previous} : f.valid /\ f.seq >= ackedSeq - 1

(* A restart loses no link of the checkpoint it loaded, whether the link was
   queued, waiting for a retry or held by a worker, as long as the retry
   queue has room for all that waited and all that were held: a link has no
   other record, and a held one that finds no room is dropped. *)
LinksSurvive ==
    [][/\ boot # "up" /\ boot' = "up"
       /\ Cardinality(WasIn("retry") \cup WasIn("active")) <= RETRY_QUEUE_LIMIT
       => \A j \in LinkJobs : loaded.lanes[j] # {} => lanes'[j] # {}
      ]_checkpointVars

(* An older checkpoint never reopens a record that the JSON queues hold as
   terminal. *)
TerminalStays ==
    [][\A j \in MediaJobs : jobRecord[j] = "terminal" =>
          jobRecord'[j] = "terminal"]_checkpointVars

(* Every change of the queues reaches the disk in the end, although changes
   keep coming while a checkpoint is written and writes may fail. *)
CheckpointSettles == dirty ~> ~dirty
=============================================================================
