----------------------- MODULE RuntimeCheckpointProofs ----------------------
(***************************************************************************)
(* Proofs about RuntimeCheckpoint: a clean flag means that the file holds  *)
(* the present queues, one fault costs at most one generation, and a       *)
(* restart reopens no terminal record and, when the retry queue has room   *)
(* for what it finds, loses no link; for any jobs and any number of        *)
(* changes, faults and restarts.                                           *)
(***************************************************************************)
EXTENDS RuntimeCheckpoint, FiniteSetTheorems, TLAPS

Files == [seq : Nat, valid : BOOLEAN, payload : Payloads]

LiveOK ==
    /\ lanes \in [AllJobs -> SUBSET Lanes]
    /\ jobRecord \in [MediaJobs -> Statuses]
    /\ delivered \in SUBSET AllJobs

DirtyOK ==
    /\ dirty \in BOOLEAN
    /\ generation \in Nat /\ reboots \in 0..MaxReboots
    /\ generation <= MaxChanges + reboots + (IF boot = "up" THEN 1 ELSE 0)
    /\ checkpointFaults \in 0..MaxCheckpointFaults

SaverOK ==
    /\ saving \in SavingStages
    /\ savedGen \in 0..generation /\ payload \in Payloads
    /\ sequence \in Nat /\ ackedSeq \in Nat

FilesTyped == primary \in Files /\ previous \in Files

BootOK ==
    /\ boot \in RestoreStages /\ loaded \in Payloads
    /\ restoredIds \in SUBSET AllJobs

Typed == LiveOK /\ DirtyOK /\ SaverOK /\ FilesTyped /\ BootOK

(* A save runs only in a bot that is up and has something to save. *)
SavingRuns == saving # "idle" => boot = "up" /\ dirty

(* Until the generation moves, the copy taken is what the queues hold. *)
PayloadFresh ==
    saving \in {"copy", "write"} /\ savedGen = generation
        => payload = runtime_checkpoint_payload

FileFresh ==
    saving = "ack" /\ savedGen = generation /\ primary.valid
        => primary.payload = runtime_checkpoint_payload

Fresh == SavingRuns /\ PayloadFresh /\ FileFresh /\ CleanIsSaved

(* Before the first fault the generations are consecutive. *)
Undamaged ==
    checkpointFaults = 0 =>
        /\ boot # "load" /\ saving \in {"idle", "ack"} => sequence = primary.seq
        /\ saving \in {"copy", "write"} => sequence = primary.seq + 1
        /\ primary.valid <=> primary.seq > 0
        /\ saving = "write" /\ primary.valid
               => previous.valid /\ previous.seq = primary.seq
        /\ primary.seq > 1 => previous.valid /\ previous.seq >= primary.seq - 1
        /\ ~primary.valid => ~previous.valid
        /\ primary.seq >= ackedSeq

(* After one fault the primary is not older than the last save that
   returned, or it is damaged and the other file is one generation older at
   most; and what is numbered next is not below that save. *)
OnceDamaged ==
    checkpointFaults <= 1 =>
        /\ primary.valid => primary.seq >= ackedSeq
        /\ ~primary.valid /\ ackedSeq > 1
               => previous.valid /\ previous.seq >= ackedSeq - 1
        /\ saving = "ack" => primary.seq = sequence
        /\ saving = "ack" /\ ~primary.valid /\ sequence > 1
               => previous.valid /\ previous.seq >= sequence - 1
        /\ boot # "load" => sequence + 1 >= ackedSeq
        /\ saving # "idle" => sequence >= ackedSeq

Generations == Undamaged /\ OnceDamaged

CheckpointInv == Typed /\ Fresh /\ Generations

-----------------------------------------------------------------------------
(* The queues *)

LEMMA PayloadType ==
    ASSUME LiveOK
    PROVE  runtime_checkpoint_payload \in Payloads
  BY DEF LiveOK, runtime_checkpoint_payload, Payloads, Statuses

LEMMA EmptyPayloadType == EmptyPayload \in Payloads /\ NoFile \in Files
  <1>1. NoLanes \in [AllJobs -> SUBSET Lanes]
    BY DEF NoLanes
  <1>2. NoRecord \in [MediaJobs -> Statuses]
    BY DEF NoRecord, Statuses
  <1>3. EmptyPayload \in Payloads
    BY <1>1, <1>2 DEF EmptyPayload, Payloads
  <1> QED BY <1>3 DEF NoFile, Files

(* Every change of the queues moves the generation, so that a copy taken
   before it is no longer fresh. *)
LEMMA MoveKeeps ==
    ASSUME CheckpointInv, NEW j \in AllJobs, NEW from, NEW to \in SUBSET Lanes,
           Moves(j, from, to),
           jobRecord' \in [MediaJobs -> Statuses],
           delivered' \in SUBSET AllJobs
    PROVE  CheckpointInv'
  <1>1. LiveOK'
    BY DEF CheckpointInv, Typed, LiveOK, Moves
  <1>2. /\ boot = "up" /\ generation < MaxChanges /\ generation \in Nat
        /\ generation' = generation + 1 /\ dirty' = TRUE
        /\ UNCHANGED <<saving, savedGen, payload, sequence, ackedSeq, primary,
                       previous, boot, loaded, restoredIds, checkpointFaults,
                       reboots>>
    BY DEF Moves, mark_runtime_checkpoint_dirty, savingVars, fileVars,
           bootVars, CheckpointInv, Typed, DirtyOK
  <1>3. DirtyOK'
    BY <1>2, CheckpointAssumption DEF CheckpointInv, Typed, DirtyOK
  <1>4. SaverOK' /\ savedGen' # generation'
    BY <1>2 DEF CheckpointInv, Typed, SaverOK
  <1>5. FilesTyped' /\ BootOK'
    BY <1>2 DEF CheckpointInv, Typed, FilesTyped, BootOK
  <1>6. Fresh'
    BY <1>2, <1>4
       DEF CheckpointInv, Fresh, SavingRuns, PayloadFresh, FileFresh,
           CleanIsSaved
  <1>7. Generations'
    BY <1>2 DEF CheckpointInv, Generations, Undamaged, OnceDamaged
  <1> QED BY <1>1, <1>3, <1>4, <1>5, <1>6, <1>7 DEF CheckpointInv, Typed

LEMMA LaneSets ==
    /\ {"download"} \in SUBSET Lanes /\ {"link"} \in SUBSET Lanes
    /\ {"active"} \in SUBSET Lanes /\ {"upload"} \in SUBSET Lanes
    /\ {"active", "retry"} \in SUBSET Lanes /\ {"retry"} \in SUBSET Lanes
    /\ {} \in SUBSET Lanes
  BY DEF Lanes

LEMMA QueuesKeep == CheckpointInv /\ QueuesNext => CheckpointInv'
  <1> SUFFICES ASSUME CheckpointInv, QueuesNext PROVE CheckpointInv'
    OBVIOUS
  <1>1. LiveOK /\ MediaJobs \subseteq AllJobs /\ LinkJobs \subseteq AllJobs
    BY DEF CheckpointInv, Typed, AllJobs
  <1>2. ASSUME NEW j \in MediaJobs, admit_media(j)
        PROVE  CheckpointInv'
    <2>1. jobRecord' \in [MediaJobs -> Statuses] /\ delivered' = delivered
      BY <1>1, <1>2 DEF admit_media, LiveOK, Statuses
    <2> QED BY <1>1, <1>2, <2>1, LaneSets, MoveKeeps DEF admit_media, LiveOK
  <1>3. ASSUME NEW j \in AllJobs, job_done(j)
        PROVE  CheckpointInv'
    <2>1. jobRecord' \in [MediaJobs -> Statuses]
      BY <1>1, <1>3 DEF job_done, LiveOK, Statuses
    <2>2. delivered' \in SUBSET AllJobs
      BY <1>1, <1>3 DEF job_done, LiveOK
    <2> QED BY <1>3, <2>1, <2>2, LaneSets, MoveKeeps DEF job_done
  <1>4. ASSUME NEW j \in LinkJobs, admit_link(j)
        PROVE  CheckpointInv'
    BY <1>1, <1>4, LaneSets, MoveKeeps DEF admit_link, LiveOK
  <1>5. ASSUME NEW j \in AllJobs, worker_gets(j)
        PROVE  CheckpointInv'
    BY <1>1, <1>5, LaneSets, MoveKeeps DEF worker_gets, LiveOK
  <1>6. ASSUME NEW j \in MediaJobs, download_done(j)
        PROVE  CheckpointInv'
    BY <1>1, <1>6, LaneSets, MoveKeeps DEF download_done, LiveOK
  <1>7. ASSUME NEW j \in AllJobs, worker_retries(j)
        PROVE  CheckpointInv'
    BY <1>1, <1>7, LaneSets, MoveKeeps DEF worker_retries, LiveOK
  <1>8. ASSUME NEW j \in AllJobs, worker_releases(j)
        PROVE  CheckpointInv'
    BY <1>1, <1>8, LaneSets, MoveKeeps DEF worker_releases, LiveOK
  <1>9. ASSUME NEW j \in AllJobs, retry_admitted(j)
        PROVE  CheckpointInv'
    BY <1>1, <1>9, LaneSets, MoveKeeps DEF retry_admitted, LiveOK
  <1> QED
    BY <1>2, <1>3, <1>4, <1>5, <1>6, <1>7, <1>8, <1>9 DEF QueuesNext

-----------------------------------------------------------------------------
(* Saving *)

(* Steps of a save, failures and damage leave the queues and the restart
   alone. *)
LEMMA LiveLeftAlone ==
    ASSUME CheckpointInv, UNCHANGED <<liveVars, bootVars, reboots, generation>>
    PROVE  /\ LiveOK' /\ BootOK'
           /\ runtime_checkpoint_payload' = runtime_checkpoint_payload
           /\ /\ dirty' \in BOOLEAN
              /\ checkpointFaults' \in 0..MaxCheckpointFaults
              => DirtyOK'
  BY DEF CheckpointInv, Typed, LiveOK, BootOK, DirtyOK, liveVars, bootVars,
         runtime_checkpoint_payload

LEMMA BeginKeeps == CheckpointInv /\ checkpoint_begin => CheckpointInv'
  <1> SUFFICES ASSUME CheckpointInv, checkpoint_begin PROVE CheckpointInv'
    OBVIOUS
  <1>1. /\ boot = "up" /\ saving = "idle" /\ dirty = TRUE
        /\ savedGen' = generation /\ payload' = runtime_checkpoint_payload
        /\ sequence' = sequence + 1 /\ saving' = "copy"
        /\ UNCHANGED <<lanes, jobRecord, delivered, dirty, generation,
                       ackedSeq, primary, previous, boot, loaded, restoredIds,
                       checkpointFaults, reboots>>
    BY DEF checkpoint_begin, liveVars, dirtyVars, fileVars, bootVars,
           CheckpointInv, Typed, DirtyOK
  <1>2. LiveOK' /\ BootOK' /\ DirtyOK'
        /\ runtime_checkpoint_payload' = runtime_checkpoint_payload
    BY <1>1, LiveLeftAlone
       DEF liveVars, bootVars, CheckpointInv, Typed, DirtyOK
  <1>3. SaverOK' /\ FilesTyped'
    BY <1>1, PayloadType
       DEF CheckpointInv, Typed, DirtyOK, SaverOK, SavingStages, FilesTyped
  <1>4. Fresh'
    BY <1>1, <1>2
       DEF Fresh, SavingRuns, PayloadFresh, FileFresh, CleanIsSaved
  <1>5. Generations'
    BY <1>1 DEF CheckpointInv, Typed, SaverOK, Generations, Undamaged,
                OnceDamaged
  <1> QED BY <1>2, <1>3, <1>4, <1>5 DEF CheckpointInv, Typed

(* The previous generation is overwritten only with a valid file. *)
LEMMA CopyKeeps == CheckpointInv /\ keep_previous_generation => CheckpointInv'
  <1> SUFFICES ASSUME CheckpointInv, keep_previous_generation
               PROVE  CheckpointInv'
    OBVIOUS
  <1>1. /\ saving = "copy" /\ saving' = "write"
        /\ previous' = IF primary.valid THEN primary ELSE previous
        /\ UNCHANGED <<lanes, jobRecord, delivered, dirty, generation,
                       savedGen, payload, sequence, ackedSeq, primary, boot,
                       loaded, restoredIds, checkpointFaults, reboots>>
    BY DEF keep_previous_generation, liveVars, dirtyVars, bootVars
  <1>2. LiveOK' /\ BootOK' /\ DirtyOK'
        /\ runtime_checkpoint_payload' = runtime_checkpoint_payload
    BY <1>1, LiveLeftAlone
       DEF liveVars, bootVars, CheckpointInv, Typed, DirtyOK
  <1>3. SaverOK' /\ FilesTyped'
    BY <1>1 DEF CheckpointInv, Typed, SaverOK, SavingStages, FilesTyped
  <1>4. Fresh'
    BY <1>1, <1>2
       DEF CheckpointInv, Fresh, SavingRuns, PayloadFresh, FileFresh,
           CleanIsSaved
  <1>5. primary.seq \in Nat /\ previous.seq \in Nat /\ ackedSeq \in Nat
        /\ sequence \in Nat
    BY DEF CheckpointInv, Typed, SaverOK, FilesTyped, Files
  <1>6. Generations'
    BY <1>1, <1>5 DEF CheckpointInv, Generations, Undamaged, OnceDamaged
  <1> QED BY <1>2, <1>3, <1>4, <1>6 DEF CheckpointInv, Typed

LEMMA WriteKeeps == CheckpointInv /\ atomic_checkpoint_save => CheckpointInv'
  <1> SUFFICES ASSUME CheckpointInv, atomic_checkpoint_save
               PROVE  CheckpointInv'
    OBVIOUS
  <1>1. /\ saving = "write" /\ saving' = "ack"
        /\ primary' = [seq |-> sequence, valid |-> TRUE, payload |-> payload]
        /\ UNCHANGED <<lanes, jobRecord, delivered, dirty, generation,
                       savedGen, payload, sequence, ackedSeq, previous, boot,
                       loaded, restoredIds, checkpointFaults, reboots>>
    BY DEF atomic_checkpoint_save, liveVars, dirtyVars, bootVars
  <1>2. LiveOK' /\ BootOK' /\ DirtyOK'
        /\ runtime_checkpoint_payload' = runtime_checkpoint_payload
    BY <1>1, LiveLeftAlone
       DEF liveVars, bootVars, CheckpointInv, Typed, DirtyOK
  <1>3. /\ primary'.seq = sequence /\ primary'.valid = TRUE
        /\ primary'.payload = payload
    BY <1>1
  <1>4. SaverOK' /\ FilesTyped'
    BY <1>1 DEF CheckpointInv, Typed, SaverOK, SavingStages, FilesTyped, Files
  <1>5. Fresh'
    BY <1>1, <1>2, <1>3
       DEF CheckpointInv, Fresh, SavingRuns, PayloadFresh, FileFresh,
           CleanIsSaved
  <1>6. primary.seq \in Nat /\ previous.seq \in Nat /\ ackedSeq \in Nat
        /\ sequence \in Nat
    BY DEF CheckpointInv, Typed, SaverOK, FilesTyped, Files
  <1>7. Undamaged'
    BY <1>1, <1>3, <1>6 DEF CheckpointInv, Generations, Undamaged
  <1>8. OnceDamaged'
    BY <1>1, <1>3, <1>6 DEF CheckpointInv, Generations, OnceDamaged
  <1> QED BY <1>2, <1>4, <1>5, <1>7, <1>8 DEF CheckpointInv, Typed, Generations

(* The flag is cleared only when the generation is still the one saved. *)
LEMMA AckKeeps == CheckpointInv /\ checkpoint_runtime_state => CheckpointInv'
  <1> SUFFICES ASSUME CheckpointInv, checkpoint_runtime_state
               PROVE  CheckpointInv'
    OBVIOUS
  <1>1. /\ saving = "ack" /\ saving' = "idle" /\ ackedSeq' = sequence
        /\ UNCHANGED <<lanes, jobRecord, delivered, generation, savedGen,
                       payload, sequence, primary, previous, boot, loaded,
                       restoredIds, checkpointFaults, reboots>>
    BY DEF checkpoint_runtime_state, liveVars, bootVars, fileVars
  <1>2. dirty' = (savedGen # generation)
    BY DEF checkpoint_runtime_state
  <1>3. dirty' \in BOOLEAN /\ (~dirty' => savedGen = generation)
    BY <1>2, Zenon
  <1>4. LiveOK' /\ BootOK' /\ DirtyOK'
        /\ runtime_checkpoint_payload' = runtime_checkpoint_payload
    BY <1>1, <1>3, LiveLeftAlone
       DEF liveVars, bootVars, CheckpointInv, Typed, DirtyOK
  <1>5. SaverOK' /\ FilesTyped'
    BY <1>1 DEF CheckpointInv, Typed, SaverOK, SavingStages, FilesTyped
  <1>6. Fresh'
    BY <1>1, <1>3, <1>4
       DEF CheckpointInv, Fresh, SavingRuns, PayloadFresh, FileFresh,
           CleanIsSaved
  <1>7. primary.seq \in Nat /\ previous.seq \in Nat /\ ackedSeq \in Nat
        /\ sequence \in Nat
    BY DEF CheckpointInv, Typed, SaverOK, FilesTyped, Files
  <1>8. Undamaged'
    BY <1>1, <1>7 DEF CheckpointInv, Generations, Undamaged, OnceDamaged
  <1>9. OnceDamaged'
    BY <1>1, <1>7 DEF CheckpointInv, Generations, OnceDamaged
  <1> QED BY <1>4, <1>5, <1>6, <1>8, <1>9 DEF CheckpointInv, Typed, Generations

-----------------------------------------------------------------------------
(* Faults and restarts *)

LEMMA FaultCount ==
    ASSUME CheckpointInv, CheckpointFault
    PROVE  /\ checkpointFaults' \in 0..MaxCheckpointFaults
           /\ checkpointFaults' # 0
           /\ checkpointFaults' <= 1 => checkpointFaults = 0
           /\ checkpointFaults' <= 1 => checkpointFaults <= 1
  BY CheckpointAssumption DEF CheckpointInv, Typed, DirtyOK, CheckpointFault

LEMMA FailKeeps == CheckpointInv /\ checkpoint_fails => CheckpointInv'
  <1> SUFFICES ASSUME CheckpointInv, checkpoint_fails PROVE CheckpointInv'
    OBVIOUS
  <1>1. /\ saving \in {"copy", "write"} /\ saving' = "idle"
        /\ UNCHANGED <<lanes, jobRecord, delivered, dirty, generation,
                       savedGen, payload, sequence, ackedSeq, primary,
                       previous, boot, loaded, restoredIds, reboots>>
    BY DEF checkpoint_fails, liveVars, dirtyVars, fileVars, bootVars
  <1>2. /\ checkpointFaults' \in 0..MaxCheckpointFaults
        /\ checkpointFaults' # 0
        /\ checkpointFaults' <= 1 => checkpointFaults = 0
    BY FaultCount DEF checkpoint_fails
  <1>3. LiveOK' /\ BootOK' /\ DirtyOK'
    BY <1>1, <1>2, LiveLeftAlone
       DEF liveVars, bootVars, CheckpointInv, Typed, DirtyOK
  <1>4. SaverOK' /\ FilesTyped'
    BY <1>1 DEF CheckpointInv, Typed, SaverOK, SavingStages, FilesTyped
  <1>5. Fresh'
    BY <1>1 DEF CheckpointInv, Fresh, SavingRuns, PayloadFresh, FileFresh,
                CleanIsSaved
  <1>6. primary.seq \in Nat /\ previous.seq \in Nat /\ ackedSeq \in Nat
        /\ sequence \in Nat
    BY DEF CheckpointInv, Typed, SaverOK, FilesTyped, Files
  <1>7. Generations'
    BY <1>1, <1>2, <1>6 DEF CheckpointInv, Generations, Undamaged, OnceDamaged
  <1> QED BY <1>3, <1>4, <1>5, <1>7 DEF CheckpointInv, Typed

(* The first damage to the primary finds the previous generation intact. *)
LEMMA DamageKeeps == CheckpointInv /\ file_damaged => CheckpointInv'
  <1> SUFFICES ASSUME CheckpointInv, file_damaged PROVE CheckpointInv'
    OBVIOUS
  <1>1. /\ primary' = [primary EXCEPT !.valid = FALSE]
        /\ primary.valid
        /\ UNCHANGED <<lanes, jobRecord, delivered, dirty, generation, saving,
                       savedGen, payload, sequence, ackedSeq, previous, boot,
                       loaded, restoredIds, reboots>>
    BY DEF file_damaged, liveVars, dirtyVars, savingVars, bootVars
  <1>2. /\ checkpointFaults' \in 0..MaxCheckpointFaults
        /\ checkpointFaults' # 0
        /\ checkpointFaults' <= 1 => checkpointFaults = 0
    BY FaultCount DEF file_damaged
  <1>3. /\ primary' \in Files /\ primary'.seq = primary.seq
        /\ primary'.valid = FALSE
    BY <1>1 DEF CheckpointInv, Typed, FilesTyped, Files
  <1>4. LiveOK' /\ BootOK' /\ DirtyOK' /\ SaverOK' /\ FilesTyped'
    BY <1>1, <1>2, <1>3, LiveLeftAlone
       DEF liveVars, bootVars, CheckpointInv, Typed, DirtyOK, SaverOK,
           FilesTyped
  <1>5. Fresh'
    BY <1>1, <1>3, LiveLeftAlone
       DEF liveVars, bootVars, CheckpointInv, Fresh, SavingRuns, PayloadFresh,
           FileFresh, CleanIsSaved
  <1>6. primary.seq \in Nat /\ previous.seq \in Nat /\ ackedSeq \in Nat
        /\ sequence \in Nat
    BY DEF CheckpointInv, Typed, SaverOK, FilesTyped, Files
  <1>7. Undamaged'
    BY <1>2 DEF Undamaged
  <1>8. OnceDamaged'
    <2> SUFFICES ASSUME checkpointFaults' <= 1 PROVE OnceDamaged'
      BY DEF OnceDamaged
    <2>1. checkpointFaults = 0
      BY <1>2
    <2> QED
      BY <1>1, <1>3, <1>6, <2>1
         DEF CheckpointInv, Typed, SaverOK, SavingStages, Fresh, SavingRuns,
             Generations, Undamaged, OnceDamaged
  <1> QED BY <1>4, <1>5, <1>7, <1>8 DEF CheckpointInv, Typed, Generations

LEMMA DiesKeeps == CheckpointInv /\ process_dies => CheckpointInv'
  <1> SUFFICES ASSUME CheckpointInv, process_dies PROVE CheckpointInv'
    OBVIOUS
  <1>1. /\ reboots < MaxReboots /\ reboots' = reboots + 1
        /\ lanes' = NoLanes /\ dirty' = FALSE /\ saving' = "idle"
        /\ boot' = "load" /\ loaded' = EmptyPayload /\ restoredIds' = {}
        /\ UNCHANGED <<jobRecord, delivered, generation, savedGen, payload,
                       sequence, ackedSeq, primary, previous,
                       checkpointFaults>>
    BY DEF process_dies, fileVars
  <1>2. LiveOK' /\ BootOK'
    BY <1>1, EmptyPayloadType
       DEF CheckpointInv, Typed, LiveOK, BootOK, NoLanes, RestoreStages
  <1>3. DirtyOK'
    <2>1. /\ generation \in Nat /\ reboots \in Nat /\ MaxReboots \in Nat
          /\ MaxChanges \in Nat
          /\ generation <= MaxChanges + reboots + 1
      BY CheckpointAssumption DEF CheckpointInv, Typed, DirtyOK
    <2>2. generation' <= MaxChanges + reboots' + 0 /\ reboots' \in 0..MaxReboots
      BY <1>1, <2>1
    <2>3. (IF boot' = "up" THEN 1 ELSE 0) = 0
      BY <1>1
    <2> QED BY <1>1, <2>1, <2>2, <2>3 DEF CheckpointInv, Typed, DirtyOK
  <1>4. SaverOK' /\ FilesTyped'
    BY <1>1 DEF CheckpointInv, Typed, SaverOK, SavingStages, FilesTyped
  <1>5. Fresh'
    BY <1>1 DEF Fresh, SavingRuns, PayloadFresh, FileFresh, CleanIsSaved
  <1>6. Generations'
    BY <1>1 DEF CheckpointInv, Generations, Undamaged, OnceDamaged
  <1> QED BY <1>2, <1>3, <1>4, <1>5, <1>6 DEF CheckpointInv, Typed

LEMMA LoadedFile ==
    ASSUME FilesTyped
    PROVE  /\ load_checkpoint_with_fallback \in Files
           /\ load_checkpoint_with_fallback.payload \in Payloads
           /\ load_checkpoint_with_fallback.seq \in Nat
           /\ primary.valid => load_checkpoint_with_fallback = primary
           /\ ~primary.valid /\ previous.valid
                  => load_checkpoint_with_fallback = previous
           /\ ~primary.valid /\ ~previous.valid
                  => load_checkpoint_with_fallback.seq = 0
  <1>1. primary.valid \in BOOLEAN /\ previous.valid \in BOOLEAN
    BY DEF FilesTyped, Files
  <1>2. CASE primary.valid
    BY <1>2 DEF load_checkpoint_with_fallback, FilesTyped, Files
  <1>3. CASE ~primary.valid /\ previous.valid
    BY <1>3 DEF load_checkpoint_with_fallback, FilesTyped, Files
  <1>4. CASE ~primary.valid /\ ~previous.valid
    <2>1. load_checkpoint_with_fallback = NoFile
      BY <1>4 DEF load_checkpoint_with_fallback
    <2> QED BY <2>1, <1>4, EmptyPayloadType DEF NoFile, Files
  <1> QED BY <1>1, <1>2, <1>3, <1>4

LEMMA MergeKeeps ==
    ASSUME LiveOK, NEW recs \in [MediaJobs -> Statuses]
    PROVE  /\ merge_checkpoint_queue_records(recs) \in [MediaJobs -> Statuses]
           /\ \A j \in MediaJobs :
                 jobRecord[j] = "terminal" =>
                     merge_checkpoint_queue_records(recs)[j] = "terminal"
  BY DEF LiveOK, merge_checkpoint_queue_records, Statuses

(* The sequence goes on from the file that was loaded. *)
LEMMA LoadKeeps ==
    CheckpointInv /\ restore_runtime_checkpoint_sync => CheckpointInv'
  <1> SUFFICES ASSUME CheckpointInv, restore_runtime_checkpoint_sync
               PROVE  CheckpointInv'
    OBVIOUS
  <1> DEFINE file == load_checkpoint_with_fallback
  <1>1. /\ boot = "load" /\ boot' = "queues"
        /\ loaded' = file.payload /\ sequence' = file.seq
        /\ jobRecord' = merge_checkpoint_queue_records(file.payload.record)
        /\ UNCHANGED <<lanes, delivered, dirty, generation, saving, savedGen,
                       payload, ackedSeq, primary, previous, restoredIds,
                       checkpointFaults, reboots>>
    BY DEF restore_runtime_checkpoint_sync, dirtyVars, fileVars
  <1>2. /\ file.payload \in Payloads /\ file.seq \in Nat
        /\ primary.valid => file = primary
        /\ ~primary.valid /\ previous.valid => file = previous
        /\ ~primary.valid /\ ~previous.valid => file.seq = 0
    BY LoadedFile DEF CheckpointInv, Typed
  <1> HIDE DEF file
  <1>3. saving = "idle"
    BY <1>1 DEF CheckpointInv, Fresh, SavingRuns
  <1>4. jobRecord' \in [MediaJobs -> Statuses]
    BY <1>1, <1>2, MergeKeeps DEF CheckpointInv, Typed, Payloads
  <1>5. LiveOK' /\ BootOK'
    BY <1>1, <1>2, <1>4
       DEF CheckpointInv, Typed, LiveOK, BootOK, RestoreStages
  <1>6. DirtyOK' /\ SaverOK' /\ FilesTyped'
    BY <1>1, <1>2 DEF CheckpointInv, Typed, DirtyOK, SaverOK, FilesTyped
  <1>7. Fresh'
    BY <1>1, <1>3 DEF Fresh, SavingRuns, PayloadFresh, FileFresh, CleanIsSaved
  <1>8. primary.seq \in Nat /\ previous.seq \in Nat /\ ackedSeq \in Nat
    BY DEF CheckpointInv, Typed, SaverOK, FilesTyped, Files
  <1>9. Undamaged'
    BY <1>1, <1>2, <1>3, <1>8 DEF CheckpointInv, Generations, Undamaged
  <1>10. OnceDamaged'
    BY <1>1, <1>2, <1>3, <1>8
       DEF CheckpointInv, Generations, OnceDamaged
  <1> QED
    BY <1>5, <1>6, <1>7, <1>9, <1>10 DEF CheckpointInv, Typed, Generations

(* What every later stage of a restart does: it only adds lanes. *)
LEMMA StageKeeps ==
    ASSUME CheckpointInv,
           boot \in {"queues", "links", "retries"},
           boot' \in {"links", "retries", "processing"},
           lanes' \in [AllJobs -> SUBSET Lanes],
           restoredIds' \in SUBSET AllJobs,
           UNCHANGED <<jobRecord, delivered, dirtyVars, savingVars, fileVars,
                       loaded, checkpointFaults, reboots>>
    PROVE  CheckpointInv'
  <1>1. UNCHANGED <<jobRecord, delivered, dirty, generation, saving, savedGen,
                    payload, sequence, ackedSeq, primary, previous, loaded,
                    checkpointFaults, reboots>>
    BY DEF dirtyVars, savingVars, fileVars
  <1>2. saving = "idle" /\ boot # "up" /\ boot' # "up"
        /\ boot # "load" /\ boot' # "load"
    BY DEF CheckpointInv, Fresh, SavingRuns
  <1>3. LiveOK' /\ BootOK'
    BY <1>1 DEF CheckpointInv, Typed, LiveOK, BootOK, RestoreStages
  <1>4. DirtyOK' /\ SaverOK' /\ FilesTyped'
    BY <1>1, <1>2 DEF CheckpointInv, Typed, DirtyOK, SaverOK, FilesTyped
  <1>5. Fresh'
    BY <1>1, <1>2 DEF Fresh, SavingRuns, PayloadFresh, FileFresh, CleanIsSaved
  <1>6. Generations'
    BY <1>1, <1>2 DEF CheckpointInv, Generations, Undamaged, OnceDamaged
  <1> QED BY <1>3, <1>4, <1>5, <1>6 DEF CheckpointInv, Typed

LEMMA ProcessingKeeps ==
    ASSUME CheckpointInv, boot = "processing", boot' = "up",
           lanes' \in [AllJobs -> SUBSET Lanes],
           mark_runtime_checkpoint_dirty,
           UNCHANGED <<jobRecord, delivered, savingVars, fileVars, loaded,
                       restoredIds, checkpointFaults, reboots>>
    PROVE  CheckpointInv'
  <1>1. /\ dirty' = TRUE /\ generation' = generation + 1
        /\ UNCHANGED <<jobRecord, delivered, saving, savedGen, payload,
                       sequence, ackedSeq, primary, previous, loaded,
                       restoredIds, checkpointFaults, reboots>>
    BY DEF mark_runtime_checkpoint_dirty, savingVars, fileVars
  <1>2. saving = "idle" /\ generation \in Nat
    BY DEF CheckpointInv, Fresh, SavingRuns, Typed, DirtyOK
  <1>3. LiveOK' /\ BootOK'
    BY <1>1 DEF CheckpointInv, Typed, LiveOK, BootOK, RestoreStages
  <1>4. DirtyOK'
    BY <1>1, CheckpointAssumption DEF CheckpointInv, Typed, DirtyOK
  <1>5. SaverOK' /\ FilesTyped'
    BY <1>1, <1>2 DEF CheckpointInv, Typed, SaverOK, FilesTyped
  <1>6. Fresh'
    BY <1>1, <1>2 DEF Fresh, SavingRuns, PayloadFresh, FileFresh, CleanIsSaved
  <1>7. Generations'
    BY <1>1, <1>2 DEF CheckpointInv, Generations, Undamaged, OnceDamaged
  <1> QED BY <1>3, <1>4, <1>5, <1>6, <1>7 DEF CheckpointInv, Typed


LEMMA MediaQueuesKeep ==
    CheckpointInv /\ restore_media_queues => CheckpointInv'
  <1> SUFFICES ASSUME CheckpointInv, restore_media_queues
               PROVE  CheckpointInv'
    OBVIOUS
  <1>1. PICK unavailable \in SUBSET MediaJobs :
          LET back(lane) == WasIn(lane) \ (delivered \cup unavailable)
          IN  /\ lanes' = [j \in AllJobs |->
                              lanes[j] \cup {l \in {"download", "upload"} :
                                                j \in back(l)}]
              /\ restoredIds' = back("download") \cup back("upload")
    BY DEF restore_media_queues
  <1>2. lanes' \in [AllJobs -> SUBSET Lanes]
    BY <1>1 DEF CheckpointInv, Typed, LiveOK, Lanes
  <1>3. restoredIds' \in SUBSET AllJobs
    BY <1>1 DEF WasIn
  <1> QED BY <1>2, <1>3, StageKeeps DEF restore_media_queues

LEMMA LinkQueueKeeps == CheckpointInv /\ restore_link_queue => CheckpointInv'
  <1> SUFFICES ASSUME CheckpointInv, restore_link_queue PROVE CheckpointInv'
    OBVIOUS
  <1>1. lanes' \in [AllJobs -> SUBSET Lanes]
    BY DEF restore_link_queue, CheckpointInv, Typed, LiveOK, Lanes
  <1>2. restoredIds' \in SUBSET AllJobs
    BY DEF restore_link_queue, CheckpointInv, Typed, BootOK
  <1> QED BY <1>1, <1>2, StageKeeps DEF restore_link_queue

LEMMA RetriesKeep == CheckpointInv /\ restore_retries => CheckpointInv'
  <1> SUFFICES ASSUME CheckpointInv, restore_retries PROVE CheckpointInv'
    OBVIOUS
  <1>1. lanes' \in [AllJobs -> SUBSET Lanes]
    BY DEF restore_retries, CheckpointInv, Typed, LiveOK, Lanes
  <1>2. restoredIds' \in SUBSET AllJobs
    BY DEF restore_retries, CheckpointInv, Typed, BootOK
  <1> QED BY <1>1, <1>2, StageKeeps DEF restore_retries

(* What restore_processing chooses: the links it queues and the links it
   parks, by the room that is left. *)
Rest(queued) ==
    ((WasIn("active") \ restoredIds) \cap LinkJobs)
        \ (queued \cup InLane("retry"))
RetryRoom == RETRY_QUEUE_LIMIT - Cardinality(InLane("retry"))

Chosen(queued, waiting, unavailable) ==
    LET held == WasIn("active") \ restoredIds
        linkRoom == LINK_QUEUE_LIMIT - Cardinality(InLane("link"))
        retryRoom == RETRY_QUEUE_LIMIT - Cardinality(InLane("retry"))
        rest == (held \cap LinkJobs) \ (queued \cup InLane("retry"))
    IN  /\ Cardinality(queued) <= linkRoom
        /\ \/ queued = held \cap LinkJobs
           \/ Cardinality(queued) = linkRoom
        /\ waiting \subseteq rest
        /\ Cardinality(waiting) <= retryRoom
        /\ waiting = rest \/ Cardinality(waiting) = retryRoom
        /\ lanes' = [j \in AllJobs |-> lanes[j] \cup
              (IF j \in queued THEN {"link"} ELSE {}) \cup
              (IF j \in waiting THEN {"retry"} ELSE {}) \cup
              (IF j \in (held \cap MediaJobs) \ (unavailable \cup delivered)
               THEN {"download"} ELSE {})]

LEMMA ProcessingStep ==
    ASSUME restore_processing
    PROVE  \E queued \in SUBSET AllJobs, waiting \in SUBSET AllJobs,
              media \in SUBSET AllJobs :
              /\ waiting \subseteq Rest(queued)
              /\ waiting = Rest(queued) \/ Cardinality(waiting) = RetryRoom
              /\ lanes' = [j \in AllJobs |-> lanes[j] \cup
                    (IF j \in queued THEN {"link"} ELSE {}) \cup
                    (IF j \in waiting THEN {"retry"} ELSE {}) \cup
                    (IF j \in media THEN {"download"} ELSE {})]
              /\ media \subseteq MediaJobs
  <1> DEFINE held == WasIn("active") \ restoredIds
  <1>1. PICK queued \in SUBSET (held \cap LinkJobs),
             waiting \in SUBSET (held \cap LinkJobs),
             unavailable \in SUBSET MediaJobs :
             Chosen(queued, waiting, unavailable)
    BY Zenon DEF restore_processing, Chosen
  <1>2. /\ waiting \subseteq Rest(queued)
        /\ waiting = Rest(queued) \/ Cardinality(waiting) = RetryRoom
        /\ lanes' = [j \in AllJobs |-> lanes[j] \cup
              (IF j \in queued THEN {"link"} ELSE {}) \cup
              (IF j \in waiting THEN {"retry"} ELSE {}) \cup
              (IF j \in (held \cap MediaJobs) \ (unavailable \cup delivered)
               THEN {"download"} ELSE {})]
    BY <1>1, Zenon DEF Chosen, Rest, RetryRoom
  <1> DEFINE media == (held \cap MediaJobs) \ (unavailable \cup delivered)
  <1>3. media \in SUBSET AllJobs /\ media \subseteq MediaJobs
        /\ queued \in SUBSET AllJobs /\ waiting \in SUBSET AllJobs
    BY DEF WasIn
  <1>4. lanes' = [j \in AllJobs |-> lanes[j] \cup
           (IF j \in queued THEN {"link"} ELSE {}) \cup
           (IF j \in waiting THEN {"retry"} ELSE {}) \cup
           (IF j \in media THEN {"download"} ELSE {})]
    BY <1>2
  <1> QED BY <1>2, <1>3, <1>4

LEMMA RestoreProcessingKeeps ==
    CheckpointInv /\ restore_processing => CheckpointInv'
  <1> SUFFICES ASSUME CheckpointInv, restore_processing PROVE CheckpointInv'
    OBVIOUS
  <1>1. lanes' \in [AllJobs -> SUBSET Lanes]
    BY ProcessingStep DEF CheckpointInv, Typed, LiveOK, Lanes
  <1> QED BY <1>1, ProcessingKeeps DEF restore_processing

-----------------------------------------------------------------------------
(* The invariant *)

LEMMA CheckpointInitInv == CheckpointInit => CheckpointInv
  <1> SUFFICES ASSUME CheckpointInit PROVE CheckpointInv
    OBVIOUS
  <1>1. LiveOK /\ BootOK /\ FilesTyped
    BY EmptyPayloadType
       DEF CheckpointInit, LiveOK, BootOK, FilesTyped, NoLanes, NoRecord,
           Statuses, RestoreStages
  <1>2. DirtyOK
    <2>1. /\ MaxChanges \in Nat /\ MaxReboots \in Nat
          /\ MaxCheckpointFaults \in Nat
      BY CheckpointAssumption
    <2>2. (IF boot = "up" THEN 1 ELSE 0) = 0
      BY DEF CheckpointInit
    <2>3. dirty = FALSE /\ generation = 0 /\ reboots = 0
          /\ checkpointFaults = 0
      BY DEF CheckpointInit
    <2>4. generation <= MaxChanges + reboots + (IF boot = "up" THEN 1 ELSE 0)
      BY <2>1, <2>2, <2>3
    <2>5. generation \in Nat /\ reboots \in 0..MaxReboots
      BY <2>1, <2>3
    <2>6. checkpointFaults \in 0..MaxCheckpointFaults
      BY <2>1, <2>3
    <2>7. dirty \in BOOLEAN
      BY <2>3
    <2> QED BY <2>4, <2>5, <2>6, <2>7 DEF DirtyOK
  <1>3. SaverOK
    BY EmptyPayloadType DEF CheckpointInit, SaverOK, SavingStages
  <1>4. Fresh
    BY DEF CheckpointInit, Fresh, SavingRuns, PayloadFresh, FileFresh,
           CleanIsSaved
  <1>5. Generations
    BY DEF CheckpointInit, NoFile, Generations, Undamaged, OnceDamaged
  <1> QED BY <1>1, <1>2, <1>3, <1>4, <1>5 DEF CheckpointInv, Typed

LEMMA CheckpointStep ==
    CheckpointInv /\ [CheckpointNext]_checkpointVars => CheckpointInv'
  <1> SUFFICES ASSUME CheckpointInv, [CheckpointNext]_checkpointVars
               PROVE  CheckpointInv'
    OBVIOUS
  <1>1. CASE UNCHANGED checkpointVars
    BY <1>1
       DEF checkpointVars, liveVars, dirtyVars, savingVars, fileVars, bootVars,
           CheckpointInv, Typed, LiveOK, DirtyOK, SaverOK, FilesTyped, BootOK,
           Fresh, SavingRuns, PayloadFresh, FileFresh, CleanIsSaved,
           runtime_checkpoint_payload, Generations, Undamaged, OnceDamaged
  <1>2. CASE SavingNext
    BY <1>2, BeginKeeps, CopyKeeps, WriteKeeps, AckKeeps DEF SavingNext
  <1>3. CASE RestoreNext
    BY <1>3, LoadKeeps, MediaQueuesKeep, LinkQueueKeeps, RetriesKeep,
       RestoreProcessingKeeps DEF RestoreNext
  <1> QED
    BY <1>1, <1>2, <1>3, QueuesKeep, FailKeeps, DamageKeeps, DiesKeeps
       DEF CheckpointNext

LEMMA CheckpointInvariant == CheckpointSpec => []CheckpointInv
  BY CheckpointInitInv, CheckpointStep, PTL DEF CheckpointSpec

(* The types of every variable, and the bound on the generation counter. *)
THEOREM CheckpointTyped == CheckpointSpec => []CheckpointTypeOK
  <1>1. CheckpointInv => CheckpointTypeOK
    <2> SUFFICES ASSUME CheckpointInv PROVE CheckpointTypeOK
      OBVIOUS
    <2>1. generation \in 0..(MaxChanges + MaxReboots + 1)
      BY CheckpointAssumption DEF CheckpointInv, Typed, DirtyOK
    <2>2. \A f \in {primary, previous} :
             f.seq \in Nat /\ f.valid \in BOOLEAN /\ f.payload \in Payloads
      BY DEF CheckpointInv, Typed, FilesTyped, Files
    <2> QED
      BY <2>1, <2>2
         DEF CheckpointInv, Typed, LiveOK, DirtyOK, SaverOK, BootOK,
             CheckpointTypeOK
  <1> QED BY <1>1, CheckpointInvariant, PTL

(* A clean flag can be trusted: while the bot is up and no save is running,
   a checkpoint that is not dirty is the present queues, whatever changed
   while the last save was being written. *)
THEOREM CleanFlagIsTrue == CheckpointSpec => []CleanIsSaved
  <1>1. CheckpointInv => CleanIsSaved
    BY DEF CheckpointInv, Fresh
  <1> QED BY <1>1, CheckpointInvariant, PTL

(* After at most one failed write or damaged file a restart finds the last
   checkpoint whose save returned, or the one before it, at every instant of
   the next save and after any number of restarts. *)
THEOREM OneGenerationSurvives == CheckpointSpec => []GenerationSurvives
  <1>1. CheckpointInv => GenerationSurvives
    <2> SUFFICES ASSUME CheckpointInv, ackedSeq > 1, checkpointFaults <= 1
                 PROVE  \E f \in {primary, previous} :
                           f.valid /\ f.seq >= ackedSeq - 1
      BY DEF GenerationSurvives
    <2>1. primary.seq \in Nat /\ previous.seq \in Nat /\ ackedSeq \in Nat
          /\ primary.valid \in BOOLEAN
      BY DEF CheckpointInv, Typed, SaverOK, FilesTyped, Files
    <2>2. CASE primary.valid
      BY <2>1, <2>2 DEF CheckpointInv, Generations, OnceDamaged
    <2>3. CASE ~primary.valid
      BY <2>1, <2>3 DEF CheckpointInv, Generations, OnceDamaged
    <2> QED BY <2>1, <2>2, <2>3
  <1> QED BY <1>1, CheckpointInvariant, PTL


(* A restart with an older checkpoint reopens no terminal record, nor does
   any other step. *)
THEOREM TerminalIsFinal == CheckpointSpec => TerminalStays
  <1> DEFINE Final == \A j \in MediaJobs :
                jobRecord[j] = "terminal" => jobRecord'[j] = "terminal"
  <1>1. CheckpointInv /\ [CheckpointNext]_checkpointVars
            => [Final]_checkpointVars
    <2> SUFFICES ASSUME CheckpointInv, CheckpointNext PROVE Final
      BY DEF checkpointVars
    <2>1. LiveOK
      BY DEF CheckpointInv, Typed
    <2>2. CASE UNCHANGED jobRecord
      BY <2>2
    <2>3. ASSUME NEW j \in MediaJobs, admit_media(j) PROVE Final
      BY <2>1, <2>3 DEF admit_media, LiveOK
    <2>4. ASSUME NEW j \in AllJobs, job_done(j) PROVE Final
      BY <2>4 DEF job_done
    <2>5. CASE restore_runtime_checkpoint_sync
      <3>1. load_checkpoint_with_fallback.payload.record
                \in [MediaJobs -> Statuses]
        BY LoadedFile DEF CheckpointInv, Typed, Payloads
      <3> QED
        BY <2>1, <2>5, <3>1, MergeKeeps DEF restore_runtime_checkpoint_sync
    <2>6. CASE QueuesNext
      BY <2>2, <2>3, <2>4, <2>6
         DEF QueuesNext, admit_link, worker_gets, download_done,
             worker_retries, worker_releases, retry_admitted
    <2>7. CASE SavingNext
      BY <2>2, <2>7
         DEF SavingNext, checkpoint_begin, keep_previous_generation,
             atomic_checkpoint_save, checkpoint_runtime_state, liveVars
    <2>8. CASE RestoreNext
      BY <2>2, <2>5, <2>8
         DEF RestoreNext, restore_media_queues, restore_link_queue,
             restore_retries, restore_processing
    <2>9. CASE checkpoint_fails \/ file_damaged \/ process_dies
      BY <2>2, <2>9 DEF checkpoint_fails, file_damaged, process_dies, liveVars
    <2> QED BY <2>6, <2>7, <2>8, <2>9 DEF CheckpointNext
  <1> QED
    BY <1>1, CheckpointInvariant, PTL DEF CheckpointSpec, TerminalStays

-----------------------------------------------------------------------------
(* Links across a restart *)

MediaLanes == {"download", "upload"}
NoLinkIn(at) == \A j \in LinkJobs : at[j] \cap MediaLanes = {}
Parked == InLane("retry")

(* A link is never in a media queue, live or saved. *)
LinksTyped ==
    /\ NoLinkIn(lanes) /\ NoLinkIn(payload.lanes) /\ NoLinkIn(loaded.lanes)
    /\ NoLinkIn(primary.payload.lanes) /\ NoLinkIn(previous.payload.lanes)

(* What each stage of a restart has already brought back, and that it has
   parked no job that did not wait for a retry. *)
BroughtBack ==
    /\ boot \in {"load", "queues", "links", "retries"} => Parked = {}
    /\ boot \in {"links", "retries", "processing"} =>
          \A j \in restoredIds : lanes[j] # {}
    /\ boot \in {"retries", "processing"} =>
          \A j \in LinkJobs : "link" \in loaded.lanes[j] => lanes[j] # {}
    /\ boot = "processing" =>
          /\ \A j \in LinkJobs : "retry" \in loaded.lanes[j] => lanes[j] # {}
          /\ Parked \subseteq WasIn("retry")

LinksInv == LinksTyped /\ BroughtBack

LEMMA LinksInit == CheckpointInit => LinksInv
  BY DEF CheckpointInit, LinksInv, LinksTyped, NoLinkIn, BroughtBack, Parked,
         InLane, EmptyPayload, NoLanes, NoFile, AllJobs

LEMMA LinkMoves ==
    ASSUME LiveOK, LinksInv, NEW j \in AllJobs, NEW from,
           NEW to \in SUBSET Lanes, Moves(j, from, to),
           j \in LinkJobs => to \cap MediaLanes = {}
    PROVE  LinksInv'
  <1>1. /\ lanes' = [lanes EXCEPT ![j] = to] /\ boot' = "up"
        /\ UNCHANGED <<payload, loaded, primary, previous>>
    BY DEF Moves, savingVars, fileVars, bootVars
  <1>2. NoLinkIn(lanes)'
    BY <1>1 DEF LinksInv, LinksTyped, NoLinkIn, LiveOK
  <1> QED BY <1>1, <1>2 DEF LinksInv, LinksTyped, NoLinkIn, BroughtBack

LEMMA LinksQueues == LiveOK /\ LinksInv /\ QueuesNext => LinksInv'
  <1> SUFFICES ASSUME LiveOK, LinksInv, QueuesNext PROVE LinksInv'
    OBVIOUS
  <1>1. /\ MediaJobs \subseteq AllJobs /\ LinkJobs \subseteq AllJobs
        /\ \A j \in MediaJobs : j \notin LinkJobs
    BY CheckpointAssumption DEF AllJobs
  <1>2. \A to \in {{}, {"link"}, {"active"}, {"retry"}, {"active", "retry"}} :
           to \cap MediaLanes = {}
    BY DEF MediaLanes
  <1>3. ASSUME NEW j \in MediaJobs, admit_media(j) \/ download_done(j)
        PROVE  LinksInv'
    BY <1>1, <1>3, LaneSets, LinkMoves DEF admit_media, download_done
  <1>4. ASSUME NEW j \in AllJobs, worker_gets(j) \/ job_done(j)
        PROVE  LinksInv'
    BY <1>2, <1>4, LaneSets, LinkMoves DEF worker_gets, job_done
  <1>5. ASSUME NEW j \in AllJobs, worker_retries(j) \/ worker_releases(j)
        PROVE  LinksInv'
    BY <1>2, <1>5, LaneSets, LinkMoves DEF worker_retries, worker_releases
  <1>6. ASSUME NEW j \in AllJobs, retry_admitted(j)
        PROVE  LinksInv'
    BY <1>2, <1>6, LaneSets, LinkMoves DEF retry_admitted
  <1>7. ASSUME NEW j \in LinkJobs, admit_link(j)
        PROVE  LinksInv'
    BY <1>1, <1>2, <1>7, LaneSets, LinkMoves DEF admit_link
  <1> QED BY <1>3, <1>4, <1>5, <1>6, <1>7 DEF QueuesNext

LEMMA LinksSaving ==
    LinksInv /\ (SavingNext \/ checkpoint_fails \/ file_damaged)
             /\ FilesTyped => LinksInv'
  <1> SUFFICES ASSUME LinksInv, FilesTyped,
                      SavingNext \/ checkpoint_fails \/ file_damaged
               PROVE  LinksInv'
    OBVIOUS
  <1>1. UNCHANGED <<lanes, boot, loaded, restoredIds>>
    BY DEF SavingNext, checkpoint_begin, keep_previous_generation,
           atomic_checkpoint_save, checkpoint_runtime_state, checkpoint_fails,
           file_damaged, liveVars, bootVars
  <1>2. payload' = payload \/ payload'.lanes = lanes
    BY DEF SavingNext, checkpoint_begin, keep_previous_generation,
           atomic_checkpoint_save, checkpoint_runtime_state, checkpoint_fails,
           file_damaged, savingVars, runtime_checkpoint_payload
  <1>3. previous' \in {primary, previous}
    BY DEF SavingNext, checkpoint_begin, keep_previous_generation,
           atomic_checkpoint_save, checkpoint_runtime_state, checkpoint_fails,
           file_damaged, fileVars
  <1>4. primary'.payload \in {primary.payload, payload}
    <2>1. CASE atomic_checkpoint_save
      BY <2>1 DEF atomic_checkpoint_save
    <2>2. CASE file_damaged
      BY <2>2 DEF file_damaged, FilesTyped, Files
    <2> QED
      BY <2>1, <2>2
         DEF SavingNext, checkpoint_begin, keep_previous_generation,
             checkpoint_runtime_state, checkpoint_fails, fileVars
  <1> QED
    BY <1>1, <1>2, <1>3, <1>4
       DEF LinksInv, LinksTyped, NoLinkIn, BroughtBack, Parked, InLane, WasIn

LEMMA LinksRestart ==
    CheckpointInv /\ LinksInv
        /\ (process_dies \/ restore_runtime_checkpoint_sync) => LinksInv'
  <1> SUFFICES ASSUME CheckpointInv, LinksInv,
                      process_dies \/ restore_runtime_checkpoint_sync
               PROVE  LinksInv'
    OBVIOUS
  <1>1. CASE process_dies
    BY <1>1 DEF process_dies, LinksInv, LinksTyped, NoLinkIn, BroughtBack,
                Parked, InLane, NoLanes, EmptyPayload, AllJobs, fileVars
  <1>2. CASE restore_runtime_checkpoint_sync
    <2>1. NoLinkIn(load_checkpoint_with_fallback.payload.lanes)
      <3>1. primary.valid \in BOOLEAN /\ previous.valid \in BOOLEAN
        BY DEF CheckpointInv, Typed, FilesTyped, Files
      <3>2. ~primary.valid /\ ~previous.valid
                => load_checkpoint_with_fallback = NoFile
        BY DEF load_checkpoint_with_fallback
      <3>3. NoLinkIn(NoFile.payload.lanes)
        BY DEF NoLinkIn, NoFile, EmptyPayload, NoLanes, AllJobs
      <3> QED
        BY <3>1, <3>2, <3>3, LoadedFile
           DEF CheckpointInv, Typed, LinksInv, LinksTyped
    <2> QED
      BY <1>2, <2>1
         DEF restore_runtime_checkpoint_sync, fileVars, LinksInv, LinksTyped,
             NoLinkIn, BroughtBack, Parked, InLane
  <1> QED BY <1>1, <1>2


LEMMA LinksMediaQueues ==
    CheckpointInv /\ LinksInv /\ restore_media_queues => LinksInv'
  <1> SUFFICES ASSUME CheckpointInv, LinksInv, restore_media_queues
               PROVE  LinksInv'
    OBVIOUS
  <1>1. PICK unavailable \in SUBSET MediaJobs :
          LET back(lane) == WasIn(lane) \ (delivered \cup unavailable)
          IN  /\ lanes' = [j \in AllJobs |->
                              lanes[j] \cup {l \in {"download", "upload"} :
                                                j \in back(l)}]
              /\ restoredIds' = back("download") \cup back("upload")
    BY DEF restore_media_queues
  <1>2. /\ boot' = "links"
        /\ UNCHANGED <<payload, loaded, primary, previous>>
    BY DEF restore_media_queues, savingVars, fileVars
  <1>3. NoLinkIn(lanes)'
    <2> SUFFICES ASSUME NEW j \in LinkJobs PROVE lanes'[j] \cap MediaLanes = {}
      BY DEF NoLinkIn
    <2>1. /\ j \in AllJobs /\ j \notin WasIn("download")
          /\ j \notin WasIn("upload")
      BY DEF LinksInv, LinksTyped, NoLinkIn, MediaLanes, WasIn, AllJobs
    <2>2. lanes'[j] = lanes[j]
      BY <1>1, <2>1 DEF CheckpointInv, Typed, LiveOK
    <2> QED BY <2>2 DEF LinksInv, LinksTyped, NoLinkIn
  <1>4. \A j \in restoredIds' : lanes'[j] # {}
    BY <1>1 DEF WasIn
  <1>5. Parked' = {}
    <2>1. boot = "queues" /\ Parked = {}
      BY DEF restore_media_queues, LinksInv, BroughtBack
    <2>2. \A j \in AllJobs : "retry" \in lanes'[j] <=> "retry" \in lanes[j]
      BY <1>1
    <2> QED BY <2>1, <2>2 DEF Parked, InLane
  <1> QED
    BY <1>2, <1>3, <1>4, <1>5 DEF LinksInv, LinksTyped, NoLinkIn, BroughtBack

LEMMA LinksLinkQueue ==
    CheckpointInv /\ LinksInv /\ restore_link_queue => LinksInv'
  <1> SUFFICES ASSUME CheckpointInv, LinksInv, restore_link_queue
               PROVE  LinksInv'
    OBVIOUS
  <1>1. /\ boot = "links" /\ boot' = "retries"
        /\ lanes' = [j \in AllJobs |->
                   lanes[j] \cup IF j \in WasIn("link") THEN {"link"} ELSE {}]
        /\ UNCHANGED <<payload, loaded, primary, previous, restoredIds>>
    BY DEF restore_link_queue, savingVars, fileVars
  <1>2. NoLinkIn(lanes)'
    BY <1>1 DEF LinksInv, LinksTyped, NoLinkIn, MediaLanes, AllJobs
  <1>3. \A j \in restoredIds' : lanes'[j] # {}
    BY <1>1 DEF LinksInv, BroughtBack, CheckpointInv, Typed, BootOK
  <1>4. \A j \in LinkJobs : "link" \in loaded'.lanes[j] => lanes'[j] # {}
    BY <1>1 DEF WasIn, AllJobs
  <1>5. Parked' = {}
    BY <1>1 DEF LinksInv, BroughtBack, Parked, InLane
  <1> QED
    BY <1>1, <1>2, <1>3, <1>4, <1>5
       DEF LinksInv, LinksTyped, NoLinkIn, BroughtBack

LEMMA LinksRetries ==
    CheckpointInv /\ LinksInv /\ restore_retries => LinksInv'
  <1> SUFFICES ASSUME CheckpointInv, LinksInv, restore_retries
               PROVE  LinksInv'
    OBVIOUS
  <1>1. PICK unavailable \in SUBSET MediaJobs :
          lanes' = [j \in AllJobs |-> lanes[j] \cup
                       IF j \in WasIn("retry") \ (unavailable \cup restoredIds)
                       THEN {"retry"} ELSE {}]
    BY DEF restore_retries
  <1>2. /\ boot = "retries" /\ boot' = "processing"
        /\ UNCHANGED <<payload, loaded, primary, previous, restoredIds>>
    BY DEF restore_retries, savingVars, fileVars
  <1>3. NoLinkIn(lanes)'
    BY <1>1 DEF LinksInv, LinksTyped, NoLinkIn, MediaLanes, AllJobs
  <1>4. \A j \in AllJobs : lanes[j] # {} => lanes'[j] # {}
    BY <1>1
  <1>5. \A j \in restoredIds : lanes[j] # {}
    BY <1>2 DEF LinksInv, BroughtBack
  <1>6. \A j \in LinkJobs : "retry" \in loaded.lanes[j] => lanes'[j] # {}
    <2> SUFFICES ASSUME NEW j \in LinkJobs, "retry" \in loaded.lanes[j]
                 PROVE  lanes'[j] # {}
      OBVIOUS
    <2>1. j \in AllJobs /\ j \in WasIn("retry") /\ j \notin unavailable
      BY CheckpointAssumption DEF WasIn, AllJobs
    <2> QED BY <1>1, <1>4, <1>5, <2>1
  <1>7. Parked' \subseteq WasIn("retry")'
    BY <1>1, <1>2 DEF LinksInv, BroughtBack, Parked, InLane, WasIn
  <1> QED
    BY <1>2, <1>3, <1>4, <1>5, <1>6, <1>7
       DEF LinksInv, LinksTyped, NoLinkIn, BroughtBack, AllJobs, CheckpointInv,
           Typed, BootOK

(* The retry queue has room for all that waited and all that were held. *)
RoomForRetries ==
    Cardinality(WasIn("retry") \cup WasIn("active")) <= RETRY_QUEUE_LIMIT

(* With that room no link that a worker held is dropped. *)
LEMMA RestFits ==
    ASSUME RoomForRetries, NEW queued,
           Parked \subseteq WasIn("retry"),
           NEW waiting \in SUBSET Rest(queued),
           waiting = Rest(queued) \/ Cardinality(waiting) = RetryRoom
    PROVE  waiting = Rest(queued)
  <1> DEFINE parked == InLane("retry")
             rest == Rest(queued)
             all == WasIn("retry") \cup WasIn("active")
  <1>1. IsFiniteSet(all) /\ Cardinality(all) <= RETRY_QUEUE_LIMIT
        /\ RETRY_QUEUE_LIMIT \in Nat
    <2>1. IsFiniteSet(AllJobs)
      BY CheckpointAssumption, FS_Union DEF AllJobs
    <2> QED
      BY <2>1, CheckpointAssumption, FS_Subset DEF RoomForRetries, WasIn
  <1>2. parked \subseteq all /\ rest \subseteq all
        /\ parked \cap rest = {} /\ parked \cup rest \subseteq all
    BY DEF Parked, Rest
  <1>3. waiting \subseteq rest /\ (waiting = rest
            \/ Cardinality(waiting) = RETRY_QUEUE_LIMIT - Cardinality(parked))
    BY DEF RetryRoom
  <1> HIDE DEF parked, rest, all
  <1>4. IsFiniteSet(parked) /\ IsFiniteSet(rest) /\ IsFiniteSet(waiting)
    BY <1>1, <1>2, <1>3, FS_Subset
  <1>5. /\ Cardinality(all) \in Nat /\ Cardinality(parked) \in Nat
        /\ Cardinality(rest) \in Nat /\ Cardinality(waiting) \in Nat
    BY <1>1, <1>4, FS_CardinalityType
  <1>6. Cardinality(parked \cup rest) = Cardinality(parked) + Cardinality(rest)
    <2>1. Cardinality(parked \cup rest)
            = Cardinality(parked) + Cardinality(rest)
                - Cardinality(parked \cap rest)
      BY <1>4, FS_Union
    <2>2. Cardinality(parked \cap rest) = 0
      BY <1>2, FS_EmptySet
    <2> QED BY <1>5, <2>1, <2>2
  <1>7. Cardinality(parked \cup rest) <= Cardinality(all)
    BY <1>1, <1>2, FS_Subset
  <1>8. Cardinality(waiting) = RETRY_QUEUE_LIMIT - Cardinality(parked)
            => Cardinality(waiting) >= Cardinality(rest)
    BY <1>1, <1>5, <1>6, <1>7
  <1>9. waiting # rest => Cardinality(waiting) < Cardinality(rest)
    BY <1>3, <1>4, <1>5, FS_Subset
  <1> QED BY <1>3, <1>5, <1>8, <1>9 DEF rest

LEMMA ProcessingBringsBack ==
    ASSUME CheckpointInv, LinksInv, restore_processing
    PROVE  /\ LinksInv'
           /\ RoomForRetries => \A j \in LinkJobs :
                 loaded.lanes[j] # {} => lanes'[j] # {}
  <1>1. PICK queued \in SUBSET AllJobs, waiting \in SUBSET AllJobs,
             media \in SUBSET AllJobs :
          /\ waiting \subseteq Rest(queued)
          /\ waiting = Rest(queued) \/ Cardinality(waiting) = RetryRoom
          /\ lanes' = [j \in AllJobs |-> lanes[j] \cup
                (IF j \in queued THEN {"link"} ELSE {}) \cup
                (IF j \in waiting THEN {"retry"} ELSE {}) \cup
                (IF j \in media THEN {"download"} ELSE {})]
          /\ media \subseteq MediaJobs
    BY ProcessingStep
  <1>2. RoomForRetries => waiting = Rest(queued)
    BY <1>1, RestFits DEF restore_processing, LinksInv, BroughtBack
  <1>3. boot = "processing" /\ boot' = "up"
        /\ UNCHANGED <<payload, loaded, primary, previous, restoredIds>>
    BY DEF restore_processing, savingVars, fileVars
  <1>4. \A j \in AllJobs : lanes[j] # {} => lanes'[j] # {}
    BY <1>1
  <1>5. NoLinkIn(lanes)'
    <2> SUFFICES ASSUME NEW j \in LinkJobs PROVE lanes'[j] \cap MediaLanes = {}
      BY DEF NoLinkIn
    <2>1. j \in AllJobs /\ j \notin media
      BY <1>1, CheckpointAssumption DEF AllJobs
    <2> QED BY <1>1, <2>1 DEF LinksInv, LinksTyped, NoLinkIn, MediaLanes
  <1>6. ASSUME RoomForRetries, NEW j \in LinkJobs, loaded.lanes[j] # {}
        PROVE  lanes'[j] # {}
    <2>1. j \in AllJobs
      BY DEF AllJobs
    <2>2. PICK l \in Lanes : l \in loaded.lanes[j]
      BY <1>6, <2>1 DEF CheckpointInv, Typed, BootOK, Payloads
    <2>3. l \in {"link", "retry", "active"}
      BY <2>2 DEF LinksInv, LinksTyped, NoLinkIn, MediaLanes, Lanes
    <2>4. CASE l \in {"link", "retry"}
      BY <1>3, <1>4, <2>1, <2>2, <2>4 DEF LinksInv, BroughtBack
    <2>5. CASE l = "active" /\ j \in restoredIds
      BY <1>3, <1>4, <2>1, <2>5 DEF LinksInv, BroughtBack
    <2>6. CASE l = "active" /\ j \notin restoredIds
      <3>1. j \in queued \/ j \in InLane("retry") \/ j \in waiting
        BY <1>2, <1>6, <2>1, <2>2, <2>6 DEF Rest, WasIn
      <3>2. j \in InLane("retry") => lanes[j] # {}
        BY DEF InLane
      <3> QED BY <1>1, <1>4, <2>1, <3>1, <3>2
    <2> QED BY <2>3, <2>4, <2>5, <2>6
  <1> QED
    BY <1>3, <1>5, <1>6 DEF LinksInv, LinksTyped, NoLinkIn, BroughtBack

LEMMA LinksStep ==
    ASSUME CheckpointInv, LinksInv, [CheckpointNext]_checkpointVars
    PROVE  LinksInv'
  <1>1. LiveOK /\ FilesTyped
    BY DEF CheckpointInv, Typed
  <1>2. CASE UNCHANGED checkpointVars
    BY <1>2
       DEF checkpointVars, liveVars, dirtyVars, savingVars, fileVars, bootVars,
           LinksInv, LinksTyped, NoLinkIn, BroughtBack, Parked, InLane, WasIn
  <1>3. CASE RestoreNext
    BY <1>3, LinksRestart, LinksMediaQueues, LinksLinkQueue, LinksRetries,
       ProcessingBringsBack DEF RestoreNext
  <1> QED
    BY <1>1, <1>2, <1>3, LinksQueues, LinksSaving, LinksRestart
       DEF CheckpointNext

(* A restart loses no link of the checkpoint it loaded, for any number of
   jobs, as long as the retry queue has room for every job that waited for a
   retry or was held by a worker. *)
THEOREM LinksComeBack == CheckpointSpec => LinksSurvive
  <1> DEFINE Back ==
         /\ boot # "up" /\ boot' = "up"
         /\ Cardinality(WasIn("retry") \cup WasIn("active"))
               <= RETRY_QUEUE_LIMIT
         => \A j \in LinkJobs : loaded.lanes[j] # {} => lanes'[j] # {}
  <1>1. CheckpointInv /\ LinksInv /\ [CheckpointNext]_checkpointVars
            => LinksInv'
    BY LinksStep
  <1>2. CheckpointInv /\ LinksInv /\ [CheckpointNext]_checkpointVars
            => [Back]_checkpointVars
    <2> SUFFICES ASSUME CheckpointInv, LinksInv, CheckpointNext, boot # "up",
                        boot' = "up", RoomForRetries
                 PROVE  \A j \in LinkJobs :
                           loaded.lanes[j] # {} => lanes'[j] # {}
      BY DEF checkpointVars, RoomForRetries
    <2>1. restore_processing
      BY DEF CheckpointNext, QueuesNext, admit_media, admit_link, worker_gets,
             download_done, worker_retries, worker_releases, retry_admitted,
             job_done, Moves, SavingNext, checkpoint_begin,
             keep_previous_generation, atomic_checkpoint_save,
             checkpoint_runtime_state, checkpoint_fails, file_damaged,
             process_dies, RestoreNext, restore_runtime_checkpoint_sync,
             restore_media_queues, restore_link_queue, restore_retries,
             bootVars
    <2> QED BY <2>1, ProcessingBringsBack
  <1> QED
    BY <1>1, <1>2, LinksInit, CheckpointInvariant, PTL
       DEF CheckpointSpec, LinksSurvive

=============================================================================
