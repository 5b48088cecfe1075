--------------------------- MODULE StorageProofs ----------------------------
(***************************************************************************)
(* Proofs about StateWriter and about the composition Storage: what is     *)
(* recorded as persisted is in the file, and a flush that reports success  *)
(* has written everything requested, for any names, any number of changes, *)
(* failed writes and stops.                                                *)
(***************************************************************************)
EXTENDS Storage, RuntimeCheckpointProofs

Versions == [StateNames -> 0..MaxVersion]
Names == StateNames \cup {NoName}

VersionsOK ==
    /\ content \in Versions /\ requestedV \in Versions
    /\ persistedV \in Versions /\ onDisk \in Versions

QueueOK == saveQueue \in Seq(Names) /\ queuedNames \in SUBSET StateNames

(* The thread has a name in its hands from the moment it takes one. *)
SaverTyped ==
    /\ saver \in SaverStages /\ current \in Names
    /\ saver \in {"snap", "write"} => current \in StateNames
    /\ takenV \in 0..MaxVersion /\ snapshot \in 0..MaxVersion

FlusherOK ==
    /\ debounced \in SUBSET LargeNames /\ stopSet \in BOOLEAN
    /\ starter \in Names /\ flusher \in FlushStages /\ flushed \in BOOLEAN
    /\ writeFaults \in 0..MaxWriteFaults /\ stops \in 0..MaxStops

WriterTyped == VersionsOK /\ QueueOK /\ SaverTyped /\ FlusherOK

RequestedFirst == \A n \in StateNames : requestedV[n] <= content[n]

(* The version was read before the state, so the state is not older. *)
TakenFirst ==
    /\ saver \in {"snap", "write"} => takenV <= requestedV[current]
    /\ saver = "write" => takenV <= snapshot /\ snapshot <= content[current]

FlushRunning == flusher \in {"backup", "stop"} => ~flushed

WriterInv ==
    /\ WriterTyped
    /\ RequestedFirst /\ TakenFirst /\ PersistedIsOnDisk
    /\ FlushRunning

-----------------------------------------------------------------------------
(* The queue *)

(* A finite set is enumerated by a sequence of its elements. *)
LEMMA SetToSeqType ==
    ASSUME NEW S, IsFiniteSet(S)
    PROVE  SetToSeq(S) \in Seq(S)
  <1>1. Cardinality(S) \in Nat /\ ExistsBijection(1..Cardinality(S), S)
    BY FS_CardinalityType
  <1>2. PICK f \in Bijection(1..Cardinality(S), S) : TRUE
    BY <1>1 DEF ExistsBijection
  <1>3. f \in [1..Cardinality(S) -> S] /\ IsInjective(f)
    BY <1>2 DEF Bijection, Injection, IsInjective
  <1>4. SetToSeq(S) \in [1..Cardinality(S) -> S]
    BY <1>3 DEF SetToSeq
  <1> QED BY <1>1, <1>4

LEMMA QueueAdds ==
    ASSUME QueueOK, NEW names \in SUBSET StateNames, NEW late, NEW inflight,
           NEW stopping,
           _queue_state_name_locked(names, late, inflight, stopping)
    PROVE  QueueOK'
  <1> DEFINE due == {n \in names : /\ n \notin queuedNames \cup inflight
                                   /\ stopping \/ n \notin late}
  <1>1. /\ queuedNames' = queuedNames \cup due
        /\ saveQueue' = saveQueue \o SetToSeq(due)
    BY DEF _queue_state_name_locked
  <1>2. due \subseteq StateNames /\ IsFiniteSet(due)
    BY WriterAssumption, FS_Subset
  <1> HIDE DEF due
  <1>3. SetToSeq(due) \in Seq(due)
    BY <1>2, SetToSeqType
  <1>4. SetToSeq(due) \in Seq(Names)
    BY <1>2, <1>3 DEF Names
  <1> QED BY <1>1, <1>2, <1>4 DEF QueueOK

(* Steps that leave the versions, the files and what the thread holds. *)
LEMMA VersionsStand ==
    ASSUME WriterInv, QueueOK', FlusherOK', FlushRunning',
           UNCHANGED <<content, requestedV, persistedV, onDisk, current,
                       takenV, snapshot>>,
           saver' = saver \/ saver' \in {"off", "get", "exit"}
    PROVE  WriterInv'
  <1>1. VersionsOK' /\ RequestedFirst' /\ PersistedIsOnDisk'
    BY DEF WriterInv, WriterTyped, VersionsOK, RequestedFirst,
           PersistedIsOnDisk
  <1>2. SaverTyped' /\ TakenFirst'
    BY DEF WriterInv, WriterTyped, SaverTyped, SaverStages, TakenFirst
  <1> QED BY <1>1, <1>2 DEF WriterInv, WriterTyped

-----------------------------------------------------------------------------
(* Callers *)

LEMMA ChangeKeeps ==
    ASSUME WriterInv, NEW n \in StateNames, change_state(n)
    PROVE  WriterInv'
  <1>1. /\ content[n] < MaxVersion
        /\ content' = [content EXCEPT ![n] = content[n] + 1]
        /\ UNCHANGED <<requestedV, persistedV, onDisk, saveQueue, queuedNames,
                       saver, current, takenV, snapshot, debounced, stopSet,
                       starter, flusher, flushed, stops, writeFaults>>
    BY DEF change_state, queueVars, saverVars, flushVars
  <1>2. \A m \in StateNames : /\ content[m] \in 0..MaxVersion
                              /\ requestedV[m] \in 0..MaxVersion
                              /\ persistedV[m] \in 0..MaxVersion
                              /\ onDisk[m] \in 0..MaxVersion
    BY DEF WriterInv, WriterTyped, VersionsOK, Versions
  <1>3. /\ content' \in Versions
        /\ \A m \in StateNames : content[m] <= content'[m]
    BY <1>1, <1>2, WriterAssumption
       DEF WriterInv, WriterTyped, VersionsOK, Versions
  <1>4. VersionsOK' /\ QueueOK' /\ SaverTyped' /\ FlusherOK'
    BY <1>1, <1>3
       DEF WriterInv, WriterTyped, VersionsOK, QueueOK, SaverTyped, FlusherOK
  <1>5. \A m \in StateNames : content'[m] \in 0..MaxVersion
    BY <1>3 DEF Versions
  <1>6. RequestedFirst'
    BY <1>1, <1>2, <1>3, <1>5 DEF WriterInv, RequestedFirst
  <1>7. PersistedIsOnDisk'
    BY <1>1, <1>2, <1>3, <1>5 DEF WriterInv, PersistedIsOnDisk
  <1>8. TakenFirst'
    BY <1>1, <1>2, <1>3, <1>5
       DEF WriterInv, WriterTyped, SaverTyped, TakenFirst
  <1>9. FlushRunning'
    BY <1>1 DEF WriterInv, FlushRunning
  <1> QED BY <1>4, <1>6, <1>7, <1>8, <1>9 DEF WriterInv, WriterTyped

(* A request names a version that the state has reached. *)
LEMMA RequestKeeps ==
    ASSUME WriterInv, NEW n \in StateNames, RequestVersion(n),
           QueueOK', FlusherOK',
           UNCHANGED <<content, persistedV, onDisk, current, takenV, snapshot,
                       flusher, flushed>>,
           saver' = saver \/ saver' = "get"
    PROVE  WriterInv'
  <1>1. /\ requestedV[n] < content[n]
        /\ requestedV' = [requestedV EXCEPT ![n] = requestedV[n] + 1]
    BY DEF RequestVersion
  <1>2. \A m \in StateNames : /\ content[m] \in 0..MaxVersion
                              /\ requestedV[m] \in 0..MaxVersion
    BY DEF WriterInv, WriterTyped, VersionsOK, Versions
  <1>3. /\ requestedV' \in Versions
        /\ \A m \in StateNames : requestedV[m] <= requestedV'[m]
        /\ \A m \in StateNames : requestedV'[m] <= content[m]
    BY <1>1, <1>2, WriterAssumption
       DEF WriterInv, WriterTyped, VersionsOK, Versions, RequestedFirst
  <1>4. VersionsOK'
    BY <1>3 DEF WriterInv, WriterTyped, VersionsOK
  <1>5. \A m \in StateNames : requestedV'[m] \in 0..MaxVersion
    BY <1>3 DEF Versions
  <1>6. SaverTyped'
    BY DEF WriterInv, WriterTyped, SaverTyped, SaverStages
  <1>7. RequestedFirst' /\ PersistedIsOnDisk' /\ FlushRunning'
    BY <1>3 DEF WriterInv, RequestedFirst, PersistedIsOnDisk, FlushRunning
  <1>8. TakenFirst'
    BY <1>2, <1>3, <1>5 DEF WriterInv, WriterTyped, SaverTyped, TakenFirst
  <1> QED BY <1>4, <1>6, <1>7, <1>8 DEF WriterInv, WriterTyped

LEMMA SetsOfNames ==
    ASSUME WriterInv
    PROVE  /\ Unsaved \in SUBSET StateNames
           /\ starter # NoName => {starter} \in SUBSET StateNames
           /\ QueueOK /\ FlusherOK
  BY DEF Unsaved, WriterInv, WriterTyped, FlusherOK, Names

LEMMA CallerKeeps == WriterInv /\ CallerNext => WriterInv'
  <1> SUFFICES ASSUME WriterInv, CallerNext PROVE WriterInv'
    OBVIOUS
  <1>1. ASSUME NEW n \in StateNames, save_state(n) PROVE WriterInv'
    <2>1. QueueOK'
      BY <1>1, SetsOfNames, QueueAdds DEF save_state, QueueNames
    <2>2. FlusherOK'
      BY <1>1, SetsOfNames DEF save_state, flushVars, FlusherOK
    <2> QED
      BY <1>1, <2>1, <2>2, RequestKeeps DEF save_state, saverVars, flushVars
  <1>2. ASSUME NEW n \in StateNames, start_state_save_worker(n) PROVE WriterInv'
    <2>1. QueueOK'
      BY <1>2, SetsOfNames, QueueAdds DEF start_state_save_worker
    <2>2. FlusherOK'
      BY <1>2, SetsOfNames DEF start_state_save_worker, flushVars, FlusherOK
    <2> QED
      BY <1>2, <2>1, <2>2, RequestKeeps DEF start_state_save_worker, flushVars
  <1>3. ASSUME NEW n \in StateNames, start_joins(n) PROVE WriterInv'
    <2>1. QueueOK'
      BY <1>3, SetsOfNames DEF start_joins, queueVars, QueueOK
    <2>2. FlusherOK'
      BY <1>3, SetsOfNames DEF start_joins, flushVars, FlusherOK, Names
    <2> QED
      BY <1>3, <2>1, <2>2, RequestKeeps DEF start_joins, saverVars, flushVars
  <1>4. CASE start_joined
    <2>1. QueueOK'
      BY <1>4, SetsOfNames, QueueAdds DEF start_joined, QueueNames
    <2>2. FlusherOK' /\ FlushRunning'
      BY <1>4, SetsOfNames
         DEF start_joined, flushVars, FlusherOK, Names, WriterInv, FlushRunning
    <2> QED
      BY <1>4, <2>1, <2>2, VersionsStand DEF start_joined, requestVars
  <1> QED BY <1>1, <1>2, <1>3, <1>4, ChangeKeeps DEF CallerNext


-----------------------------------------------------------------------------
(* The thread *)

LEMMA HeadIsName ==
    ASSUME QueueOK, saveQueue # <<>>
    PROVE  /\ Head(saveQueue) \in Names
           /\ Tail(saveQueue) \in Seq(Names)
           /\ Head(saveQueue) # NoName => Head(saveQueue) \in StateNames
  BY DEF QueueOK, Names

LEMMA TakeKeeps == WriterInv /\ worker_takes => WriterInv'
  <1> SUFFICES ASSUME WriterInv, worker_takes PROVE WriterInv'
    OBVIOUS
  <1>1. /\ saver = "get" /\ saver' = "snap" /\ saveQueue # <<>>
        /\ Head(saveQueue) # NoName
        /\ saveQueue' = Tail(saveQueue)
        /\ queuedNames' = queuedNames \ {Head(saveQueue)}
        /\ current' = Head(saveQueue)
        /\ takenV' = requestedV[Head(saveQueue)]
        /\ UNCHANGED <<content, requestedV, persistedV, onDisk, snapshot,
                       debounced, stopSet, starter, flusher, flushed, stops,
                       writeFaults>>
    BY DEF worker_takes, requestVars, flushVars
  <1>2. Head(saveQueue) \in StateNames /\ Tail(saveQueue) \in Seq(Names)
    BY <1>1, HeadIsName DEF WriterInv, WriterTyped
  <1>3. QueueOK'
    BY <1>1, <1>2 DEF WriterInv, WriterTyped, QueueOK
  <1>4. current' \in StateNames /\ takenV' = requestedV'[current']
        /\ takenV' \in 0..MaxVersion
    BY <1>1, <1>2 DEF WriterInv, WriterTyped, VersionsOK, Versions
  <1>5. SaverTyped' /\ TakenFirst'
    BY <1>1, <1>4, WriterAssumption
       DEF WriterInv, WriterTyped, SaverTyped, SaverStages, TakenFirst, Names
  <1>6. VersionsOK' /\ FlusherOK' /\ RequestedFirst' /\ PersistedIsOnDisk'
        /\ FlushRunning'
    BY <1>1 DEF WriterInv, WriterTyped, VersionsOK, FlusherOK, RequestedFirst,
                PersistedIsOnDisk, FlushRunning
  <1> QED BY <1>3, <1>5, <1>6 DEF WriterInv, WriterTyped

LEMMA SnapshotKeeps == WriterInv /\ snapshot_state_for_writer => WriterInv'
  <1> SUFFICES ASSUME WriterInv, snapshot_state_for_writer PROVE WriterInv'
    OBVIOUS
  <1>1. /\ saver = "snap" /\ saver' = "write" /\ snapshot' = content[current]
        /\ UNCHANGED <<content, requestedV, persistedV, onDisk, saveQueue,
                       queuedNames, current, takenV, debounced, stopSet,
                       starter, flusher, flushed, stops, writeFaults>>
    BY DEF snapshot_state_for_writer, requestVars, queueVars, flushVars
  <1>2. /\ current \in StateNames /\ takenV <= requestedV[current]
        /\ requestedV[current] <= content[current]
        /\ takenV \in 0..MaxVersion /\ requestedV[current] \in 0..MaxVersion
        /\ content[current] \in 0..MaxVersion
    BY <1>1 DEF WriterInv, WriterTyped, SaverTyped, TakenFirst,
                RequestedFirst, VersionsOK, Versions
  <1>3. SaverTyped'
    BY <1>1, <1>2 DEF WriterInv, WriterTyped, SaverTyped, SaverStages
  <1>4. TakenFirst'
    BY <1>1, <1>2, WriterAssumption DEF TakenFirst
  <1>5. VersionsOK' /\ QueueOK' /\ FlusherOK' /\ RequestedFirst'
        /\ PersistedIsOnDisk' /\ FlushRunning'
    BY <1>1 DEF WriterInv, WriterTyped, VersionsOK, QueueOK, FlusherOK,
                RequestedFirst, PersistedIsOnDisk, FlushRunning
  <1> QED BY <1>3, <1>4, <1>5 DEF WriterInv, WriterTyped

LEMMA FileKeeps == WriterInv /\ _write_state_snapshot => WriterInv'
  <1> SUFFICES ASSUME WriterInv, _write_state_snapshot PROVE WriterInv'
    OBVIOUS
  <1>1. /\ saver = "write" /\ saver' = "get"
        /\ onDisk' = [onDisk EXCEPT ![current] = snapshot]
        /\ persistedV' = [persistedV EXCEPT ![current] = takenV]
        /\ debounced' = debounced \cup ({current} \cap LargeNames)
        /\ UNCHANGED <<content, requestedV, current, takenV, snapshot,
                       stopSet, starter, flusher, flushed, stops,
                       writeFaults>>
    BY DEF _write_state_snapshot, requestVars, flushVars
  <1>2. /\ current \in StateNames /\ takenV \in 0..MaxVersion
        /\ snapshot \in 0..MaxVersion
        /\ takenV <= snapshot /\ snapshot <= content[current]
    BY <1>1 DEF WriterInv, WriterTyped, SaverTyped, TakenFirst
  <1>3. QueueOK'
    <2>1. {n \in {current} : requestedV[n] > takenV} \in SUBSET StateNames
      BY <1>2
    <2> QED
      BY <2>1, QueueAdds DEF _write_state_snapshot, WriterInv, WriterTyped
  <1>4. VersionsOK'
    BY <1>1, <1>2 DEF WriterInv, WriterTyped, VersionsOK, Versions
  <1>5. SaverTyped' /\ TakenFirst'
    BY <1>1 DEF WriterInv, WriterTyped, SaverTyped, SaverStages, TakenFirst
  <1>6. FlusherOK' /\ FlushRunning' /\ RequestedFirst'
    BY <1>1 DEF WriterInv, WriterTyped, FlusherOK, FlushRunning,
                RequestedFirst
  <1>7. PersistedIsOnDisk'
    <2> SUFFICES ASSUME NEW n \in StateNames
                 PROVE  /\ persistedV'[n] <= onDisk'[n]
                        /\ onDisk'[n] <= content'[n]
      BY DEF PersistedIsOnDisk
    <2>1. CASE n = current
      BY <1>1, <1>2, <2>1 DEF WriterInv, WriterTyped, VersionsOK, Versions
    <2>2. CASE n # current
      BY <1>1, <2>2
         DEF WriterInv, WriterTyped, VersionsOK, Versions, PersistedIsOnDisk
    <2> QED BY <2>1, <2>2
  <1> QED BY <1>3, <1>4, <1>5, <1>6, <1>7 DEF WriterInv, WriterTyped

LEMMA SaverKeeps == WriterInv /\ SaverNext => WriterInv'
  <1> SUFFICES ASSUME WriterInv, SaverNext PROVE WriterInv'
    OBVIOUS
  <1>1. CASE worker_sentinel
    <2>1. QueueOK' /\ FlusherOK' /\ FlushRunning'
      BY <1>1, SetsOfNames, HeadIsName
         DEF worker_sentinel, QueueOK, FlusherOK, flushVars, WriterInv,
             FlushRunning
    <2>2. saver' \in {"get", "exit"}
      BY <1>1 DEF worker_sentinel
    <2> QED
      BY <1>1, <2>1, <2>2, VersionsStand DEF worker_sentinel, requestVars
  <1>2. CASE worker_idle
    <2>1. QueueOK'
      BY <1>2, SetsOfNames, QueueAdds DEF worker_idle, QueueNames
    <2>2. FlusherOK' /\ FlushRunning'
      BY <1>2, SetsOfNames
         DEF worker_idle, FlusherOK, flushVars, WriterInv, FlushRunning
    <2>3. saver' \in {"get", "exit"}
      BY <1>2 DEF worker_idle
    <2> QED
      BY <1>2, <2>1, <2>2, <2>3, VersionsStand DEF worker_idle, requestVars
  <1>3. CASE worker_fails
    <2>1. QueueOK'
      BY <1>3, SetsOfNames, QueueAdds DEF worker_fails
    <2>2. FlusherOK' /\ FlushRunning'
      BY <1>3, SetsOfNames, WriterAssumption
         DEF worker_fails, FlusherOK, flushVars, WriterInv, FlushRunning
    <2> QED
      BY <1>3, <2>1, <2>2, VersionsStand DEF worker_fails, requestVars
  <1>4. CASE worker_ends
    <2>1. QueueOK' /\ FlusherOK' /\ FlushRunning'
      BY <1>4, SetsOfNames
         DEF worker_ends, QueueOK, queueVars, FlusherOK, flushVars, WriterInv,
             FlushRunning
    <2> QED BY <1>4, <2>1, VersionsStand DEF worker_ends, requestVars
  <1> QED
    BY <1>1, <1>2, <1>3, <1>4, TakeKeeps, SnapshotKeeps, FileKeeps
       DEF SaverNext

-----------------------------------------------------------------------------
(* Flush and stop *)

LEMMA IntervalKeeps ==
    ASSUME WriterInv, NEW n \in LargeNames, interval_over(n)
    PROVE  WriterInv'
  <1>1. QueueOK' /\ FlusherOK' /\ FlushRunning'
    BY SetsOfNames
       DEF interval_over, QueueOK, queueVars, FlusherOK, flushVars, WriterInv,
           FlushRunning
  <1> QED BY <1>1, VersionsStand DEF interval_over, requestVars, saverVars

LEMMA FlushKeeps == WriterInv /\ FlushNext => WriterInv'
  <1> SUFFICES ASSUME WriterInv, FlushNext PROVE WriterInv'
    OBVIOUS
  <1>1. ASSUME NEW purpose \in {"backup", "stop"}, flush_start(purpose)
        PROVE  WriterInv'
    <2>1. QueueOK'
      BY <1>1, SetsOfNames, QueueAdds DEF flush_start
    <2>2. stops' \in 0..MaxStops
      BY <1>1, SetsOfNames, WriterAssumption DEF flush_start, FlusherOK
    <2>3. FlusherOK' /\ FlushRunning'
      BY <1>1, <2>2, SetsOfNames
         DEF flush_start, FlusherOK, FlushStages, FlushRunning
    <2> QED
      BY <1>1, <2>1, <2>3, VersionsStand DEF flush_start, requestVars, saverVars
  <1>2. CASE flush_state_saves
    <2>1. QueueOK'
      BY <1>2, SetsOfNames DEF flush_state_saves, queueVars, QueueOK
    <2>2. flushed' \in BOOLEAN
      <3>1. Complete \in BOOLEAN
        BY DEF Complete
      <3> QED BY <1>2, <3>1 DEF flush_state_saves
    <2>3. FlusherOK' /\ FlushRunning'
      BY <1>2, <2>2, SetsOfNames
         DEF flush_state_saves, FlusherOK, FlushStages, FlushRunning
    <2> QED
      BY <1>2, <2>1, <2>3, VersionsStand
         DEF flush_state_saves, requestVars, saverVars
  <1>3. CASE stop_sets
    <2>1. QueueOK'
      BY <1>3, SetsOfNames DEF stop_sets, QueueOK, Names
    <2>2. FlusherOK' /\ FlushRunning'
      BY <1>3, SetsOfNames DEF stop_sets, FlusherOK, FlushStages, FlushRunning
    <2> QED
      BY <1>3, <2>1, <2>2, VersionsStand DEF stop_sets, requestVars, saverVars
  <1>4. CASE stop_state_save_worker
    <2>1. QueueOK' /\ FlusherOK' /\ FlushRunning'
      BY <1>4, SetsOfNames
         DEF stop_state_save_worker, queueVars, QueueOK, FlusherOK,
             FlushStages, FlushRunning
    <2> QED
      BY <1>4, <2>1, VersionsStand
         DEF stop_state_save_worker, requestVars, saverVars
  <1> QED BY <1>1, <1>2, <1>3, <1>4 DEF FlushNext

-----------------------------------------------------------------------------
(* The invariant *)

LEMMA WriterInitInv == SaveInit => WriterInv
  <1> SUFFICES ASSUME SaveInit PROVE WriterInv
    OBVIOUS
  <1>1. Zero \in Versions /\ \A n \in StateNames : Zero[n] = 0
    BY WriterAssumption DEF Zero, Versions
  <1>2. VersionsOK /\ RequestedFirst /\ PersistedIsOnDisk
    BY <1>1 DEF SaveInit, VersionsOK, RequestedFirst, PersistedIsOnDisk
  <1>3. QueueOK
    BY DEF SaveInit, QueueOK
  <1>4. SaverTyped /\ TakenFirst
    BY WriterAssumption
       DEF SaveInit, SaverTyped, SaverStages, TakenFirst, Names
  <1>5. FlusherOK /\ FlushRunning
    <2>1. flushed = FALSE /\ stopSet = FALSE
      BY DEF SaveInit
    <2>2. writeFaults \in 0..MaxWriteFaults /\ stops \in 0..MaxStops
      BY WriterAssumption DEF SaveInit
    <2>3. debounced \in SUBSET LargeNames /\ starter \in Names
          /\ flusher \in FlushStages
      BY DEF SaveInit, FlushStages, Names
    <2> QED BY <2>1, <2>2, <2>3 DEF FlusherOK, FlushRunning
  <1> QED BY <1>2, <1>3, <1>4, <1>5 DEF WriterInv, WriterTyped

LEMMA WriterStep == WriterInv /\ [SaveNext]_saveVars => WriterInv'
  <1> SUFFICES ASSUME WriterInv, [SaveNext]_saveVars PROVE WriterInv'
    OBVIOUS
  <1>1. CASE UNCHANGED saveVars
    <2>1. QueueOK' /\ FlusherOK' /\ FlushRunning'
      BY <1>1, SetsOfNames
         DEF saveVars, queueVars, flushVars, QueueOK, FlusherOK, WriterInv,
             FlushRunning
    <2> QED
      BY <1>1, <2>1, VersionsStand DEF saveVars, requestVars, saverVars
  <1> QED
    BY <1>1, CallerKeeps, SaverKeeps, IntervalKeeps, FlushKeeps DEF SaveNext

LEMMA WriterInvariant == SaveSpec => []WriterInv
  BY WriterInitInv, WriterStep, PTL DEF SaveSpec

(* The types of every variable of the writer. *)
THEOREM WriterIsTyped == SaveSpec => []SaveTypeOK
  <1>1. WriterInv => SaveTypeOK
    BY DEF WriterInv, WriterTyped, VersionsOK, Versions, QueueOK, SaverTyped,
           FlusherOK, SaveTypeOK, Names
  <1> QED BY <1>1, WriterInvariant, PTL

(* What is recorded as persisted is in the file, with every change made
   before it was requested, although callers change the state and ask for
   newer versions between the thread's two reads. *)
THEOREM PersistedReachedDisk == SaveSpec => []PersistedIsOnDisk
  <1>1. WriterInv => PersistedIsOnDisk
    BY DEF WriterInv
  <1> QED BY <1>1, WriterInvariant, PTL

(* A flush that reports success leaves no requested version unwritten. *)
THEOREM FlushIsComplete == SaveSpec => FlushMeansSaved
  <1> DEFINE Saved == flusher \in {"backup", "stop"} /\ flushed'
                          => \A n \in StateNames : onDisk[n] >= requestedV[n]
  <1>1. WriterInv /\ [SaveNext]_saveVars => [Saved]_saveVars
    <2> SUFFICES ASSUME WriterInv, SaveNext, flusher \in {"backup", "stop"},
                        flushed'
                 PROVE  \A n \in StateNames : onDisk[n] >= requestedV[n]
      BY DEF saveVars
    <2>1. flushed' # flushed
      BY DEF WriterInv, FlushRunning
    <2>2. flush_state_saves
      BY <2>1
         DEF SaveNext, CallerNext, change_state, save_state,
             start_state_save_worker, start_joins, start_joined, SaverNext,
             worker_takes, worker_sentinel, worker_idle,
             snapshot_state_for_writer, _write_state_snapshot, worker_fails,
             worker_ends, interval_over, FlushNext, flush_start, stop_sets,
             stop_state_save_worker, flushVars
    <2>3. Unsaved = {}
      BY <2>2 DEF flush_state_saves, Complete
    <2>4. \A n \in StateNames : /\ requestedV[n] \in 0..MaxVersion
                                /\ persistedV[n] \in 0..MaxVersion
                                /\ onDisk[n] \in 0..MaxVersion
                                /\ persistedV[n] <= onDisk[n]
      BY DEF WriterInv, WriterTyped, VersionsOK, Versions, PersistedIsOnDisk
    <2>5. \A n \in StateNames : ~(requestedV[n] > persistedV[n])
      BY <2>3 DEF Unsaved
    <2> QED BY <2>4, <2>5, WriterAssumption
  <1> QED
    BY <1>1, WriterInvariant, PTL DEF SaveSpec, FlushMeansSaved


-----------------------------------------------------------------------------
(* The composition *)

(* Each part of a behaviour of Storage is a behaviour of that part. *)
LEMMA StoragePartsBehave == StorageSpec => SaveSpec /\ CheckpointSpec
  <1>1. StorageInit => SaveInit /\ CheckpointInit
    BY DEF StorageInit
  <1>2. [StorageNext]_storageVars
            => [SaveNext]_saveVars /\ [CheckpointNext]_checkpointVars
    BY DEF StorageNext, storageVars
  <1> QED BY <1>1, <1>2, PTL DEF StorageSpec, SaveSpec, CheckpointSpec

(* In every state of the composition the part that is explored is of its
   type. *)
THEOREM StorageIsTyped == StorageSpec => []StorageTypeOK
  <1>1. SaveTypeOK /\ CheckpointTypeOK => StorageTypeOK
    BY DEF StorageTypeOK
  <1> QED BY <1>1, StoragePartsBehave, WriterIsTyped, CheckpointTyped, PTL
=============================================================================
