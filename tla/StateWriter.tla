---------------------------- MODULE StateWriter -----------------------------
(***************************************************************************)
(* The persistence thread of the JSON state files.  A caller changes STATE *)
(* and asks for a version with save_state; one thread snapshots the state  *)
(* and replaces the file.  Large files are debounced, flush waits for      *)
(* everything that was requested, stop flushes and ends the thread, and a  *)
(* later save_state starts it again.                                       *)
(***************************************************************************)
EXTENDS Naturals, FiniteSets, Sequences, SequencesExt

CONSTANTS
    StateNames,
    LargeNames,     \* target_media_index and clean_duplicate
    NoName,
    MaxVersion,     \* bound on the changes of one state
    MaxWriteFaults, \* bound on failed writes
    MaxStops        \* bound on the calls of stop_state_save_worker

ASSUME WriterAssumption ==
    /\ IsFiniteSet(StateNames)
    /\ LargeNames \subseteq StateNames
    /\ NoName \notin StateNames
    /\ MaxVersion \in Nat
    /\ MaxWriteFaults \in Nat
    /\ MaxStops \in Nat

VARIABLES
    content,        \* changes made to STATE[name]
    requestedV,     \* STATE_SAVE_REQUESTED
    persistedV,     \* STATE_SAVE_PERSISTED
    onDisk,         \* the content of the file
    saveQueue,      \* STATE_SAVE_QUEUE; NoName is the sentinel of stop
    queuedNames,    \* STATE_SAVE_QUEUED
    saver,          \* stage of the thread, "off" when there is none
    current, takenV, snapshot,    \* its local variables
    debounced,      \* names whose STATE_SAVE_NEXT_ALLOWED lies ahead
    stopSet,        \* STATE_SAVE_STOP
    starter,        \* the name whose save_state joins an ending thread
    flusher,        \* stage of flush_state_saves and stop_state_save_worker
    flushed,        \* what the last flush returned
    writeFaults, stops

requestVars == <<content, requestedV>>
queueVars == <<saveQueue, queuedNames>>
saverVars == <<saver, current, takenV, snapshot>>
flushVars == <<flusher, flushed, stops>>
saveVars ==
    <<requestVars, persistedV, onDisk, queueVars, saverVars, debounced,
      stopSet, starter, flushVars, writeFaults>>

SaverStages == {"off", "get", "snap", "write", "exit"}
FlushStages == {"idle", "backup", "stop", "flushed", "join"}

Zero == [n \in StateNames |-> 0]

SaveInit ==
    /\ content = Zero /\ requestedV = Zero /\ persistedV = Zero /\ onDisk = Zero
    /\ saveQueue = <<>> /\ queuedNames = {}
    /\ saver = "off" /\ current = NoName /\ takenV = 0 /\ snapshot = 0
    /\ debounced = {} /\ stopSet = FALSE /\ starter = NoName
    /\ flusher = "idle" /\ flushed = FALSE /\ writeFaults = 0
    /\ stops = 0

Unsaved == {n \in StateNames : requestedV[n] > persistedV[n]}

(* _queue_state_name_locked for every name of a set. *)
_queue_state_name_locked(names, late, inflight, stopping) ==
    LET due == {n \in names : /\ n \notin queuedNames \cup inflight
                              /\ stopping \/ n \notin late}
    IN  /\ queuedNames' = queuedNames \cup due
        /\ saveQueue' = saveQueue \o SetToSeq(due)

Inflight == IF saver \in {"snap", "write"} THEN {current} ELSE {}

QueueNames(names) ==
    _queue_state_name_locked(names, debounced, Inflight, stopSet)

-----------------------------------------------------------------------------
(* Callers *)

change_state(n) ==
    /\ content[n] = requestedV[n]
    /\ content[n] < MaxVersion
    /\ content' = [content EXCEPT ![n] = @ + 1]
    /\ UNCHANGED <<requestedV, persistedV, onDisk, queueVars, saverVars,
                   debounced, stopSet, starter, flushVars, writeFaults>>

RequestVersion(n) ==
    /\ requestedV[n] < content[n]
    /\ requestedV' = [requestedV EXCEPT ![n] = @ + 1]

save_state(n) ==
    /\ RequestVersion(n)
    /\ saver # "off"
    /\ ~stopSet
    /\ QueueNames({n})
    /\ UNCHANGED <<content, persistedV, onDisk, saverVars, debounced, stopSet,
                   starter, flushVars, writeFaults>>

(* No thread: a new one is created, and every unsaved name is queued. *)
start_state_save_worker(n) ==
    /\ RequestVersion(n)
    /\ saver = "off"
    /\ starter = NoName
    /\ stopSet' = FALSE
    /\ saver' = "get"
    /\ _queue_state_name_locked(Unsaved \cup {n}, debounced, {},
                                FALSE)
    /\ UNCHANGED <<content, persistedV, onDisk, current, takenV, snapshot,
                   debounced, starter, flushVars, writeFaults>>

(* A thread that was told to stop: the stop is withdrawn and it is joined. *)
start_joins(n) ==
    /\ RequestVersion(n)
    /\ saver # "off"
    /\ stopSet
    /\ starter = NoName
    /\ stopSet' = FALSE
    /\ starter' = n
    /\ UNCHANGED <<content, persistedV, onDisk, queueVars, saverVars,
                   debounced, flushVars, writeFaults>>

(* It ended, and a new one takes over, or it goes on after five seconds. *)
start_joined ==
    /\ starter # NoName
    /\ IF saver = "off"
       THEN /\ saver' = "get"
            /\ QueueNames(Unsaved \cup {starter})
       ELSE /\ saver # "exit"
            /\ QueueNames({starter})
            /\ UNCHANGED saver
    /\ starter' = NoName
    /\ UNCHANGED <<requestVars, persistedV, onDisk, current, takenV, snapshot,
                   debounced, stopSet, flushVars, writeFaults>>

-----------------------------------------------------------------------------
(* _state_save_worker *)

(* A mutant: the name stays in STATE_SAVE_QUEUED. *)
MutantStaysQueued ==
    /\ saver = "get"
    /\ saveQueue # <<>>
    /\ Head(saveQueue) # NoName
    /\ saveQueue' = Tail(saveQueue)
    /\ current' = Head(saveQueue)
    /\ takenV' = requestedV[Head(saveQueue)]
    /\ saver' = "snap"
    /\ UNCHANGED <<requestVars, persistedV, onDisk, queuedNames, snapshot,
                   debounced, stopSet, starter, flushVars, writeFaults>>

worker_takes ==
    /\ saver = "get"
    /\ saveQueue # <<>>
    /\ Head(saveQueue) # NoName
    /\ saveQueue' = Tail(saveQueue)
    /\ queuedNames' = queuedNames \ {Head(saveQueue)}
    /\ current' = Head(saveQueue)
    /\ takenV' = requestedV[Head(saveQueue)]
    /\ saver' = "snap"
    /\ UNCHANGED <<requestVars, persistedV, onDisk, snapshot, debounced,
                   stopSet, starter, flushVars, writeFaults>>

(* The sentinel ends the thread when the stop still stands. *)
worker_sentinel ==
    /\ saver = "get"
    /\ saveQueue # <<>>
    /\ Head(saveQueue) = NoName
    /\ saveQueue' = Tail(saveQueue)
    /\ saver' = IF stopSet THEN "exit" ELSE "get"
    /\ UNCHANGED <<requestVars, persistedV, onDisk, queuedNames, current,
                   takenV, snapshot, debounced, stopSet, starter, flushVars,
                   writeFaults>>

(* Nothing for half a second: what is unsaved is queued again. *)
worker_idle ==
    /\ saver = "get"
    /\ saveQueue = <<>>
    /\ QueueNames(Unsaved)
    /\ saver' = IF stopSet /\ queuedNames' = {} THEN "exit" ELSE "get"
    /\ UNCHANGED <<requestVars, persistedV, onDisk, current, takenV, snapshot,
                   debounced, stopSet, starter, flushVars, writeFaults>>

snapshot_state_for_writer ==
    /\ saver = "snap"
    /\ snapshot' = content[current]
    /\ saver' = "write"
    /\ UNCHANGED <<requestVars, persistedV, onDisk, queueVars, current,
                   takenV, debounced, stopSet, starter, flushVars,
                   writeFaults>>

(* A mutant: the version that is current after the write is recorded. *)
MutantRecordsLatest ==
    /\ saver = "write"
    /\ onDisk' = [onDisk EXCEPT ![current] = snapshot]
    /\ persistedV' = [persistedV EXCEPT ![current] = requestedV[current]]
    /\ debounced' = debounced \cup ({current} \cap LargeNames)
    /\ saver' = "get"
    /\ UNCHANGED <<requestVars, queueVars, current, takenV, snapshot, stopSet,
                   starter, flushVars, writeFaults>>

(* A mutant: every file is debounced. *)
MutantDebouncesAll ==
    /\ saver = "write"
    /\ onDisk' = [onDisk EXCEPT ![current] = snapshot]
    /\ persistedV' = [persistedV EXCEPT ![current] = takenV]
    /\ debounced' = debounced \cup {current}
    /\ saver' = "get"
    /\ UNCHANGED <<requestVars, queueVars, current, takenV, snapshot, stopSet,
                   starter, flushVars, writeFaults>>

(* atomic_json_save succeeded: the version read before the snapshot is
   persisted, and a newer request is queued unless it is debounced. *)
_write_state_snapshot ==
    /\ saver = "write"
    /\ onDisk' = [onDisk EXCEPT ![current] = snapshot]
    /\ persistedV' = [persistedV EXCEPT ![current] = takenV]
    /\ debounced' = debounced \cup ({current} \cap LargeNames)
    /\ _queue_state_name_locked(
          {n \in {current} : requestedV[n] > takenV},
          debounced', {}, stopSet)
    /\ saver' = "get"
    /\ UNCHANGED <<requestVars, current, takenV, snapshot, stopSet, starter,
                   flushVars, writeFaults>>

(* The snapshot or the write failed. *)
worker_fails ==
    /\ saver \in {"snap", "write"}
    /\ writeFaults < MaxWriteFaults
    /\ writeFaults' = writeFaults + 1
    /\ _queue_state_name_locked(Unsaved \cap {current}, debounced,
                                {}, stopSet)
    /\ saver' = "get"
    /\ UNCHANGED <<requestVars, persistedV, onDisk, current, takenV, snapshot,
                   debounced, stopSet, starter, flushVars>>

worker_ends ==
    /\ saver = "exit"
    /\ saver' = "off"
    /\ UNCHANGED <<requestVars, persistedV, onDisk, queueVars, current,
                   takenV, snapshot, debounced, stopSet, starter, flushVars,
                   writeFaults>>

(* LARGE_STATE_SAVE_MIN_INTERVAL_SECONDS are over. *)
interval_over(n) ==
    /\ n \in debounced
    /\ debounced' = debounced \ {n}
    /\ UNCHANGED <<requestVars, persistedV, onDisk, queueVars, saverVars,
                   stopSet, starter, flushVars, writeFaults>>

-----------------------------------------------------------------------------
(* flush_state_saves and stop_state_save_worker *)

flush_start(purpose) ==
    /\ flusher = "idle"
    /\ flusher' = purpose
    /\ purpose = "stop" => stops < MaxStops
    /\ stops' = IF purpose = "stop" THEN stops + 1 ELSE stops
    /\ flushed' = FALSE
    /\ debounced' = {}
    /\ _queue_state_name_locked(Unsaved \cap LargeNames, {},
                                Inflight, stopSet)
    /\ UNCHANGED <<requestVars, persistedV, onDisk, saverVars, stopSet,
                   starter, writeFaults>>

(* A mutant: an empty queue is taken for a complete flush. *)
MutantQueueEmpty == queuedNames = {} /\ Inflight = {}

Complete == Unsaved = {} /\ queuedNames = {} /\ Inflight = {}

(* The deadline passes, or everything is saved. *)
flush_state_saves ==
    /\ flusher \in {"backup", "stop"}
    /\ flushed' \in {FALSE, Complete}
    /\ flusher' = IF flusher = "stop" THEN "flushed" ELSE "idle"
    /\ UNCHANGED <<requestVars, persistedV, onDisk, queueVars, saverVars,
                   debounced, stopSet, starter, stops, writeFaults>>

stop_sets ==
    /\ flusher = "flushed"
    /\ stopSet' = TRUE
    /\ saveQueue' = Append(saveQueue, NoName)
    /\ flusher' = "join"
    /\ UNCHANGED <<requestVars, persistedV, onDisk, queuedNames, saverVars,
                   debounced, starter, flushed, stops, writeFaults>>

(* The join returns: the thread ended, or the timeout passed. *)
stop_state_save_worker ==
    /\ flusher = "join"
    /\ flusher' = "idle"
    /\ UNCHANGED <<requestVars, persistedV, onDisk, queueVars, saverVars,
                   debounced, stopSet, starter, flushed, stops, writeFaults>>

SaverNext ==
    \/ worker_takes
    \/ worker_sentinel
    \/ worker_idle
    \/ snapshot_state_for_writer
    \/ _write_state_snapshot
    \/ worker_fails
    \/ worker_ends

CallerNext ==
    \/ \E n \in StateNames : change_state(n)
    \/ \E n \in StateNames : save_state(n)
    \/ \E n \in StateNames : start_state_save_worker(n)
    \/ \E n \in StateNames : start_joins(n)
    \/ start_joined

FlushNext ==
    \/ \E purpose \in {"backup", "stop"} : flush_start(purpose)
    \/ flush_state_saves
    \/ stop_sets
    \/ stop_state_save_worker

SaveNext ==
    \/ CallerNext
    \/ SaverNext
    \/ \E n \in LargeNames : interval_over(n)
    \/ FlushNext

(* The thread runs, time passes, and a join ends. *)
SaveFairness ==
    /\ WF_saveVars(SaverNext)
    /\ WF_saveVars(start_joined)
    /\ \A n \in LargeNames : WF_saveVars(interval_over(n))

SaveSpec == SaveInit /\ [][SaveNext]_saveVars /\ SaveFairness

-----------------------------------------------------------------------------

SaveTypeOK ==
    /\ content \in [StateNames -> 0..MaxVersion]
    /\ requestedV \in [StateNames -> 0..MaxVersion]
    /\ persistedV \in [StateNames -> 0..MaxVersion]
    /\ onDisk \in [StateNames -> 0..MaxVersion]
    /\ \A i \in DOMAIN saveQueue : saveQueue[i] \in StateNames \cup {NoName}
    /\ queuedNames \subseteq StateNames
    /\ saver \in SaverStages /\ current \in StateNames \cup {NoName}
    /\ takenV \in 0..MaxVersion /\ snapshot \in 0..MaxVersion
    /\ debounced \subseteq LargeNames /\ stopSet \in BOOLEAN
    /\ starter \in StateNames \cup {NoName}
    /\ flusher \in FlushStages /\ flushed \in BOOLEAN
    /\ writeFaults \in 0..MaxWriteFaults /\ stops \in 0..MaxStops

(* A version that is recorded as persisted is in the file, with every change
   made before it was requested, whatever else the thread was asked to do
   between its reads. *)
PersistedIsOnDisk ==
    \A n \in StateNames : persistedV[n] <= onDisk[n] /\ onDisk[n] <= content[n]

(* A flush that reports success leaves nothing behind: the snapshot of a
   backup and the shutdown rely on it. *)
FlushMeansSaved ==
    [][(flusher \in {"backup", "stop"} /\ flushed') =>
          (\A n \in StateNames : onDisk[n] >= requestedV[n])]_saveVars

(* What was requested is saved in the end, however often writes fail, names
   are debounced and the thread is stopped and started, unless the thread is
   stopped for good. *)
SavesSettle ==
    \A n \in StateNames :
        requestedV[n] > persistedV[n]
            ~> persistedV[n] = requestedV[n] \/ saver = "off"
=============================================================================
