----------------------------- MODULE LeaseQueue -----------------------------
(***************************************************************************)
(* The SQLite queue of the V20 core: one row per item, claimed by a worker *)
(* for a visibility timeout, acknowledged, released, renewed and claimed   *)
(* again after the lease.  Every operation is one transaction on a thread; *)
(* its answer can be lost, and a worker that fell asleep may call late.    *)
(***************************************************************************)
EXTENDS Naturals, FiniteSets

CONSTANTS
    QueueItems, QueueWorkers, Nobody,
    VisibilityTimeout,      \* max(1, visibility_timeout)
    MaxDelay,               \* delays of enqueue and retry
    MaxLockWait,            \* longest wait for the lock and for BEGIN IMMEDIATE
    MaxClock                \* bound on time

ASSUME LeaseAssumption ==
    /\ Nobody \notin QueueWorkers
    /\ "absent" \notin QueueWorkers \cup {Nobody}
    /\ VisibilityTimeout \in Nat \ {0}
    /\ MaxDelay \in Nat
    /\ MaxLockWait \in 0..(VisibilityTimeout - 1)
    /\ MaxClock \in Nat

VARIABLES
    clock,
    rowStatus,      \* "absent", "pending" or "reserved"
    reservedBy, leaseUntil, availableAt,
    told,           \* lease end a worker was last told, 0 if it knows of none
    lastAck,        \* the worker whose ack deleted the row
    purged          \* claims <<item, worker>> that clear has revoked

rowVars == <<rowStatus, reservedBy, leaseUntil, availableAt>>
leaseVars == <<clock, rowVars, told, lastAck, purged>>

LeaseInit ==
    /\ clock = 0
    /\ rowStatus = [i \in QueueItems |-> "absent"]
    /\ reservedBy = [i \in QueueItems |-> Nobody]
    /\ leaseUntil = [i \in QueueItems |-> 0]
    /\ availableAt = [i \in QueueItems |-> 0]
    /\ told = [i \in QueueItems |-> [w \in QueueWorkers |-> 0]]
    /\ lastAck = [i \in QueueItems |-> Nobody]
    /\ purged = {}

time_passes ==
    /\ clock < MaxClock
    /\ clock' = clock + 1
    /\ UNCHANGED <<rowVars, told, lastAck, purged>>

(* INSERT OR IGNORE *)
enqueue(i, delay) ==
    /\ rowStatus[i] = "absent"
    /\ rowStatus' = [rowStatus EXCEPT ![i] = "pending"]
    /\ availableAt' = [availableAt EXCEPT ![i] = clock + delay]
    /\ UNCHANGED <<clock, reservedBy, leaseUntil, told, lastAck, purged>>

LapsedAt(i, now) == rowStatus[i] = "reserved" /\ leaseUntil[i] <= now

(* dequeue takes any row that is available, reserve one by its id. *)
Claimable(i, byId, now) ==
    IF byId
    THEN (rowStatus[i] = "pending" /\ availableAt[i] <= now) \/ LapsedAt(i, now)
    ELSE availableAt[i] <= now /\ (rowStatus[i] = "pending" \/ LapsedAt(i, now))

(* A mutant: a reserved row may be claimed by its id at any time. *)
MutantIgnoresLease(i, w, byId, heard, now) ==
    /\ rowStatus[i] # "absent"
    /\ availableAt[i] <= now
    /\ rowStatus' = [rowStatus EXCEPT ![i] = "reserved"]
    /\ reservedBy' = [reservedBy EXCEPT ![i] = w]
    /\ leaseUntil' = [leaseUntil EXCEPT ![i] = now + VisibilityTimeout]
    /\ told' = IF heard
               THEN [told EXCEPT ![i][w] = now + VisibilityTimeout] ELSE told
    /\ purged' = IF heard THEN purged \ {<<i, w>>} ELSE purged
    /\ UNCHANGED <<clock, availableAt, lastAck>>

(* The time is read before the lock is taken.  The claim is committed; the
   caller may be gone when it returns. *)
_claim(i, w, byId, heard, now) ==
    /\ Claimable(i, byId, now)
    /\ rowStatus' = [rowStatus EXCEPT ![i] = "reserved"]
    /\ reservedBy' = [reservedBy EXCEPT ![i] = w]
    /\ leaseUntil' = [leaseUntil EXCEPT ![i] = now + VisibilityTimeout]
    /\ told' = IF heard
               THEN [told EXCEPT ![i][w] = now + VisibilityTimeout] ELSE told
    /\ purged' = IF heard THEN purged \ {<<i, w>>} ELSE purged
    /\ UNCHANGED <<clock, availableAt, lastAck>>

Reserved(i, w) == rowStatus[i] = "reserved" /\ reservedBy[i] = w

DropRow(i) ==
    /\ rowStatus' = [rowStatus EXCEPT ![i] = "absent"]
    /\ reservedBy' = [reservedBy EXCEPT ![i] = Nobody]
    /\ leaseUntil' = [leaseUntil EXCEPT ![i] = 0]
    /\ availableAt' = [availableAt EXCEPT ![i] = 0]

Forget(i, w) == told' = [told EXCEPT ![i][w] = 0]

(* A mutant: any worker's ack deletes a reserved row. *)
MutantAcksAny(i, w) ==
    /\ told[i][w] # 0
    /\ IF rowStatus[i] = "reserved"
       THEN DropRow(i) /\ lastAck' = [lastAck EXCEPT ![i] = w]
       ELSE UNCHANGED <<rowVars, lastAck>>
    /\ Forget(i, w)
    /\ UNCHANGED <<clock, purged>>

(* A worker that was told of a claim acknowledges it, however late.  Without a
   worker's name the adapter would act on anyone's claim; a worker gives its
   name. *)
ack(i, w) ==
    /\ told[i][w] # 0
    /\ IF Reserved(i, w)
       THEN DropRow(i) /\ lastAck' = [lastAck EXCEPT ![i] = w]
       ELSE UNCHANGED <<rowVars, lastAck>>
    /\ Forget(i, w)
    /\ UNCHANGED <<clock, purged>>

(* nack and retry *)
_release(i, w, delay) ==
    /\ told[i][w] # 0
    /\ IF Reserved(i, w)
       THEN /\ rowStatus' = [rowStatus EXCEPT ![i] = "pending"]
            /\ reservedBy' = [reservedBy EXCEPT ![i] = Nobody]
            /\ leaseUntil' = [leaseUntil EXCEPT ![i] = 0]
            /\ availableAt' = [availableAt EXCEPT ![i] = clock + delay]
       ELSE UNCHANGED rowVars
    /\ Forget(i, w)
    /\ UNCHANGED <<clock, lastAck, purged>>

(* A lease that has run out is renewed when nobody took the row. *)
heartbeat(i, w, heard) ==
    /\ told[i][w] # 0
    /\ IF Reserved(i, w)
       THEN /\ leaseUntil' =
                  [leaseUntil EXCEPT ![i] = clock + VisibilityTimeout]
            /\ told' = IF heard
                       THEN [told EXCEPT ![i][w] = clock + VisibilityTimeout]
                       ELSE told
       ELSE UNCHANGED leaseUntil /\ Forget(i, w)
    /\ UNCHANGED <<clock, rowStatus, reservedBy, availableAt, lastAck,
                   purged>>

clear_queue ==
    /\ \E i \in QueueItems : rowStatus[i] # "absent"
    /\ rowStatus' = [i \in QueueItems |-> "absent"]
    /\ reservedBy' = [i \in QueueItems |-> Nobody]
    /\ leaseUntil' = [i \in QueueItems |-> 0]
    /\ availableAt' = [i \in QueueItems |-> 0]
    /\ purged' = QueueItems \X QueueWorkers
    /\ UNCHANGED <<clock, told, lastAck>>

LeaseNext ==
    \/ time_passes
    \/ \E i \in QueueItems, delay \in 0..MaxDelay : enqueue(i, delay)
    \/ \E i \in QueueItems, w \in QueueWorkers, byId, heard \in BOOLEAN,
          now \in 0..clock :
          /\ now + MaxLockWait >= clock
          /\ _claim(i, w, byId, heard, now)
    \/ \E i \in QueueItems, w \in QueueWorkers : ack(i, w)
    \/ \E i \in QueueItems, w \in QueueWorkers, delay \in 0..MaxDelay :
          _release(i, w, delay)
    \/ \E i \in QueueItems, w \in QueueWorkers, heard \in BOOLEAN :
          heartbeat(i, w, heard)
    \/ clear_queue

LeaseSpec == LeaseInit /\ [][LeaseNext]_leaseVars

-----------------------------------------------------------------------------

LeaseTypeOK ==
    /\ clock \in 0..MaxClock
    /\ rowStatus \in [QueueItems -> {"absent", "pending", "reserved"}]
    /\ reservedBy \in [QueueItems -> QueueWorkers \cup {Nobody}]
    /\ leaseUntil \in [QueueItems -> 0..(MaxClock + VisibilityTimeout)]
    /\ availableAt \in [QueueItems -> 0..(MaxClock + MaxDelay)]
    /\ told \in [QueueItems ->
                   [QueueWorkers -> 0..(MaxClock + VisibilityTimeout)]]
    /\ lastAck \in [QueueItems -> QueueWorkers \cup {Nobody}]
    /\ purged \subseteq QueueItems \X QueueWorkers

(* Within the lease it was told of, a worker has the row to itself: nobody
   claims it, acknowledges it or gives it back, unless the queue is cleared. *)
LeaseHolds ==
    \A i \in QueueItems, w \in QueueWorkers :
        told[i][w] > clock => Reserved(i, w) \/ <<i, w>> \in purged

Held == INSTANCE ExclusiveQueue WITH
    Items <- QueueItems,
    Workers <- QueueWorkers,
    holder <- [i \in QueueItems |->
                  IF rowStatus[i] = "absent" THEN "absent" ELSE reservedBy[i]],
    expired <- {i \in QueueItems : LapsedAt(i, clock)},
    finishedBy <- lastAck

(* The rows, the leases and the late calls implement a queue with one holder
   per item, in which only the holder finishes, renews or gives back. *)
LeaseRefines == Held!ExclusiveSpec
=============================================================================
