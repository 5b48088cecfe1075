--------------------------- MODULE ServicesProofs ---------------------------
(***************************************************************************)
(* Proofs about the services around the pipeline: the lease queue, the     *)
(* compute helper, the supervised workers, the duplicate index, and their  *)
(* composition.  A lease holds for as long as its worker was told, and the *)
(* rows implement ExclusiveQueue.  The helper inspects a request once,     *)
(* whatever is repeated.  What is cancelled has a cause and is not lost.   *)
(* An acknowledged delivery stays known through recoveries and restarts.   *)
(***************************************************************************)
EXTENDS Services, TLAPS

-----------------------------------------------------------------------------
(* The lease queue *)

(* A row that is not reserved is nobody's. *)
RowsConsistent ==
    \A i \in QueueItems :
        rowStatus[i] = "reserved" <=> reservedBy[i] \in QueueWorkers

(* No lease is longer than one timeout from now. *)
LeaseBounded ==
    \A i \in QueueItems : leaseUntil[i] <= clock + VisibilityTimeout

(* Nobody was told of a lease longer than one timeout from now. *)
ToldBounded ==
    \A i \in QueueItems, w \in QueueWorkers :
        told[i][w] <= clock + VisibilityTimeout

(* The owner of a row was told of no later end than the row has. *)
ToldIsStored ==
    \A i \in QueueItems, w \in QueueWorkers :
        Reserved(i, w) =>
            told[i][w] <= leaseUntil[i] \/ <<i, w>> \in purged

LeaseInv ==
    /\ LeaseTypeOK
    /\ RowsConsistent
    /\ LeaseBounded
    /\ ToldBounded
    /\ ToldIsStored
    /\ LeaseHolds

-----------------------------------------------------------------------------
(* Types *)

LEMMA LeaseTypeInit == LeaseInit => LeaseTypeOK
  BY LeaseAssumption DEF LeaseInit, LeaseTypeOK

(* What a worker is told is a time within the bounds. *)
LEMMA ToldType ==
    ASSUME LeaseTypeOK, NEW i \in QueueItems, NEW w \in QueueWorkers,
           NEW t \in 0..(MaxClock + VisibilityTimeout)
    PROVE  [told EXCEPT ![i][w] = t] \in
              [QueueItems ->
                 [QueueWorkers -> 0..(MaxClock + VisibilityTimeout)]]
  BY DEF LeaseTypeOK

(* So is what a row is given when it changes hands. *)
LEMMA RowType ==
    ASSUME LeaseTypeOK, NEW i \in QueueItems,
           NEW s \in {"absent", "pending", "reserved"},
           NEW o \in QueueWorkers \cup {Nobody},
           NEW t \in 0..(MaxClock + VisibilityTimeout),
           NEW a \in 0..(MaxClock + MaxDelay)
    PROVE  /\ [rowStatus EXCEPT ![i] = s] \in
                 [QueueItems -> {"absent", "pending", "reserved"}]
           /\ [reservedBy EXCEPT ![i] = o] \in
                 [QueueItems -> QueueWorkers \cup {Nobody}]
           /\ [leaseUntil EXCEPT ![i] = t] \in
                 [QueueItems -> 0..(MaxClock + VisibilityTimeout)]
           /\ [availableAt EXCEPT ![i] = a] \in
                 [QueueItems -> 0..(MaxClock + MaxDelay)]
           /\ [lastAck EXCEPT ![i] = o] \in
                 [QueueItems -> QueueWorkers \cup {Nobody}]
  BY DEF LeaseTypeOK

LEMMA ZeroInBounds ==
    0 \in 0..(MaxClock + VisibilityTimeout) /\ 0 \in 0..(MaxClock + MaxDelay)
  BY LeaseAssumption

LEMMA ClaimType ==
    ASSUME LeaseTypeOK, NEW i \in QueueItems, NEW w \in QueueWorkers,
           NEW byId \in BOOLEAN, NEW heard \in BOOLEAN, NEW now \in 0..clock,
           _claim(i, w, byId, heard, now)
    PROVE  LeaseTypeOK'
  <1>1. now + VisibilityTimeout \in 0..(MaxClock + VisibilityTimeout)
    BY LeaseAssumption DEF LeaseTypeOK
  <1>2. told' \in [QueueItems ->
                     [QueueWorkers -> 0..(MaxClock + VisibilityTimeout)]]
    BY <1>1, ToldType DEF _claim, LeaseTypeOK
  <1>3. purged' \subseteq QueueItems \X QueueWorkers
    BY DEF _claim, LeaseTypeOK
  <1> QED BY <1>1, <1>2, <1>3 DEF _claim, LeaseTypeOK

LEMMA AckType ==
    ASSUME LeaseTypeOK, NEW i \in QueueItems, NEW w \in QueueWorkers,
           ack(i, w)
    PROVE  LeaseTypeOK'
  <1>1. told' \in [QueueItems ->
                     [QueueWorkers -> 0..(MaxClock + VisibilityTimeout)]]
    BY LeaseAssumption, ToldType DEF ack, Forget, LeaseTypeOK
  <1>2. CASE Reserved(i, w)
    <2>1. DropRow(i) /\ lastAck' = [lastAck EXCEPT ![i] = w]
      BY <1>2 DEF ack
    <2>2. /\ rowStatus' \in [QueueItems -> {"absent", "pending", "reserved"}]
          /\ reservedBy' \in [QueueItems -> QueueWorkers \cup {Nobody}]
          /\ leaseUntil' \in [QueueItems -> 0..(MaxClock + VisibilityTimeout)]
          /\ availableAt' \in [QueueItems -> 0..(MaxClock + MaxDelay)]
          /\ lastAck' \in [QueueItems -> QueueWorkers \cup {Nobody}]
      BY <2>1, RowType, ZeroInBounds DEF DropRow
    <2> QED BY <1>1, <2>2 DEF ack, LeaseTypeOK
  <1>3. CASE ~Reserved(i, w)
    BY <1>1, <1>3 DEF ack, rowVars, LeaseTypeOK
  <1> QED BY <1>2, <1>3

LEMMA ReleaseType ==
    ASSUME LeaseTypeOK, NEW i \in QueueItems, NEW w \in QueueWorkers,
           NEW delay \in 0..MaxDelay, _release(i, w, delay)
    PROVE  LeaseTypeOK'
  <1>1. told' \in [QueueItems ->
                     [QueueWorkers -> 0..(MaxClock + VisibilityTimeout)]]
    BY LeaseAssumption, ToldType DEF _release, Forget, LeaseTypeOK
  <1>2. clock + delay \in 0..(MaxClock + MaxDelay)
    BY LeaseAssumption DEF LeaseTypeOK
  <1>3. CASE Reserved(i, w)
    <2>1. /\ rowStatus' \in [QueueItems -> {"absent", "pending", "reserved"}]
          /\ reservedBy' \in [QueueItems -> QueueWorkers \cup {Nobody}]
          /\ leaseUntil' \in [QueueItems -> 0..(MaxClock + VisibilityTimeout)]
          /\ availableAt' \in [QueueItems -> 0..(MaxClock + MaxDelay)]
      <3>1. /\ rowStatus' = [rowStatus EXCEPT ![i] = "pending"]
            /\ reservedBy' = [reservedBy EXCEPT ![i] = Nobody]
            /\ leaseUntil' = [leaseUntil EXCEPT ![i] = 0]
            /\ availableAt' = [availableAt EXCEPT ![i] = clock + delay]
        BY <1>3 DEF _release
      <3> QED BY <1>2, <3>1, RowType, ZeroInBounds
    <2> QED BY <1>1, <2>1 DEF _release, LeaseTypeOK
  <1>4. CASE ~Reserved(i, w)
    BY <1>1, <1>4 DEF _release, rowVars, LeaseTypeOK
  <1> QED BY <1>3, <1>4

LEMMA HeartbeatType ==
    ASSUME LeaseTypeOK, NEW i \in QueueItems, NEW w \in QueueWorkers,
           NEW heard \in BOOLEAN, heartbeat(i, w, heard)
    PROVE  LeaseTypeOK'
  <1>1. clock + VisibilityTimeout \in 0..(MaxClock + VisibilityTimeout)
    BY LeaseAssumption DEF LeaseTypeOK
  <1>2. told' \in [QueueItems ->
                     [QueueWorkers -> 0..(MaxClock + VisibilityTimeout)]]
    <2>1. \/ told' = told
          \/ told' = [told EXCEPT ![i][w] = clock + VisibilityTimeout]
          \/ told' = [told EXCEPT ![i][w] = 0]
      BY DEF heartbeat, Forget
    <2>2. told \in [QueueItems ->
                      [QueueWorkers -> 0..(MaxClock + VisibilityTimeout)]]
      BY DEF LeaseTypeOK
    <2> QED BY <1>1, <2>1, <2>2, ToldType, ZeroInBounds
  <1>3. leaseUntil' \in [QueueItems -> 0..(MaxClock + VisibilityTimeout)]
    BY <1>1 DEF heartbeat, LeaseTypeOK
  <1>4. UNCHANGED <<clock, rowStatus, reservedBy, availableAt, lastAck,
                    purged>>
    BY DEF heartbeat
  <1> QED BY <1>2, <1>3, <1>4 DEF LeaseTypeOK

LEMMA LeaseTypeStep == LeaseTypeOK /\ [LeaseNext]_leaseVars => LeaseTypeOK'
  <1> SUFFICES ASSUME LeaseTypeOK, [LeaseNext]_leaseVars PROVE LeaseTypeOK'
    OBVIOUS
  <1>1. CASE time_passes
    BY LeaseAssumption, <1>1 DEF time_passes, rowVars, LeaseTypeOK
  <1>2. ASSUME NEW i \in QueueItems, NEW delay \in 0..MaxDelay,
               enqueue(i, delay)
        PROVE  LeaseTypeOK'
    BY LeaseAssumption, <1>2 DEF enqueue, LeaseTypeOK
  <1>3. CASE clear_queue
    BY LeaseAssumption, <1>3 DEF clear_queue, LeaseTypeOK
  <1>4. CASE UNCHANGED leaseVars
    BY <1>4 DEF leaseVars, rowVars, LeaseTypeOK
  <1> QED BY <1>1, <1>2, <1>3, <1>4, ClaimType, AckType, ReleaseType,
             HeartbeatType DEF LeaseNext
-----------------------------------------------------------------------------
(* What each operation keeps of the invariant *)

(* Being told changes what one worker knows of one item. *)
LEMMA ToldAt ==
    ASSUME LeaseTypeOK, NEW i \in QueueItems, NEW w \in QueueWorkers,
           NEW t \in Nat, told' = [told EXCEPT ![i][w] = t],
           NEW k \in QueueItems, NEW v \in QueueWorkers
    PROVE  told'[k][v] = IF k = i /\ v = w THEN t ELSE told[k][v]
  BY DEF LeaseTypeOK

LEMMA TimePassesKeeps ==
    ASSUME LeaseInv, time_passes
    PROVE  (RowsConsistent /\ LeaseBounded /\ ToldBounded /\ ToldIsStored
            /\ LeaseHolds)'
  BY LeaseAssumption
     DEF LeaseInv, LeaseTypeOK, time_passes, rowVars, Reserved,
         RowsConsistent, LeaseBounded, ToldBounded, ToldIsStored, LeaseHolds

LEMMA EnqueueKeeps ==
    ASSUME LeaseInv, NEW i \in QueueItems, NEW delay \in 0..MaxDelay,
           enqueue(i, delay)
    PROVE  (RowsConsistent /\ LeaseBounded /\ ToldBounded /\ ToldIsStored
            /\ LeaseHolds)'
  BY LeaseAssumption
     DEF LeaseInv, LeaseTypeOK, enqueue, Reserved,
         RowsConsistent, LeaseBounded, ToldBounded, ToldIsStored, LeaseHolds

(* The row that is claimed has no worker with a lease it was told of, but
   for revoked ones: the time that was read is at most one lock wait old,
   and the wait is shorter than the timeout. *)
LEMMA ClaimedWasFree ==
    ASSUME LeaseInv, NEW i \in QueueItems, NEW byId \in BOOLEAN,
           NEW now \in 0..clock, Claimable(i, byId, now),
           NEW v \in QueueWorkers
    PROVE  told[i][v] <= clock \/ <<i, v>> \in purged
  <1> SUFFICES ASSUME told[i][v] > clock, <<i, v>> \notin purged
               PROVE  FALSE
    BY LeaseAssumption DEF LeaseInv, LeaseTypeOK
  <1>1. Reserved(i, v)
    BY DEF LeaseInv, LeaseHolds
  <1>2. told[i][v] <= leaseUntil[i]
    BY <1>1 DEF LeaseInv, ToldIsStored
  <1>3. leaseUntil[i] <= now
    BY <1>1 DEF Claimable, LapsedAt, Reserved
  <1> QED
    BY LeaseAssumption, <1>2, <1>3 DEF LeaseInv, LeaseTypeOK

LEMMA ClaimKeeps ==
    ASSUME LeaseInv, NEW i \in QueueItems, NEW w \in QueueWorkers,
           NEW byId \in BOOLEAN, NEW heard \in BOOLEAN, NEW now \in 0..clock,
           now + MaxLockWait >= clock, _claim(i, w, byId, heard, now)
    PROVE  (RowsConsistent /\ LeaseBounded /\ ToldBounded /\ ToldIsStored
            /\ LeaseHolds)'
  <1>1. /\ clock \in Nat /\ now \in Nat /\ clock' = clock
        /\ now <= clock /\ clock < now + VisibilityTimeout
    BY LeaseAssumption DEF LeaseInv, LeaseTypeOK, _claim
  <1>2. ASSUME NEW k \in QueueItems, NEW v \in QueueWorkers
        PROVE  told'[k][v] = IF heard /\ k = i /\ v = w
                             THEN now + VisibilityTimeout ELSE told[k][v]
    BY LeaseAssumption, <1>1, now + VisibilityTimeout \in Nat, ToldAt
       DEF _claim, LeaseInv
  <1>3. /\ leaseUntil'[i] = now + VisibilityTimeout
        /\ \A k \in QueueItems \ {i} : leaseUntil'[k] = leaseUntil[k]
        /\ \A k \in QueueItems, v \in QueueWorkers :
              Reserved(k, v)' <=> IF k = i THEN v = w ELSE Reserved(k, v)
        /\ \A k \in QueueItems, v \in QueueWorkers :
              <<k, v>> \in purged' <=>
                 <<k, v>> \in purged /\ ~(heard /\ k = i /\ v = w)
    BY DEF _claim, LeaseInv, LeaseTypeOK, Reserved
  <1>4. ASSUME NEW k \in QueueItems, NEW v \in QueueWorkers
        PROVE  told[k][v] \in Nat /\ leaseUntil[k] \in Nat
    BY LeaseAssumption DEF LeaseInv, LeaseTypeOK
  <1>5. RowsConsistent'
    BY LeaseAssumption DEF LeaseInv, LeaseTypeOK, _claim, RowsConsistent
  <1>6. LeaseBounded'
    BY LeaseAssumption, <1>1, <1>3, <1>4 DEF LeaseInv, LeaseBounded
  <1>7. ToldBounded'
    BY LeaseAssumption, <1>1, <1>2, <1>4 DEF LeaseInv, ToldBounded
  <1>8. ASSUME NEW v \in QueueWorkers
        PROVE  told[i][v] <= clock \/ <<i, v>> \in purged
    BY ClaimedWasFree DEF _claim
  <1>9. ToldIsStored'
    <2> SUFFICES ASSUME NEW k \in QueueItems, NEW v \in QueueWorkers,
                        Reserved(k, v)'
                 PROVE  told'[k][v] <= leaseUntil'[k] \/ <<k, v>> \in purged'
      BY DEF ToldIsStored, Reserved
    <2>1. CASE k = i
      <3>1. v = w
        BY <1>3, <2>1
      <3>2. CASE heard
        BY LeaseAssumption, <1>1, <1>2, <1>3, <2>1, <3>1, <3>2
      <3>3. CASE ~heard
        BY LeaseAssumption, <1>1, <1>2, <1>3, <1>4, <1>8, <2>1, <3>1, <3>3
      <3> QED BY <3>2, <3>3
    <2>2. CASE k # i
      BY <1>2, <1>3, <1>4, <2>2 DEF LeaseInv, ToldIsStored
    <2> QED BY <2>1, <2>2
  <1>10. LeaseHolds'
    <2> SUFFICES ASSUME NEW k \in QueueItems, NEW v \in QueueWorkers,
                        told'[k][v] > clock
                 PROVE  Reserved(k, v)' \/ <<k, v>> \in purged'
      BY <1>1 DEF LeaseHolds, Reserved
    <2>1. CASE k = i /\ v = w
      BY <1>3, <2>1
    <2>2. CASE k = i /\ v # w
      BY <1>1, <1>2, <1>3, <1>4, <1>8, <2>2
    <2>3. CASE k # i
      BY <1>2, <1>3, <2>3 DEF LeaseInv, LeaseHolds
    <2> QED BY <2>1, <2>2, <2>3
  <1> QED BY <1>5, <1>6, <1>7, <1>9, <1>10

(* What ack and release do to the row of its owner, and of anybody else. *)
GivenUp(i, w) ==
    /\ Reserved(i, w)
    /\ rowStatus'[i] # "reserved"
    /\ reservedBy' = [reservedBy EXCEPT ![i] = Nobody]
    /\ leaseUntil' = [leaseUntil EXCEPT ![i] = 0]
    /\ \A k \in QueueItems \ {i} : rowStatus'[k] = rowStatus[k]

NotTheOwner(i, w) == ~Reserved(i, w) /\ UNCHANGED rowVars

LEMMA GivenUpKeeps ==
    ASSUME LeaseInv, LeaseTypeOK', NEW i \in QueueItems,
           NEW w \in QueueWorkers,
           UNCHANGED <<clock, purged>>, Forget(i, w),
           GivenUp(i, w) \/ NotTheOwner(i, w)
    PROVE  (RowsConsistent /\ LeaseBounded /\ ToldBounded /\ ToldIsStored
            /\ LeaseHolds)'
  <1>1. ASSUME NEW k \in QueueItems, NEW v \in QueueWorkers
        PROVE  /\ told[k][v] \in Nat /\ leaseUntil[k] \in Nat
               /\ told'[k][v] \in Nat /\ leaseUntil'[k] \in Nat
    BY LeaseAssumption DEF LeaseInv, LeaseTypeOK
  <1>2. ASSUME NEW k \in QueueItems, NEW v \in QueueWorkers
        PROVE  told'[k][v] = IF k = i /\ v = w THEN 0 ELSE told[k][v]
    BY <1>1 DEF Forget, LeaseInv, LeaseTypeOK
  <1>3. ASSUME NEW k \in QueueItems, NEW v \in QueueWorkers
        PROVE  /\ Reserved(k, v)' <=> Reserved(k, v) /\ ~(k = i /\ v = w)
               /\ \/ leaseUntil'[k] = leaseUntil[k]
                  \/ k = i /\ Reserved(i, w) /\ leaseUntil'[k] = 0
    <2>1. CASE GivenUp(i, w)
      <3>1. /\ reservedBy'[k] = IF k = i THEN Nobody ELSE reservedBy[k]
            /\ leaseUntil'[k] = IF k = i THEN 0 ELSE leaseUntil[k]
        BY <2>1, <1>1 DEF GivenUp, LeaseInv, LeaseTypeOK
      <3> QED BY <1>1, <2>1, <3>1, LeaseAssumption DEF GivenUp, Reserved
    <2>2. CASE NotTheOwner(i, w)
      BY <2>2 DEF NotTheOwner, Reserved, rowVars
    <2> QED BY <2>1, <2>2
  <1>4. clock \in Nat /\ clock' = clock /\ purged' = purged
    BY DEF LeaseInv, LeaseTypeOK
  <1>5. RowsConsistent'
    <2>1. CASE GivenUp(i, w)
      BY <2>1, LeaseAssumption
         DEF GivenUp, RowsConsistent, Reserved, LeaseInv, LeaseTypeOK
    <2>2. CASE NotTheOwner(i, w)
      BY <2>2 DEF NotTheOwner, RowsConsistent, rowVars, LeaseInv
    <2> QED BY <2>1, <2>2
  <1>6. LeaseBounded'
    <2> SUFFICES ASSUME NEW k \in QueueItems
                 PROVE  leaseUntil'[k] <= clock + VisibilityTimeout
      BY <1>4 DEF LeaseBounded
    <2> QED BY LeaseAssumption, <1>3, <1>1, <1>4 DEF LeaseInv, LeaseBounded
  <1>7. ToldBounded'
    BY LeaseAssumption, <1>2, <1>1, <1>4 DEF LeaseInv, ToldBounded
  <1>8. ToldIsStored'
    <2> SUFFICES ASSUME NEW k \in QueueItems, NEW v \in QueueWorkers,
                        Reserved(k, v)'
                 PROVE  told'[k][v] <= leaseUntil'[k] \/ <<k, v>> \in purged
      BY <1>4 DEF ToldIsStored, Reserved
    <2>1. Reserved(k, v) /\ ~(k = i /\ v = w)
      BY <1>3
    <2>2. ~(k = i /\ Reserved(i, w))
      BY <2>1 DEF Reserved
    <2> QED BY <1>2, <1>3, <2>1, <2>2 DEF LeaseInv, ToldIsStored
  <1>9. LeaseHolds'
    <2> SUFFICES ASSUME NEW k \in QueueItems, NEW v \in QueueWorkers,
                        told'[k][v] > clock
                 PROVE  Reserved(k, v)' \/ <<k, v>> \in purged
      BY <1>4 DEF LeaseHolds, Reserved
    <2>1. told[k][v] > clock /\ ~(k = i /\ v = w)
      BY <1>2, <1>4
    <2> QED BY <1>3, <2>1 DEF LeaseInv, LeaseHolds
  <1> QED BY <1>5, <1>6, <1>7, <1>8, <1>9

LEMMA HeartbeatKeeps ==
    ASSUME LeaseInv, LeaseTypeOK', NEW i \in QueueItems,
           NEW w \in QueueWorkers, NEW heard \in BOOLEAN,
           heartbeat(i, w, heard)
    PROVE  (RowsConsistent /\ LeaseBounded /\ ToldBounded /\ ToldIsStored
            /\ LeaseHolds)'
  <1>1. CASE ~Reserved(i, w)
    <2>1. Forget(i, w) /\ NotTheOwner(i, w) /\ UNCHANGED <<clock, purged>>
      BY <1>1 DEF heartbeat, NotTheOwner, rowVars
    <2> QED BY <2>1, GivenUpKeeps
  <1>2. CASE Reserved(i, w)
    <2>1. /\ clock \in Nat /\ clock' = clock /\ purged' = purged
          /\ rowStatus' = rowStatus /\ reservedBy' = reservedBy
      BY DEF heartbeat, LeaseInv, LeaseTypeOK
    <2>2. ASSUME NEW k \in QueueItems, NEW v \in QueueWorkers
          PROVE  /\ told[k][v] \in Nat /\ leaseUntil[k] \in Nat
                 /\ told'[k][v] \in Nat /\ leaseUntil'[k] \in Nat
      BY LeaseAssumption DEF LeaseInv, LeaseTypeOK
    <2>3. ASSUME NEW k \in QueueItems, NEW v \in QueueWorkers
          PROVE  told'[k][v] = IF heard /\ k = i /\ v = w
                               THEN clock + VisibilityTimeout ELSE told[k][v]
      <3>1. CASE heard
        BY LeaseAssumption, <1>2, <2>1, <2>2, <3>1, ToldAt,
           clock + VisibilityTimeout \in Nat DEF heartbeat, LeaseInv
      <3>2. CASE ~heard
        BY <1>2, <3>2 DEF heartbeat
      <3> QED BY <3>1, <3>2
    <2>4. ASSUME NEW k \in QueueItems
          PROVE  leaseUntil'[k] = IF k = i THEN clock + VisibilityTimeout
                                  ELSE leaseUntil[k]
      BY LeaseAssumption, <1>2, <2>1 DEF heartbeat, LeaseInv, LeaseTypeOK
    <2>5. RowsConsistent'
      BY <2>1 DEF RowsConsistent, LeaseInv
    <2>6. LeaseBounded'
      <3> SUFFICES ASSUME NEW k \in QueueItems
                   PROVE  leaseUntil'[k] <= clock + VisibilityTimeout
        BY <2>1 DEF LeaseBounded
      <3> QED BY LeaseAssumption, <2>1, <2>4 DEF LeaseInv, LeaseBounded
    <2>7. ToldBounded'
      BY LeaseAssumption, <2>1, <2>2, <2>3 DEF ToldBounded, LeaseInv
    <2>8. ToldIsStored'
      <3> SUFFICES ASSUME NEW k \in QueueItems, NEW v \in QueueWorkers,
                          Reserved(k, v)
                   PROVE  told'[k][v] <= leaseUntil'[k] \/ <<k, v>> \in purged
        BY <2>1 DEF ToldIsStored, Reserved
      <3>1. CASE k = i
        <4> told[k][v] <= clock + VisibilityTimeout
          BY DEF LeaseInv, ToldBounded
        <4> QED BY LeaseAssumption, <2>1, <2>2, <2>3, <2>4, <3>1
      <3>2. CASE k # i
        BY <2>2, <2>3, <2>4, <3>2 DEF LeaseInv, ToldIsStored
      <3> QED BY <3>1, <3>2
    <2>9. LeaseHolds'
      <3> SUFFICES ASSUME NEW k \in QueueItems, NEW v \in QueueWorkers,
                          told'[k][v] > clock
                   PROVE  Reserved(k, v) \/ <<k, v>> \in purged
        BY <2>1 DEF LeaseHolds, Reserved
      <3> QED BY <1>2, <2>3 DEF LeaseInv, LeaseHolds
    <2> QED BY <2>5, <2>6, <2>7, <2>8, <2>9
  <1> QED BY <1>1, <1>2

LEMMA ClearKeeps ==
    ASSUME LeaseInv, clear_queue
    PROVE  (RowsConsistent /\ LeaseBounded /\ ToldBounded /\ ToldIsStored
            /\ LeaseHolds)'
  <1>1. /\ clock \in Nat /\ clock' = clock /\ told' = told
        /\ \A k \in QueueItems : /\ rowStatus'[k] = "absent"
                                 /\ reservedBy'[k] = Nobody
                                 /\ leaseUntil'[k] = 0
        /\ \A k \in QueueItems, v \in QueueWorkers : <<k, v>> \in purged'
    BY DEF clear_queue, LeaseInv, LeaseTypeOK
  <1>2. RowsConsistent' /\ LeaseBounded'
    BY LeaseAssumption, <1>1 DEF RowsConsistent, LeaseBounded
  <1>3. ToldBounded' /\ ToldIsStored' /\ LeaseHolds'
    BY <1>1 DEF LeaseInv, ToldBounded, ToldIsStored, LeaseHolds
  <1> QED BY <1>2, <1>3

-----------------------------------------------------------------------------
(* The invariant *)

LEMMA LeaseInvInit == LeaseInit => LeaseInv
  BY LeaseAssumption, LeaseTypeInit
     DEF LeaseInit, LeaseInv, RowsConsistent, LeaseBounded, ToldBounded,
         ToldIsStored, LeaseHolds, Reserved

LEMMA LeaseInvStep == LeaseInv /\ [LeaseNext]_leaseVars => LeaseInv'
  <1> SUFFICES ASSUME LeaseInv, [LeaseNext]_leaseVars PROVE LeaseInv'
    OBVIOUS
  <1>1. LeaseTypeOK'
    BY LeaseTypeStep DEF LeaseInv
  <1>2. CASE time_passes
    BY <1>1, <1>2, TimePassesKeeps DEF LeaseInv
  <1>3. ASSUME NEW i \in QueueItems, NEW delay \in 0..MaxDelay,
               enqueue(i, delay)
        PROVE  LeaseInv'
    BY <1>1, <1>3, EnqueueKeeps DEF LeaseInv
  <1>4. ASSUME NEW i \in QueueItems, NEW w \in QueueWorkers,
               NEW byId \in BOOLEAN, NEW heard \in BOOLEAN,
               NEW now \in 0..clock, now + MaxLockWait >= clock,
               _claim(i, w, byId, heard, now)
        PROVE  LeaseInv'
    BY <1>1, <1>4, ClaimKeeps DEF LeaseInv
  <1>5. ASSUME NEW i \in QueueItems, NEW w \in QueueWorkers, ack(i, w)
        PROVE  LeaseInv'
    <2>1. Forget(i, w) /\ UNCHANGED <<clock, purged>>
      BY <1>5 DEF ack
    <2>2. GivenUp(i, w) \/ NotTheOwner(i, w)
      BY <1>5 DEF ack, DropRow, GivenUp, NotTheOwner, LeaseInv, LeaseTypeOK
    <2> QED BY <1>1, <2>1, <2>2, GivenUpKeeps DEF LeaseInv
  <1>6. ASSUME NEW i \in QueueItems, NEW w \in QueueWorkers,
               NEW delay \in 0..MaxDelay, _release(i, w, delay)
        PROVE  LeaseInv'
    <2>1. Forget(i, w) /\ UNCHANGED <<clock, purged>>
      BY <1>6 DEF _release
    <2>2. GivenUp(i, w) \/ NotTheOwner(i, w)
      BY <1>6 DEF _release, GivenUp, NotTheOwner, LeaseInv, LeaseTypeOK
    <2> QED BY <1>1, <2>1, <2>2, GivenUpKeeps DEF LeaseInv
  <1>7. ASSUME NEW i \in QueueItems, NEW w \in QueueWorkers,
               NEW heard \in BOOLEAN, heartbeat(i, w, heard)
        PROVE  LeaseInv'
    BY <1>1, <1>7, HeartbeatKeeps DEF LeaseInv
  <1>8. CASE clear_queue
    BY <1>1, <1>8, ClearKeeps DEF LeaseInv
  <1>9. CASE UNCHANGED leaseVars
    BY <1>1, <1>9
       DEF LeaseInv, leaseVars, rowVars, RowsConsistent, LeaseBounded,
           ToldBounded, ToldIsStored, LeaseHolds, Reserved
  <1> QED BY <1>2, <1>3, <1>4, <1>5, <1>6, <1>7, <1>8, <1>9 DEF LeaseNext

LEMMA LeaseInvAlways == LeaseSpec => []LeaseInv
  BY LeaseInvInit, LeaseInvStep, PTL DEF LeaseSpec

(* While the lease it was told of runs, a worker has the row, whatever the
   others call late and however the clock moved while a claim waited for the
   lock; only clear takes it away. *)
THEOREM LeaseIsHeld == LeaseSpec => []LeaseHolds
  <1>1. LeaseInv => LeaseHolds
    BY DEF LeaseInv
  <1> QED BY <1>1, LeaseInvAlways, PTL

-----------------------------------------------------------------------------
(* The rows implement a queue with one holder per item *)

holderOf == [i \in QueueItems |->
                IF rowStatus[i] = "absent" THEN "absent" ELSE reservedBy[i]]

expiredNow == {i \in QueueItems : LapsedAt(i, clock)}

(* A row is held by the worker that reserved it, and only by it. *)
LEMMA HolderIsOwner ==
    ASSUME LeaseInv, NEW i \in QueueItems
    PROVE  /\ \A w \in QueueWorkers : holderOf[i] = w <=> Reserved(i, w)
           /\ holderOf[i] = Nobody <=> rowStatus[i] = "pending"
           /\ holderOf[i] = "absent" <=> rowStatus[i] = "absent"
           /\ i \in expiredNow <=> LapsedAt(i, clock)
           /\ LapsedAt(i, clock) => holderOf[i] \in QueueWorkers
  <1>1. /\ rowStatus[i] \in {"absent", "pending", "reserved"}
        /\ reservedBy[i] \in QueueWorkers \cup {Nobody}
        /\ rowStatus[i] = "reserved" <=> reservedBy[i] \in QueueWorkers
    BY DEF LeaseInv, LeaseTypeOK, RowsConsistent
  <1>2. holderOf[i] = IF rowStatus[i] = "absent" THEN "absent"
                      ELSE reservedBy[i]
    BY DEF holderOf
  <1> QED
    BY LeaseAssumption, <1>1, <1>2 DEF Reserved, expiredNow, LapsedAt

(* An operation on one row changes the holder of one item, and a row whose
   lease ends later than now is not expired. *)
LEMMA HolderAfter ==
    ASSUME LeaseInv, NEW i \in QueueItems, NEW h, LeaseInv',
           clock' = clock,
           rowStatus' = [rowStatus EXCEPT ![i] = rowStatus'[i]],
           reservedBy' = [reservedBy EXCEPT ![i] = reservedBy'[i]],
           leaseUntil' = [leaseUntil EXCEPT ![i] = leaseUntil'[i]],
           h = IF rowStatus'[i] = "absent" THEN "absent" ELSE reservedBy'[i],
           ~LapsedAt(i, clock)'
    PROVE  /\ holderOf' = [holderOf EXCEPT ![i] = h]
           /\ expiredNow' = expiredNow \ {i}
  <1>1. \A k \in QueueItems \ {i} : /\ rowStatus'[k] = rowStatus[k]
                                    /\ reservedBy'[k] = reservedBy[k]
                                    /\ leaseUntil'[k] = leaseUntil[k]
    BY DEF LeaseInv, LeaseTypeOK
  <1>2. holderOf' = [holderOf EXCEPT ![i] = h]
    BY <1>1 DEF holderOf
  <1>3. expiredNow' = expiredNow \ {i}
    BY <1>1 DEF expiredNow, LapsedAt
  <1> QED BY <1>2, <1>3

LEMMA StepRefines ==
    ASSUME LeaseInv, LeaseInv', LeaseNext
    PROVE  [Held!ExclusiveNext]_(Held!exclusiveVars)
  <1>1. CASE time_passes
    <2>1. /\ holderOf' = holderOf /\ lastAck' = lastAck
          /\ expiredNow' = expiredNow \cup expiredNow'
          /\ expiredNow' \in SUBSET QueueItems
          /\ \A i \in expiredNow' : holderOf[i] \in QueueWorkers
      <3>1. holderOf' = holderOf /\ lastAck' = lastAck
        BY <1>1 DEF time_passes, rowVars, holderOf
      <3>2. ASSUME NEW i \in expiredNow PROVE i \in expiredNow'
        BY <1>1, LeaseAssumption
           DEF time_passes, rowVars, expiredNow, LapsedAt, LeaseInv, LeaseTypeOK
      <3>3. ASSUME NEW i \in expiredNow' PROVE holderOf[i] \in QueueWorkers
        BY <1>1, HolderIsOwner
           DEF time_passes, rowVars, expiredNow, LapsedAt, LeaseInv,
               RowsConsistent, holderOf
      <3>4. expiredNow' \in SUBSET QueueItems
        BY DEF expiredNow
      <3> QED BY <3>1, <3>2, <3>3, <3>4
    <2>2. Held!Expire(expiredNow')
      BY <2>1 DEF Held!Expire, holderOf, expiredNow
    <2> QED BY <2>1, <2>2 DEF Held!ExclusiveNext
  <1>2. ASSUME NEW i \in QueueItems, NEW delay \in 0..MaxDelay,
               enqueue(i, delay)
        PROVE  Held!Put(i)
    <2>1. ~LapsedAt(i, clock)' /\ i \notin expiredNow
      BY <1>2 DEF enqueue, LapsedAt, expiredNow, LeaseInv, LeaseTypeOK
    <2>2. reservedBy[i] = Nobody /\ holderOf[i] = "absent"
      BY <1>2, HolderIsOwner
         DEF enqueue, LeaseInv, LeaseTypeOK, RowsConsistent
    <2>3. /\ rowStatus' = [rowStatus EXCEPT ![i] = "pending"]
          /\ UNCHANGED <<clock, reservedBy, leaseUntil>>
      BY <1>2 DEF enqueue
    <2>4. /\ rowStatus' = [rowStatus EXCEPT ![i] = rowStatus'[i]]
          /\ reservedBy' = [reservedBy EXCEPT ![i] = reservedBy'[i]]
          /\ leaseUntil' = [leaseUntil EXCEPT ![i] = leaseUntil'[i]]
          /\ Nobody = IF rowStatus'[i] = "absent" THEN "absent"
                      ELSE reservedBy'[i]
      BY <2>3, <2>2 DEF LeaseInv, LeaseTypeOK
    <2>5. /\ holderOf' = [holderOf EXCEPT ![i] = Nobody]
          /\ expiredNow' = expiredNow \ {i}
      BY <2>1, <2>3, <2>4, HolderAfter
    <2>6. expiredNow' = expiredNow
      BY <2>1, <2>5
    <2>7. lastAck' = lastAck
      BY <1>2 DEF enqueue
    <2> QED
      BY <2>2, <2>5, <2>6, <2>7 DEF Held!Put, holderOf, expiredNow
  <1>3. ASSUME NEW i \in QueueItems, NEW w \in QueueWorkers,
               NEW byId \in BOOLEAN, NEW heard \in BOOLEAN,
               NEW now \in 0..clock, now + MaxLockWait >= clock,
               _claim(i, w, byId, heard, now)
        PROVE  Held!Take(i, w)
    <2>1. holderOf[i] = Nobody \/ i \in expiredNow
      <3>1. rowStatus[i] = "pending" \/ LapsedAt(i, now)
        BY <1>3 DEF _claim, Claimable
      <3>2. LapsedAt(i, now) => LapsedAt(i, clock)
        BY LeaseAssumption DEF LapsedAt, LeaseInv, LeaseTypeOK
      <3> QED BY <3>1, <3>2, HolderIsOwner
    <2>2. ~LapsedAt(i, clock)'
      BY <1>3, LeaseAssumption DEF _claim, LapsedAt, LeaseInv, LeaseTypeOK
    <2>3. /\ holderOf' = [holderOf EXCEPT ![i] = w]
          /\ expiredNow' = expiredNow \ {i}
      BY <1>3, <2>2, HolderAfter DEF _claim, LeaseInv, LeaseTypeOK
    <2> QED BY <1>3, <2>1, <2>3 DEF _claim, Held!Take, holderOf, expiredNow
  <1>4. ASSUME NEW i \in QueueItems, NEW w \in QueueWorkers, ack(i, w),
               Reserved(i, w)
        PROVE  Held!Finish(i, w)
    <2>1. DropRow(i) /\ lastAck' = [lastAck EXCEPT ![i] = w] /\ clock' = clock
      BY <1>4 DEF ack
    <2>2. ~LapsedAt(i, clock)' /\ rowStatus'[i] = "absent"
      BY <2>1 DEF DropRow, LapsedAt, LeaseInv, LeaseTypeOK
    <2>3. /\ holderOf' = [holderOf EXCEPT ![i] = "absent"]
          /\ expiredNow' = expiredNow \ {i}
      BY <2>1, <2>2, HolderAfter DEF DropRow, LeaseInv, LeaseTypeOK
    <2>4. holderOf[i] = w
      BY <1>4, HolderIsOwner
    <2> QED BY <2>1, <2>3, <2>4 DEF Held!Finish, holderOf, expiredNow
  <1>5. ASSUME NEW i \in QueueItems, NEW w \in QueueWorkers,
               NEW delay \in 0..MaxDelay, _release(i, w, delay),
               Reserved(i, w)
        PROVE  Held!GiveBack(i, w)
    <2>1. /\ rowStatus' = [rowStatus EXCEPT ![i] = "pending"]
          /\ reservedBy' = [reservedBy EXCEPT ![i] = Nobody]
          /\ leaseUntil' = [leaseUntil EXCEPT ![i] = 0]
          /\ UNCHANGED <<clock, lastAck>>
      BY <1>5 DEF _release
    <2>2. ~LapsedAt(i, clock)' /\ rowStatus'[i] = "pending"
          /\ reservedBy'[i] = Nobody
      BY <2>1 DEF LapsedAt, LeaseInv, LeaseTypeOK
    <2>3. /\ holderOf' = [holderOf EXCEPT ![i] = Nobody]
          /\ expiredNow' = expiredNow \ {i}
      BY <2>1, <2>2, HolderAfter DEF LeaseInv, LeaseTypeOK
    <2>4. holderOf[i] = w
      BY <1>5, HolderIsOwner
    <2> QED BY <2>1, <2>3, <2>4 DEF Held!GiveBack, holderOf, expiredNow
  <1>6. ASSUME NEW i \in QueueItems, NEW w \in QueueWorkers,
               NEW heard \in BOOLEAN, heartbeat(i, w, heard),
               Reserved(i, w)
        PROVE  Held!Renew(i, w)
    <2>1. /\ leaseUntil' =
                [leaseUntil EXCEPT ![i] = clock + VisibilityTimeout]
          /\ UNCHANGED <<clock, rowStatus, reservedBy, lastAck>>
      BY <1>6 DEF heartbeat
    <2>2. ~LapsedAt(i, clock)'
      BY <2>1, LeaseAssumption DEF LapsedAt, LeaseInv, LeaseTypeOK
    <2>3. expiredNow' = expiredNow \ {i}
      BY <2>1, <2>2 DEF expiredNow, LapsedAt, LeaseInv, LeaseTypeOK
    <2>4. holderOf' = holderOf /\ holderOf[i] = w
      BY <1>6, <2>1, HolderIsOwner DEF holderOf
    <2> QED BY <2>1, <2>3, <2>4 DEF Held!Renew, holderOf, expiredNow
  <1>7. CASE clear_queue
    <2>1. Held!Purge
      BY <1>7 DEF clear_queue, Held!Purge, LapsedAt
    <2> QED BY <2>1 DEF Held!ExclusiveNext
  (* a late call of a worker that has lost the row *)
  <1>8. ASSUME UNCHANGED <<clock, rowVars, lastAck>>
        PROVE  UNCHANGED Held!exclusiveVars
    BY <1>8 DEF Held!exclusiveVars, rowVars, LapsedAt
  <1>9. ASSUME NEW i \in QueueItems, NEW w \in QueueWorkers, ~Reserved(i, w),
               \/ ack(i, w)
               \/ \E delay \in 0..MaxDelay : _release(i, w, delay)
               \/ \E heard \in BOOLEAN : heartbeat(i, w, heard)
        PROVE  UNCHANGED <<clock, rowVars, lastAck>>
    BY <1>9 DEF ack, _release, heartbeat, rowVars
  <1> QED
    BY <1>1, <1>2, <1>3, <1>4, <1>5, <1>6, <1>7, <1>8, <1>9
       DEF LeaseNext, Held!ExclusiveNext

(* Whoever claims, renews, gives back or finishes an item through the rows
   and leases could have done so in a queue with one holder per item, and a
   late call of a former holder changes nothing. *)
THEOREM LeaseImplementsExclusive == LeaseSpec => LeaseRefines
  <1>1. LeaseInit => Held!ExclusiveInit
    BY DEF LeaseInit, Held!ExclusiveInit, LapsedAt
  <1>2. /\ LeaseInv /\ LeaseInv' /\ [LeaseNext]_leaseVars
        => [Held!ExclusiveNext]_(Held!exclusiveVars)
    <2>1. CASE UNCHANGED leaseVars
      BY <2>1 DEF leaseVars, rowVars, Held!exclusiveVars, LapsedAt
    <2> QED BY <2>1, StepRefines
  <1> QED
    BY <1>1, <1>2, LeaseInvAlways, PTL
       DEF LeaseSpec, LeaseRefines, Held!ExclusiveSpec

-----------------------------------------------------------------------------
(* The compute helper *)

FileOrNone == {0} \cup FileVersions

Requests == [step : {"new", "signed", "sent", "done"}, time : Int,
             sum : FileOrNone, body : FileOrNone]

HandlerStates ==
    [step : {"idle", "claim", "slot", "reading", "stored", "inspected"},
     id : InspectRequests \cup {"none"}, since : Int]

Answers == [id : InspectRequests, status : {200, 400, 429, 500},
            sum : FileOrNone, about : FileOrNone]

HelperTyped ==
    /\ helperClock \in 0..MaxHelperTime
    /\ sourceFile \in FileVersions
    /\ request \in [InspectRequests -> Requests]
    /\ verdict \in [InspectRequests -> FileOrNone]
    /\ handler \in [HandlerThreads -> HandlerStates]
    /\ \A t \in HandlerThreads :
          handler[t].step # "idle" => handler[t].id \in InspectRequests
    /\ entries \in [InspectRequests -> Nat]
    /\ uploads \in [HandlerThreads -> FileOrNone]
    /\ leftUploads \subseteq InspectRequests
    /\ claims \in [InspectRequests -> Nat]
    /\ answers \subseteq Answers
    /\ deliveries \in 0..MaxDeliveries

(* Thread t has claimed request r and is not through with it. *)
Working(t, r) ==
    /\ handler[t].id = r
    /\ handler[t].step \in {"slot", "reading", "stored", "inspected"}

(* The client has a verdict or one is on its way. *)
Answered(r) ==
    verdict[r] # 0 \/ \E a \in answers : a.id = r /\ a.status = 200

(* What shows that the request was claimed. *)
Claimed(r) ==
    \/ \E t \in HandlerThreads : Working(t, r)
    \/ r \in leftUploads
    \/ Answered(r)

Counted == \A r \in InspectRequests : Claimed(r) => claims[r] # 0

OnlySent ==
    /\ \A r \in InspectRequests :
          claims[r] # 0 => request[r].step \in {"sent", "done"}
    /\ \A t \in HandlerThreads :
          handler[t].step # "idle" =>
              request[handler[t].id].step \in {"sent", "done"}

ClaimedInTime ==
    \A t \in HandlerThreads : handler[t].step = "claim" =>
        /\ handler[t].since <= helperClock
        /\ helperClock <= handler[t].since + MaxHandlerDelay
        /\ request[handler[t].id].time
              <= handler[t].since + timestamp_skew_seconds
        /\ handler[t].since
              <= request[handler[t].id].time + timestamp_skew_seconds

(* Claims are apart by the life of an entry, and the first is not earlier than
   the time of the request allows: this one's entry expires no earlier than
   here. *)
Until(r) ==
    request[r].time - timestamp_skew_seconds + claims[r] * replay_ttl_seconds

Spaced ==
    \A r \in InspectRequests : claims[r] # 0 =>
        Until(r) <= entries[r] \/ Until(r) <= helperClock

WorkingAlone ==
    \A t, u \in HandlerThreads, r \in InspectRequests :
        claims[r] <= 1 /\ Working(t, r) /\ Working(u, r) => t = u

NotYetAnswered ==
    \A t \in HandlerThreads, r \in InspectRequests :
        claims[r] <= 1 /\ Working(t, r) => r \notin leftUploads /\ ~Answered(r)

StoredIsSigned ==
    \A t \in HandlerThreads :
        uploads[t] = IF handler[t].step \in {"stored", "inspected"}
                     THEN request[handler[t].id].sum ELSE 0

AnswersAreExact ==
    /\ \A a \in answers : a.status = 200 => a.about = request[a.id].sum
    /\ \A r \in InspectRequests : verdict[r] # 0 => verdict[r] = request[r].sum
    /\ \A r \in InspectRequests :
          claims[r] <= 1 /\ Answered(r) => r \notin leftUploads

HelperInv ==
    /\ HelperTyped
    /\ Counted /\ OnlySent /\ ClaimedInTime /\ Spaced /\ LetInSeldom
    /\ WorkingAlone /\ NotYetAnswered
    /\ StoredIsSigned /\ AnswersAreExact

-----------------------------------------------------------------------------
(* Types *)

LEMMA HelperTypedInit == HelperInit => HelperTyped
  BY HelperAssumption
     DEF HelperInit, HelperTyped, NoRequest, NoHandler, Requests,
         HandlerStates, FileOrNone, FileVersions

LEMMA AnswerTyped ==
    ASSUME HelperTyped, NEW t \in HandlerThreads, handler[t].step # "idle",
           NEW status \in {200, 400, 429, 500}, NEW about \in FileOrNone,
           Answer(t, status, about)
    PROVE  answers' \subseteq Answers
  BY DEF Answer, HelperTyped, Answers, Requests

LEMMA HandlerToTyped ==
    ASSUME HelperTyped, NEW t \in HandlerThreads, handler[t].step # "idle",
           NEW step \in {"slot", "reading", "stored", "inspected"},
           HandlerTo(t, step)
    PROVE  /\ handler' \in [HandlerThreads -> HandlerStates]
           /\ \A u \in HandlerThreads :
                 handler'[u].step # "idle" => handler'[u].id \in InspectRequests
           /\ \A u \in HandlerThreads :
                 /\ handler'[u].id = handler[u].id
                 /\ handler'[u].step = IF u = t THEN step ELSE handler[u].step
                 /\ u # t => handler'[u] = handler[u]
  <1> DEFINE mid == [handler EXCEPT ![t].step = step]
  <1>1. /\ handler \in [HandlerThreads -> HandlerStates]
        /\ mid \in [HandlerThreads -> HandlerStates]
        /\ mid[t].id = handler[t].id /\ mid[t].step = step
        /\ \A u \in HandlerThreads : u # t => mid[u] = handler[u]
    BY DEF HelperTyped, HandlerStates
  <1>2. handler' = [mid EXCEPT ![t].since = 0]
    BY DEF HandlerTo
  <1> HIDE DEF mid
  <1>3. handler' \in [HandlerThreads -> HandlerStates]
    BY <1>1, <1>2 DEF HandlerStates
  <1>4. ASSUME NEW u \in HandlerThreads
        PROVE  /\ handler'[u].id = handler[u].id
               /\ handler'[u].step = IF u = t THEN step ELSE handler[u].step
               /\ u # t => handler'[u] = handler[u]
    BY <1>1, <1>2 DEF HandlerStates
  <1>5. handler[t].id \in InspectRequests
    BY DEF HelperTyped
  <1> QED BY <1>3, <1>4, <1>5 DEF HelperTyped

LEMMA HandlerEndsTyped ==
    ASSUME HelperTyped, NEW t \in HandlerThreads, HandlerEnds(t)
    PROVE  /\ handler' \in [HandlerThreads -> HandlerStates]
           /\ \A u \in HandlerThreads :
                 handler'[u].step # "idle" => handler'[u].id \in InspectRequests
           /\ \A u \in HandlerThreads :
                 IF u = t THEN handler'[u] = NoHandler
                 ELSE handler'[u] = handler[u]
  BY DEF HandlerEnds, HelperTyped, HandlerStates, NoHandler

LEMMA ClientTyped ==
    ASSUME HelperTyped, NEW r \in InspectRequests,
           \/ sign_request(r) \/ request_sent(r) \/ client_timeout(r)
           \/ \E answer \in answers : response_read(r, answer)
    PROVE  HelperTyped'
  <1>1. CASE sign_request(r)
    <2>1. PICK time \in (helperClock - timestamp_skew_seconds)
                          ..(helperClock + timestamp_skew_seconds) :
             request' = [request EXCEPT ![r].step = "signed",
                                        ![r].time = time, ![r].sum = sourceFile]
      BY <1>1 DEF sign_request
    <2>2. time \in Int
      BY HelperAssumption DEF HelperTyped
    <2>3. request' \in [InspectRequests -> Requests]
      <3>1. request[r] \in Requests /\ sourceFile \in FileOrNone
        BY DEF HelperTyped, FileOrNone
      <3>2. [request[r] EXCEPT !.step = "signed", !.time = time,
                               !.sum = sourceFile] \in Requests
        BY <2>2, <3>1 DEF Requests
      <3> QED BY <2>1, <3>2 DEF HelperTyped
    <2> QED BY <1>1, <2>3 DEF sign_request, HelperTyped
  <1>2. CASE request_sent(r)
    <2>1. request' \in [InspectRequests -> Requests]
      <3>1. request[r] \in Requests /\ sourceFile \in FileOrNone
        BY DEF HelperTyped, FileOrNone
      <3>2. [request[r] EXCEPT !.step = "sent", !.body = sourceFile]
               \in Requests
        BY <3>1 DEF Requests
      <3>3. request' = [request EXCEPT ![r] =
                          [@ EXCEPT !.step = "sent", !.body = sourceFile]]
        BY <1>2 DEF request_sent
      <3> QED BY <3>1, <3>2, <3>3 DEF HelperTyped
    <2> QED BY <1>2, <2>1 DEF request_sent, HelperTyped
  <1>3. CASE client_timeout(r)
    <2>1. request' \in [InspectRequests -> Requests]
      BY <1>3 DEF client_timeout, HelperTyped, Requests
    <2> QED BY <1>3, <2>1 DEF client_timeout, HelperTyped
  <1>4. ASSUME NEW answer \in answers, response_read(r, answer)
        PROVE  HelperTyped'
    <2>1. request' \in [InspectRequests -> Requests]
      BY <1>4 DEF response_read, HelperTyped, Requests
    <2>2. answer.about \in FileOrNone /\ 0 \in FileOrNone
      BY DEF HelperTyped, Answers, FileOrNone
    <2>3. verdict' \in [InspectRequests -> FileOrNone]
      BY <1>4, <2>2 DEF response_read, HelperTyped
    <2> QED BY <1>4, <2>1, <2>3 DEF response_read, HelperTyped
  <1> QED BY <1>1, <1>2, <1>3, <1>4

LEMMA ThreadTyped ==
    ASSUME HelperTyped, NEW t \in HandlerThreads,
           \/ \E r \in InspectRequests : post_checked(t, r)
           \/ claim(t) \/ inflight_acquire(t) \/ _read_authenticated_payload(t)
           \/ inspect_local_file(t) \/ post_answered(t) \/ post_broken(t)
    PROVE  HelperTyped'
  <1> USE DEF FileOrNone
  <1>1. ASSUME NEW r \in InspectRequests, post_checked(t, r)
        PROVE  HelperTyped'
    <2>1. /\ handler' \in [HandlerThreads -> HandlerStates]
          /\ \A u \in HandlerThreads :
                handler'[u].step # "idle" => handler'[u].id \in InspectRequests
      BY <1>1 DEF post_checked, HelperTyped, HandlerStates
    <2>2. deliveries' \in 0..MaxDeliveries
      BY <1>1, HelperAssumption DEF post_checked, HelperTyped
    <2> QED BY <1>1, <2>1, <2>2 DEF post_checked, HelperTyped
  <1>2. CASE claim(t)
    <2>1. entries' \in [InspectRequests -> Nat]
      BY <1>2, HelperAssumption DEF claim, HelperTyped, Unexpired
    <2>2. /\ handler' \in [HandlerThreads -> HandlerStates]
          /\ \A u \in HandlerThreads :
                handler'[u].step # "idle" => handler'[u].id \in InspectRequests
      BY <1>2, HandlerToTyped, HandlerEndsTyped DEF claim
    <2>3. claims' \in [InspectRequests -> Nat]
      BY <1>2 DEF claim, HelperTyped
    <2> QED BY <1>2, <2>1, <2>2, <2>3 DEF claim, HelperTyped
  <1>3. CASE inflight_acquire(t)
    <2>1. answers' \subseteq Answers
      BY <1>3, AnswerTyped DEF inflight_acquire, HelperTyped
    <2>2. /\ handler' \in [HandlerThreads -> HandlerStates]
          /\ \A u \in HandlerThreads :
                handler'[u].step # "idle" => handler'[u].id \in InspectRequests
      BY <1>3, HandlerToTyped, HandlerEndsTyped DEF inflight_acquire
    <2> QED BY <1>3, <2>1, <2>2 DEF inflight_acquire, HelperTyped
  <1>4. CASE _read_authenticated_payload(t)
    <2>1. answers' \subseteq Answers
      BY <1>4, AnswerTyped DEF _read_authenticated_payload, HelperTyped
    <2>2. /\ handler' \in [HandlerThreads -> HandlerStates]
          /\ \A u \in HandlerThreads :
                handler'[u].step # "idle" => handler'[u].id \in InspectRequests
      BY <1>4, HandlerToTyped, HandlerEndsTyped
         DEF _read_authenticated_payload
    <2>3. handler[t].id \in InspectRequests
      BY <1>4 DEF _read_authenticated_payload, HelperTyped
    <2>4. /\ uploads' \in [HandlerThreads -> FileOrNone]
          /\ leftUploads' \subseteq InspectRequests
      BY <1>4, <2>3 DEF _read_authenticated_payload, HelperTyped, Requests
    <2> QED
      BY <1>4, <2>1, <2>2, <2>4 DEF _read_authenticated_payload, HelperTyped
  <1>5. CASE inspect_local_file(t)
    <2>1. /\ handler' \in [HandlerThreads -> HandlerStates]
          /\ \A u \in HandlerThreads :
                handler'[u].step # "idle" => handler'[u].id \in InspectRequests
      BY <1>5, HandlerToTyped DEF inspect_local_file
    <2> QED BY <1>5, <2>1 DEF inspect_local_file, HelperTyped
  <1>6. CASE post_answered(t) \/ post_broken(t)
    <2>1. handler[t].id \in InspectRequests /\ uploads[t] \in FileOrNone
      BY <1>6 DEF post_answered, post_broken, HelperTyped
    <2>2. answers' \subseteq Answers
      <3>1. \/ answers' = answers
            \/ handler[t].step = "inspected" /\ Answer(t, 200, uploads[t])
            \/ handler[t].step = "inspected" /\ Answer(t, 500, 0)
        BY <1>6 DEF post_answered, post_broken
      <3>2. 0 \in FileOrNone
        OBVIOUS
      <3> HIDE DEF FileOrNone
      <3> QED BY <2>1, <3>1, <3>2, AnswerTyped DEF HelperTyped
    <2>3. /\ handler' \in [HandlerThreads -> HandlerStates]
          /\ \A u \in HandlerThreads :
                handler'[u].step # "idle" => handler'[u].id \in InspectRequests
      BY <1>6, HandlerEndsTyped DEF post_answered, post_broken
    <2>4. /\ uploads' \in [HandlerThreads -> FileOrNone]
          /\ leftUploads' \subseteq InspectRequests
      BY <1>6, <2>1 DEF post_answered, post_broken, HelperTyped
    <2> QED
      BY <1>6, <2>2, <2>3, <2>4 DEF post_answered, post_broken, HelperTyped
  <1> QED BY <1>1, <1>2, <1>3, <1>4, <1>5, <1>6

LEMMA HelperTypedStep == HelperTyped /\ [HelperNext]_helperVars => HelperTyped'
  <1> SUFFICES ASSUME HelperTyped, [HelperNext]_helperVars PROVE HelperTyped'
    OBVIOUS
  <1>1. CASE file_replaced
    BY <1>1 DEF file_replaced, HelperTyped, FileVersions
  <1>2. CASE helper_time_passes
    <2>1. helperClock' \in 0..MaxHelperTime
      BY HelperAssumption, <1>2 DEF helper_time_passes, HelperTyped
    <2> QED BY <1>2, <2>1 DEF helper_time_passes, HelperTyped
  <1>3. CASE UNCHANGED helperVars
    BY <1>3 DEF helperVars, HelperTyped
  <1> QED BY <1>1, <1>2, <1>3, ClientTyped, ThreadTyped DEF HelperNext

-----------------------------------------------------------------------------
(* What each operation keeps of the helper's invariant *)

LEMMA HelperInvInit == HelperInit => HelperInv
  <1> SUFFICES ASSUME HelperInit PROVE HelperInv
    OBVIOUS
  <1>1. \A t \in HandlerThreads : handler[t].step = "idle" /\ uploads[t] = 0
    BY DEF HelperInit, NoHandler
  <1>2. \A t \in HandlerThreads, r \in InspectRequests : ~Working(t, r)
    BY <1>1 DEF Working
  <1>3. \A r \in InspectRequests :
           ~Answered(r) /\ verdict[r] = 0 /\ claims[r] = 0
           /\ r \notin leftUploads
    BY DEF HelperInit, Answered
  <1>4. \A r \in InspectRequests : ~Claimed(r)
    BY <1>2, <1>3 DEF Claimed
  <1>5. answers = {}
    BY DEF HelperInit
  <1>6. LetInSeldom
    BY <1>3, HelperAssumption DEF LetInSeldom
  <1> QED
    BY <1>1, <1>2, <1>3, <1>4, <1>5, <1>6, HelperTypedInit
       DEF HelperInv, Counted, OnlySent, ClaimedInTime, Spaced,
           WorkingAlone, NotYetAnswered, StoredIsSigned, AnswersAreExact

(* A request that is not sent is known to the client only. *)
LEMMA UnsentKeeps ==
    ASSUME HelperInv, HelperTyped', NEW r \in InspectRequests,
           request[r].step \in {"new", "signed"},
           \A q \in InspectRequests \ {r} : request'[q] = request[q],
           UNCHANGED <<helperClock, verdict, handler, entries, uploads,
                       leftUploads, claims, answers>>
    PROVE  HelperInv'
  <1>1. /\ \A q \in InspectRequests, t \in HandlerThreads :
              Working(t, q)' <=> Working(t, q)
        /\ \A q \in InspectRequests : Answered(q)' <=> Answered(q)
    BY DEF Working, Answered
  <1>2. \A q \in InspectRequests : Claimed(q)' <=> Claimed(q)
    BY <1>1 DEF Claimed
  <1>3. /\ claims[r] = 0 /\ ~Claimed(r)
        /\ \A t \in HandlerThreads :
              handler[t].step # "idle" =>
                  handler[t].id \in InspectRequests \ {r}
    BY DEF HelperInv, OnlySent, Counted, HelperTyped
  <1>4. ~Answered(r) /\ verdict[r] = 0
    BY <1>3 DEF Claimed, Answered
  <1>5. \A a \in answers : a.status = 200 => a.id \in InspectRequests \ {r}
    BY <1>4 DEF Answered, HelperInv, HelperTyped, Answers
  <1>6. OnlySent' /\ Counted'
    BY <1>2, <1>3 DEF HelperInv, OnlySent, Counted
  <1>7. ClaimedInTime'
    BY <1>3 DEF HelperInv, ClaimedInTime
  <1>8. Spaced' /\ LetInSeldom'
    BY <1>3 DEF HelperInv, Spaced, Until, LetInSeldom
  <1>9. WorkingAlone' /\ NotYetAnswered'
    BY <1>1 DEF HelperInv, WorkingAlone, NotYetAnswered
  <1>10. StoredIsSigned'
    BY <1>3 DEF HelperInv, StoredIsSigned
  <1>11. AnswersAreExact'
    BY <1>1, <1>4, <1>5 DEF HelperInv, AnswersAreExact
  <1> QED
    BY <1>6, <1>7, <1>8, <1>9, <1>10, <1>11 DEF HelperInv

(* The client gives a request up or takes an answer that arrived. *)
LEMMA ReadKeeps ==
    ASSUME HelperInv, HelperTyped', NEW r \in InspectRequests,
           request' = [request EXCEPT ![r].step = "done"],
           answers' \subseteq answers,
           \A q \in InspectRequests :
              \/ verdict'[q] \in {0, verdict[q]}
              \/ \E a \in answers : /\ a.id = q /\ a.status = 200
                                    /\ verdict'[q] = a.about,
           UNCHANGED <<helperClock, handler, entries, uploads, leftUploads,
                       claims>>
    PROVE  HelperInv'
  <1>1. \A q \in InspectRequests :
           /\ request'[q].time = request[q].time
           /\ request'[q].sum = request[q].sum
           /\ request'[q].step \in {request[q].step, "done"}
    BY DEF HelperInv, HelperTyped, Requests
  <1>2. /\ \A q \in InspectRequests, t \in HandlerThreads :
              Working(t, q)' <=> Working(t, q)
        /\ \A q \in InspectRequests : Answered(q)' => Answered(q)
    BY DEF Working, Answered
  <1>3. \A q \in InspectRequests : Claimed(q)' => Claimed(q)
    BY <1>2 DEF Claimed
  <1>4. \A t \in HandlerThreads :
           handler[t].step # "idle" => handler[t].id \in InspectRequests
    BY DEF HelperInv, HelperTyped
  <1>5. OnlySent' /\ Counted'
    BY <1>1, <1>3, <1>4 DEF HelperInv, OnlySent, Counted
  <1>6. ClaimedInTime'
    BY <1>1, <1>4 DEF HelperInv, ClaimedInTime
  <1>7. Spaced' /\ LetInSeldom'
    BY <1>1 DEF HelperInv, Spaced, Until, LetInSeldom
  <1>8. WorkingAlone' /\ NotYetAnswered'
    BY <1>2 DEF HelperInv, WorkingAlone, NotYetAnswered
  <1>9. StoredIsSigned'
    BY <1>1, <1>4 DEF HelperInv, StoredIsSigned
  <1>10. AnswersAreExact'
    <2>1. \A a \in answers : a.id \in InspectRequests
      BY DEF HelperInv, HelperTyped, Answers
    <2>2. \A a \in answers' : a.status = 200 => a.about = request'[a.id].sum
      BY <1>1, <2>1 DEF HelperInv, AnswersAreExact
    <2>3. \A q \in InspectRequests :
             verdict'[q] # 0 => verdict'[q] = request'[q].sum
      BY <1>1 DEF HelperInv, AnswersAreExact
    <2> QED BY <1>2, <2>2, <2>3 DEF HelperInv, AnswersAreExact
  <1> QED
    BY <1>5, <1>6, <1>7, <1>8, <1>9, <1>10 DEF HelperInv

LEMMA ClientKeeps ==
    ASSUME HelperInv, HelperTyped', NEW r \in InspectRequests,
           \/ sign_request(r) \/ request_sent(r) \/ client_timeout(r)
           \/ \E answer \in answers : response_read(r, answer)
    PROVE  HelperInv'
  <1>1. CASE sign_request(r) \/ request_sent(r)
    <2>1. \A q \in InspectRequests \ {r} : request'[q] = request[q]
      BY <1>1 DEF sign_request, request_sent, HelperInv, HelperTyped
    <2> QED BY <1>1, <2>1, UnsentKeeps DEF sign_request, request_sent
  <1>2. CASE client_timeout(r)
    BY <1>2, ReadKeeps DEF client_timeout
  <1>3. ASSUME NEW answer \in answers, response_read(r, answer)
        PROVE  HelperInv'
    <2>1. \A q \in InspectRequests :
              \/ verdict'[q] \in {0, verdict[q]}
              \/ \E a \in answers : /\ a.id = q /\ a.status = 200
                                    /\ verdict'[q] = a.about
      BY <1>3
         DEF response_read, verify_response_signature, HelperInv, HelperTyped
    <2> QED BY <1>3, <2>1, ReadKeeps DEF response_read
  <1> QED BY <1>1, <1>2, <1>3

(* A thread goes on with a request it has claimed. *)
LEMMA GoesOnKeeps ==
    ASSUME HelperInv, HelperTyped', NEW t \in HandlerThreads,
           NEW r \in InspectRequests, Working(t, r),
           handler'[t].id = r,
           handler'[t].step \in {"reading", "stored", "inspected"},
           uploads'[t] = IF handler'[t].step = "reading" THEN 0
                         ELSE request[r].sum,
           \A u \in HandlerThreads \ {t} :
              handler'[u] = handler[u] /\ uploads'[u] = uploads[u],
           UNCHANGED <<helperClock, request, verdict, entries, leftUploads,
                       claims, answers>>
    PROVE  HelperInv'
  <1>1. /\ \A q \in InspectRequests, u \in HandlerThreads :
              Working(u, q)' <=> Working(u, q)
        /\ \A q \in InspectRequests : Answered(q)' <=> Answered(q)
    BY DEF Working, Answered
  <1>2. \A q \in InspectRequests : Claimed(q)' => Claimed(q)
    BY <1>1 DEF Claimed
  <1>3. OnlySent' /\ Counted'
    BY <1>2 DEF HelperInv, OnlySent, Counted, Working
  <1>4. ClaimedInTime'
    BY DEF HelperInv, ClaimedInTime
  <1>5. Spaced' /\ LetInSeldom'
    BY DEF HelperInv, Spaced, Until, LetInSeldom
  <1>6. WorkingAlone' /\ NotYetAnswered'
    BY <1>1 DEF HelperInv, WorkingAlone, NotYetAnswered
  <1>7. StoredIsSigned'
    BY DEF HelperInv, StoredIsSigned
  <1>8. AnswersAreExact'
    BY <1>1 DEF HelperInv, AnswersAreExact
  <1> QED
    BY <1>3, <1>4, <1>5, <1>6, <1>7, <1>8 DEF HelperInv

(* Nothing is answered but request r, and if the answer is a verdict it is
   exact and nothing of the upload stays. *)
AnswersExactly(r) ==
    \A a \in answers' : \/ a \in answers
                        \/ a.id = r /\ a.status # 200
                        \/ /\ a.id = r /\ a.about = request[r].sum
                           /\ leftUploads' = leftUploads

LEMMA RefusalExact ==
    ASSUME NEW t \in HandlerThreads, NEW status \in {400, 429, 500},
           Answer(t, status, 0)
    PROVE  AnswersExactly(handler[t].id)
  <1> SUFFICES ASSUME NEW a \in answers', a \notin answers
               PROVE  a.id = handler[t].id /\ a.status # 200
    BY DEF AnswersExactly
  <1>1. a = [id |-> handler[t].id, status |-> status,
             sum |-> request[handler[t].id].sum, about |-> 0]
    BY DEF Answer
  <1> QED BY <1>1

LEMMA VerdictExact ==
    ASSUME NEW t \in HandlerThreads, Answer(t, 200, uploads[t]),
           uploads[t] = request[handler[t].id].sum, UNCHANGED leftUploads
    PROVE  AnswersExactly(handler[t].id)
  BY DEF Answer, AnswersExactly

LEMMA SilenceExact ==
    ASSUME NEW r, UNCHANGED answers PROVE AnswersExactly(r)
  BY DEF AnswersExactly

(* A thread is through with a request it has claimed: it has removed the
   upload and answers it, or does not answer and may leave the upload. *)
LEMMA IsThroughKeeps ==
    ASSUME HelperInv, HelperTyped', NEW t \in HandlerThreads,
           NEW r \in InspectRequests, Working(t, r),
           handler'[t] = NoHandler, uploads'[t] = 0,
           \A u \in HandlerThreads \ {t} :
              handler'[u] = handler[u] /\ uploads'[u] = uploads[u],
           leftUploads' \in {leftUploads, leftUploads \cup {r}},
           AnswersExactly(r),
           UNCHANGED <<helperClock, request, verdict, entries, claims>>
    PROVE  HelperInv'
  <1>1. \A q \in InspectRequests, u \in HandlerThreads :
           Working(u, q)' <=> Working(u, q) /\ u # t
    BY DEF Working, NoHandler
  <1>2. /\ \A q \in InspectRequests : Answered(q)' => Answered(q) \/ q = r
        /\ Answered(r)' => leftUploads' = leftUploads \/ Answered(r)
    BY DEF Answered, AnswersExactly
  <1>3. \A q \in InspectRequests : Claimed(q)' => Claimed(q)
    BY <1>1, <1>2 DEF Claimed
  <1>4. claims[r] <= 1 =>
            /\ r \notin leftUploads /\ ~Answered(r)
            /\ \A u \in HandlerThreads : Working(u, r) => u = t
    BY DEF HelperInv, NotYetAnswered, WorkingAlone
  <1>5. OnlySent' /\ Counted'
    BY <1>3 DEF HelperInv, OnlySent, Counted, NoHandler
  <1>6. ClaimedInTime'
    BY DEF HelperInv, ClaimedInTime, NoHandler
  <1>7. Spaced' /\ LetInSeldom'
    BY DEF HelperInv, Spaced, Until, LetInSeldom
  <1>8. WorkingAlone'
    BY <1>1 DEF HelperInv, WorkingAlone
  <1>9. NotYetAnswered'
    <2> SUFFICES ASSUME NEW u \in HandlerThreads, NEW q \in InspectRequests,
                        claims[q] <= 1, Working(u, q)'
                 PROVE  q \notin leftUploads' /\ ~Answered(q)'
      BY DEF NotYetAnswered
    <2>1. Working(u, q) /\ q # r
      BY <1>1, <1>4
    <2> QED BY <1>2, <2>1 DEF HelperInv, NotYetAnswered
  <1>10. StoredIsSigned'
    BY DEF HelperInv, StoredIsSigned, NoHandler
  <1>11. AnswersAreExact'
    <2>1. \A a \in answers' : a.status = 200 => a.about = request[a.id].sum
      BY DEF HelperInv, AnswersAreExact, AnswersExactly
    <2>2. ASSUME NEW q \in InspectRequests, claims[q] <= 1, Answered(q)'
          PROVE  q \notin leftUploads'
      BY <1>2, <1>4, <2>2 DEF HelperInv, AnswersAreExact
    <2> QED BY <2>1, <2>2 DEF HelperInv, AnswersAreExact
  <1> QED
    BY <1>5, <1>6, <1>7, <1>8, <1>9, <1>10, <1>11 DEF HelperInv

LEMMA CheckedKeeps ==
    ASSUME HelperInv, HelperTyped', NEW t \in HandlerThreads,
           NEW r \in InspectRequests, post_checked(t, r)
    PROVE  HelperInv'
  <1>1. UNCHANGED <<helperClock, request, verdict, entries, uploads,
                    leftUploads, claims, answers>>
    BY DEF post_checked
  <1>2. /\ handler[t].step = "idle"
        /\ request[r].step \in {"sent", "done"}
        /\ \A u \in HandlerThreads \ {t} : handler'[u] = handler[u]
    BY DEF post_checked, HelperInv, HelperTyped
  <1>3. \/ handler'[t] = handler[t]
        \/ /\ handler'[t] = [step |-> "claim", id |-> r,
                              since |-> helperClock]
           /\ helperClock - request[r].time \in
                 (-timestamp_skew_seconds)..timestamp_skew_seconds
    BY DEF post_checked, HelperInv, HelperTyped
  <1>4. /\ \A q \in InspectRequests, u \in HandlerThreads :
              Working(u, q)' <=> Working(u, q)
        /\ \A q \in InspectRequests : Answered(q)' <=> Answered(q)
    BY <1>1, <1>2, <1>3 DEF Working, Answered
  <1>5. \A q \in InspectRequests : Claimed(q)' <=> Claimed(q)
    BY <1>1, <1>4 DEF Claimed
  <1>6. OnlySent' /\ Counted'
    BY <1>1, <1>2, <1>3, <1>5 DEF HelperInv, OnlySent, Counted
  <1>7. ClaimedInTime'
    <2> SUFFICES ASSUME NEW u \in HandlerThreads, handler'[u].step = "claim"
        PROVE  /\ handler'[u].since <= helperClock
               /\ helperClock <= handler'[u].since + MaxHandlerDelay
               /\ request[handler'[u].id].time
                     <= handler'[u].since + timestamp_skew_seconds
               /\ handler'[u].since <= request[handler'[u].id].time
                                         + timestamp_skew_seconds
      BY <1>1 DEF ClaimedInTime
    <2>1. CASE handler'[u] = handler[u]
      BY <2>1 DEF HelperInv, ClaimedInTime
    <2>2. CASE handler'[u] # handler[u]
      <3>1. /\ helperClock \in Int /\ request[r].time \in Int
            /\ timestamp_skew_seconds \in Nat /\ MaxHandlerDelay \in Nat
        BY HelperAssumption DEF HelperInv, HelperTyped, Requests
      <3>2. /\ handler'[u].id = r /\ handler'[u].since = helperClock
            /\ helperClock - request[r].time \in
                  (-timestamp_skew_seconds)..timestamp_skew_seconds
        BY <1>2, <1>3, <2>2
      <3> QED BY <3>1, <3>2
    <2> QED BY <2>1, <2>2
  <1>8. Spaced' /\ LetInSeldom'
    BY <1>1 DEF HelperInv, Spaced, Until, LetInSeldom
  <1>9. WorkingAlone' /\ NotYetAnswered'
    BY <1>1, <1>4 DEF HelperInv, WorkingAlone, NotYetAnswered
  <1>10. StoredIsSigned'
    BY <1>1, <1>2, <1>3 DEF HelperInv, StoredIsSigned
  <1>11. AnswersAreExact'
    BY <1>1, <1>4 DEF HelperInv, AnswersAreExact
  <1> QED
    BY <1>6, <1>7, <1>8, <1>9, <1>10, <1>11 DEF HelperInv

LEMMA OneMore ==
    ASSUME NEW n \in Nat, NEW k \in Nat
    PROVE  (n + 1) * k = n * k + k /\ n * k \in Nat
  OBVIOUS

(* When a request is let in, all its claims before have expired, and the time
   it carries is still accepted. *)
LEMMA FreshIsExpired ==
    ASSUME HelperInv, NEW t \in HandlerThreads, handler[t].step = "claim",
           NEW r \in InspectRequests, handler[t].id = r, Unexpired[r] = 0
    PROVE  /\ Until(r) <= helperClock
           /\ claims[r] * replay_ttl_seconds
                 <= 2 * timestamp_skew_seconds + MaxHandlerDelay
  <1> DEFINE spent == claims[r] * replay_ttl_seconds
  <1>1. /\ entries[r] \in Nat /\ helperClock \in Nat
        /\ request[r].time \in Int /\ handler[t].since \in Int
        /\ timestamp_skew_seconds \in Nat /\ replay_ttl_seconds \in Nat
        /\ MaxHandlerDelay \in Nat /\ claims[r] \in Nat
    BY HelperAssumption
       DEF HelperInv, HelperTyped, Requests, HandlerStates
  <1>2. entries[r] <= helperClock
    BY <1>1 DEF Unexpired
  <1>3. /\ handler[t].since <= helperClock
        /\ helperClock <= handler[t].since + MaxHandlerDelay
        /\ request[r].time <= handler[t].since + timestamp_skew_seconds
        /\ handler[t].since <= request[r].time + timestamp_skew_seconds
    BY DEF HelperInv, ClaimedInTime
  <1>4. spent \in Nat /\ (claims[r] = 0 => spent = 0)
    BY <1>1, OneMore
  <1>5. Until(r) = request[r].time - timestamp_skew_seconds + spent
    BY DEF Until
  <1>6. claims[r] # 0 => Until(r) <= entries[r] \/ Until(r) <= helperClock
    BY DEF HelperInv, Spaced
  <1> HIDE DEF spent
  <1>7. Until(r) <= helperClock
    BY <1>1, <1>2, <1>3, <1>4, <1>5, <1>6
  <1>8. spent <= 2 * timestamp_skew_seconds + MaxHandlerDelay
    BY <1>1, <1>3, <1>4, <1>5, <1>7
  <1> QED BY <1>7, <1>8 DEF spent

LEMMA GuardClaimKeeps ==
    ASSUME HelperInv, HelperTyped', NEW t \in HandlerThreads, claim(t)
    PROVE  HelperInv'
  <1> DEFINE r == handler[t].id
             fresh == claims' # claims
  <1>1. UNCHANGED <<helperClock, request, verdict, uploads, leftUploads,
                    answers>>
    BY DEF claim
  <1>2. handler[t].step = "claim" /\ r \in InspectRequests
    BY DEF claim, HelperInv, HelperTyped
  <1>3. \A u \in HandlerThreads \ {t} : handler'[u] = handler[u]
    BY DEF claim, HandlerTo, HandlerEnds, HelperInv, HelperTyped
  <1>4. /\ helperClock \in Nat /\ replay_ttl_seconds \in Nat
        /\ timestamp_skew_seconds \in Nat
        /\ claims \in [InspectRequests -> Nat]
        /\ \A q \in InspectRequests :
              /\ entries[q] \in Nat /\ request[q].time \in Int
              /\ Unexpired[q] = IF entries[q] <= helperClock THEN 0
                                ELSE entries[q]
    BY HelperAssumption DEF HelperInv, HelperTyped, Requests, Unexpired
  <1>5. \/ /\ handler'[t].step = "slot" /\ handler'[t].id = r
           /\ Unexpired[r] = 0
           /\ claims' = [claims EXCEPT ![r] = @ + 1]
           /\ entries' = [Unexpired EXCEPT ![r] =
                             helperClock + replay_ttl_seconds]
        \/ /\ handler'[t] = NoHandler /\ entries' = Unexpired
           /\ claims' = claims
    BY <1>2, HandlerToTyped, HandlerEndsTyped DEF claim, HelperInv
  <1>6. /\ \A q \in InspectRequests \ {r} :
              claims'[q] = claims[q] /\ entries'[q] = Unexpired[q]
        /\ \/ /\ fresh
              /\ handler'[t].step = "slot" /\ handler'[t].id = r
              /\ Unexpired[r] = 0 /\ claims'[r] = claims[r] + 1
              /\ entries'[r] = helperClock + replay_ttl_seconds
           \/ /\ ~fresh /\ handler'[t] = NoHandler
              /\ claims'[r] = claims[r] /\ entries'[r] = Unexpired[r]
    BY <1>2, <1>4, <1>5 DEF Unexpired
  <1>7. \A q \in InspectRequests : Answered(q)' <=> Answered(q)
    BY <1>1 DEF Answered
  <1> HIDE DEF fresh
  <1>8. ASSUME NEW q \in InspectRequests, NEW u \in HandlerThreads,
               Working(u, q)'
        PROVE  \/ Working(u, q) /\ handler'[u] = handler[u]
               \/ fresh /\ u = t /\ q = r
    BY <1>2, <1>3, <1>6, <1>8 DEF Working, NoHandler
  <1>9. \A q \in InspectRequests : Claimed(q)' => Claimed(q) \/ (fresh /\ q = r)
    BY <1>1, <1>7, <1>8 DEF Claimed
  <1>10. OnlySent'
    <2>1. request[r].step \in {"sent", "done"}
      BY <1>2 DEF HelperInv, OnlySent
    <2> QED
      BY <1>1, <1>2, <1>3, <1>6, <2>1 DEF HelperInv, OnlySent, NoHandler
  <1>11. Counted'
    BY <1>4, <1>6, <1>9 DEF HelperInv, Counted
  <1>12. ClaimedInTime'
    BY <1>1, <1>3, <1>6 DEF HelperInv, ClaimedInTime, NoHandler
  <1>13. Spaced' /\ LetInSeldom'
    <2> SUFFICES ASSUME NEW q \in InspectRequests
        PROVE  /\ claims'[q] # 0 =>
                      Until(q)' <= entries'[q] \/ Until(q)' <= helperClock
               /\ (claims'[q] - 1) * replay_ttl_seconds
                      <= 2 * timestamp_skew_seconds + MaxHandlerDelay
      BY <1>1 DEF Spaced, LetInSeldom
    <2>1. CASE q = r /\ fresh
      <3>1. /\ Until(q) <= helperClock
            /\ claims[q] * replay_ttl_seconds
                  <= 2 * timestamp_skew_seconds + MaxHandlerDelay
        BY <1>2, <1>6, <2>1, FreshIsExpired
      <3>2. claims'[q] = claims[q] + 1 /\ claims[q] \in Nat
        BY <1>2, <1>4, <1>6, <2>1
      <3>3. claims'[q] - 1 = claims[q]
        BY <3>2
      <3>4. /\ claims'[q] * replay_ttl_seconds
                  = claims[q] * replay_ttl_seconds + replay_ttl_seconds
            /\ claims[q] * replay_ttl_seconds \in Nat
        BY <1>4, <3>2, OneMore
      <3>5. Until(q)' = request[q].time - timestamp_skew_seconds
                          + claims'[q] * replay_ttl_seconds
        BY <1>1 DEF Until
      <3>6. Until(q)' = Until(q) + replay_ttl_seconds /\ Until(q) \in Int
        <4> DEFINE old == claims[q] * replay_ttl_seconds
                   now == claims'[q] * replay_ttl_seconds
        <4>1. /\ old \in Nat /\ now = old + replay_ttl_seconds
              /\ Until(q) = request[q].time - timestamp_skew_seconds + old
              /\ Until(q)' = request[q].time - timestamp_skew_seconds + now
          BY <3>4, <3>5 DEF Until
        <4> HIDE DEF old, now
        <4> QED BY <1>2, <1>4, <4>1
      <3>7. Until(q)' <= entries'[q]
        BY <1>4, <1>6, <2>1, <3>1, <3>6
      <3> QED BY <3>1, <3>3, <3>7
    <2>2. CASE ~(q = r /\ fresh)
      <3>1. claims'[q] = claims[q] /\ entries'[q] = Unexpired[q]
        BY <1>6, <2>2
      <3>2. Until(q)' = Until(q)
        BY <1>1, <3>1 DEF Until
      <3>3. Until(q) \in Int
        <4>1. claims[q] * replay_ttl_seconds \in Nat
          BY <1>4, OneMore
        <4> QED BY <1>4, <4>1 DEF Until
      <3>4. claims[q] # 0 =>
               Until(q) <= Unexpired[q] \/ Until(q) <= helperClock
        BY <1>4, <3>3 DEF HelperInv, Spaced
      <3>5. (claims[q] - 1) * replay_ttl_seconds
               <= 2 * timestamp_skew_seconds + MaxHandlerDelay
        BY DEF HelperInv, LetInSeldom
      <3> QED BY <3>1, <3>2, <3>4, <3>5
    <2> QED BY <2>1, <2>2
  (* a request let in for the first time has left no trace before *)
  <1>14. ASSUME NEW q \in InspectRequests, claims'[q] <= 1
         PROVE  claims[q] <= 1 /\ (fresh /\ q = r => ~Claimed(q))
    <2>1. CASE q = r /\ fresh
      <3>1. claims[q] = 0
        BY <1>4, <1>6, <1>14, <2>1
      <3> QED BY <3>1 DEF HelperInv, Counted
    <2>2. CASE ~(q = r /\ fresh)
      BY <1>6, <1>14, <2>2
    <2> QED BY <2>1, <2>2
  <1>15. WorkingAlone'
    <2> SUFFICES ASSUME NEW u \in HandlerThreads, NEW v \in HandlerThreads,
                        NEW q \in InspectRequests, claims'[q] <= 1,
                        Working(u, q)', Working(v, q)'
                 PROVE  u = v
      BY DEF WorkingAlone
    <2> QED BY <1>8, <1>14 DEF HelperInv, WorkingAlone, Claimed
  <1>16. NotYetAnswered'
    <2> SUFFICES ASSUME NEW u \in HandlerThreads, NEW q \in InspectRequests,
                        claims'[q] <= 1, Working(u, q)'
                 PROVE  q \notin leftUploads /\ ~Answered(q)
      BY <1>1, <1>7 DEF NotYetAnswered
    <2> QED BY <1>8, <1>14 DEF HelperInv, NotYetAnswered, Claimed
  <1>17. StoredIsSigned'
    BY <1>1, <1>2, <1>3, <1>6 DEF HelperInv, StoredIsSigned, NoHandler
  <1>18. AnswersAreExact'
    BY <1>1, <1>7, <1>14 DEF HelperInv, AnswersAreExact
  <1> QED
    BY <1>10, <1>11, <1>12, <1>13, <1>15, <1>16, <1>17, <1>18 DEF HelperInv

(* What a thread does with a request it has claimed. *)
LEMMA ClaimedKeeps ==
    ASSUME HelperInv, HelperTyped', NEW t \in HandlerThreads,
           \/ inflight_acquire(t) \/ _read_authenticated_payload(t)
           \/ inspect_local_file(t) \/ post_answered(t) \/ post_broken(t)
    PROVE  HelperInv'
  <1> DEFINE r == handler[t].id
  <1>1. handler[t].step \in {"slot", "reading", "stored", "inspected"}
    BY DEF inflight_acquire, _read_authenticated_payload, inspect_local_file,
           post_answered, post_broken
  <1>2. r \in InspectRequests /\ Working(t, r)
    BY <1>1 DEF Working, HelperInv, HelperTyped
  <1>3. uploads[t] = IF handler[t].step \in {"stored", "inspected"}
                     THEN request[r].sum ELSE 0
    BY DEF HelperInv, StoredIsSigned
  <1>4. \A step \in {"reading", "stored", "inspected"} :
           HandlerTo(t, step) =>
              /\ handler'[t].step = step /\ handler'[t].id = r
              /\ \A u \in HandlerThreads \ {t} : handler'[u] = handler[u]
    BY <1>1, HandlerToTyped DEF HelperInv
  <1>5. HandlerEnds(t) =>
           /\ handler'[t] = NoHandler
           /\ \A u \in HandlerThreads \ {t} : handler'[u] = handler[u]
    BY HandlerEndsTyped DEF HelperInv
  <1>6. \A b \in FileOrNone :
           uploads' = [uploads EXCEPT ![t] = b] =>
              /\ uploads'[t] = b
              /\ \A u \in HandlerThreads \ {t} : uploads'[u] = uploads[u]
    BY DEF HelperInv, HelperTyped
  <1>7. CASE inflight_acquire(t)
    <2>1. CASE HandlerTo(t, "reading") /\ UNCHANGED answers
      BY <1>2, <1>3, <1>4, <1>7, <2>1, GoesOnKeeps DEF inflight_acquire
    <2>2. CASE HandlerEnds(t) /\ Answer(t, 429, 0)
      <3>1. AnswersExactly(r)
        BY <2>2, RefusalExact
      <3>2. /\ handler'[t] = NoHandler /\ uploads'[t] = 0
            /\ \A u \in HandlerThreads \ {t} :
                  handler'[u] = handler[u] /\ uploads'[u] = uploads[u]
            /\ leftUploads' \in {leftUploads, leftUploads \cup {r}}
            /\ UNCHANGED <<helperClock, request, verdict, entries,
                           claims>>
        BY <1>3, <1>5, <1>7, <2>2 DEF inflight_acquire
      <3> QED BY <1>2, <3>1, <3>2, IsThroughKeeps
    <2> QED BY <1>7, <2>1, <2>2 DEF inflight_acquire
  <1>8. CASE _read_authenticated_payload(t)
    <2>1. CASE /\ request[r].body = request[r].sum
               /\ uploads' = [uploads EXCEPT ![t] = request[r].body]
               /\ HandlerTo(t, "stored")
               /\ UNCHANGED <<answers, leftUploads>>
      <3>1. request[r].body \in FileOrNone
        BY <1>2 DEF HelperInv, HelperTyped, Requests
      <3> QED
        <4>1. /\ handler[t].step = "reading"
              /\ handler'[t].step = "stored" /\ handler'[t].id = r
              /\ \A u \in HandlerThreads \ {t} : handler'[u] = handler[u]
          BY <1>4, <1>8, <2>1 DEF _read_authenticated_payload
        <4>2. /\ uploads'[t] = request[r].sum
              /\ \A u \in HandlerThreads \ {t} : uploads'[u] = uploads[u]
          BY <1>6, <2>1, <3>1
        <4>3. UNCHANGED <<helperClock, request, verdict, entries, answers,
                          claims, leftUploads>>
          BY <1>8, <2>1 DEF _read_authenticated_payload
        <4> QED BY <1>2, <4>1, <4>2, <4>3, GoesOnKeeps
    <2>2. CASE /\ Answer(t, 400, 0)
               /\ leftUploads' \in {leftUploads, leftUploads \cup {r}}
               /\ HandlerEnds(t)
               /\ UNCHANGED uploads
      <3>1. AnswersExactly(r)
        BY <2>2, RefusalExact
      <3>2. /\ handler'[t] = NoHandler /\ uploads'[t] = 0
            /\ \A u \in HandlerThreads \ {t} :
                  handler'[u] = handler[u] /\ uploads'[u] = uploads[u]
            /\ leftUploads' \in {leftUploads, leftUploads \cup {r}}
            /\ UNCHANGED <<helperClock, request, verdict, entries,
                           claims>>
        BY <1>3, <1>5, <1>8, <2>2 DEF _read_authenticated_payload
      <3> QED BY <1>2, <3>1, <3>2, IsThroughKeeps
    <2> QED BY <1>8, <2>1, <2>2 DEF _read_authenticated_payload
  <1>9. CASE inspect_local_file(t)
    BY <1>2, <1>3, <1>4, <1>9, GoesOnKeeps DEF inspect_local_file
  <1>10. CASE post_answered(t)
    <2>1. 0 \in FileOrNone
      BY DEF FileOrNone
    <2>2. CASE Answer(t, 200, uploads[t]) /\ UNCHANGED leftUploads
      <3>1. uploads[t] = request[r].sum
        BY <1>3, <1>10 DEF post_answered
      <3>2. AnswersExactly(r)
        BY <2>2, <3>1, VerdictExact
      <3>3. /\ handler'[t] = NoHandler /\ uploads'[t] = 0
            /\ \A u \in HandlerThreads \ {t} :
                  handler'[u] = handler[u] /\ uploads'[u] = uploads[u]
            /\ leftUploads' \in {leftUploads, leftUploads \cup {r}}
            /\ UNCHANGED <<helperClock, request, verdict, entries,
                           claims>>
        BY <1>5, <1>6, <1>10, <2>1, <2>2 DEF post_answered
      <3> QED BY <1>2, <3>2, <3>3, IsThroughKeeps
    <2>3. CASE /\ Answer(t, 500, 0)
               /\ leftUploads' \in {leftUploads, leftUploads \cup {r}}
      <3>1. AnswersExactly(r)
        BY <2>3, RefusalExact
      <3>2. /\ handler'[t] = NoHandler /\ uploads'[t] = 0
            /\ \A u \in HandlerThreads \ {t} :
                  handler'[u] = handler[u] /\ uploads'[u] = uploads[u]
            /\ leftUploads' \in {leftUploads, leftUploads \cup {r}}
            /\ UNCHANGED <<helperClock, request, verdict, entries,
                           claims>>
        BY <1>5, <1>6, <1>10, <2>1, <2>3 DEF post_answered
      <3> QED BY <1>2, <3>1, <3>2, IsThroughKeeps
    <2> QED BY <1>10, <2>2, <2>3 DEF post_answered
  <1>11. CASE post_broken(t)
    <2>1. 0 \in FileOrNone
      BY DEF FileOrNone
    <2>2. /\ handler'[t] = NoHandler /\ uploads'[t] = 0
          /\ \A u \in HandlerThreads \ {t} :
                handler'[u] = handler[u] /\ uploads'[u] = uploads[u]
          /\ leftUploads' \in {leftUploads, leftUploads \cup {r}}
          /\ UNCHANGED <<helperClock, request, verdict, entries, claims,
                         answers>>
      BY <1>5, <1>6, <1>11, <2>1 DEF post_broken
    <2>3. AnswersExactly(r)
      BY <2>2, SilenceExact
    <2> QED BY <1>2, <2>2, <2>3, IsThroughKeeps
  <1> QED BY <1>7, <1>8, <1>9, <1>10, <1>11

LEMMA HelperTimeKeeps ==
    ASSUME HelperInv, HelperTyped', helper_time_passes
    PROVE  HelperInv'
  <1>1. /\ UNCHANGED <<request, verdict, handler, entries, uploads,
                       leftUploads, claims, answers>>
        /\ helperClock \in Nat /\ helperClock' = helperClock + 1
    BY DEF helper_time_passes, HelperInv, HelperTyped
  <1>2. /\ \A q \in InspectRequests, t \in HandlerThreads :
              Working(t, q)' <=> Working(t, q)
        /\ \A q \in InspectRequests : Answered(q)' <=> Answered(q)
    BY <1>1 DEF Working, Answered
  <1>3. \A q \in InspectRequests : Claimed(q)' <=> Claimed(q)
    BY <1>1, <1>2 DEF Claimed
  <1>4. ClaimedInTime'
    <2>1. \A t \in HandlerThreads : handler[t].since \in Int
      BY DEF HelperInv, HelperTyped, HandlerStates
    <2> QED
      BY HelperAssumption, <1>1, <2>1
         DEF HelperInv, ClaimedInTime, helper_time_passes
  <1>5. Spaced'
    <2> SUFFICES ASSUME NEW q \in InspectRequests, claims[q] # 0
                 PROVE  Until(q) <= entries[q] \/ Until(q) <= helperClock + 1
      BY <1>1 DEF Spaced, Until
    <2>1. Until(q) \in Int
      <3>1. /\ claims[q] \in Nat /\ replay_ttl_seconds \in Nat
            /\ timestamp_skew_seconds \in Nat /\ request[q].time \in Int
        BY HelperAssumption DEF HelperInv, HelperTyped, Requests
      <3>2. claims[q] * replay_ttl_seconds \in Nat
        BY <3>1, OneMore
      <3> QED BY <3>1, <3>2 DEF Until
    <2> QED BY <1>1, <2>1 DEF HelperInv, Spaced
  <1> QED
    BY <1>1, <1>2, <1>3, <1>4, <1>5
       DEF HelperInv, Counted, OnlySent, LetInSeldom, WorkingAlone,
           NotYetAnswered, StoredIsSigned, AnswersAreExact

LEMMA HelperStutterKeeps ==
    ASSUME HelperInv, HelperTyped',
           UNCHANGED <<helperClock, request, verdict, handler, entries,
                       uploads, leftUploads, claims, answers>>
    PROVE  HelperInv'
  BY DEF HelperInv, Counted, OnlySent, ClaimedInTime, Spaced, Until,
         LetInSeldom, WorkingAlone, NotYetAnswered, StoredIsSigned,
         AnswersAreExact, Claimed, Working, Answered

LEMMA HelperInvStep == HelperInv /\ [HelperNext]_helperVars => HelperInv'
  <1> SUFFICES ASSUME HelperInv, [HelperNext]_helperVars PROVE HelperInv'
    OBVIOUS
  <1>1. HelperTyped'
    BY HelperTypedStep DEF HelperInv
  <1>2. CASE file_replaced \/ UNCHANGED helperVars
    BY <1>1, <1>2, HelperStutterKeeps DEF file_replaced, helperVars
  <1>3. CASE helper_time_passes
    BY <1>1, <1>3, HelperTimeKeeps
  <1> QED
    BY <1>1, <1>2, <1>3, ClientKeeps, CheckedKeeps, GuardClaimKeeps,
       ClaimedKeeps DEF HelperNext

LEMMA HelperInvExact == HelperInv => HelperExact /\ HelperTypeOK
  <1> SUFFICES ASSUME HelperInv PROVE HelperExact /\ HelperTypeOK
    OBVIOUS
  <1>1. VerdictIsExact
    <2> SUFFICES ASSUME NEW r \in InspectRequests, verdict[r] # 0
                 PROVE  /\ verdict[r] = request[r].sum
                        /\ claims[r] = 1 =>
                              /\ r \notin leftUploads
                              /\ \A t \in HandlerThreads :
                                    handler[t].id = r => uploads[t] = 0
      BY DEF VerdictIsExact
    <2>1. Answered(r)
      BY DEF Answered
    <2>2. claims[r] = 1 => \A t \in HandlerThreads : ~Working(t, r)
      BY <2>1 DEF HelperInv, NotYetAnswered
    <2> QED
      BY <2>1, <2>2 DEF HelperInv, AnswersAreExact, StoredIsSigned, Working
  <1>2. HelperTypeOK
    BY DEF HelperInv, HelperTyped, HelperTypeOK, FileOrNone, Requests,
           HandlerStates
  <1> QED BY <1>1, <1>2 DEF HelperInv, HelperExact

LEMMA HelperInvAlways == HelperSpec => []HelperInv
  BY HelperInvInit, HelperInvStep, PTL DEF HelperSpec

(* However often a request is sent, delayed or repeated by the network, it is
   let in once, and once more for every life of its entry within the time it is
   accepted; the client's verdict is about the file whose digest it signed
   (POST /inspect in royells_compute_helper.py). *)
THEOREM HelperIsExact == HelperSpec => []HelperExact
  BY HelperInvAlways, HelperInvExact, PTL

(* What the docstring of ReplayGuard.claim says: an id is claimed once.  True
   where an entry outlives the time in which its request is accepted, which the
   shipped 300 and 600 seconds miss by one. *)
THEOREM ClaimedOnce ==
    ASSUME replay_ttl_seconds > 2 * timestamp_skew_seconds + MaxHandlerDelay
    PROVE  HelperSpec => [](\A r \in InspectRequests : claims[r] <= 1)
  <1>1. HelperInv => \A r \in InspectRequests : claims[r] <= 1
    <2> SUFFICES ASSUME HelperInv, NEW r \in InspectRequests, claims[r] > 1
                 PROVE  FALSE
      BY DEF HelperInv, HelperTyped
    <2>1. /\ claims[r] \in Nat /\ claims[r] - 2 \in Nat
          /\ replay_ttl_seconds \in Nat
          /\ timestamp_skew_seconds \in Nat /\ MaxHandlerDelay \in Nat
      BY HelperAssumption DEF HelperInv, HelperTyped
    <2>2. /\ ((claims[r] - 2) + 1) * replay_ttl_seconds
                = (claims[r] - 2) * replay_ttl_seconds + replay_ttl_seconds
          /\ (claims[r] - 2) * replay_ttl_seconds \in Nat
      BY <2>1, OneMore
    <2>3. (claims[r] - 2) + 1 = claims[r] - 1
      BY <2>1
    <2>4. (claims[r] - 1) * replay_ttl_seconds
             <= 2 * timestamp_skew_seconds + MaxHandlerDelay
      BY DEF HelperInv, LetInSeldom
    <2>5. replay_ttl_seconds <= (claims[r] - 1) * replay_ttl_seconds
      BY <2>1, <2>2, <2>3
    <2> QED BY <2>1, <2>2, <2>3, <2>4, <2>5
  <1> QED BY <1>1, HelperInvAlways, PTL

-----------------------------------------------------------------------------
(* The supervised workers *)

WorkItems == PoolJobs \cup PoolLinks

TaskSteps == {"none", "idle", "busy", "handling", "notifying",
              "restart_wait", "ended"}

Places == {"new", "queue", "hand", "retry", "left", "dropped", "done",
           "unfinished"}

SupervisionTyped ==
    /\ SupervisionTypeOK
    /\ work \in [WorkItems -> Places]
    /\ shutdownPhase \in {"run", "asked", "saved", "stopping", "exit"}
    /\ shutdownPhase # "run" => shutdownAsked

(* Worker w has work x in its hand; with "notifying" it is only named. *)
Holds(w, x) == taskStep[w] \in {"busy", "handling"} /\ taskJob[w] = x

(* A worker has work of its kind where its loop says so, and at no other
   await. *)
HandsMatch ==
    \A w \in PoolWorkers :
        /\ taskJob[w] # NoWork => /\ taskStep[w] \in Handling \cup {"busy"}
                                  /\ taskJob[w] \in WorkFor(w)
        /\ taskStep[w] \in {"busy", "handling"} =>
              taskJob[w] # NoWork /\ work[taskJob[w]] = "hand"

HeldOnce ==
    \A v, w \in PoolWorkers, x \in WorkItems :
        Holds(v, x) /\ Holds(w, x) => v = w

(* Work in a hand is in the hand of somebody, until the process exits. *)
NoHandIsGone ==
    shutdownPhase # "exit" =>
        \A x \in WorkItems :
            work[x] = "hand" => \E w \in PoolWorkers : Holds(w, x)

(* Extra workers get increasing ids. *)
ExtrasSpawned ==
    shutdownPhase # "exit" =>
        /\ \A w \in PoolWorkers : taskStep[w] = "none" <=> w >= nextExtra
        /\ \A w \in extras : w < nextExtra

(* With a young heartbeat and no grace time, the age of a job is time in which
   the event loop ran. *)
AgesAwake ==
    ~heartbeatOld =>
        \A w \in Watched :
            \/ taskAge[w] <= taskAwake[w]
            \/ taskAwake[w] + graceLeft >= WorkerResumeGrace

CancelCause ==
    \A w \in cancelling :
        \/ shutdownAsked
        \/ w > BaseWorker /\ taskJob[w] = NoWork
        \/ w > LinkWorker /\ taskJob[w] # NoWork /\ taskAge[w] > WorkerStallAge

(* The link worker is cancelled by the shutdown only, after its checkpoint. *)
LinkWorkerSpared ==
    shutdownPhase \in {"run", "asked", "saved"} =>
        LinkWorker \notin cancelling /\ PoolLinks \cap WorkAt("unfinished") = {}

LinksSaved ==
    shutdownPhase \in {"saved", "stopping", "exit"} =>
        \A l \in PoolLinks \ lateLinks :
            work[l] \in {"queue", "retry", "hand", "unfinished"} =>
                l \in savedLinks

SupervisionInv ==
    /\ SupervisionTyped
    /\ HandsMatch /\ HeldOnce /\ NoHandIsGone
    /\ ExtrasSpawned /\ AgesAwake /\ CancelCause
    /\ LinkWorkerSpared /\ LinksSaved

-----------------------------------------------------------------------------
(* Types *)

LEMMA SupervisionInits == SupervisionInit => SupervisionInv
  <1> SUFFICES ASSUME SupervisionInit PROVE SupervisionInv
    OBVIOUS
  <1>1. /\ \A w \in PoolWorkers : /\ taskJob[w] = NoWork
                                  /\ taskStep[w] \in {"idle", "none"}
                                  /\ taskStep[w] = "none" <=> w >= nextExtra
        /\ \A x \in WorkItems : work[x] = "new"
        /\ cancelling = {} /\ extras = {} /\ shutdownPhase = "run"
    BY SupervisionAssumption
       DEF SupervisionInit, PoolWorkers, LinkWorker, BaseWorker, WorkItems
  <1>2. SupervisionTyped
    BY SupervisionAssumption
       DEF SupervisionInit, SupervisionTyped, SupervisionTypeOK, Places,
           WorkItems, Handling, AgeCap, Spawned, BaseWorker
  <1>3. HandsMatch /\ NoHandIsGone
    BY <1>1 DEF HandsMatch, NoHandIsGone
  <1>4. HeldOnce
    <2>1. \A w \in PoolWorkers : taskStep[w] \notin {"busy", "handling"}
      BY <1>1
    <2> QED BY <2>1 DEF HeldOnce, Holds
  <1>5. ExtrasSpawned /\ CancelCause
    BY <1>1 DEF ExtrasSpawned, CancelCause
  <1>6. AgesAwake
    BY <1>1 DEF AgesAwake, Watched
  <1>7. LinkWorkerSpared /\ LinksSaved
    BY <1>1 DEF LinkWorkerSpared, LinksSaved, WorkAt, WorkItems
  <1> QED BY <1>2, <1>3, <1>4, <1>5, <1>6, <1>7 DEF SupervisionInv

LEMMA WorkerIds ==
    /\ PoolWorkers \subseteq Nat /\ LinkWorker \in PoolWorkers
    /\ BaseWorker \in PoolWorkers /\ 2..MaxExtraId \subseteq PoolWorkers
    /\ AgeCap \in Nat /\ 0 \in 0..AgeCap /\ 0 \in 0..WorkerResumeGrace
    /\ \A w \in PoolWorkers : w > LinkWorker <=> w # LinkWorker
  BY SupervisionAssumption DEF PoolWorkers, LinkWorker, BaseWorker, AgeCap

(* What changes when the task of worker w gets to a step. *)
LEMMA Stepped ==
    ASSUME SupervisionTyped, NEW w \in PoolWorkers, NEW step \in TaskSteps,
           ToStep(w, step)
    PROVE  /\ taskStep' \in [PoolWorkers -> TaskSteps]
           /\ \A v \in PoolWorkers :
                 taskStep'[v] = IF v = w THEN step ELSE taskStep[v]
  BY DEF ToStep, SupervisionTyped, SupervisionTypeOK, Handling, TaskSteps

LEMMA Touched ==
    ASSUME SupervisionTyped, NEW w \in PoolWorkers, touch_worker_job(w)
    PROVE  /\ taskAge' \in [PoolWorkers -> 0..AgeCap]
           /\ taskAwake' \in [PoolWorkers -> 0..WorkerResumeGrace]
           /\ \A v \in PoolWorkers :
                 /\ taskAge'[v] = IF v = w THEN 0 ELSE taskAge[v]
                 /\ taskAwake'[v] = IF v = w THEN 0 ELSE taskAwake[v]
  BY WorkerIds DEF touch_worker_job, SupervisionTyped, SupervisionTypeOK

LEMMA Cleared ==
    ASSUME SupervisionTyped, NEW w \in PoolWorkers, NEW step \in TaskSteps,
           clear_worker_job(w, step)
    PROVE  /\ taskStep' \in [PoolWorkers -> TaskSteps]
           /\ taskJob' \in [PoolWorkers -> WorkItems \cup {NoWork}]
           /\ taskAge' \in [PoolWorkers -> 0..AgeCap]
           /\ taskAwake' \in [PoolWorkers -> 0..WorkerResumeGrace]
           /\ \A v \in PoolWorkers :
                 /\ taskStep'[v] = IF v = w THEN step ELSE taskStep[v]
                 /\ taskJob'[v] = IF v = w THEN NoWork ELSE taskJob[v]
                 /\ taskAge'[v] = IF v = w THEN 0 ELSE taskAge[v]
                 /\ taskAwake'[v] = IF v = w THEN 0 ELSE taskAwake[v]
  <1>1. ToStep(w, step) /\ touch_worker_job(w)
        /\ taskJob' = [taskJob EXCEPT ![w] = NoWork]
    BY DEF clear_worker_job, touch_worker_job
  <1>2. /\ taskJob' \in [PoolWorkers -> WorkItems \cup {NoWork}]
        /\ \A v \in PoolWorkers :
              taskJob'[v] = IF v = w THEN NoWork ELSE taskJob[v]
    BY <1>1 DEF SupervisionTyped, SupervisionTypeOK, WorkItems
  <1> QED BY <1>1, <1>2, Stepped, Touched

LEMMA Placed ==
    ASSUME SupervisionTyped, NEW x \in WorkItems, NEW place \in Places,
           work' = [work EXCEPT ![x] = place]
    PROVE  /\ work' \in [WorkItems -> Places]
           /\ \A y \in WorkItems :
                 work'[y] = IF y = x THEN place ELSE work[y]
  BY DEF SupervisionTyped

(* A retry puts the work anywhere but into a hand. *)
LEMMA Retried ==
    ASSUME SupervisionTyped, NEW x \in WorkItems, schedule_queue_retry(x)
    PROVE  \E place \in {"retry", "dropped", "left"} :
               work' = [work EXCEPT ![x] = place]
  BY DEF schedule_queue_retry

-----------------------------------------------------------------------------
(* Work changes its place outside the hands *)

(* Admission, links of users and retries that are due. *)
WorkMoves(x) ==
    /\ work[x] # "hand"
    /\ \/ work[x] \in {"queue", "retry"}
       \/ x \in PoolJobs
       \/ x \in lateLinks' \/ shutdownPhase \in {"run", "asked"}
    /\ work' = [work EXCEPT ![x] = "queue"]
    /\ lateLinks \subseteq lateLinks' /\ lateLinks' \subseteq PoolLinks
    /\ UNCHANGED <<taskVars, cancelling, extras, nextExtra, clockVars,
                   shutdownAsked, shutdownPhase, savedLinks>>

LEMMA WorkMovesKeeps ==
    ASSUME SupervisionInv, NEW x \in WorkItems, WorkMoves(x)
    PROVE  SupervisionInv'
  <1> USE DEF taskVars, clockVars
  <1>1. /\ work' \in [WorkItems -> Places]
        /\ \A y \in WorkItems : work'[y] = IF y = x THEN "queue" ELSE work[y]
    BY Placed DEF WorkMoves, SupervisionInv, Places
  <1>2. /\ work[x] # "hand" /\ lateLinks \subseteq lateLinks'
        /\ lateLinks' \subseteq PoolLinks
        /\ UNCHANGED <<taskStep, taskJob, taskAge, taskAwake, cancelling,
                       extras, nextExtra, heartbeatOld, graceLeft,
                       shutdownAsked, shutdownPhase, savedLinks>>
    BY DEF WorkMoves
  <1>3. SupervisionTyped'
    BY <1>1, <1>2
       DEF SupervisionInv, SupervisionTyped, SupervisionTypeOK, Spawned
  <1>4. \A w \in PoolWorkers : \A y : Holds(w, y)' <=> Holds(w, y)
    BY <1>2 DEF Holds
  <1>5. HandsMatch'
    <2>1. \A w \in PoolWorkers : taskJob[w] # NoWork => taskJob[w] \in WorkItems
      BY DEF SupervisionInv, SupervisionTyped, SupervisionTypeOK, WorkItems
    <2> QED BY <1>1, <1>2, <2>1 DEF SupervisionInv, HandsMatch
  <1>6. HeldOnce'
    BY <1>4 DEF SupervisionInv, HeldOnce
  <1>7. NoHandIsGone'
    BY <1>1, <1>2, <1>4 DEF SupervisionInv, NoHandIsGone
  <1>8. ExtrasSpawned' /\ AgesAwake' /\ CancelCause'
    BY <1>2 DEF SupervisionInv, ExtrasSpawned, AgesAwake, CancelCause, Watched
  <1>9. LinkWorkerSpared'
    BY <1>1, <1>2 DEF SupervisionInv, LinkWorkerSpared, WorkAt, WorkItems
  <1>10. LinksSaved'
    BY <1>1, <1>2, SupervisionAssumption
       DEF SupervisionInv, LinksSaved, WorkMoves, WorkItems
  <1> QED
    BY <1>3, <1>5, <1>6, <1>7, <1>8, <1>9, <1>10 DEF SupervisionInv

-----------------------------------------------------------------------------
(* Steps of one worker *)

OthersStay(w) ==
    \A v \in PoolWorkers \ {w} :
        /\ taskStep'[v] = taskStep[v] /\ taskJob'[v] = taskJob[v]
        /\ taskAge'[v] = taskAge[v] /\ taskAwake'[v] = taskAwake[v]

aroundVars == <<extras, nextExtra, heartbeatOld, graceLeft, shutdownAsked,
                shutdownPhase, savedLinks, lateLinks>>

(* What worker w held is put somewhere else, a link not where the checkpoint
   has to look for it unless it was there; a job may be admitted. *)
PutsAway(w) ==
    /\ \A x \in WorkItems :
          \/ work'[x] = work[x]
          \/ Holds(w, x) /\ work'[x] # "hand"
          \/ x \in PoolJobs /\ work[x] = "new" /\ work'[x] = "queue"
    /\ \A x \in WorkItems : Holds(w, x) => work'[x] # "hand"
    /\ \A l \in PoolLinks :
          work'[l] = "unfinished" => \/ work[l] = "unfinished"
                                     \/ shutdownPhase \in {"stopping", "exit"}

(* The task of worker w goes on without its work, or only names it. *)
LetsGo(w) ==
    /\ taskStep[w] # "none"
    /\ taskStep'[w] \in {"idle", "notifying", "restart_wait", "ended"}
    /\ \/ taskJob'[w] = NoWork
       \/ /\ taskStep'[w] = "notifying" /\ taskJob'[w] = taskJob[w]
          /\ taskAge'[w] = taskAge[w] /\ taskAwake'[w] = taskAwake[w]
    /\ OthersStay(w)
    /\ PutsAway(w)
    /\ cancelling' = cancelling \ {w}
    /\ UNCHANGED aroundVars

LEMMA LetsGoKeeps ==
    ASSUME SupervisionInv, SupervisionTyped', NEW w \in PoolWorkers, LetsGo(w)
    PROVE  SupervisionInv'
  <1>1. /\ OthersStay(w) /\ PutsAway(w)
        /\ taskStep[w] # "none"
        /\ taskStep'[w] \in {"idle", "notifying", "restart_wait", "ended"}
        /\ cancelling' = cancelling \ {w}
        /\ UNCHANGED <<extras, nextExtra, heartbeatOld, graceLeft,
                       shutdownAsked, shutdownPhase, savedLinks, lateLinks>>
    BY DEF LetsGo, aroundVars
  <1>2. /\ \A v \in PoolWorkers : \A x : Holds(v, x)' <=> Holds(v, x) /\ v # w
        /\ \A x : ~Holds(w, x)'
    BY <1>1 DEF Holds, OthersStay
  <1>3. /\ NoWork \notin WorkItems
        /\ \A v \in PoolWorkers :
              taskJob[v] # NoWork => taskJob[v] \in WorkItems
    BY SupervisionAssumption
       DEF SupervisionInv, SupervisionTyped, SupervisionTypeOK, WorkItems
  <1>4. HandsMatch'
    <2>1. ASSUME NEW v \in PoolWorkers, taskJob'[v] # NoWork
          PROVE  /\ taskStep'[v] \in Handling \cup {"busy"}
                 /\ taskJob'[v] \in WorkFor(v)
      BY <1>1, <2>1
         DEF SupervisionInv, HandsMatch, LetsGo, OthersStay, Handling
    <2>2. ASSUME NEW v \in PoolWorkers, taskStep'[v] \in {"busy", "handling"}
          PROVE  taskJob'[v] # NoWork /\ work'[taskJob'[v]] = "hand"
      <3>1. /\ v # w /\ taskJob'[v] = taskJob[v]
            /\ taskStep[v] \in {"busy", "handling"}
        BY <1>1, <2>2 DEF OthersStay
      <3>2. taskJob[v] # NoWork /\ work[taskJob[v]] = "hand"
        BY <3>1 DEF SupervisionInv, HandsMatch
      <3>3. taskJob[v] \in WorkItems /\ Holds(v, taskJob[v])
        BY <1>3, <3>1, <3>2 DEF Holds
      <3>4. ~Holds(w, taskJob[v])
        BY <3>1, <3>3 DEF SupervisionInv, HeldOnce
      <3> QED BY <1>1, <3>1, <3>2, <3>3, <3>4 DEF PutsAway
    <2> QED BY <2>1, <2>2 DEF HandsMatch, WorkFor
  <1>5. HeldOnce'
    BY <1>2 DEF SupervisionInv, HeldOnce
  <1>6. NoHandIsGone'
    <2> SUFFICES ASSUME shutdownPhase # "exit", NEW x \in WorkItems,
                        work'[x] = "hand"
                 PROVE  \E v \in PoolWorkers : Holds(v, x)'
      BY <1>1 DEF NoHandIsGone, Holds
    <2>1. work[x] = "hand" /\ ~Holds(w, x)
      BY <1>1 DEF PutsAway
    <2>2. PICK v \in PoolWorkers : Holds(v, x)
      BY <2>1 DEF SupervisionInv, NoHandIsGone
    <2> QED BY <1>2, <2>1, <2>2
  <1>7. ExtrasSpawned'
    BY <1>1 DEF SupervisionInv, ExtrasSpawned, OthersStay
  <1>8. AgesAwake'
    <2> SUFFICES ASSUME ~heartbeatOld,
                        NEW v \in PoolWorkers \ {LinkWorker},
                        taskJob'[v] # NoWork
                 PROVE  \/ taskAge'[v] <= taskAwake'[v]
                        \/ taskAwake'[v] + graceLeft >= WorkerResumeGrace
      BY <1>1 DEF AgesAwake, Watched
    <2>1. /\ taskJob'[v] = taskJob[v] /\ taskAge'[v] = taskAge[v]
          /\ taskAwake'[v] = taskAwake[v]
      BY <1>1 DEF LetsGo, OthersStay
    <2> QED BY <2>1 DEF SupervisionInv, AgesAwake, Watched
  <1>9. CancelCause'
    <2> SUFFICES ASSUME NEW v \in cancelling, v # w
                 PROVE  \/ shutdownAsked
                        \/ v > BaseWorker /\ taskJob'[v] = NoWork
                        \/ /\ v > LinkWorker /\ taskJob'[v] # NoWork
                           /\ taskAge'[v] > WorkerStallAge
      BY <1>1 DEF CancelCause
    <2>1. v \in PoolWorkers
      BY DEF SupervisionInv, SupervisionTyped, SupervisionTypeOK
    <2>2. taskJob'[v] = taskJob[v] /\ taskAge'[v] = taskAge[v]
      BY <1>1, <2>1 DEF OthersStay
    <2> QED BY <2>2 DEF SupervisionInv, CancelCause
  <1>10. LinkWorkerSpared'
    BY <1>1, <1>3 DEF SupervisionInv, LinkWorkerSpared, PutsAway, WorkAt
  <1>11. LinksSaved'
    <2> SUFFICES ASSUME shutdownPhase \in {"saved", "stopping", "exit"},
                        NEW l \in PoolLinks \ lateLinks,
                        work'[l] \in {"queue", "retry", "hand", "unfinished"}
                 PROVE  l \in savedLinks
      BY <1>1 DEF LinksSaved
    <2>1. l \in WorkItems /\ l \notin PoolJobs
      BY SupervisionAssumption DEF WorkItems
    <2>2. CASE work'[l] = work[l]
      BY <2>2 DEF SupervisionInv, LinksSaved
    <2>3. CASE Holds(w, l)
      <3>1. work[l] = "hand"
        BY <2>3 DEF SupervisionInv, HandsMatch, Holds
      <3> QED BY <3>1 DEF SupervisionInv, LinksSaved
    <2> QED BY <1>1, <2>1, <2>2, <2>3 DEF PutsAway
  <1> QED
    BY <1>4, <1>5, <1>6, <1>7, <1>8, <1>9, <1>10, <1>11 DEF SupervisionInv

(* Worker w takes work out of the queue. *)
LEMMA MarkKeeps ==
    ASSUME SupervisionInv, NEW w \in PoolWorkers, NEW x \in WorkItems,
           mark_worker_job(w, x)
    PROVE  SupervisionInv'
  <1> USE DEF clockVars, shutdownVars
  <1>1. /\ taskStep[w] = "idle" /\ w \notin cancelling
        /\ x \in WorkFor(w) /\ work[x] = "queue"
        /\ UNCHANGED <<cancelling, extras, nextExtra, heartbeatOld, graceLeft,
                       shutdownAsked, shutdownPhase, savedLinks, lateLinks>>
    BY DEF mark_worker_job
  <1>2. /\ work' \in [WorkItems -> Places]
        /\ \A y \in WorkItems : work'[y] = IF y = x THEN "hand" ELSE work[y]
    BY Placed DEF mark_worker_job, SupervisionInv, Places
  <1>3. /\ taskStep' \in [PoolWorkers -> TaskSteps]
        /\ \A v \in PoolWorkers :
              taskStep'[v] = IF v = w THEN "busy" ELSE taskStep[v]
    BY Stepped DEF mark_worker_job, SupervisionInv, TaskSteps
  <1>4. /\ taskJob' \in [PoolWorkers -> WorkItems \cup {NoWork}]
        /\ \A v \in PoolWorkers :
              taskJob'[v] = IF v = w THEN x ELSE taskJob[v]
    BY DEF mark_worker_job, SupervisionInv, SupervisionTyped,
           SupervisionTypeOK, WorkItems
  <1>5. /\ taskAge' \in [PoolWorkers -> 0..AgeCap]
        /\ taskAwake' \in [PoolWorkers -> 0..WorkerResumeGrace]
        /\ \A v \in PoolWorkers :
              /\ taskAge'[v] = IF v = w THEN 0 ELSE taskAge[v]
              /\ taskAwake'[v] = IF v = w THEN 0 ELSE taskAwake[v]
    BY Touched DEF mark_worker_job, SupervisionInv
  <1>6. SupervisionTyped'
    BY <1>1, <1>2, <1>3, <1>4, <1>5
       DEF SupervisionInv, SupervisionTyped, SupervisionTypeOK, Spawned,
           Handling, TaskSteps, WorkItems
  <1>7. /\ NoWork \notin WorkItems
        /\ \A v \in PoolWorkers :
              taskJob[v] # NoWork => taskJob[v] \in WorkItems
    BY SupervisionAssumption
       DEF SupervisionInv, SupervisionTyped, SupervisionTypeOK, WorkItems
  <1>8. \A v \in PoolWorkers : \A y :
           Holds(v, y)' <=> IF v = w THEN y = x ELSE Holds(v, y)
    BY <1>3, <1>4 DEF Holds
  <1>9. \A v \in PoolWorkers : ~Holds(v, x)
    BY <1>1 DEF SupervisionInv, HandsMatch, Holds
  <1>10. HandsMatch'
    <2>1. ASSUME NEW v \in PoolWorkers, v # w
          PROVE  taskStep[v] \in {"busy", "handling"} =>
                    taskJob[v] # x /\ taskJob[v] # NoWork
                    /\ taskJob[v] \in WorkItems
      BY <1>7, <1>9 DEF SupervisionInv, HandsMatch, Holds
    <2> QED
      BY <1>1, <1>2, <1>3, <1>4, <1>7, <2>1
         DEF SupervisionInv, HandsMatch, WorkFor
  <1>11. HeldOnce'
    BY <1>8, <1>9 DEF SupervisionInv, HeldOnce
  <1>12. NoHandIsGone'
    <2> SUFFICES ASSUME shutdownPhase # "exit", NEW y \in WorkItems,
                        work'[y] = "hand"
                 PROVE  \E v \in PoolWorkers : Holds(v, y)'
      BY <1>1 DEF NoHandIsGone, Holds
    <2>1. CASE y = x
      BY <1>8, <2>1
    <2>2. CASE y # x
      <3>1. PICK v \in PoolWorkers : Holds(v, y)
        BY <1>2, <2>2 DEF SupervisionInv, NoHandIsGone
      <3>2. v # w
        BY <1>1, <3>1 DEF Holds
      <3> QED BY <1>8, <3>1, <3>2
    <2> QED BY <2>1, <2>2
  <1>13. ExtrasSpawned'
    BY <1>1, <1>3 DEF SupervisionInv, ExtrasSpawned
  <1>14. AgesAwake'
    BY <1>1, <1>4, <1>5, <1>7 DEF SupervisionInv, AgesAwake, Watched
  <1>15. CancelCause'
    <2>1. cancelling \subseteq PoolWorkers
      BY DEF SupervisionInv, SupervisionTyped, SupervisionTypeOK
    <2> QED BY <1>1, <1>4, <1>5, <2>1 DEF SupervisionInv, CancelCause
  <1>16. LinkWorkerSpared'
    BY <1>1, <1>2 DEF SupervisionInv, LinkWorkerSpared, WorkAt, WorkItems
  <1>17. LinksSaved'
    BY <1>1, <1>2 DEF SupervisionInv, LinksSaved, WorkItems
  <1> QED
    BY <1>6, <1>10, <1>11, <1>12, <1>13, <1>14, <1>15, <1>16, <1>17
       DEF SupervisionInv

(* Progress, and the handler of an error, keep the work in the hand. *)
LEMMA KeepsInHand ==
    ASSUME SupervisionInv, NEW w \in PoolWorkers,
           worker_progress(w) \/ worker_error(w)
    PROVE  SupervisionInv'
  <1> USE DEF clockVars, shutdownVars
  <1>1. /\ taskStep[w] = "busy" /\ w \notin cancelling /\ w # LinkWorker
        /\ UNCHANGED <<taskJob, work, cancelling, extras, nextExtra,
                       heartbeatOld, graceLeft, shutdownAsked, shutdownPhase,
                       savedLinks, lateLinks>>
    BY DEF worker_progress, worker_error
  <1>2. /\ taskStep' \in [PoolWorkers -> TaskSteps]
        /\ \A v \in PoolWorkers : \/ taskStep'[v] = taskStep[v]
                                  \/ v = w /\ taskStep'[v] = "handling"
    <2>1. taskStep \in [PoolWorkers -> TaskSteps]
      BY DEF SupervisionInv, SupervisionTyped, SupervisionTypeOK, TaskSteps,
             Handling
    <2>2. taskStep' = taskStep \/ ToStep(w, "handling")
      BY DEF worker_progress, worker_error
    <2>3. "handling" \in TaskSteps
      BY DEF TaskSteps
    <2> QED BY <2>1, <2>2, <2>3, Stepped DEF SupervisionInv
  <1>3. /\ taskAge' \in [PoolWorkers -> 0..AgeCap]
        /\ taskAwake' \in [PoolWorkers -> 0..WorkerResumeGrace]
        /\ \A v \in PoolWorkers :
              \/ taskAge'[v] = taskAge[v] /\ taskAwake'[v] = taskAwake[v]
              \/ v = w /\ taskAge'[v] = 0 /\ taskAwake'[v] = 0
    BY Touched
       DEF worker_progress, worker_error, SupervisionInv, SupervisionTyped,
           SupervisionTypeOK
  <1>4. SupervisionTyped'
    BY <1>1, <1>2, <1>3
       DEF SupervisionInv, SupervisionTyped, SupervisionTypeOK, Spawned,
           Handling, TaskSteps
  <1>5. \A v \in PoolWorkers : \A y : Holds(v, y)' <=> Holds(v, y)
    BY <1>1, <1>2 DEF Holds
  <1>6. HandsMatch'
    BY <1>1, <1>2 DEF SupervisionInv, HandsMatch, Handling
  <1>7. HeldOnce' /\ NoHandIsGone'
    BY <1>1, <1>5 DEF SupervisionInv, HeldOnce, NoHandIsGone
  <1>8. ExtrasSpawned'
    BY <1>1, <1>2 DEF SupervisionInv, ExtrasSpawned
  <1>9. AgesAwake'
    BY <1>1, <1>3 DEF SupervisionInv, AgesAwake, Watched
  <1>10. CancelCause'
    <2>1. cancelling \subseteq PoolWorkers
      BY DEF SupervisionInv, SupervisionTyped, SupervisionTypeOK
    <2> QED BY <1>1, <1>3, <2>1 DEF SupervisionInv, CancelCause
  <1>11. LinkWorkerSpared' /\ LinksSaved'
    BY <1>1 DEF SupervisionInv, LinkWorkerSpared, LinksSaved, WorkAt
  <1> QED
    BY <1>4, <1>6, <1>7, <1>8, <1>9, <1>10, <1>11 DEF SupervisionInv

(* What worker w held is put at one place. *)
LEMMA PutAwayAt ==
    ASSUME SupervisionInv, NEW w \in PoolWorkers,
           taskStep[w] \in {"busy", "handling"},
           NEW place \in Places \ {"hand"},
           place = "unfinished" => shutdownPhase \in {"stopping", "exit"},
           work' = [work EXCEPT ![taskJob[w]] = place]
    PROVE  PutsAway(w) /\ work' \in [WorkItems -> Places]
  <1>1. taskJob[w] \in WorkItems
    BY DEF SupervisionInv, SupervisionTyped, SupervisionTypeOK, HandsMatch,
           WorkItems
  <1>2. /\ work' \in [WorkItems -> Places]
        /\ \A y \in WorkItems :
              work'[y] = IF y = taskJob[w] THEN place ELSE work[y]
    BY <1>1, Placed DEF SupervisionInv
  <1>3. \A y \in WorkItems : Holds(w, y) <=> y = taskJob[w]
    BY DEF Holds
  <1> QED BY <1>2, <1>3 DEF PutsAway, WorkItems

LEMMA PutAwayNothing ==
    ASSUME SupervisionInv, NEW w \in PoolWorkers,
           taskStep[w] \notin {"busy", "handling"}, UNCHANGED work
    PROVE  PutsAway(w) /\ work' \in [WorkItems -> Places]
  BY DEF PutsAway, Holds, SupervisionInv, SupervisionTyped

LEMMA RetriedAway ==
    ASSUME SupervisionInv, NEW w \in PoolWorkers,
           taskStep[w] \in {"busy", "handling"},
           schedule_queue_retry(taskJob[w])
    PROVE  PutsAway(w) /\ work' \in [WorkItems -> Places]
  <1>1. taskJob[w] \in WorkItems
    BY DEF SupervisionInv, SupervisionTyped, SupervisionTypeOK, HandsMatch,
           WorkItems
  <1>2. PICK place \in {"retry", "dropped", "left"} :
           work' = [work EXCEPT ![taskJob[w]] = place]
    BY <1>1, Retried DEF SupervisionInv
  <1>3. place \in Places \ {"hand"} /\ place # "unfinished"
    BY DEF Places
  <1> QED BY <1>2, <1>3, PutAwayAt

(* The task goes on without any work. *)
LEMMA FreedKeeps ==
    ASSUME SupervisionInv, NEW w \in PoolWorkers,
           NEW step \in {"idle", "restart_wait", "ended"},
           clear_worker_job(w, step), taskStep[w] # "none",
           PutsAway(w), work' \in [WorkItems -> Places],
           cancelling' = cancelling \ {w}, UNCHANGED aroundVars
    PROVE  SupervisionInv'
  <1>1. /\ taskStep' \in [PoolWorkers -> TaskSteps]
        /\ taskJob' \in [PoolWorkers -> WorkItems \cup {NoWork}]
        /\ taskAge' \in [PoolWorkers -> 0..AgeCap]
        /\ taskAwake' \in [PoolWorkers -> 0..WorkerResumeGrace]
        /\ \A v \in PoolWorkers :
              /\ taskStep'[v] = IF v = w THEN step ELSE taskStep[v]
              /\ taskJob'[v] = IF v = w THEN NoWork ELSE taskJob[v]
              /\ taskAge'[v] = IF v = w THEN 0 ELSE taskAge[v]
              /\ taskAwake'[v] = IF v = w THEN 0 ELSE taskAwake[v]
    BY Cleared DEF SupervisionInv, TaskSteps
  <1>2. LetsGo(w)
    BY <1>1 DEF LetsGo, OthersStay
  <1>3. SupervisionTyped'
    BY <1>1
       DEF SupervisionInv, SupervisionTyped, SupervisionTypeOK, Spawned,
           Handling, TaskSteps, WorkItems, aroundVars
  <1> QED BY <1>2, <1>3, LetsGoKeeps

LEMMA DoneKeeps ==
    ASSUME SupervisionInv, NEW w \in PoolWorkers,
           worker_done(w) \/ error_handled(w)
    PROVE  SupervisionInv'
  <1> USE DEF clockVars, shutdownVars, aroundVars
  <1>1. cancelling' = cancelling \ {w} /\ UNCHANGED aroundVars
    BY DEF worker_done, error_handled
  <1>2. CASE worker_done(w)
    <2>1. PutsAway(w) /\ work' \in [WorkItems -> Places]
      BY <1>2, PutAwayAt, "done" \in Places \ {"hand"}
         DEF worker_done, Places
    <2> QED BY <1>1, <1>2, <2>1, FreedKeeps DEF worker_done
  <1>3. CASE error_handled(w)
    <2>1. taskStep[w] = "handling"
      BY <1>3 DEF error_handled
    <2>2. CASE /\ schedule_queue_retry(taskJob[w])
               /\ clear_worker_job(w, "idle")
      BY <1>1, <2>1, <2>2, RetriedAway, FreedKeeps
    <2>3. CASE /\ work' = [work EXCEPT ![taskJob[w]] = "left"]
               /\ clear_worker_job(w, "restart_wait")
      <3>1. PutsAway(w) /\ work' \in [WorkItems -> Places]
        BY <2>1, <2>3, PutAwayAt, "left" \in Places \ {"hand"} DEF Places
      <3> QED BY <1>1, <2>1, <2>3, <3>1, FreedKeeps
    <2> QED BY <1>3, <2>2, <2>3 DEF error_handled
  <1> QED BY <1>2, <1>3

LEMMA LinkKeeps ==
    ASSUME SupervisionInv, process_telegram_link \/ link_error
    PROVE  SupervisionInv'
  <1> USE DEF clockVars, shutdownVars, aroundVars
  <1> DEFINE l == taskJob[LinkWorker]
  <1>1. /\ taskStep[LinkWorker] = "busy" /\ LinkWorker \in PoolWorkers
        /\ cancelling' = cancelling \ {LinkWorker} /\ UNCHANGED aroundVars
        /\ clear_worker_job(LinkWorker, "idle")
    BY WorkerIds DEF process_telegram_link, link_error
  <1>2. l \in PoolLinks /\ l \in WorkItems
    BY <1>1
       DEF SupervisionInv, HandsMatch, WorkFor, WorkItems, LinkWorker
  <1>3. PutsAway(LinkWorker) /\ work' \in [WorkItems -> Places]
    <2>1. CASE process_telegram_link
      <3>1. PICK queued \in {{}} \cup
                              {{j} : j \in PoolJobs \cap WorkAt("new")} :
               work' = [x \in DOMAIN work |->
                          CASE x = taskJob[LinkWorker] -> "done"
                            [] x \in queued -> "queue"
                            [] OTHER -> work[x]]
        BY <2>1 DEF process_telegram_link
      <3>2. queued \subseteq PoolJobs \cap WorkAt("new")
        OBVIOUS
      <3>3. DOMAIN work = WorkItems /\ work \in [WorkItems -> Places]
        BY DEF SupervisionInv, SupervisionTyped
      <3>4. \A x \in WorkItems :
               /\ work'[x] \in Places
               /\ \/ work'[x] = work[x]
                  \/ x = l /\ work'[x] = "done"
                  \/ x \in queued /\ work'[x] = "queue"
        BY <3>1, <3>3 DEF Places
      <3>5. work' \in [WorkItems -> Places] /\ work'[l] = "done"
        <4>1. work'[l] = "done"
          <5>1. l \notin queued
            BY SupervisionAssumption, <1>2, <3>2
          <5> QED BY <1>2, <3>1, <3>3, <5>1
        <4> DEFINE F(x) == CASE x = taskJob[LinkWorker] -> "done"
                             [] x \in queued -> "queue"
                             [] OTHER -> work[x]
        <4>2. work' = [x \in WorkItems |-> F(x)]
          BY <3>1, <3>3
        <4> HIDE DEF F
        <4>3. \A x \in WorkItems : work'[x] = F(x)
          BY <4>2
        <4> QED BY <3>4, <4>1, <4>2, <4>3
      <3>6. \A x \in WorkItems : Holds(LinkWorker, x) <=> x = l
        BY <1>1 DEF Holds
      <3> QED BY <3>2, <3>4, <3>5, <3>6 DEF PutsAway, WorkAt, WorkItems
    <2>2. CASE link_error
      <3>1. CASE schedule_queue_retry(l)
        BY <1>1, <3>1, RetriedAway
      <3>2. CASE work' = [work EXCEPT ![l] = "done"]
        BY <1>1, <3>2, PutAwayAt, "done" \in Places \ {"hand"} DEF Places
      <3> QED BY <2>2, <3>1, <3>2 DEF link_error
    <2> QED BY <2>1, <2>2
  <1> QED BY <1>1, <1>3, FreedKeeps

LEMMA NotifiedKeeps ==
    ASSUME SupervisionInv, NEW w \in PoolWorkers, stall_notified(w)
    PROVE  SupervisionInv'
  <1>1. PutsAway(w) /\ work' \in [WorkItems -> Places]
    BY PutAwayNothing DEF stall_notified
  <1> QED
    BY <1>1, FreedKeeps
       DEF stall_notified, clockVars, shutdownVars, aroundVars

LEMMA RunAgainKeeps ==
    ASSUME SupervisionInv, NEW w \in PoolWorkers, run_again(w)
    PROVE  SupervisionInv'
  <1> USE DEF clockVars, shutdownVars, aroundVars
  <1>1. /\ taskStep[w] = "restart_wait" /\ w \notin cancelling
        /\ UNCHANGED <<taskJob, taskAge, taskAwake, cancelling, work,
                       aroundVars>>
    BY DEF run_again
  <1>2. PICK step \in {"idle", "ended"} : ToStep(w, step)
    BY DEF run_again
  <1>3. /\ taskStep' \in [PoolWorkers -> TaskSteps]
        /\ \A v \in PoolWorkers :
              taskStep'[v] = IF v = w THEN step ELSE taskStep[v]
    BY <1>2, Stepped DEF SupervisionInv, TaskSteps
  <1>4. taskJob'[w] = NoWork
    BY <1>1 DEF SupervisionInv, HandsMatch, Handling
  <1>5. LetsGo(w)
    BY <1>1, <1>3, <1>4, PutAwayNothing DEF LetsGo, OthersStay
  <1>6. SupervisionTyped'
    BY <1>1, <1>3
       DEF SupervisionInv, SupervisionTyped, SupervisionTypeOK, Spawned,
           Handling, TaskSteps
  <1> QED BY <1>5, <1>6, LetsGoKeeps

LEMMA CancelledKeeps ==
    ASSUME SupervisionInv, NEW w \in PoolWorkers, task_cancelled(w)
    PROVE  SupervisionInv'
  <1> USE DEF clockVars, shutdownVars, aroundVars
  <1>1. /\ w \in cancelling /\ cancelling' = cancelling \ {w}
        /\ clear_worker_job(w, "ended") /\ UNCHANGED aroundVars
    BY DEF task_cancelled
  <1>2. taskStep[w] # "none"
    BY <1>1 DEF SupervisionInv, SupervisionTyped, SupervisionTypeOK, Spawned
  <1>3. PutsAway(w) /\ work' \in [WorkItems -> Places]
    <2>1. CASE taskStep[w] \in {"busy", "handling"}
      <3> DEFINE place == IF w = LinkWorker THEN "unfinished" ELSE "left"
      <3>1. work' = [work EXCEPT ![taskJob[w]] = place]
        BY <2>1 DEF task_cancelled
      <3>2. place \in Places \ {"hand"}
        BY DEF Places
      <3>3. place = "unfinished" => shutdownPhase \in {"stopping", "exit"}
        BY <1>1
           DEF SupervisionInv, SupervisionTyped, LinkWorkerSpared
      <3> QED BY <2>1, <3>1, <3>2, <3>3, PutAwayAt
    <2>2. CASE taskStep[w] \notin {"busy", "handling"}
      BY <2>2, PutAwayNothing DEF task_cancelled
    <2> QED BY <2>1, <2>2
  <1> QED BY <1>1, <1>2, <1>3, FreedKeeps

LEMMA StallKeeps ==
    ASSUME SupervisionInv, NEW w \in PoolWorkers, stall_handled(w)
    PROVE  SupervisionInv'
  <1> USE DEF clockVars, shutdownVars, aroundVars
  <1>1. /\ w \in cancelling /\ cancelling' = cancelling \ {w}
        /\ taskStep[w] = "busy" /\ UNCHANGED aroundVars
    BY DEF stall_handled
  <1>2. PutsAway(w) /\ work' \in [WorkItems -> Places]
    BY <1>1, RetriedAway DEF stall_handled
  <1>3. CASE clear_worker_job(w, "idle")
    BY <1>1, <1>2, <1>3, FreedKeeps
  <1>4. CASE /\ ToStep(w, "notifying")
             /\ UNCHANGED <<taskJob, taskAge, taskAwake>>
    <2>1. /\ taskStep' \in [PoolWorkers -> TaskSteps]
          /\ \A v \in PoolWorkers :
                taskStep'[v] = IF v = w THEN "notifying" ELSE taskStep[v]
      BY <1>4, Stepped DEF SupervisionInv, TaskSteps
    <2>2. LetsGo(w)
      BY <1>1, <1>2, <1>4, <2>1 DEF LetsGo, OthersStay
    <2>3. SupervisionTyped'
      BY <1>1, <1>2, <1>4, <2>1
         DEF SupervisionInv, SupervisionTyped, SupervisionTypeOK, Spawned,
             Handling, TaskSteps
    <2> QED BY <2>2, <2>3, LetsGoKeeps
  <1> QED BY <1>3, <1>4 DEF stall_handled

-----------------------------------------------------------------------------
(* The watchdogs *)

(* The parts of the invariant that do not look at ages and the clock. *)
LEMMA ClockKeeps ==
    ASSUME SupervisionInv,
           UNCHANGED <<taskStep, taskJob, extras, nextExtra, work,
                       shutdownVars>>,
           cancelling' \subseteq cancelling \cup Watched
    PROVE  /\ HandsMatch' /\ HeldOnce' /\ NoHandIsGone' /\ ExtrasSpawned'
           /\ LinkWorkerSpared' /\ LinksSaved'
           /\ cancelling' \subseteq {w \in PoolWorkers : Spawned(w)}'
  <1> USE DEF shutdownVars
  <1>1. \A w \in PoolWorkers : \A y : Holds(w, y)' <=> Holds(w, y)
    BY DEF Holds
  <1>2. HandsMatch' /\ ExtrasSpawned'
    BY DEF SupervisionInv, HandsMatch, ExtrasSpawned
  <1>3. HeldOnce' /\ NoHandIsGone'
    BY <1>1 DEF SupervisionInv, HeldOnce, NoHandIsGone
  <1>4. LinkWorkerSpared' /\ LinksSaved'
    BY DEF SupervisionInv, LinkWorkerSpared, LinksSaved, WorkAt, Watched
  <1>5. ASSUME NEW w \in cancelling' PROVE w \in PoolWorkers /\ Spawned(w)'
    <2>1. CASE w \in cancelling
      BY <2>1
         DEF SupervisionInv, SupervisionTyped, SupervisionTypeOK, Spawned
    <2>2. CASE w \in Watched
      BY <2>2 DEF SupervisionInv, HandsMatch, Handling, Watched, Spawned
    <2> QED BY <2>1, <2>2
  <1> QED BY <1>2, <1>3, <1>4, <1>5

LEMMA StalledKeeps ==
    ASSUME SupervisionInv, cancel_stalled_worker_job
    PROVE  SupervisionInv'
  <1>1. PICK w \in stalled_worker_jobs : cancelling' = cancelling \cup {w}
    BY DEF cancel_stalled_worker_job
  <1>2. w \in Watched /\ taskAge[w] > WorkerStallAge
    BY DEF stalled_worker_jobs
  <1>3. UNCHANGED <<taskStep, taskJob, taskAge, taskAwake, extras, nextExtra,
                    work, heartbeatOld, graceLeft, shutdownVars>>
    BY DEF cancel_stalled_worker_job, taskVars
  <1>4. /\ HandsMatch' /\ HeldOnce' /\ NoHandIsGone' /\ ExtrasSpawned'
        /\ LinkWorkerSpared' /\ LinksSaved'
        /\ cancelling' \subseteq {v \in PoolWorkers : Spawned(v)}'
    BY <1>1, <1>2, <1>3, ClockKeeps
  <1>5. SupervisionTyped'
    BY <1>3, <1>4
       DEF SupervisionInv, SupervisionTyped, SupervisionTypeOK, shutdownVars
  <1>6. AgesAwake'
    BY <1>3 DEF SupervisionInv, AgesAwake, Watched
  <1>7. CancelCause'
    BY <1>1, <1>2, <1>3, WorkerIds
       DEF SupervisionInv, CancelCause, Watched, shutdownVars
  <1> QED BY <1>4, <1>5, <1>6, <1>7 DEF SupervisionInv

(* The grace time begins, or nothing that counts changes. *)
LEMMA GraceKeeps ==
    ASSUME SupervisionInv,
           \/ watchdog_suppresses \/ event_loop_heartbeat_loop
           \/ watchdog_runner_looks \/ watchdog_runner_marks
    PROVE  SupervisionInv'
  <1>1. /\ UNCHANGED <<taskStep, taskJob, taskAge, taskAwake, cancelling,
                       extras, nextExtra, work, shutdownVars>>
        /\ \/ graceLeft' = WorkerResumeGrace
           \/ UNCHANGED <<graceLeft, heartbeatOld>>
    BY DEF watchdog_suppresses, event_loop_heartbeat_loop,
           watchdog_runner_looks, watchdog_runner_marks, taskVars
  <1>2. /\ HandsMatch' /\ HeldOnce' /\ NoHandIsGone' /\ ExtrasSpawned'
        /\ LinkWorkerSpared' /\ LinksSaved'
        /\ cancelling' \subseteq {v \in PoolWorkers : Spawned(v)}'
    BY <1>1, ClockKeeps
  <1>3. SupervisionTyped'
    BY <1>1, <1>2, SupervisionAssumption
       DEF SupervisionInv, SupervisionTyped, SupervisionTypeOK, shutdownVars
  <1>4. AgesAwake'
    <2> SUFFICES ASSUME ~heartbeatOld', NEW w \in Watched
                 PROVE  \/ taskAge[w] <= taskAwake[w]
                        \/ taskAwake[w] + graceLeft' >= WorkerResumeGrace
      BY <1>1 DEF AgesAwake, Watched
    <2>1. CASE graceLeft' = WorkerResumeGrace
      <3>1. taskAwake[w] \in 0..WorkerResumeGrace
        BY DEF Watched, SupervisionInv, SupervisionTyped, SupervisionTypeOK
      <3> QED BY <2>1, <3>1, SupervisionAssumption
    <2>2. CASE UNCHANGED <<graceLeft, heartbeatOld>>
      BY <2>2 DEF SupervisionInv, AgesAwake
    <2> QED BY <1>1, <2>1, <2>2
  <1>5. CancelCause'
    BY <1>1 DEF SupervisionInv, CancelCause, shutdownVars
  <1> QED BY <1>2, <1>3, <1>4, <1>5 DEF SupervisionInv

LEMMA PausedKeeps ==
    ASSUME SupervisionInv, loop_paused PROVE SupervisionInv'
  <1>1. /\ UNCHANGED <<taskStep, taskJob, taskAwake, cancelling, extras,
                       nextExtra, work, shutdownVars>>
        /\ graceLeft' = 0 /\ heartbeatOld' = TRUE
    BY DEF loop_paused
  <1>2. /\ taskAge' \in [PoolWorkers -> 0..AgeCap]
        /\ \A w \in PoolWorkers :
              taskAge'[w] = IF w \in Watched THEN AgeCap ELSE taskAge[w]
    <2>1. AgeCap \in 0..AgeCap
      BY WorkerIds
    <2> QED BY <2>1
            DEF loop_paused, SupervisionInv, SupervisionTyped,
                SupervisionTypeOK
  <1>3. /\ HandsMatch' /\ HeldOnce' /\ NoHandIsGone' /\ ExtrasSpawned'
        /\ LinkWorkerSpared' /\ LinksSaved'
        /\ cancelling' \subseteq {v \in PoolWorkers : Spawned(v)}'
    BY <1>1, ClockKeeps
  <1>4. SupervisionTyped'
    BY <1>1, <1>2, <1>3, SupervisionAssumption
       DEF SupervisionInv, SupervisionTyped, SupervisionTypeOK, shutdownVars
  <1>5. AgesAwake'
    BY <1>1 DEF AgesAwake
  <1>6. CancelCause'
    <2>1. AgeCap > WorkerStallAge /\ cancelling \subseteq PoolWorkers
      BY SupervisionAssumption
         DEF AgeCap, SupervisionInv, SupervisionTyped, SupervisionTypeOK
    <2> QED BY <1>1, <1>2, <2>1
            DEF SupervisionInv, CancelCause, shutdownVars
  <1> QED BY <1>3, <1>4, <1>5, <1>6 DEF SupervisionInv

LEMMA LoopTimeKeeps ==
    ASSUME SupervisionInv, loop_time_passes PROVE SupervisionInv'
  <1>1. /\ UNCHANGED <<taskStep, taskJob, cancelling, extras, nextExtra, work,
                       heartbeatOld, shutdownVars>>
        /\ cancelling = {}
        /\ graceLeft' = IF graceLeft = 0 THEN 0 ELSE graceLeft - 1
    BY DEF loop_time_passes
  <1>2. /\ AgeCap \in Nat /\ WorkerResumeGrace \in Nat
        /\ graceLeft \in 0..WorkerResumeGrace
        /\ \A w \in PoolWorkers : /\ taskAge[w] \in 0..AgeCap
                                  /\ taskAwake[w] \in 0..WorkerResumeGrace
    BY WorkerIds, SupervisionAssumption
       DEF SupervisionInv, SupervisionTyped, SupervisionTypeOK
  <1>3. /\ taskAge' \in [PoolWorkers -> 0..AgeCap]
        /\ \A w \in PoolWorkers :
              taskAge'[w] = IF w \in Watched /\ taskAge[w] < AgeCap
                            THEN taskAge[w] + 1 ELSE taskAge[w]
    BY <1>2 DEF loop_time_passes
  <1>4. /\ taskAwake' \in [PoolWorkers -> 0..WorkerResumeGrace]
        /\ \A w \in PoolWorkers :
              taskAwake'[w] =
                 IF w \in Watched /\ taskAwake[w] < WorkerResumeGrace
                 THEN taskAwake[w] + 1 ELSE taskAwake[w]
    BY <1>2 DEF loop_time_passes
  <1>5. /\ HandsMatch' /\ HeldOnce' /\ NoHandIsGone' /\ ExtrasSpawned'
        /\ LinkWorkerSpared' /\ LinksSaved'
        /\ cancelling' \subseteq {v \in PoolWorkers : Spawned(v)}'
    BY <1>1, ClockKeeps
  <1>6. SupervisionTyped'
    <2>1. graceLeft' \in 0..WorkerResumeGrace
      BY <1>1, <1>2
    <2> QED
      BY <1>1, <1>3, <1>4, <1>5, <2>1
         DEF SupervisionInv, SupervisionTyped, SupervisionTypeOK, shutdownVars
  <1>7. AgesAwake'
    <2> SUFFICES ASSUME ~heartbeatOld, NEW w \in Watched
                 PROVE  \/ taskAge'[w] <= taskAwake'[w]
                        \/ taskAwake'[w] + graceLeft' >= WorkerResumeGrace
      BY <1>1 DEF AgesAwake, Watched
    <2>1. w \in PoolWorkers
      BY DEF Watched
    <2>2. \/ taskAge[w] <= taskAwake[w]
          \/ taskAwake[w] + graceLeft >= WorkerResumeGrace
      BY DEF SupervisionInv, AgesAwake
    <2>3. CASE taskAwake[w] = WorkerResumeGrace
      BY <1>1, <1>2, <1>4, <2>1, <2>3
    <2>4. CASE taskAwake[w] < WorkerResumeGrace
      BY <1>1, <1>2, <1>3, <1>4, <2>1, <2>2, <2>4
    <2> QED BY <1>2, <2>1, <2>3, <2>4
  <1>8. CancelCause'
    BY <1>1 DEF CancelCause
  <1> QED BY <1>5, <1>6, <1>7, <1>8 DEF SupervisionInv

-----------------------------------------------------------------------------
(* The scaler *)

LEMMA SpawnKeeps ==
    ASSUME SupervisionInv, spawn PROVE SupervisionInv'
  <1> USE DEF clockVars, shutdownVars
  <1>1. /\ shutdownPhase \in {"run", "asked", "saved"}
        /\ nextExtra <= MaxExtraId
        /\ extras' = reap_finished \cup {nextExtra}
        /\ nextExtra' = nextExtra + 1
        /\ UNCHANGED <<taskJob, taskAge, taskAwake, cancelling, work,
                       heartbeatOld, graceLeft, shutdownAsked, shutdownPhase,
                       savedLinks, lateLinks>>
    BY DEF spawn
  <1>2. PICK step \in {"idle", "ended"} : ToStep(nextExtra, step)
    BY DEF spawn
  <1>3. /\ nextExtra \in PoolWorkers /\ nextExtra \in 2..MaxExtraId
        /\ nextExtra' \in 2..(MaxExtraId + 1)
    BY <1>1, SupervisionAssumption
       DEF SupervisionInv, SupervisionTyped, SupervisionTypeOK, PoolWorkers
  <1>4. /\ taskStep' \in [PoolWorkers -> TaskSteps]
        /\ \A v \in PoolWorkers :
              taskStep'[v] = IF v = nextExtra THEN step ELSE taskStep[v]
    BY <1>2, <1>3, Stepped DEF SupervisionInv, TaskSteps
  <1>5. taskStep[nextExtra] = "none" /\ nextExtra \notin cancelling
    <2>1. taskStep[nextExtra] = "none"
      BY <1>1, <1>3 DEF SupervisionInv, ExtrasSpawned
    <2> QED BY <2>1
            DEF SupervisionInv, SupervisionTyped, SupervisionTypeOK, Spawned
  <1>6. SupervisionTyped'
    <2>1. reap_finished \subseteq 2..MaxExtraId
      BY DEF reap_finished, SupervisionInv, SupervisionTyped,
             SupervisionTypeOK
    <2> QED BY <1>1, <1>3, <1>4, <1>5, <2>1
            DEF SupervisionInv, SupervisionTyped, SupervisionTypeOK, Spawned,
                Handling, TaskSteps
  <1>7. \A v \in PoolWorkers : \A y : Holds(v, y)' <=> Holds(v, y)
    BY <1>1, <1>4, <1>5 DEF Holds
  <1>8. HandsMatch'
    BY <1>1, <1>4, <1>5 DEF SupervisionInv, HandsMatch, Handling
  <1>9. HeldOnce' /\ NoHandIsGone'
    BY <1>1, <1>7 DEF SupervisionInv, HeldOnce, NoHandIsGone
  <1>10. ExtrasSpawned'
    <2>1. \A v \in PoolWorkers : v \in Nat
      BY WorkerIds
    <2>2. \A v \in PoolWorkers : taskStep[v] = "none" <=> v >= nextExtra
      BY <1>1 DEF SupervisionInv, ExtrasSpawned
    <2>3. \A v \in PoolWorkers : taskStep'[v] = "none" <=> v >= nextExtra + 1
      BY <1>3, <1>4, <2>1, <2>2
    <2>4. \A v \in extras' : v < nextExtra + 1
      <3>1. \A v \in reap_finished : v < nextExtra /\ v \in Nat
        BY <1>1 DEF SupervisionInv, SupervisionTyped, SupervisionTypeOK,
                    ExtrasSpawned, reap_finished
      <3> QED BY <1>1, <1>3, <3>1
    <2> QED BY <1>1, <2>3, <2>4 DEF ExtrasSpawned
  <1>11. AgesAwake' /\ CancelCause'
    BY <1>1 DEF SupervisionInv, AgesAwake, CancelCause, Watched
  <1>12. LinkWorkerSpared' /\ LinksSaved'
    BY <1>1 DEF SupervisionInv, LinkWorkerSpared, LinksSaved, WorkAt
  <1> QED
    BY <1>6, <1>8, <1>9, <1>10, <1>11, <1>12 DEF SupervisionInv

LEMMA IdleExtraKeeps ==
    ASSUME SupervisionInv, NEW w \in PoolWorkers, cancel_idle_extra(w)
    PROVE  SupervisionInv'
  <1> USE DEF clockVars, shutdownVars, taskVars
  <1>1. /\ shutdownPhase \in {"run", "asked", "saved"}
        /\ w \in reap_finished /\ taskJob[w] = NoWork
        /\ cancelling' = cancelling \cup {w}
        /\ extras' = reap_finished \ {w}
        /\ UNCHANGED <<taskStep, taskJob, taskAge, taskAwake, nextExtra, work,
                       heartbeatOld, graceLeft, shutdownAsked, shutdownPhase,
                       savedLinks, lateLinks>>
    BY DEF cancel_idle_extra
  <1>2. /\ w \in 2..MaxExtraId /\ extras' \subseteq extras
        /\ w < nextExtra /\ taskStep[w] # "ended"
    BY <1>1 DEF reap_finished, SupervisionInv, SupervisionTyped,
                SupervisionTypeOK, ExtrasSpawned
  <1>3. Spawned(w)
    <2>1. ~(w >= nextExtra)
      BY <1>2 DEF SupervisionInv, SupervisionTyped, SupervisionTypeOK
    <2>2. taskStep[w] # "none"
      BY <1>1, <2>1 DEF SupervisionInv, ExtrasSpawned
    <2> QED BY <1>2, <2>2 DEF Spawned
  <1>4. SupervisionTyped'
    BY <1>1, <1>2, <1>3
       DEF SupervisionInv, SupervisionTyped, SupervisionTypeOK, Spawned
  <1>5. \A v \in PoolWorkers : \A y : Holds(v, y)' <=> Holds(v, y)
    BY <1>1 DEF Holds
  <1>6. HandsMatch'
    BY <1>1 DEF SupervisionInv, HandsMatch
  <1>7. HeldOnce' /\ NoHandIsGone'
    BY <1>1, <1>5 DEF SupervisionInv, HeldOnce, NoHandIsGone
  <1>8. ExtrasSpawned'
    BY <1>1, <1>2 DEF SupervisionInv, ExtrasSpawned
  <1>9. AgesAwake'
    BY <1>1 DEF SupervisionInv, AgesAwake, Watched
  <1>10. CancelCause'
    BY <1>1, <1>2 DEF SupervisionInv, CancelCause, BaseWorker
  <1>11. LinkWorkerSpared' /\ LinksSaved'
    BY <1>1, <1>2
       DEF SupervisionInv, LinkWorkerSpared, LinksSaved, WorkAt, LinkWorker
  <1> QED
    BY <1>4, <1>6, <1>7, <1>8, <1>9, <1>10, <1>11 DEF SupervisionInv

-----------------------------------------------------------------------------
(* The shutdown *)

LEMMA ShutdownKeeps ==
    ASSUME SupervisionInv,
           \/ request_shutdown \/ wait_for_shutdown_signal
           \/ shutdown_checkpoint
    PROVE  SupervisionInv'
  <1> USE DEF clockVars, taskVars
  <1>1. /\ UNCHANGED <<taskStep, taskJob, taskAge, taskAwake, cancelling,
                       extras, nextExtra, work, heartbeatOld, graceLeft,
                       lateLinks>>
        /\ shutdownAsked => shutdownAsked'
        /\ shutdownPhase' # "run" => shutdownAsked'
        /\ shutdownPhase = "exit" <=> shutdownPhase' = "exit"
    BY DEF request_shutdown, wait_for_shutdown_signal, shutdown_checkpoint,
           SupervisionInv, SupervisionTyped
  <1>2. \/ UNCHANGED <<shutdownPhase, savedLinks>>
        \/ shutdownPhase \in {"run", "asked"} /\ shutdownPhase' = "asked"
           /\ savedLinks' = savedLinks
        \/ /\ shutdownPhase \in {"asked", "saved"}
           /\ shutdownPhase' = "saved" /\ savedLinks' = OpenLinks
    BY DEF request_shutdown, wait_for_shutdown_signal, shutdown_checkpoint
  <1>3. SupervisionTyped'
    BY <1>1, <1>2
       DEF SupervisionInv, SupervisionTyped, SupervisionTypeOK, Spawned,
           OpenLinks
  <1>4. \A v \in PoolWorkers : \A y : Holds(v, y)' <=> Holds(v, y)
    BY <1>1 DEF Holds
  <1>5. HandsMatch'
    BY <1>1 DEF SupervisionInv, HandsMatch
  <1>6. HeldOnce' /\ NoHandIsGone'
    BY <1>1, <1>4 DEF SupervisionInv, HeldOnce, NoHandIsGone
  <1>7. ExtrasSpawned' /\ AgesAwake' /\ CancelCause'
    BY <1>1 DEF SupervisionInv, ExtrasSpawned, AgesAwake, CancelCause, Watched
  <1>8. LinkWorkerSpared'
    BY <1>1, <1>2 DEF SupervisionInv, LinkWorkerSpared, WorkAt
  <1>9. LinksSaved'
    <2> SUFFICES ASSUME shutdownPhase' \in {"saved", "stopping", "exit"},
                        NEW l \in PoolLinks \ lateLinks,
                        work[l] \in {"queue", "retry", "hand", "unfinished"}
                 PROVE  l \in savedLinks'
      BY <1>1 DEF LinksSaved
    <2>1. CASE UNCHANGED <<shutdownPhase, savedLinks>>
      BY <2>1 DEF SupervisionInv, LinksSaved
    <2>2. CASE /\ shutdownPhase \in {"asked", "saved"}
               /\ savedLinks' = OpenLinks
      <3>1. work[l] # "unfinished"
        BY <2>2 DEF SupervisionInv, LinkWorkerSpared, WorkAt
      <3> QED BY <2>2, <3>1 DEF OpenLinks, WorkAt
    <2> QED BY <1>2, <2>1, <2>2
  <1> QED
    BY <1>3, <1>5, <1>6, <1>7, <1>8, <1>9 DEF SupervisionInv

LEMMA StopKeeps ==
    ASSUME SupervisionInv, supervisor_stop PROVE SupervisionInv'
  <1> USE DEF clockVars, taskVars
  <1>1. /\ UNCHANGED <<taskStep, taskJob, taskAge, taskAwake, extras,
                       nextExtra, work, heartbeatOld, graceLeft,
                       shutdownAsked, savedLinks, lateLinks>>
        /\ shutdownPhase = "saved" /\ shutdownPhase' = "stopping"
        /\ cancelling' = {w \in PoolWorkers : Spawned(w)}
        /\ shutdownAsked
    BY DEF supervisor_stop, SupervisionInv, SupervisionTyped
  <1>2. SupervisionTyped'
    BY <1>1
       DEF SupervisionInv, SupervisionTyped, SupervisionTypeOK, Spawned
  <1>3. \A v \in PoolWorkers : \A y : Holds(v, y)' <=> Holds(v, y)
    BY <1>1 DEF Holds
  <1>4. HandsMatch'
    BY <1>1 DEF SupervisionInv, HandsMatch
  <1>5. HeldOnce' /\ NoHandIsGone'
    BY <1>1, <1>3 DEF SupervisionInv, HeldOnce, NoHandIsGone
  <1>6. ExtrasSpawned' /\ AgesAwake' /\ LinksSaved'
    BY <1>1 DEF SupervisionInv, ExtrasSpawned, AgesAwake, LinksSaved, Watched
  <1>7. CancelCause' /\ LinkWorkerSpared'
    BY <1>1 DEF CancelCause, LinkWorkerSpared
  <1> QED
    BY <1>2, <1>4, <1>5, <1>6, <1>7 DEF SupervisionInv

LEMMA ExitKeeps ==
    ASSUME SupervisionInv, process_exits PROVE SupervisionInv'
  <1>1. /\ shutdownPhase = "stopping" /\ shutdownPhase' = "exit"
        /\ cancelling' = {} /\ extras' = {} /\ nextExtra' = 2
        /\ graceLeft' = 0
        /\ UNCHANGED <<work, shutdownAsked, savedLinks, lateLinks>>
    BY DEF process_exits, BaseWorker
  <1>2. /\ taskStep' = [w \in PoolWorkers |-> "ended"]
        /\ taskJob' = [w \in PoolWorkers |-> NoWork]
        /\ taskAge' = [w \in PoolWorkers |-> 0]
        /\ taskAwake' = [w \in PoolWorkers |-> 0]
    BY DEF process_exits
  <1>3. SupervisionTyped'
    <2>1. 2 \in 2..(MaxExtraId + 1) /\ 0 \in 0..WorkerResumeGrace
      BY SupervisionAssumption
    <2> QED BY <1>1, <1>2, <2>1, WorkerIds
            DEF SupervisionInv, SupervisionTyped, SupervisionTypeOK, Handling
  <1>4. HandsMatch' /\ NoHandIsGone' /\ ExtrasSpawned'
    BY <1>1, <1>2 DEF HandsMatch, NoHandIsGone, ExtrasSpawned
  <1>5. HeldOnce'
    BY <1>2 DEF HeldOnce, Holds
  <1>6. AgesAwake'
    BY <1>2 DEF AgesAwake, Watched
  <1>7. CancelCause' /\ LinkWorkerSpared'
    BY <1>1 DEF CancelCause, LinkWorkerSpared
  <1>8. LinksSaved'
    BY <1>1 DEF SupervisionInv, LinksSaved
  <1> QED
    BY <1>3, <1>4, <1>5, <1>6, <1>7, <1>8 DEF SupervisionInv

-----------------------------------------------------------------------------
(* The workers' invariant *)

LEMMA SupervisionStutterKeeps ==
    ASSUME SupervisionInv, UNCHANGED supervisionVars
    PROVE  SupervisionInv'
  BY DEF supervisionVars, SupervisionInv, SupervisionTyped, SupervisionTypeOK,
         HandsMatch, HeldOnce, NoHandIsGone, ExtrasSpawned, AgesAwake,
         CancelCause, LinkWorkerSpared, LinksSaved, Holds, Watched, WorkAt,
         Spawned

LEMMA SupervisionInvStep ==
    SupervisionInv /\ [SupervisionNext]_supervisionVars => SupervisionInv'
  <1> SUFFICES ASSUME SupervisionInv, [SupervisionNext]_supervisionVars
               PROVE  SupervisionInv'
    OBVIOUS
  <1>1. ASSUME NEW j \in PoolJobs, job_admitted(j) PROVE SupervisionInv'
    <2>1. WorkMoves(j)
      BY <1>1, lateLinks \subseteq PoolLinks
         DEF job_admitted, WorkMoves, shutdownVars, SupervisionInv,
             SupervisionTyped, SupervisionTypeOK
    <2> QED BY <2>1, WorkMovesKeeps DEF WorkItems
  <1>2. ASSUME NEW l \in PoolLinks, queue_private_link(l)
        PROVE  SupervisionInv'
    <2>1. WorkMoves(l)
      BY <1>2, lateLinks \subseteq PoolLinks
         DEF queue_private_link, WorkMoves, SupervisionInv,
             SupervisionTyped, SupervisionTypeOK
    <2> QED BY <2>1, WorkMovesKeeps DEF WorkItems
  <1>3. ASSUME NEW x \in WorkItems, retry_scheduler_loop(x)
        PROVE  SupervisionInv'
    <2>1. WorkMoves(x)
      BY <1>3, lateLinks \subseteq PoolLinks
         DEF retry_scheduler_loop, WorkMoves, shutdownVars, SupervisionInv,
             SupervisionTyped, SupervisionTypeOK
    <2> QED BY <2>1, WorkMovesKeeps
  <1>4. ASSUME NEW w \in PoolWorkers,
               \/ \E x \in WorkItems : mark_worker_job(w, x)
               \/ worker_progress(w) \/ worker_done(w) \/ worker_error(w)
               \/ error_handled(w) \/ stall_notified(w) \/ run_again(w)
               \/ task_cancelled(w) \/ stall_handled(w)
               \/ cancel_idle_extra(w)
        PROVE  SupervisionInv'
    BY <1>4, MarkKeeps, KeepsInHand, DoneKeeps, NotifiedKeeps, RunAgainKeeps,
       CancelledKeeps, StallKeeps, IdleExtraKeeps
  <1>5. CASE process_telegram_link \/ link_error
    BY <1>5, LinkKeeps
  <1>6. CASE \/ cancel_stalled_worker_job \/ watchdog_suppresses
             \/ event_loop_heartbeat_loop \/ watchdog_runner_looks
             \/ watchdog_runner_marks \/ loop_paused \/ loop_time_passes
    BY <1>6, StalledKeeps, GraceKeeps, PausedKeeps, LoopTimeKeeps
  <1>7. CASE \/ spawn \/ request_shutdown \/ wait_for_shutdown_signal
             \/ shutdown_checkpoint \/ supervisor_stop \/ process_exits
    BY <1>7, SpawnKeeps, ShutdownKeeps, StopKeeps, ExitKeeps
  <1>8. CASE UNCHANGED supervisionVars
    BY <1>8, SupervisionStutterKeeps
  <1> QED
    BY <1>1, <1>2, <1>3, <1>4, <1>5, <1>6, <1>7, <1>8
       DEF SupervisionNext, WorkItems

LEMMA SupervisionInvAlways == SupervisionSpec => []SupervisionInv
  BY SupervisionInits, SupervisionInvStep, PTL DEF SupervisionSpec

LEMMA InvKeepsLinks == SupervisionInv => LinksKept
  <1> SUFFICES ASSUME SupervisionInv, NEW l \in PoolLinks \ lateLinks,
                      \/ work[l] = "unfinished"
                      \/ shutdownPhase = "exit" /\ l \in OpenLinks
               PROVE  l \in savedLinks
    BY DEF LinksKept
  <1>1. CASE work[l] = "unfinished"
    <2>1. shutdownPhase \notin {"run", "asked", "saved"}
      BY <1>1 DEF SupervisionInv, LinkWorkerSpared, WorkAt
    <2> QED BY <1>1, <2>1
            DEF SupervisionInv, SupervisionTyped, LinksSaved
  <1>2. CASE shutdownPhase = "exit" /\ l \in OpenLinks
    BY <1>2 DEF SupervisionInv, LinksSaved, OpenLinks, WorkAt
  <1> QED BY <1>1, <1>2

-----------------------------------------------------------------------------
(* Cancellations *)

(* The watchdog cancels a worker only after the grace time awake: an age above
   the limit without it was gathered in a pause, and after a pause the grace
   time has to pass first. *)
LEMMA StalledIsAwake ==
    ASSUME SupervisionInv, NEW w \in stalled_worker_jobs
    PROVE  taskAwake[w] = WorkerResumeGrace
  <1>1. /\ w \in Watched /\ taskAge[w] > WorkerStallAge
        /\ ~heartbeatOld /\ ~(graceLeft > 0)
    BY DEF stalled_worker_jobs, Suppressed
  <1>2. /\ taskAge[w] \in Nat /\ taskAwake[w] \in 0..WorkerResumeGrace
        /\ graceLeft \in 0..WorkerResumeGrace
        /\ WorkerResumeGrace \in Nat /\ WorkerStallAge \in Nat
        /\ WorkerResumeGrace <= WorkerStallAge
    BY <1>1, SupervisionAssumption, WorkerIds
       DEF SupervisionInv, SupervisionTyped, SupervisionTypeOK, Watched
  <1>3. \/ taskAge[w] <= taskAwake[w]
        \/ taskAwake[w] + graceLeft >= WorkerResumeGrace
    BY <1>1 DEF SupervisionInv, AgesAwake
  <1> QED BY <1>1, <1>2, <1>3

LEMMA CancelStep ==
    ASSUME SupervisionInv, [SupervisionNext]_supervisionVars
    PROVE  CancelledWithCause
  <1>1. CASE cancel_stalled_worker_job
    BY <1>1, StalledIsAwake
       DEF cancel_stalled_worker_job, CancelledWithCause
  <1>2. ASSUME NEW w \in PoolWorkers, cancel_idle_extra(w)
        PROVE  CancelledWithCause
    BY <1>2 DEF cancel_idle_extra, reap_finished, CancelledWithCause
  <1>3. CASE supervisor_stop
    BY <1>3 DEF supervisor_stop, CancelledWithCause
  <1>4. CASE cancelling' \subseteq cancelling
    BY <1>4 DEF CancelledWithCause
  <1>5. \/ cancel_stalled_worker_job \/ supervisor_stop
        \/ \E w \in PoolWorkers : cancel_idle_extra(w)
        \/ cancelling' \subseteq cancelling
    BY DEF SupervisionNext, supervisionVars, job_admitted, queue_private_link,
           retry_scheduler_loop, mark_worker_job, worker_progress,
           worker_done, worker_error, error_handled, stall_notified,
           run_again, task_cancelled, stall_handled, process_telegram_link,
           link_error, watchdog_suppresses, event_loop_heartbeat_loop,
           watchdog_runner_looks, watchdog_runner_marks, loop_paused,
           loop_time_passes, spawn, request_shutdown,
           wait_for_shutdown_signal, shutdown_checkpoint, process_exits
  <1> QED BY <1>1, <1>2, <1>3, <1>4, <1>5

(* Why a task may end, and what becomes of its job. *)
EndsWell(w) ==
    /\ \/ shutdownAsked
       \/ w > BaseWorker /\ taskJob[w] = NoWork
       \/ taskStep[w] \in Handling /\ taskAge[w] > WorkerStallAge
    /\ \/ shutdownPhase' = "exit"
       \/ taskJob[w] = NoWork
       \/ work'[taskJob[w]] # "hand"
       \/ \E v \in PoolWorkers \ {w} : taskJob'[v] = taskJob[w]

LEMMA CancelledEndsWell ==
    ASSUME SupervisionInv, NEW w \in PoolWorkers, task_cancelled(w),
           shutdownPhase # "exit"
    PROVE  EndsWell(w)
  <1>1. /\ w \in cancelling /\ clear_worker_job(w, "ended")
        /\ taskStep[w] # "busy" \/ shutdownPhase # "run" \/ w = LinkWorker
        /\ work' = IF taskStep[w] \in {"busy", "handling"}
                   THEN [work EXCEPT ![taskJob[w]] =
                            IF w = LinkWorker THEN "unfinished" ELSE "left"]
                   ELSE work
    BY DEF task_cancelled
  <1>2. \/ shutdownAsked
        \/ w > BaseWorker /\ taskJob[w] = NoWork
        \/ taskStep[w] \in Handling /\ taskAge[w] > WorkerStallAge
    <2>1. shutdownPhase # "run" => shutdownAsked
      BY DEF SupervisionInv, SupervisionTyped
    <2>2. w > LinkWorker /\ taskJob[w] # NoWork /\ taskStep[w] # "busy"
          => w # LinkWorker /\ taskStep[w] \in Handling
      BY WorkerIds DEF SupervisionInv, HandsMatch
    <2>3. w > LinkWorker => w # LinkWorker
      BY WorkerIds
    <2> QED BY <1>1, <2>1, <2>2, <2>3 DEF SupervisionInv, CancelCause
  <1>3. \/ taskJob[w] = NoWork
        \/ work'[taskJob[w]] # "hand"
        \/ \E v \in PoolWorkers \ {w} : taskJob'[v] = taskJob[w]
    <2> SUFFICES ASSUME taskJob[w] # NoWork, work'[taskJob[w]] = "hand"
                 PROVE  \E v \in PoolWorkers \ {w} : taskJob'[v] = taskJob[w]
      OBVIOUS
    <2>1. taskJob[w] \in WorkItems /\ work \in [WorkItems -> Places]
      BY DEF SupervisionInv, SupervisionTyped, SupervisionTypeOK, WorkItems
    <2>2. taskStep[w] \notin {"busy", "handling"} /\ work' = work
      BY <1>1, <2>1
    <2>3. PICK v \in PoolWorkers : Holds(v, taskJob[w])
      BY <2>1, <2>2 DEF SupervisionInv, NoHandIsGone
    <2>4. v # w
      BY <2>2, <2>3 DEF Holds
    <2>5. taskJob'[v] = taskJob[v]
      BY <1>1, <2>4, Cleared DEF SupervisionInv, TaskSteps
    <2> QED BY <2>3, <2>4, <2>5 DEF Holds
  <1> QED BY <1>2, <1>3 DEF EndsWell

LEMMA EndStep ==
    ASSUME SupervisionInv, [SupervisionNext]_supervisionVars
    PROVE  EndedWithCause
  <1> SUFFICES ASSUME NEW w \in PoolWorkers,
                      taskStep'[w] = "ended", taskStep[w] # "ended"
               PROVE  EndsWell(w)
    BY DEF EndedWithCause, EndsWell
  <1> DEFINE Same == taskStep'[w] = taskStep[w]
  <1>1. SupervisionNext /\ shutdownPhase # "exit"
    BY DEF supervisionVars, SupervisionNext
  <1>2. \A v \in PoolWorkers, step \in TaskSteps :
           ToStep(v, step) => (v = w /\ step = "ended") \/ Same
    BY Stepped DEF SupervisionInv
  <1>3. \A v \in PoolWorkers, step \in TaskSteps :
           clear_worker_job(v, step) => (v = w /\ step = "ended") \/ Same
    BY <1>2 DEF clear_worker_job
  <1>4. TaskSteps = {"none", "idle", "busy", "handling", "notifying",
                     "restart_wait", "ended"}
    BY DEF TaskSteps
  <1>5. CASE UNCHANGED taskStep
    BY <1>5
  <1>6. ASSUME NEW v \in PoolWorkers,
               \/ \E x \in PoolJobs \cup PoolLinks : mark_worker_job(v, x)
               \/ worker_done(v) \/ worker_error(v) \/ error_handled(v)
               \/ stall_notified(v) \/ stall_handled(v)
               \/ process_telegram_link \/ link_error
        PROVE  FALSE
    BY <1>2, <1>3, <1>4, <1>6, WorkerIds
       DEF mark_worker_job, worker_done, worker_error, error_handled,
           stall_notified, stall_handled, process_telegram_link, link_error
  <1>7. ASSUME NEW v \in PoolWorkers, run_again(v) PROVE EndsWell(w)
    <2>1. v = w /\ shutdownAsked
      BY <1>2, <1>4, <1>7 DEF run_again
    <2>2. taskJob[w] = NoWork
      BY <1>7, <2>1 DEF run_again, SupervisionInv, HandsMatch, Handling
    <2> QED BY <2>1, <2>2 DEF EndsWell
  <1>8. ASSUME NEW v \in PoolWorkers, task_cancelled(v) PROVE EndsWell(w)
    <2>1. v = w
      BY <1>3, <1>4, <1>8 DEF task_cancelled
    <2> QED BY <1>1, <1>8, <2>1, CancelledEndsWell
  <1>9. CASE spawn
    <2>1. nextExtra \in PoolWorkers
      BY <1>9, SupervisionAssumption
         DEF spawn, SupervisionInv, SupervisionTyped, SupervisionTypeOK,
             PoolWorkers
    <2>2. w = nextExtra /\ shutdownAsked
      BY <1>2, <1>4, <1>9, <2>1 DEF spawn
    <2>3. taskStep[w] = "none"
      BY <1>1, <2>1, <2>2, WorkerIds DEF SupervisionInv, ExtrasSpawned
    <2>4. taskJob[w] = NoWork
      BY <2>3 DEF SupervisionInv, HandsMatch, Handling
    <2> QED BY <2>2, <2>4 DEF EndsWell
  <1>10. CASE process_exits
    BY <1>10
       DEF process_exits, SupervisionInv, SupervisionTyped, EndsWell
  <1>11. \/ UNCHANGED taskStep
         \/ \E v \in PoolWorkers :
               \/ \E x \in PoolJobs \cup PoolLinks : mark_worker_job(v, x)
               \/ worker_done(v) \/ worker_error(v) \/ error_handled(v)
               \/ stall_notified(v) \/ stall_handled(v)
               \/ run_again(v) \/ task_cancelled(v)
         \/ process_telegram_link \/ link_error \/ spawn \/ process_exits
    BY <1>1
       DEF SupervisionNext, job_admitted, queue_private_link,
           retry_scheduler_loop, worker_progress, cancel_idle_extra,
           cancel_stalled_worker_job, watchdog_suppresses,
           event_loop_heartbeat_loop, watchdog_runner_looks,
           watchdog_runner_marks, loop_paused, loop_time_passes,
           request_shutdown, wait_for_shutdown_signal, shutdown_checkpoint,
           supervisor_stop, taskVars
  <1> QED
    BY <1>5, <1>6, <1>7, <1>8, <1>9, <1>10, <1>11, WorkerIds

(* Nothing is cancelled or ends without a cause, no job is left in a hand that
   is gone, and the checkpoint of the shutdown has every link that is still
   open, however the pauses of the event loop, the watchdogs, the scaler and
   the shutdown meet. *)
THEOREM WorkersCancelSoundly == SupervisionSpec => CancelsSoundly
  <1>1. SupervisionInv => LinksKept
    BY InvKeepsLinks
  <1>2. SupervisionInv /\ [SupervisionNext]_supervisionVars
        => [CancelledWithCause /\ EndedWithCause]_supervisionVars
    BY CancelStep, EndStep
  <1> QED
    BY <1>1, <1>2, SupervisionInvAlways, PTL
       DEF SupervisionSpec, CancelsSoundly

-----------------------------------------------------------------------------
(* The duplicate index *)

(* The duplicate index is of its type. *)
LEMMA IndexTypeInit == IndexInit => IndexTypeOK
  <1> SUFFICES ASSUME IndexInit PROVE IndexTypeOK
    OBVIOUS
  <1>1. faults \in 0..MaxFaults /\ restarts \in 0..MaxRestarts
    BY IndexAssumption DEF IndexInit
  <1> QED
    BY <1>1
       DEF IndexInit, IndexTypeOK, Pending, WriterStages, Healths,
           RepairStages, ScanStages, BootPhases

LEMMA FaultTyped == IndexTypeOK /\ Fault => faults' \in 0..MaxFaults
  BY IndexAssumption DEF IndexTypeOK, Fault

(* Only lines of the batch are appended, and a tear is a torn line. *)
LEMMA CutShort ==
    ASSUME IndexTypeOK, AppendCutShort
    PROVE  /\ torn' \in BOOLEAN
           /\ ledger \subseteq ledger' /\ ledger' \subseteq ledger \cup batch
           /\ ledger' \subseteq posted
  <1>1. batch \subseteq posted
    BY DEF IndexTypeOK, Pending
  <1>2. CASE torn' \in {torn, TRUE} /\ UNCHANGED ledger
    BY <1>2 DEF IndexTypeOK
  <1>3. CASE \E lines \in SUBSET batch : \E readable \in Readable(lines) :
               ledger' = ledger \cup readable /\ torn' \in BOOLEAN
    BY <1>1, <1>3 DEF IndexTypeOK, Readable
  <1> QED BY <1>2, <1>3 DEF AppendCutShort

LEMMA WriterTyped ==
    ASSUME IndexTypeOK, WriterNext \/ \E m \in Media : deliver(m)
    PROVE  IndexTypeOK'
  <1> USE DEF IndexTypeOK, Pending, WriterStages, Healths, RepairStages,
              ScanStages, BootPhases, deliveryVars, ledgerVars, dbVars,
              backupVars, knownVars, onlineVars, scanVars, historyVars,
              boundVars
  <1>1. CASE \E m \in Media : deliver(m)
    BY <1>1 DEF deliver
  <1>2. CASE \E B \in SUBSET Pending : writer_take(B)
    BY <1>2 DEF writer_take
  <1>3. CASE append_media_delivery_ledger_batch
    <2>1. ledger' \subseteq posted
      <3>1. batch \subseteq posted /\ ledger' \subseteq ledger \cup batch
        BY <1>3 DEF append_media_delivery_ledger_batch, Readable
      <3> QED BY <3>1
    <2>2. /\ batch # {} /\ torn' \in BOOLEAN /\ writer' = "commit"
          /\ UNCHANGED <<posted, acked, batch, dbVars, backupVars, knownVars,
                         onlineVars, scanVars, phase, boundVars>>
      BY <1>3 DEF append_media_delivery_ledger_batch
    <2> QED BY <2>1, <2>2
  <1>4. CASE append_fails
    <2>1. faults' \in 0..MaxFaults
      BY <1>4, FaultTyped DEF append_fails
    <2>2. torn' \in BOOLEAN /\ ledger' \subseteq posted
      BY <1>4, CutShort DEF append_fails
    <2> QED BY <1>4, <2>1, <2>2 DEF append_fails
  <1>5. CASE _commit_mark_posted_batch
    BY <1>5 DEF _commit_mark_posted_batch
  <1>6. CASE commit_fails
    <2>1. faults' \in 0..MaxFaults
      BY <1>6, FaultTyped DEF commit_fails
    <2>2. requested' \in BOOLEAN /\ batch # {}
      BY <1>6 DEF commit_fails
    <2> QED BY <1>6, <2>1, <2>2 DEF commit_fails
  <1>7. CASE _finalize_mark_posted_memory
    BY <1>7 DEF _finalize_mark_posted_memory
  <1>8. CASE save_target_media_index
    BY <1>8 DEF save_target_media_index
  <1> QED BY <1>1, <1>2, <1>3, <1>4, <1>5, <1>6, <1>7, <1>8 DEF WriterNext

LEMMA RepairTyped ==
    ASSUME IndexTypeOK, RepairFromBackup \/ InitDb \/ InitDbFails
    PROVE  /\ dbHealth' \in Healths /\ dbRows' \subseteq posted
           /\ salvage' \subseteq posted /\ reindex' \in BOOLEAN
  BY DEF IndexTypeOK, RepairFromBackup, InitDb, InitDbFails, dbVars, Healths

LEMMA RecoveryTyped ==
    ASSUME IndexTypeOK,
           RecoveryStep \/ database_corrupted \/ backup_state_snapshot
    PROVE  IndexTypeOK'
  <1> USE DEF IndexTypeOK, Pending, WriterStages, Healths, RepairStages,
              ScanStages, BootPhases, deliveryVars, ledgerVars, dbVars,
              backupVars, knownVars, onlineVars, scanVars, historyVars,
              boundVars
  <1>1. CASE database_corrupted
    BY <1>1, FaultTyped DEF database_corrupted
  <1>2. CASE backup_state_snapshot
    <2>1. /\ itemsDisk' \subseteq posted /\ backup' \subseteq posted
          /\ hasBackup' \in BOOLEAN /\ requested' \in BOOLEAN
      BY <1>2 DEF backup_state_snapshot
    <2>2. UNCHANGED <<deliveryVars, ledgerVars, dbVars, items, index,
                      degraded, repair, scanVars, phase, boundVars>>
      BY <1>2 DEF backup_state_snapshot
    <2> QED BY <2>1, <2>2
  <1>3. CASE recovery_start
    BY <1>3, RepairTyped DEF recovery_start
  <1>4. CASE recovery_init
    BY <1>4, RepairTyped DEF recovery_init
  <1>5. CASE recovery_fails
    BY <1>5, RepairTyped DEF recovery_fails
  <1>6. CASE rehydrate_db_from_authoritative_state_sync
    BY <1>6 DEF rehydrate_db_from_authoritative_state_sync
  <1>7. CASE recovery_replay
    BY <1>7 DEF recovery_replay, replay_media_delivery_ledger_sync
  <1>8. CASE recovery_ready
    <2>1. /\ repair' \in RepairStages /\ degraded' \in BOOLEAN
          /\ reindex' \in BOOLEAN /\ scan' \in ScanStages
      BY <1>8 DEF recovery_ready
    <2>2. UNCHANGED <<deliveryVars, ledgerVars, dbHealth, dbRows, salvage,
                      backupVars, knownVars, requested, seen, phase,
                      boundVars>>
      BY <1>8 DEF recovery_ready
    <2> QED BY <2>1, <2>2
  <1> QED BY <1>1, <1>2, <1>3, <1>4, <1>5, <1>6, <1>7, <1>8 DEF RecoveryStep

LEMMA ScanTyped ==
    ASSUME IndexTypeOK, ScanNext
    PROVE  IndexTypeOK'
  <1> USE DEF IndexTypeOK, Pending, WriterStages, Healths, RepairStages,
              ScanStages, BootPhases, deliveryVars, ledgerVars, dbVars,
              backupVars, knownVars, onlineVars, scanVars, historyVars,
              boundVars
  <1>1. CASE scan_start
    BY <1>1 DEF scan_start
  <1>2. CASE scan_sampled
    BY <1>2 DEF scan_sampled
  <1>3. CASE merge_target_index_db
    BY <1>3 DEF merge_target_index_db
  <1>4. CASE scan_complete
    BY <1>4 DEF scan_complete, Overtake
  <1>5. CASE replace_target_index_db
    BY <1>5 DEF replace_target_index_db, Overtake
  <1>6. CASE scan_done
    BY <1>6 DEF scan_done, Overtake
  <1>7. CASE run_full_deep_cleaner
    BY <1>7 DEF run_full_deep_cleaner
  <1>8. CASE scan_fails
    BY <1>8 DEF scan_fails
  <1> QED BY <1>1, <1>2, <1>3, <1>4, <1>5, <1>6, <1>7, <1>8 DEF ScanNext

LEMMA BootTyped ==
    ASSUME IndexTypeOK, BootNext \/ Die
    PROVE  IndexTypeOK'
  <1> USE DEF IndexTypeOK, Pending, WriterStages, Healths, RepairStages,
              ScanStages, BootPhases, deliveryVars, ledgerVars, dbVars,
              backupVars, knownVars, onlineVars, scanVars, historyVars,
              boundVars
  <1>1. CASE Die
    <2>1. faults' \in 0..MaxFaults /\ torn' \in BOOLEAN
          /\ ledger' \subseteq posted
      BY <1>1, FaultTyped, CutShort DEF Die
    <2>2. restarts' \in 0..MaxRestarts
      BY <1>1, IndexAssumption DEF Die
    <2> QED BY <1>1, <2>1, <2>2 DEF Die
  <1>2. CASE boot_repair
    BY <1>2, RepairTyped DEF boot_repair
  <1>3. CASE boot_init
    BY <1>3, RepairTyped DEF boot_init
  <1>4. CASE boot_fails
    <2>1. faults' \in 0..MaxFaults
      BY <1>4, FaultTyped DEF boot_fails
    <2>2. /\ dbHealth' = "ok" /\ salvage' = {} /\ reindex' = FALSE
          /\ phase' = "repair"
          /\ UNCHANGED <<deliveryVars, ledgerVars, dbRows, backupVars,
                         knownVars, onlineVars, scanVars, historyVars>>
      BY <1>4 DEF boot_fails
    <2>3. /\ dbHealth' \in Healths /\ salvage' \subseteq posted'
          /\ reindex' \in BOOLEAN /\ phase' \in BootPhases
          /\ dbRows' \subseteq posted' /\ restarts' \in 0..MaxRestarts
      BY <2>2
    <2>4. /\ posted' \subseteq Media /\ acked' \subseteq posted'
          /\ batch' \subseteq Pending' /\ writer' \in WriterStages
          /\ (batch' = {} <=> writer' = "idle")
          /\ ledger' \subseteq posted' /\ torn' \in BOOLEAN
          /\ hasBackup' \in BOOLEAN /\ backup' \subseteq posted'
      BY <2>2
    <2>5. /\ items' \subseteq posted' /\ itemsDisk' \subseteq posted'
          /\ index' \subseteq posted'
          /\ degraded' \in BOOLEAN /\ requested' \in BOOLEAN
          /\ repair' \in RepairStages
          /\ scan' \in ScanStages /\ seen' \subseteq posted'
          /\ overtaken' \subseteq posted'
      BY <2>2
    <2> HIDE DEF Pending, WriterStages, Healths, RepairStages, ScanStages,
                 BootPhases
    <2> QED BY <2>1, <2>3, <2>4, <2>5
  <1>5. CASE boot_replay
    BY <1>5 DEF boot_replay, replay_media_delivery_ledger_sync
  <1>6. CASE load_target_full_index_from_db
    BY <1>6 DEF load_target_full_index_from_db
  <1>7. CASE boot_reindex
    <2>1. index' \subseteq posted /\ dbRows' \subseteq posted
          /\ items' \subseteq posted
      BY <1>7 DEF boot_reindex
    <2>2. /\ reindex' \in BOOLEAN /\ phase' = "up"
          /\ UNCHANGED <<deliveryVars, ledgerVars, dbHealth, salvage,
                         backupVars, itemsDisk, onlineVars, scanVars,
                         boundVars>>
      BY <1>7 DEF boot_reindex
    <2> QED BY <2>1, <2>2
  <1> QED BY <1>1, <1>2, <1>3, <1>4, <1>5, <1>6, <1>7 DEF BootNext

LEMMA IndexTypeStep == IndexTypeOK /\ [IndexNext]_indexVars => IndexTypeOK'
  <1> SUFFICES ASSUME IndexTypeOK, [IndexNext]_indexVars PROVE IndexTypeOK'
    OBVIOUS
  <1>1. CASE UNCHANGED indexVars
    BY <1>1
       DEF IndexTypeOK, Pending, indexVars, deliveryVars, ledgerVars, dbVars,
           backupVars, knownVars, onlineVars, scanVars, boundVars, historyVars
  <1> QED
    BY <1>1, WriterTyped, RecoveryTyped, ScanTyped, BootTyped DEF IndexNext

(* The stores of delivered media are of their types, whatever the order of the
   writer, the recovery, the scans and the restarts. *)
THEOREM IndexTyped == IndexSpec => []IndexTypeOK
  BY IndexTypeInit, IndexTypeStep, PTL DEF IndexSpec

(* Only a pipeline that is up writes, recovers and scans. *)
WorksWhileUp ==
    phase # "up" =>
        batch = {} /\ writer = "idle" /\ repair = "idle" /\ scan = "idle"

(* The media that the ledger is read into the database for. *)
LedgerLoads == phase = "load" => ledger \subseteq dbRows

(* What was acknowledged and can be read from the ledger is in memory. *)
LedgerInMemory ==
    phase \in {"reindex", "up"} =>
        (acked \cap ledger) \ overtaken \subseteq index

(* What the writer has appended, and what it has mirrored. *)
Appended == acked \cup (IF writer \in {"commit", "ack"} THEN batch ELSE {})
Mirrored == acked \cup (IF writer = "ack" THEN batch ELSE {})

(* A line was torn, or one that continued a torn line is lost. *)
LedgerTorn == torn \/ ~(Appended \subseteq ledger)

(* A line is only torn by a fault. *)
TornByFault == LedgerTorn => faults >= 1

(* Nothing went wrong but an append. *)
OnlyTheLedger == faults = 0 \/ (faults = 1 /\ LedgerTorn)

(* The database is whole as long as nothing else went wrong: nobody asked for
   its recovery, and it has every acknowledged media.  Before the first boot it
   does not exist, and there are no media. *)
DatabaseWhole ==
    /\ repair = "idle" /\ ~requested
    /\ \/ dbHealth = "ok"
       \/ dbHealth = "missing" /\ phase \in {"repair", "init"} /\ posted = {}
    /\ Mirrored \ overtaken \subseteq dbRows

IndexInv ==
    /\ IndexTypeOK
    /\ WorksWhileUp
    /\ LedgerLoads
    /\ LedgerInMemory
    /\ TornByFault
    /\ OnlyTheLedger => DatabaseWhole

LEMMA IndexInvInit == IndexInit => IndexInv
  <1> SUFFICES ASSUME IndexInit PROVE IndexInv
    OBVIOUS
  <1>1. IndexTypeOK
    BY IndexTypeInit
  <1>2. WorksWhileUp /\ LedgerLoads /\ LedgerInMemory /\ TornByFault
    BY DEF IndexInit, WorksWhileUp, LedgerLoads, LedgerInMemory, TornByFault,
           LedgerTorn, Appended
  <1>3. DatabaseWhole
    BY DEF IndexInit, DatabaseWhole, Mirrored
  <1> QED BY <1>1, <1>2, <1>3 DEF IndexInv

(* A media without a readable line was appended after a tear; when that is the
   only fault, the database has it. *)
LEMMA InvKnowsDelivered == IndexInv => DeliveredIsKnown
  <1> SUFFICES ASSUME IndexInv, phase = "up", NEW m \in acked \ overtaken,
                      m \in ledger \/ faults <= 1
               PROVE  known_duplicate_uid(m)
    BY DEF DeliveredIsKnown
  <1>1. CASE m \in ledger
    BY <1>1 DEF IndexInv, LedgerInMemory, known_duplicate_uid
  <1>2. CASE m \notin ledger /\ faults <= 1
    <2>1. LedgerTorn
      BY <1>2 DEF LedgerTorn, Appended
    <2>2. faults \in Nat /\ faults >= 1
      BY <2>1, IndexAssumption DEF IndexInv, TornByFault, IndexTypeOK
    <2>3. OnlyTheLedger
      BY <1>2, <2>1, <2>2 DEF OnlyTheLedger
    <2> QED
      BY <2>3 DEF IndexInv, DatabaseWhole, Mirrored, known_duplicate_uid
  <1> QED BY <1>1, <1>2

(* No fault follows while only the ledger was hit, other than the one that
   hits it. *)
LEMMA FaultEnds ==
    ASSUME IndexTypeOK, TornByFault, Fault, OnlyTheLedger'
    PROVE  /\ faults = 0 /\ faults' = 1 /\ LedgerTorn'
           /\ ~LedgerTorn /\ OnlyTheLedger
  BY IndexAssumption
     DEF IndexTypeOK, TornByFault, Fault, OnlyTheLedger

LEMMA WriterHolds ==
    ASSUME IndexInv, WriterNext \/ \E m \in Media : deliver(m)
    PROVE  /\ WorksWhileUp' /\ LedgerLoads' /\ LedgerInMemory'
           /\ TornByFault' /\ (OnlyTheLedger => DatabaseWhole)'
  <1> USE DEF IndexInv, WorksWhileUp, LedgerLoads, LedgerInMemory, TornByFault,
              LedgerTorn, Appended, Mirrored, OnlyTheLedger, DatabaseWhole,
              IndexTypeOK, Pending,
              deliveryVars, ledgerVars, dbVars, backupVars, knownVars,
              onlineVars, scanVars, historyVars, boundVars
  <1>1. CASE \E m \in Media : deliver(m)
    BY <1>1 DEF deliver
  <1>2. CASE \E B \in SUBSET Pending : writer_take(B)
    BY <1>2 DEF writer_take
  <1>3. CASE append_media_delivery_ledger_batch
    <2>1. /\ torn' = FALSE /\ writer' = "commit" /\ phase = "up"
          /\ batch # {}
          /\ ledger \subseteq ledger' /\ ledger' \subseteq ledger \cup batch
          /\ ~torn => batch \subseteq ledger'
      BY <1>3 DEF append_media_delivery_ledger_batch, Readable
    <2>2. UNCHANGED <<posted, acked, batch, dbVars, backupVars, knownVars,
                      onlineVars, scanVars, phase, boundVars>>
      BY <1>3 DEF append_media_delivery_ledger_batch
    <2>3. writer = "append"
      BY <1>3 DEF append_media_delivery_ledger_batch
    <2>4. LedgerTorn' => LedgerTorn
      BY <2>1, <2>2, <2>3
    <2> QED BY <2>1, <2>2, <2>3, <2>4
  <1>4. CASE append_fails
    <2>1. /\ ledger \subseteq ledger' /\ ledger' \subseteq ledger \cup batch
          /\ Fault /\ writer = "append" /\ batch' = {} /\ writer' = "idle"
      BY <1>4, CutShort DEF append_fails
    <2>2. UNCHANGED <<posted, acked, dbVars, backupVars, knownVars,
                      onlineVars, scanVars, phase, historyVars>>
      BY <1>4 DEF append_fails
    <2>3. TornByFault'
      BY <2>1, IndexAssumption DEF Fault
    <2>4. (OnlyTheLedger => DatabaseWhole)'
      BY <2>1, <2>2, FaultEnds
    <2> QED BY <2>1, <2>2, <2>3, <2>4
  <1>5. CASE _commit_mark_posted_batch
    BY <1>5 DEF _commit_mark_posted_batch
  <1>6. CASE commit_fails
    <2>1. /\ writer = "commit" /\ writer' = "ack"
          /\ UNCHANGED <<posted, acked, batch, ledgerVars, dbVars, backupVars,
                         knownVars, repair, scanVars, phase, historyVars>>
      BY <1>6 DEF commit_fails
    <2>2. LedgerTorn' <=> LedgerTorn
      BY <2>1
    <2>3. CASE dbHealth # "ok" /\ requested' = TRUE /\ UNCHANGED faults
      BY <2>1, <2>2, <2>3
    <2>4. CASE Fault /\ UNCHANGED requested
      <3>1. ~OnlyTheLedger'
        BY <2>2, <2>4, FaultEnds
      <3>2. TornByFault'
        BY <2>4, IndexAssumption DEF Fault
      <3> QED BY <2>1, <3>1, <3>2
    <2> QED BY <1>6, <2>3, <2>4 DEF commit_fails
  <1>7. CASE _finalize_mark_posted_memory
    BY <1>7 DEF _finalize_mark_posted_memory
  <1>8. CASE save_target_media_index
    BY <1>8 DEF save_target_media_index
  <1> QED BY <1>1, <1>2, <1>3, <1>4, <1>5, <1>6, <1>7, <1>8 DEF WriterNext

LEMMA RecoveryHolds ==
    ASSUME IndexInv, RecoveryStep \/ database_corrupted \/ backup_state_snapshot
    PROVE  /\ WorksWhileUp' /\ LedgerLoads' /\ LedgerInMemory'
           /\ TornByFault' /\ (OnlyTheLedger => DatabaseWhole)'
  <1> USE DEF IndexInv, WorksWhileUp, LedgerLoads, LedgerInMemory, TornByFault,
              LedgerTorn, Appended, Mirrored, OnlyTheLedger, DatabaseWhole,
              IndexTypeOK, Pending,
              deliveryVars, ledgerVars, dbVars, backupVars, knownVars,
              onlineVars, scanVars, historyVars, boundVars
  <1>1. CASE database_corrupted
    <2>1. /\ phase = "up" /\ Fault
          /\ UNCHANGED <<deliveryVars, ledgerVars, dbRows, salvage, reindex,
                         backupVars, knownVars, onlineVars, scanVars, phase,
                         historyVars>>
      BY <1>1 DEF database_corrupted
    <2>2. TornByFault' /\ ~OnlyTheLedger'
      BY <2>1, FaultEnds, IndexAssumption DEF Fault
    <2> QED BY <2>1, <2>2
  <1>2. CASE backup_state_snapshot
    BY <1>2 DEF backup_state_snapshot
  <1>3. CASE recovery_start
    BY <1>3 DEF recovery_start, RepairFromBackup
  <1>4. CASE recovery_init
    BY <1>4 DEF recovery_init, InitDb
  <1>5. CASE recovery_fails
    BY <1>5 DEF recovery_fails, InitDbFails
  <1>6. CASE rehydrate_db_from_authoritative_state_sync
    BY <1>6 DEF rehydrate_db_from_authoritative_state_sync
  <1>7. CASE recovery_replay
    BY <1>7 DEF recovery_replay, replay_media_delivery_ledger_sync
  <1>8. CASE recovery_ready
    BY <1>8 DEF recovery_ready
  <1> QED BY <1>1, <1>2, <1>3, <1>4, <1>5, <1>6, <1>7, <1>8 DEF RecoveryStep

LEMMA ScanHolds ==
    ASSUME IndexInv, ScanNext
    PROVE  /\ WorksWhileUp' /\ LedgerLoads' /\ LedgerInMemory'
           /\ TornByFault' /\ (OnlyTheLedger => DatabaseWhole)'
  <1> USE DEF IndexInv, WorksWhileUp, LedgerLoads, LedgerInMemory, TornByFault,
              LedgerTorn, Appended, Mirrored, OnlyTheLedger, DatabaseWhole,
              IndexTypeOK, Pending,
              deliveryVars, ledgerVars, dbVars, backupVars, knownVars,
              onlineVars, scanVars, historyVars, boundVars
  <1>1. CASE scan_start
    BY <1>1 DEF scan_start
  <1>2. CASE scan_sampled
    BY <1>2 DEF scan_sampled
  <1>3. CASE merge_target_index_db
    BY <1>3 DEF merge_target_index_db
  <1>4. CASE scan_complete
    BY <1>4 DEF scan_complete, Overtake
  <1>5. CASE replace_target_index_db
    BY <1>5 DEF replace_target_index_db, Overtake
  <1>6. CASE scan_done
    BY <1>6 DEF scan_done, Overtake
  <1>7. CASE run_full_deep_cleaner
    BY <1>7 DEF run_full_deep_cleaner
  <1>8. CASE scan_fails
    BY <1>8 DEF scan_fails
  <1> QED BY <1>1, <1>2, <1>3, <1>4, <1>5, <1>6, <1>7, <1>8 DEF ScanNext

LEMMA BootHolds ==
    ASSUME IndexInv, BootNext \/ Die
    PROVE  /\ WorksWhileUp' /\ LedgerLoads' /\ LedgerInMemory'
           /\ TornByFault' /\ (OnlyTheLedger => DatabaseWhole)'
  <1> USE DEF IndexInv, WorksWhileUp, LedgerLoads, LedgerInMemory, TornByFault,
              LedgerTorn, Appended, Mirrored, OnlyTheLedger, DatabaseWhole,
              IndexTypeOK, Pending,
              deliveryVars, ledgerVars, dbVars, backupVars, knownVars,
              onlineVars, scanVars, historyVars, boundVars
  <1>1. CASE Die
    <2>1. /\ batch' = {} /\ writer' = "idle" /\ ~requested'
          /\ repair' = "idle" /\ scan' = "idle" /\ phase' = "repair"
          /\ UNCHANGED <<posted, acked, dbHealth, dbRows, overtaken>>
      BY <1>1 DEF Die
    <2>2. CASE UNCHANGED <<ledgerVars, faults>>
      <3>1. LedgerTorn' => LedgerTorn
        BY <2>1, <2>2
      <3>2. TornByFault'
        BY <2>2, <3>1
      <3> QED BY <2>1, <2>2, <3>1, <3>2
    <2>3. CASE writer = "append" /\ AppendCutShort /\ Fault
      <3>1. TornByFault'
        BY <2>3, IndexAssumption DEF Fault
      <3>2. OnlyTheLedger' => OnlyTheLedger
        BY <2>3, <3>1, FaultEnds
      <3> QED BY <2>1, <2>3, <3>1, <3>2
    <2> QED BY <1>1, <2>2, <2>3 DEF Die
  <1>2. CASE boot_repair
    BY <1>2 DEF boot_repair, RepairFromBackup
  <1>3. CASE boot_init
    BY <1>3 DEF boot_init, InitDb
  <1>4. CASE boot_fails
    <2>1. /\ phase = "init" /\ phase' = "repair" /\ Fault
          /\ UNCHANGED <<deliveryVars, ledgerVars, dbRows, backupVars,
                         knownVars, onlineVars, scanVars, historyVars>>
      BY <1>4 DEF boot_fails
    <2>2. TornByFault' /\ ~OnlyTheLedger'
      BY <2>1, FaultEnds, IndexAssumption DEF Fault
    <2> QED BY <2>1, <2>2
  <1>5. CASE boot_replay
    BY <1>5 DEF boot_replay, replay_media_delivery_ledger_sync
  <1>6. CASE load_target_full_index_from_db
    BY <1>6 DEF load_target_full_index_from_db
  <1>7. CASE boot_reindex
    BY <1>7 DEF boot_reindex
  <1> QED BY <1>1, <1>2, <1>3, <1>4, <1>5, <1>6, <1>7 DEF BootNext

LEMMA IndexInvStep == IndexInv /\ [IndexNext]_indexVars => IndexInv'
  <1> SUFFICES ASSUME IndexInv, [IndexNext]_indexVars PROVE IndexInv'
    OBVIOUS
  <1>1. IndexTypeOK'
    BY IndexTypeStep DEF IndexInv
  <1>2. CASE UNCHANGED indexVars
    BY <1>1, <1>2
       DEF IndexInv, WorksWhileUp, LedgerLoads, LedgerInMemory, TornByFault,
           LedgerTorn, Appended, Mirrored, OnlyTheLedger, DatabaseWhole,
           indexVars, deliveryVars, ledgerVars, dbVars, backupVars, knownVars,
           onlineVars, scanVars, historyVars, boundVars
  <1>3. CASE IndexNext
    <2>1. /\ WorksWhileUp' /\ LedgerLoads' /\ LedgerInMemory'
          /\ TornByFault' /\ (OnlyTheLedger => DatabaseWhole)'
      BY <1>3, WriterHolds, RecoveryHolds, ScanHolds, BootHolds DEF IndexNext
    <2> QED BY <1>1, <2>1 DEF IndexInv
  <1> QED BY <1>2, <1>3

LEMMA IndexInvAlways == IndexSpec => []IndexInv
  BY IndexInvInit, IndexInvStep, PTL DEF IndexSpec

(* The duplicate check knows every acknowledged delivery that no complete scan
   overtook: one that can be read from the ledger whatever happens to the
   database, its backup, the JSON index and the process, for any number of
   media, faults and restarts; one that cannot as long as the append that tore
   the ledger was the only fault. *)
THEOREM DeliveriesAreKnown == IndexSpec => []DeliveredIsKnown
  BY IndexInvAlways, InvKnowsDelivered, PTL

-----------------------------------------------------------------------------
(* The services together *)

(* A behaviour of the services is a behaviour of each of them: a step of the
   part in focus changes nothing of the others. *)
LEMMA ServicesAre ==
    ServicesSpec => IndexSpec /\ LeaseSpec /\ HelperSpec /\ SupervisionSpec
  <1>1. ServicesInit =>
            IndexInit /\ LeaseInit /\ HelperInit /\ SupervisionInit
    BY DEF ServicesInit
  <1>2. [ServicesNext]_servicesVars =>
            /\ [IndexNext]_indexVars
            /\ [LeaseNext]_leaseVars
            /\ [HelperNext]_helperVars
            /\ [SupervisionNext]_supervisionVars
    BY DEF ServicesNext, servicesVars
  <1> QED
    BY <1>1, <1>2, PTL
       DEF ServicesSpec, IndexSpec, LeaseSpec, HelperSpec, SupervisionSpec

(* The services are of their types, each with its own threads, faults and
   restarts. *)
THEOREM ServicesTyped == ServicesSpec => []ServicesTypeOK
  <1>1. IndexTypeOK /\ LeaseInv /\ HelperInv /\ SupervisionInv
        => ServicesTypeOK
    BY HelperInvExact
       DEF ServicesTypeOK, LeaseInv, SupervisionInv, SupervisionTyped
  <1> QED
    BY <1>1, ServicesAre, IndexTyped, LeaseInvAlways, HelperInvAlways,
       SupervisionInvAlways, PTL

(* What the parts promise holds of the composition too, which the runs
   explore: deliveries are known, leases hold and refine the exclusive queue,
   requests are let in seldom, and nobody is cancelled without a cause. *)
THEOREM ServicesHold ==
    ServicesSpec =>
        /\ []DeliveredIsKnown
        /\ []LeaseHolds /\ LeaseRefines
        /\ []HelperExact
        /\ CancelsSoundly
  BY ServicesAre, DeliveriesAreKnown, LeaseIsHeld, LeaseImplementsExclusive,
     HelperIsExact, WorkersCancelSoundly, PTL
=============================================================================
