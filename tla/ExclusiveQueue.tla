--------------------------- MODULE ExclusiveQueue ---------------------------
(***************************************************************************)
(* What a lease queue promises: an item is waiting, or held by one worker  *)
(* until it finishes the item, gives it back, or lets its lease expire.    *)
(* Only the holder finishes an item, renews it or gives it back.           *)
(***************************************************************************)
CONSTANTS Items, Workers, Nobody

VARIABLES
    holder,     \* the worker that holds the item, Nobody, or "absent"
    expired,    \* items whose lease has run out
    finishedBy  \* who finished the item last

exclusiveVars == <<holder, expired, finishedBy>>

ExclusiveInit ==
    /\ holder = [i \in Items |-> "absent"]
    /\ expired = {}
    /\ finishedBy = [i \in Items |-> Nobody]

Put(i) ==
    /\ holder[i] = "absent"
    /\ holder' = [holder EXCEPT ![i] = Nobody]
    /\ UNCHANGED <<expired, finishedBy>>

Take(i, w) ==
    /\ holder[i] = Nobody \/ i \in expired
    /\ holder' = [holder EXCEPT ![i] = w]
    /\ expired' = expired \ {i}
    /\ UNCHANGED finishedBy

Renew(i, w) ==
    /\ holder[i] = w
    /\ expired' = expired \ {i}
    /\ UNCHANGED <<holder, finishedBy>>

Finish(i, w) ==
    /\ holder[i] = w
    /\ holder' = [holder EXCEPT ![i] = "absent"]
    /\ expired' = expired \ {i}
    /\ finishedBy' = [finishedBy EXCEPT ![i] = w]

GiveBack(i, w) ==
    /\ holder[i] = w
    /\ holder' = [holder EXCEPT ![i] = Nobody]
    /\ expired' = expired \ {i}
    /\ UNCHANGED finishedBy

(* Time passes: leases that are held run out. *)
Expire(S) ==
    /\ \A i \in S : holder[i] \in Workers
    /\ expired' = expired \cup S
    /\ UNCHANGED <<holder, finishedBy>>

(* The owner of the queue empties it. *)
Purge ==
    /\ holder' = [i \in Items |-> "absent"]
    /\ expired' = {}
    /\ UNCHANGED finishedBy

ExclusiveNext ==
    \/ \E S \in SUBSET Items : Expire(S)
    \/ \E i \in Items : Put(i)
    \/ \E i \in Items, w \in Workers : Take(i, w)
    \/ \E i \in Items, w \in Workers : Renew(i, w)
    \/ \E i \in Items, w \in Workers : Finish(i, w)
    \/ \E i \in Items, w \in Workers : GiveBack(i, w)
    \/ Purge

ExclusiveSpec == ExclusiveInit /\ [][ExclusiveNext]_exclusiveVars
=============================================================================
