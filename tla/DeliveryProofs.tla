--------------------------- MODULE DeliveryProofs ---------------------------
(***************************************************************************)
(* Proofs about Delivery, for every setting of its constants: its types,   *)
(* that what is called delivered is in the target, and that a media is     *)
(* posted twice, or posted without a trace, only after one of the events   *)
(* that "lapses" names.                                                    *)
(***************************************************************************)
EXTENDS Delivery, TLAPS

(* Stages of a request that has an open intent. *)
Requested == {"inflight", "accepted", "journal", "confirm", "confirmed"}

OpenOnDisk == \A o \in Ops : intents[o] \in Open => disk[o] \in Open

RequestIsOpen == stage \in Requested => intents[op] \in Open

LedgerIsKnown ==
    /\ ledger => known \/ stage = "journaled"
    /\ known => ledger
    /\ stage = "journaled" => ledger
    /\ stage = "done" => known

SendsOnlyAbsent ==
    /\ stage \in {"begin", "inflight"} => target = 0
    /\ stage \in {"met", "send"} => known \/ target = 0

JournalsOnlyPresent ==
    /\ stage \in Requested \cup {"begin"} => ~ledger
    /\ stage \in {"accepted", "journal", "confirmed"} => target > 0
    /\ ledger => target > 0

-----------------------------------------------------------------------------
(* Types *)

(* A write of the intents, made or failed, leaves well-typed intents. *)
LEMMA PersistType ==
    ASSUME IntentsOK, NEW i \in [Ops -> Statuses], NEW f \in SUBSET Ops,
           Persist(i, f)
    PROVE  IntentsOK'
  <1>1. circuit' \in BOOLEAN
    BY DEF IntentsOK, Persist, WriteFails
  <1>2. intents' \in [Ops -> Statuses] /\ fresh' \in SUBSET Ops
    BY DEF Persist
  <1>3. disk' \in [Ops -> Statuses] /\ freshDisk' \in SUBSET Ops
    BY DEF IntentsOK, Persist
  <1> QED BY <1>1, <1>2, <1>3 DEF IntentsOK

(* update_delivery_intent writes a status. *)
LEMMA UpdateType ==
    ASSUME IntentsOK, op \in Ops, NEW s \in Statuses,
           update_delivery_intent(s)
    PROVE  IntentsOK'
  <1>1. [intents EXCEPT ![op] = s] \in [Ops -> Statuses]
    BY DEF IntentsOK
  <1>2. fresh \cup {op} \in SUBSET Ops
    BY DEF IntentsOK
  <1> QED BY <1>1, <1>2, PersistType DEF update_delivery_intent

(* Completing the intents of the job clears them. *)
LEMMA CompleteType ==
    ASSUME IntentsOK, complete_delivery_intents_for_job
    PROVE  IntentsOK'
  <1>1. NoIntents \in [Ops -> Statuses]
    BY DEF NoIntents, Statuses
  <1> QED BY <1>1, PersistType DEF complete_delivery_intents_for_job

(* Dropping failed intents keeps the open ones. *)
LEMMA DropFailedType ==
    ASSUME IntentsOK, DropFailed
    PROVE  IntentsOK'
  <1>1. CASE \E o \in Ops : intents[o] = "failed"
    <2>1. [o \in Ops |-> IF intents[o] = "failed" THEN "none" ELSE intents[o]]
             \in [Ops -> Statuses]
      BY DEF IntentsOK, Statuses
    <2>2. fresh \cap OpenOps \in SUBSET Ops
      BY DEF IntentsOK
    <2> QED BY <1>1, <2>1, <2>2, PersistType DEF DropFailed
  <1>2. CASE ~ \E o \in Ops : intents[o] = "failed"
    BY <1>2 DEF DropFailed, intentVars, IntentsOK
  <1> QED BY <1>1, <1>2

(* An accepted request adds one message to the target. *)
LEMMA AcceptType ==
    ASSUME TelegramOK, NEW o \in Ops, Accept(o)
    PROVE  copied' \in Nat /\ uploaded' \in Nat /\ captioned' \in BOOLEAN
  BY DEF TelegramOK, Accept

(* So does a request whose answer is lost, if anything. *)
LEMMA LostType ==
    ASSUME TelegramOK, op \in Ops, Lost
    PROVE  TelegramOK'
  <1>1. CASE Accept(op) /\ UNCHANGED flying
    BY <1>1, AcceptType DEF TelegramOK
  <1>2. CASE LateAccept /\ flying' = flying \cup {op}
               /\ UNCHANGED <<copied, uploaded, captioned>>
    BY <1>2 DEF TelegramOK
  <1>3. CASE UNCHANGED telegramVars
    BY <1>3 DEF TelegramOK, telegramVars
  <1> QED BY <1>1, <1>2, <1>3 DEF Lost

(* Queueing, retrying and closing a job set its stage and its record. *)
LEMMA RetryUploadType ==
    ASSUME RetryUpload, lapses \subseteq Lapses
    PROVE  /\ stage' \in Stages /\ recorded' \in BOOLEAN
           /\ lapses' \subseteq Lapses
  BY DEF RetryUpload, Queue, Stages, Lapse, Lapses

LEMMA LapseType ==
    ASSUME lapses \subseteq Lapses, NEW c \in Lapses, NEW ACTION h,
           Lapse(c, h)
    PROVE  lapses' \subseteq Lapses
  BY DEF Lapse

(* There is at least the upload among the operations. *)
LEMMA Operations == Copies \in Nat /\ 0 \in Ops
  <1>1. Copies \in Nat
    BY DeliveryAssumption DEF DeliveryAssumption
  <1> QED BY <1>1 DEF Ops

(* The next copy request is one of the operations. *)
LEMMA NextCopyType ==
    ASSUME ControlOK, NextCopy
    PROVE  stage' \in Stages /\ recorded' \in BOOLEAN /\ op' \in Ops
  <1>1. stage' \in Stages
    BY DEF NextCopy, Queue, Stages
  <1>2. recorded' \in BOOLEAN
    BY Zenon DEF ControlOK, NextCopy, Queue
  <1>3. op' \in Ops
    <2>1. CASE op < Copies /\ op' = op + 1
      BY <2>1, Operations DEF ControlOK, Ops
    <2>2. CASE op' = 0
      BY <2>2, Operations
    <2> QED BY <2>1, <2>2 DEF NextCopy
  <1> QED BY <1>1, <1>2, <1>3

(* What a step leaves alone keeps its type. *)
LEMMA Frames ==
    /\ IntentsOK /\ UNCHANGED intentVars => IntentsOK'
    /\ TelegramOK /\ UNCHANGED telegramVars => TelegramOK'
    /\ PostedOK /\ UNCHANGED postedVars => PostedOK'
  BY DEF IntentsOK, TelegramOK, PostedOK, intentVars, telegramVars, postedVars

(* A call is tried at least once. *)
LEMMA CallsAtLeastOne == CallTries \in Nat /\ 1 \in 1..CallTries
  <1>1. CallTries \in Nat \ {0}
    BY DeliveryAssumption DEF DeliveryAssumption
  <1> QED BY <1>1

(* Every step keeps the types. *)
LEMMA TypeStep ==
    ASSUME TypeOK, [Next]_vars
    PROVE  TypeOK'
  <1> USE DEF TypeOK
  <1>0. /\ op \in Ops
        /\ {"pending", "accepted", "ambiguous", "failed", "none"} = Statuses
    BY DEF ControlOK, Statuses, Open
  <1>1. CASE admit_duplicate
    <2>1. ControlOK'
      BY <1>1 DEF admit_duplicate, ControlOK, Stages, pastVars
    <2>2. IntentsOK'
      BY <1>1, Frames DEF admit_duplicate
    <2>3. TelegramOK'
      BY <1>1, Frames DEF admit_duplicate
    <2>4. PostedOK'
      BY <1>1, Frames DEF admit_duplicate
    <2> QED BY <2>1, <2>2, <2>3, <2>4
  <1>2. CASE admit_copy
    <2>1. ControlOK'
      BY <1>2, <1>0, Operations DEF admit_copy, ControlOK, Stages, pastVars,
         Ops
    <2>2. IntentsOK'
      BY <1>2, Frames DEF admit_copy
    <2>3. TelegramOK'
      BY <1>2, Frames DEF admit_copy
    <2>4. PostedOK'
      BY <1>2, Frames DEF admit_copy
    <2> QED BY <2>1, <2>2, <2>3, <2>4
  <1>3. CASE admit_download
    <2>1. ControlOK'
      BY <1>3 DEF admit_download, ControlOK, Stages, pastVars, Queue
    <2>2. IntentsOK'
      BY <1>3, Frames DEF admit_download
    <2>3. TelegramOK'
      BY <1>3, Frames DEF admit_download
    <2>4. PostedOK'
      BY <1>3, Frames DEF admit_download
    <2> QED BY <2>1, <2>2, <2>3, <2>4
  <1>4. CASE meet_again
    <2>1. ControlOK'
      BY <1>4 DEF meet_again, ControlOK, Stages, pastVars
    <2>2. IntentsOK'
      BY <1>4, Frames DEF meet_again
    <2>3. TelegramOK'
      BY <1>4, Frames DEF meet_again
    <2>4. PostedOK'
      BY <1>4, Frames DEF meet_again
    <2> QED BY <2>1, <2>2, <2>3, <2>4
  <1>5. CASE begin_reused
    <2>1. ControlOK'
      BY <1>5, CallsAtLeastOne DEF begin_reused, ControlOK, Stages, pastVars
    <2>2. IntentsOK'
      BY <1>5, <1>0 DEF begin_reused, IntentsOK
    <2>3. TelegramOK'
      BY <1>5, Frames DEF begin_reused
    <2>4. PostedOK'
      BY <1>5, Frames DEF begin_reused
    <2> QED BY <2>1, <2>2, <2>3, <2>4
  <1>6. CASE begin_persisted
    <2>1. ControlOK'
      BY <1>6, CallsAtLeastOne DEF begin_persisted, ControlOK, Stages, pastVars
    <2>2. IntentsOK'
      BY <1>6, <1>0 DEF begin_persisted, IntentsOK
    <2>3. TelegramOK'
      BY <1>6, Frames DEF begin_persisted
    <2>4. PostedOK'
      BY <1>6, Frames DEF begin_persisted
    <2> QED BY <2>1, <2>2, <2>3, <2>4
  <1>7. CASE begin_failed
    <2>1. ControlOK'
      BY <1>7, Operations, RetryUploadType DEF begin_failed, ControlOK, Stages,
         pastVars
    <2>2. IntentsOK'
      BY <1>7, <1>0 DEF begin_failed, IntentsOK, WriteFails
    <2>3. TelegramOK'
      BY <1>7, Frames DEF begin_failed
    <2>4. PostedOK'
      BY <1>7, Frames DEF begin_failed
    <2> QED BY <2>1, <2>2, <2>3, <2>4
  <1>8. CASE send_accepted
    <2>1. ControlOK'
      BY <1>8 DEF send_accepted, ControlOK, Stages, pastVars
    <2>2. IntentsOK'
      BY <1>8, Frames DEF send_accepted
    <2>3. TelegramOK'
      BY <1>8, <1>0, AcceptType DEF send_accepted, TelegramOK
    <2>4. PostedOK'
      BY <1>8, Frames DEF send_accepted
    <2> QED BY <2>1, <2>2, <2>3, <2>4
  <1>9. CASE send_refused
    <2>1. ControlOK'
      BY <1>9, NextCopyType, RetryUploadType DEF send_refused, ControlOK,
         Stages
    <2>2. IntentsOK'
      BY <1>9, <1>0, UpdateType DEF send_refused
    <2>3. TelegramOK'
      BY <1>9, Frames DEF send_refused
    <2>4. PostedOK'
      BY <1>9, Frames DEF send_refused
    <2> QED BY <2>1, <2>2, <2>3, <2>4
  <1>10. CASE send_next_client
    <2>1. ControlOK'
      BY <1>10 DEF send_next_client, ControlOK, Stages, Lapse, Lapses
    <2>2. IntentsOK'
      BY <1>10, <1>0, UpdateType DEF send_next_client
    <2>3. TelegramOK'
      BY <1>10, Frames DEF send_next_client
    <2>4. PostedOK'
      BY <1>10, Frames DEF send_next_client
    <2> QED BY <2>1, <2>2, <2>3, <2>4
  <1>11. CASE tg_call_again
    <2>0. lapses' \subseteq Lapses
      BY <1>11, LapseType DEF tg_call_again, ControlOK, Lapses
    <2>1. ControlOK'
      <3>1. /\ stage' = stage /\ op' = op /\ recorded' = recorded
            /\ crashes' = crashes /\ tries' = tries + 1 /\ tries < CallTries
        BY <1>11 DEF tg_call_again
      <3> QED BY <2>0, <3>1, CallsAtLeastOne DEF ControlOK
    <2>2. IntentsOK'
      BY <1>11, Frames DEF tg_call_again
    <2>3. TelegramOK'
      BY <1>11, <1>0, LostType DEF tg_call_again
    <2>4. PostedOK'
      BY <1>11, Frames DEF tg_call_again
    <2> QED BY <2>1, <2>2, <2>3, <2>4
  <1>12. CASE send_timeout
    <2>1. ControlOK'
      BY <1>12, RetryUploadType DEF send_timeout, ControlOK, Stages, pastVars
    <2>2. IntentsOK'
      BY <1>12, <1>0, UpdateType DEF send_timeout
    <2>3. TelegramOK'
      BY <1>12, <1>0, LostType DEF send_timeout
    <2>4. PostedOK'
      BY <1>12, Frames DEF send_timeout
    <2> QED BY <2>1, <2>2, <2>3, <2>4
  <1>13. CASE record_accepted
    <2>1. ControlOK'
      BY <1>13 DEF record_accepted, ControlOK, Stages, pastVars
    <2>2. IntentsOK'
      BY <1>13, <1>0, UpdateType DEF record_accepted
    <2>3. TelegramOK'
      BY <1>13, Frames DEF record_accepted
    <2>4. PostedOK'
      BY <1>13, Frames DEF record_accepted
    <2> QED BY <2>1, <2>2, <2>3, <2>4
  <1>14. CASE copy_with_caption
    <2>1. ControlOK'
      BY <1>14, Operations DEF copy_with_caption, ControlOK, Stages, pastVars,
         Queue
    <2>2. IntentsOK'
      BY <1>14, <1>0, UpdateType DEF copy_with_caption
    <2>3. TelegramOK'
      BY <1>14 DEF copy_with_caption, TelegramOK
    <2>4. PostedOK'
      BY <1>14, Frames DEF copy_with_caption
    <2> QED BY <2>1, <2>2, <2>3, <2>4
  <1>15. CASE confirm_found
    <2>1. ControlOK'
      BY <1>15 DEF confirm_found, ControlOK, Stages, pastVars
    <2>2. IntentsOK'
      BY <1>15, Frames DEF confirm_found
    <2>3. TelegramOK'
      BY <1>15, Frames DEF confirm_found
    <2>4. PostedOK'
      BY <1>15, Frames DEF confirm_found
    <2> QED BY <2>1, <2>2, <2>3, <2>4
  <1>16. CASE confirm_missed
    <2>1. ControlOK'
      BY <1>16, Operations DEF confirm_missed, ControlOK, Stages, pastVars,
         Queue
    <2>2. IntentsOK'
      BY <1>16, Frames DEF confirm_missed
    <2>3. TelegramOK'
      BY <1>16, Frames DEF confirm_missed
    <2>4. PostedOK'
      BY <1>16, Frames DEF confirm_missed
    <2> QED BY <2>1, <2>2, <2>3, <2>4
  <1>17. CASE journal_append
    <2>1. ControlOK'
      BY <1>17 DEF journal_append, ControlOK, Stages, pastVars
    <2>2. IntentsOK'
      BY <1>17, Frames DEF journal_append
    <2>3. TelegramOK'
      BY <1>17, Frames DEF journal_append
    <2>4. PostedOK'
      BY <1>17 DEF journal_append, PostedOK
    <2> QED BY <2>1, <2>2, <2>3, <2>4
  <1>18. CASE journal_failed
    <2>1. ControlOK'
      BY <1>18, RetryUploadType DEF journal_failed, ControlOK, Stages, Lapse,
         Lapses
    <2>2. IntentsOK'
      BY <1>18 DEF journal_failed, IntentsOK, LedgerFails
    <2>3. TelegramOK'
      BY <1>18, Frames DEF journal_failed
    <2>4. PostedOK'
      BY <1>18 DEF journal_failed, PostedOK, LedgerFails
    <2> QED BY <2>1, <2>2, <2>3, <2>4
  <1>19. CASE copy_discarded
    <2>1. ControlOK'
      BY <1>19, NextCopyType DEF copy_discarded, ControlOK, Stages, pastVars
    <2>2. IntentsOK'
      BY <1>19, <1>0, UpdateType DEF copy_discarded
    <2>3. TelegramOK'
      BY <1>19, Frames DEF copy_discarded
    <2>4. PostedOK'
      BY <1>19, Frames DEF copy_discarded
    <2> QED BY <2>1, <2>2, <2>3, <2>4
  <1>20. CASE finalize_posted
    <2>1. ControlOK'
      BY <1>20, Operations DEF finalize_posted, ControlOK, Stages, pastVars
    <2>2. IntentsOK'
      BY <1>20, CompleteType DEF finalize_posted
    <2>3. TelegramOK'
      BY <1>20, Frames DEF finalize_posted
    <2>4. PostedOK'
      BY <1>20 DEF finalize_posted, PostedOK
    <2> QED BY <2>1, <2>2, <2>3, <2>4
  <1>21. CASE circuit_closes
    <2>1. ControlOK'
      BY <1>21 DEF circuit_closes, ControlOK, Stages, pastVars
    <2>2. IntentsOK'
      BY <1>21 DEF circuit_closes, IntentsOK
    <2>3. TelegramOK'
      BY <1>21, Frames DEF circuit_closes
    <2>4. PostedOK'
      BY <1>21, Frames DEF circuit_closes
    <2> QED BY <2>1, <2>2, <2>3, <2>4
  <1>22. CASE startup_committed
    <2>1. ControlOK'
      BY <1>22 DEF startup_committed, ControlOK, Stages, pastVars
    <2>2. IntentsOK'
      BY <1>22, CompleteType DEF startup_committed, Commit
    <2>3. TelegramOK'
      BY <1>22, Frames DEF startup_committed
    <2>4. PostedOK'
      BY <1>22 DEF startup_committed, PostedOK, Commit, mark_posted
    <2> QED BY <2>1, <2>2, <2>3, <2>4
  <1>23. CASE startup_unresolved
    <2>1. ControlOK'
      BY <1>23 DEF startup_unresolved, ControlOK, Stages, Lapse, Lapses,
         Unresolved
    <2>2. IntentsOK'
      BY <1>23, DropFailedType DEF startup_unresolved
    <2>3. TelegramOK'
      BY <1>23, Frames DEF startup_unresolved
    <2>4. PostedOK'
      BY <1>23, Frames DEF startup_unresolved
    <2> QED BY <2>1, <2>2, <2>3, <2>4
  <1>24. CASE upload_take
    <2>1. ControlOK'
      BY <1>24 DEF upload_take, ControlOK, Stages, pastVars
    <2>2. IntentsOK'
      BY <1>24, DropFailedType DEF upload_take
    <2>3. TelegramOK'
      BY <1>24, Frames DEF upload_take
    <2>4. PostedOK'
      BY <1>24, Frames DEF upload_take
    <2> QED BY <2>1, <2>2, <2>3, <2>4
  <1>25. CASE reconcile_failed
    <2>1. ControlOK'
      BY <1>25, RetryUploadType DEF reconcile_failed, ControlOK, Stages,
         pastVars
    <2>2. IntentsOK'
      BY <1>25 DEF reconcile_failed, IntentsOK, LedgerFails
    <2>3. TelegramOK'
      BY <1>25, Frames DEF reconcile_failed
    <2>4. PostedOK'
      BY <1>25 DEF reconcile_failed, PostedOK, LedgerFails
    <2> QED BY <2>1, <2>2, <2>3, <2>4
  <1>26. CASE reconcile_committed
    <2>1. ControlOK'
      BY <1>26 DEF reconcile_committed, ControlOK, Stages, pastVars
    <2>2. IntentsOK'
      BY <1>26, CompleteType DEF reconcile_committed, Commit
    <2>3. TelegramOK'
      BY <1>26, Frames DEF reconcile_committed
    <2>4. PostedOK'
      BY <1>26 DEF reconcile_committed, PostedOK, Commit, mark_posted
    <2> QED BY <2>1, <2>2, <2>3, <2>4
  <1>27. CASE reconcile_grace
    <2>1. ControlOK'
      BY <1>27, RetryUploadType DEF reconcile_grace, ControlOK, Stages,
         pastVars
    <2>2. IntentsOK'
      BY <1>27, Frames DEF reconcile_grace
    <2>3. TelegramOK'
      BY <1>27, Frames DEF reconcile_grace
    <2>4. PostedOK'
      BY <1>27, Frames DEF reconcile_grace
    <2> QED BY <2>1, <2>2, <2>3, <2>4
  <1>28. CASE reconcile_proceeds
    <2>1. ControlOK'
      BY <1>28 DEF reconcile_proceeds, ControlOK, Stages, Lapse, Lapses,
         Unresolved
    <2>2. IntentsOK'
      BY <1>28, Frames DEF reconcile_proceeds
    <2>3. TelegramOK'
      BY <1>28, Frames DEF reconcile_proceeds
    <2>4. PostedOK'
      BY <1>28, Frames DEF reconcile_proceeds
    <2> QED BY <2>1, <2>2, <2>3, <2>4
  <1>29. CASE upload_duplicate
    <2>1. ControlOK'
      BY <1>29 DEF upload_duplicate, ControlOK, Stages, pastVars
    <2>2. IntentsOK'
      BY <1>29, Frames DEF upload_duplicate
    <2>3. TelegramOK'
      BY <1>29, Frames DEF upload_duplicate
    <2>4. PostedOK'
      BY <1>29, Frames DEF upload_duplicate
    <2> QED BY <2>1, <2>2, <2>3, <2>4
  <1>30. CASE upload_send
    <2>1. ControlOK'
      BY <1>30, Operations DEF upload_send, ControlOK, Stages, pastVars
    <2>2. IntentsOK'
      BY <1>30, Frames DEF upload_send
    <2>3. TelegramOK'
      BY <1>30, Frames DEF upload_send
    <2>4. PostedOK'
      BY <1>30, Frames DEF upload_send
    <2> QED BY <2>1, <2>2, <2>3, <2>4
  <1>31. CASE Crash
    <2>0. lapses' \subseteq Lapses
      BY <1>31, LapseType DEF Crash, ControlOK, Lapses
    <2>1. ControlOK'
      <3>1. crashes \in Nat
        BY DEF ControlOK
      <3>2. crashes' = crashes + 1
        BY <1>31 DEF Crash
      <3>3. crashes' \in Nat
        BY <3>1, <3>2
      <3>4. /\ stage' = "boot" /\ op' = 0 /\ tries' = tries
            /\ recorded' = recorded
        BY <1>31 DEF Crash
      <3> QED BY <2>0, <3>3, <3>4, Operations DEF ControlOK, Stages
    <2>2. IntentsOK'
      BY <1>31 DEF Crash, IntentsOK, load_delivery_intents
    <2>3. TelegramOK'
      BY <1>31, <1>0, LostType, Frames DEF Crash
    <2>4. PostedOK'
      BY <1>31 DEF Crash, PostedOK, replay_media_delivery_ledger
    <2> QED BY <2>1, <2>2, <2>3, <2>4
  <1>32. ASSUME NEW o \in Ops, telegram_accepts_late(o) \/ grace_over(o)
        PROVE  TypeOK'
    <2>1. CASE telegram_accepts_late(o)
      <3>1. TelegramOK'
        BY <2>1, AcceptType DEF telegram_accepts_late, TelegramOK
      <3>2. ControlOK' /\ IntentsOK' /\ PostedOK'
        BY <2>1, Frames DEF telegram_accepts_late, ControlOK, pastVars
      <3> QED BY <3>1, <3>2
    <2>2. CASE grace_over(o)
      <3>1. IntentsOK'
        BY <2>2 DEF grace_over, IntentsOK
      <3>2. ControlOK' /\ TelegramOK' /\ PostedOK'
        BY <2>2, Frames DEF grace_over, ControlOK, pastVars
      <3> QED BY <3>1, <3>2
    <2> QED BY <1>32, <2>1, <2>2
  <1>33. CASE UNCHANGED vars
    BY <1>33, Frames DEF vars, ControlOK, pastVars
  <1> QED
    BY <1>1, <1>2, <1>3, <1>4, <1>5, <1>6, <1>7, <1>8, <1>9, <1>10, <1>11,
       <1>12, <1>13, <1>14, <1>15, <1>16, <1>17, <1>18, <1>19, <1>20, <1>21,
       <1>22, <1>23, <1>24, <1>25, <1>26, <1>27, <1>28, <1>29, <1>30, <1>31,
       <1>32, <1>33
       DEF Next, Step

(* The process starts well typed. *)
LEMMA TypeInit ==
    ASSUME Init
    PROVE  TypeOK
  <1>1. ControlOK
    BY Operations, CallsAtLeastOne DEF Init, ControlOK, Stages, pastVars
  <1>2. IntentsOK
    BY DEF Init, IntentsOK, NoIntents, Statuses
  <1>3. TelegramOK /\ PostedOK
    BY DEF Init, TelegramOK, PostedOK
  <1> QED BY <1>1, <1>2, <1>3 DEF TypeOK

(* Type correctness, for every number of copy requests, tries and crashes and
   with any of the faults. *)
THEOREM TypeCorrect == Spec => []TypeOK
  <1>1. Init => TypeOK
    BY TypeInit
  <1>2. TypeOK /\ [Next]_vars => TypeOK'
    BY TypeStep
  <1> QED BY <1>1, <1>2, PTL DEF Spec

-----------------------------------------------------------------------------
(* What is called delivered *)

(* A copy that the ledger refused was not journaled before. *)
Unposted == stage = "discard" => ~ledger

PostedInv == TypeOK /\ LedgerIsKnown /\ JournalsOnlyPresent /\ Unposted

(* Telegram accepts one more request, or none. *)
LEMMA AcceptMore ==
    ASSUME TelegramOK, NEW o, Accept(o)
    PROVE  target' > 0
  BY DEF TelegramOK, Accept, target

LEMMA LostMore ==
    ASSUME TelegramOK, Lost
    PROVE  target > 0 => target' > 0
  <1>1. CASE Accept(op)
    BY <1>1, AcceptMore
  <1>2. CASE UNCHANGED <<copied, uploaded>>
    BY <1>2 DEF TelegramOK, target
  <1> QED BY <1>1, <1>2 DEF Lost, telegramVars

(* Only what is in the target is journaled or committed, and a copy is only
   deleted before that. *)
LEMMA PostedStep ==
    ASSUME PostedInv, [Next]_vars
    PROVE  PostedInv'
  <1> USE DEF PostedInv
  <1>1. TypeOK'
    BY TypeStep
  <1>2. TelegramOK /\ ledger \in BOOLEAN /\ known \in BOOLEAN
    BY DEF TypeOK, PostedOK
  <1>3. CASE admit_duplicate
    <2>1. target' = target
      BY <1>3 DEF admit_duplicate, telegramVars, target
    <2> QED
      BY <1>1, <1>2, <1>3, <2>1 DEF admit_duplicate, LedgerIsKnown,
         JournalsOnlyPresent, Unposted, Requested, postedVars
  <1>4. CASE admit_copy
    <2>1. target' = target
      BY <1>4 DEF admit_copy, telegramVars, target
    <2> QED
      BY <1>1, <1>2, <1>4, <2>1 DEF admit_copy, LedgerIsKnown,
         JournalsOnlyPresent, Unposted, Requested, postedVars
  <1>5. CASE admit_download
    <2>1. target' = target
      BY <1>5 DEF admit_download, telegramVars, target
    <2> QED
      BY <1>1, <1>2, <1>5, <2>1 DEF admit_download, LedgerIsKnown,
         JournalsOnlyPresent, Unposted, Requested, postedVars, Queue
  <1>6. CASE meet_again
    <2>1. target' = target
      BY <1>6 DEF meet_again, telegramVars, target
    <2> QED
      BY <1>1, <1>2, <1>6, <2>1 DEF meet_again, LedgerIsKnown,
         JournalsOnlyPresent, Unposted, Requested, postedVars
  <1>7. CASE begin_reused
    <2>1. target' = target
      BY <1>7 DEF begin_reused, telegramVars, target
    <2> QED
      BY <1>1, <1>2, <1>7, <2>1 DEF begin_reused, LedgerIsKnown,
         JournalsOnlyPresent, Unposted, Requested, postedVars
  <1>8. CASE begin_persisted
    <2>1. target' = target
      BY <1>8 DEF begin_persisted, telegramVars, target
    <2> QED
      BY <1>1, <1>2, <1>8, <2>1 DEF begin_persisted, LedgerIsKnown,
         JournalsOnlyPresent, Unposted, Requested, postedVars
  <1>9. CASE begin_failed
    <2>1. target' = target
      BY <1>9 DEF begin_failed, telegramVars, target
    <2> QED
      BY <1>1, <1>2, <1>9, <2>1 DEF begin_failed, LedgerIsKnown,
         JournalsOnlyPresent, Unposted, Requested, postedVars, RetryUpload,
         Queue
  <1>10. CASE send_accepted
    <2>1. target' > 0
      BY <1>2, <1>10, AcceptMore DEF send_accepted
    <2> QED
      BY <1>1, <1>2, <1>10, <2>1 DEF send_accepted, LedgerIsKnown,
         JournalsOnlyPresent, Unposted, Requested, postedVars
  <1>11. CASE send_refused
    <2>1. target' = target
      BY <1>11 DEF send_refused, telegramVars, target
    <2> QED
      BY <1>1, <1>2, <1>11, <2>1 DEF send_refused, LedgerIsKnown,
         JournalsOnlyPresent, Unposted, Requested, postedVars, NextCopy,
         RetryUpload, Queue
  <1>12. CASE send_next_client
    <2>1. target' = target
      BY <1>12 DEF send_next_client, telegramVars, target
    <2> QED
      BY <1>1, <1>2, <1>12, <2>1 DEF send_next_client, LedgerIsKnown,
         JournalsOnlyPresent, Unposted, Requested, postedVars
  <1>13. CASE tg_call_again
    <2>1. target > 0 => target' > 0
      BY <1>2, <1>13, LostMore DEF tg_call_again
    <2> QED
      BY <1>1, <1>2, <1>13, <2>1 DEF tg_call_again, LedgerIsKnown,
         JournalsOnlyPresent, Unposted, Requested, postedVars
  <1>14. CASE send_timeout
    <2>1. target > 0 => target' > 0
      BY <1>2, <1>14, LostMore DEF send_timeout
    <2> QED
      BY <1>1, <1>2, <1>14, <2>1 DEF send_timeout, LedgerIsKnown,
         JournalsOnlyPresent, Unposted, Requested, postedVars, RetryUpload,
         Queue
  <1>15. CASE record_accepted
    <2>1. target' = target
      BY <1>15 DEF record_accepted, telegramVars, target
    <2> QED
      BY <1>1, <1>2, <1>15, <2>1 DEF record_accepted, LedgerIsKnown,
         JournalsOnlyPresent, Unposted, Requested, postedVars
  <1>16. CASE copy_with_caption
    <2>1. ~ledger /\ ~known
      BY <1>2, <1>16
         DEF copy_with_caption, JournalsOnlyPresent, LedgerIsKnown, Requested
    <2> QED
      BY <1>1, <1>2, <1>16, <2>1 DEF copy_with_caption, LedgerIsKnown,
         JournalsOnlyPresent, Unposted, Requested, postedVars, Queue
  <1>17. CASE confirm_found
    <2>1. target' = target
      BY <1>17 DEF confirm_found, telegramVars, target
    <2> QED
      BY <1>1, <1>2, <1>17, <2>1 DEF confirm_found, LedgerIsKnown,
         JournalsOnlyPresent, Unposted, Requested, postedVars, InTarget,
         target, TelegramOK
  <1>18. CASE confirm_missed
    <2>1. target' = target
      BY <1>18 DEF confirm_missed, telegramVars, target
    <2> QED
      BY <1>1, <1>2, <1>18, <2>1 DEF confirm_missed, LedgerIsKnown,
         JournalsOnlyPresent, Unposted, Requested, postedVars, Queue
  <1>19. CASE journal_append
    <2>1. target' = target
      BY <1>19 DEF journal_append, telegramVars, target
    <2> QED
      BY <1>1, <1>2, <1>19, <2>1 DEF journal_append, LedgerIsKnown,
         JournalsOnlyPresent, Unposted, Requested, postedVars, Journals
  <1>20. CASE journal_failed
    <2>1. target' = target
      BY <1>20 DEF journal_failed, telegramVars, target
    <2> QED
      BY <1>1, <1>2, <1>20, <2>1 DEF journal_failed, LedgerIsKnown,
         JournalsOnlyPresent, Unposted, Requested, postedVars, Journals,
         LedgerFails, RetryUpload, Queue
  <1>21. CASE copy_discarded
    <2>1. target' = target
      BY <1>21 DEF copy_discarded, telegramVars, target
    <2> QED
      BY <1>1, <1>2, <1>21, <2>1 DEF copy_discarded, LedgerIsKnown,
         JournalsOnlyPresent, Unposted, Requested, postedVars, NextCopy, Queue
  <1>22. CASE finalize_posted
    <2>1. target' = target
      BY <1>22 DEF finalize_posted, telegramVars, target
    <2> QED
      BY <1>1, <1>2, <1>22, <2>1 DEF finalize_posted, LedgerIsKnown,
         JournalsOnlyPresent, Unposted, Requested, postedVars
  <1>23. CASE circuit_closes
    <2>1. target' = target
      BY <1>23 DEF circuit_closes, telegramVars, target
    <2> QED
      BY <1>1, <1>2, <1>23, <2>1 DEF circuit_closes, LedgerIsKnown,
         JournalsOnlyPresent, Unposted, Requested, postedVars
  <1>24. CASE startup_committed
    <2>1. target' = target
      BY <1>24 DEF startup_committed, telegramVars, target
    <2> QED
      BY <1>1, <1>2, <1>24, <2>1 DEF startup_committed, LedgerIsKnown,
         JournalsOnlyPresent, Unposted, Requested, postedVars, Commit,
         mark_posted, InTarget, target, TelegramOK
  <1>25. CASE reconcile_committed
    <2>1. target' = target
      BY <1>25 DEF reconcile_committed, telegramVars, target
    <2> QED
      BY <1>1, <1>2, <1>25, <2>1 DEF reconcile_committed, LedgerIsKnown,
         JournalsOnlyPresent, Unposted, Requested, postedVars, Commit,
         mark_posted, InTarget, target, TelegramOK
  <1>26. CASE startup_unresolved
    <2>1. target' = target
      BY <1>26 DEF startup_unresolved, telegramVars, target
    <2> QED
      BY <1>1, <1>2, <1>26, <2>1 DEF startup_unresolved, LedgerIsKnown,
         JournalsOnlyPresent, Unposted, Requested, postedVars
  <1>27. CASE upload_take
    <2>1. target' = target
      BY <1>27 DEF upload_take, telegramVars, target
    <2> QED
      BY <1>1, <1>2, <1>27, <2>1 DEF upload_take, LedgerIsKnown,
         JournalsOnlyPresent, Unposted, Requested, postedVars
  <1>28. CASE reconcile_failed
    <2>1. target' = target /\ ledger' = ledger /\ known' = known
      BY <1>28 DEF reconcile_failed, LedgerFails, telegramVars, target
    <2>2. stage = "reconcile" /\ stage' \in {"queued", "met"}
      BY <1>28 DEF reconcile_failed, RetryUpload, Queue
    <2> QED
      BY <1>1, <1>2, <2>1, <2>2
         DEF LedgerIsKnown, JournalsOnlyPresent, Unposted, Requested
  <1>29. CASE reconcile_grace
    <2>1. target' = target
      BY <1>29 DEF reconcile_grace, telegramVars, target
    <2> QED
      BY <1>1, <1>2, <1>29, <2>1 DEF reconcile_grace, LedgerIsKnown,
         JournalsOnlyPresent, Unposted, Requested, postedVars, RetryUpload,
         Queue
  <1>30. CASE reconcile_proceeds
    <2>1. target' = target
      BY <1>30 DEF reconcile_proceeds, telegramVars, target
    <2> QED
      BY <1>1, <1>2, <1>30, <2>1 DEF reconcile_proceeds, LedgerIsKnown,
         JournalsOnlyPresent, Unposted, Requested, postedVars
  <1>31. CASE upload_duplicate
    <2>1. target' = target
      BY <1>31 DEF upload_duplicate, telegramVars, target
    <2> QED
      BY <1>1, <1>2, <1>31, <2>1 DEF upload_duplicate, LedgerIsKnown,
         JournalsOnlyPresent, Unposted, Requested, postedVars
  <1>32. CASE upload_send
    <2>1. target' = target
      BY <1>32 DEF upload_send, telegramVars, target
    <2> QED
      BY <1>1, <1>2, <1>32, <2>1 DEF upload_send, LedgerIsKnown,
         JournalsOnlyPresent, Unposted, Requested, postedVars
  <1>33. CASE Crash
    <2>1. target > 0 => target' > 0
      <3>1. CASE stage = "inflight"
        BY <1>2, <1>33, <3>1, LostMore DEF Crash
      <3>2. CASE stage # "inflight"
        BY <1>2, <1>33, <3>2 DEF Crash, telegramVars, target
      <3> QED BY <3>1, <3>2
    <2> QED
      BY <1>1, <1>2, <1>33, <2>1 DEF Crash, LedgerIsKnown,
         JournalsOnlyPresent, Unposted, Requested, postedVars,
         replay_media_delivery_ledger
  <1>34. ASSUME NEW o \in Ops, telegram_accepts_late(o) \/ grace_over(o)
        PROVE  PostedInv'
    <2>1. target > 0 => target' > 0
      BY <1>2, <1>34, AcceptMore
         DEF telegram_accepts_late, grace_over, telegramVars, target
    <2> QED
      BY <1>1, <1>2, <1>34, <2>1
         DEF telegram_accepts_late, grace_over, LedgerIsKnown,
             JournalsOnlyPresent, Unposted, postedVars
  <1>35. CASE UNCHANGED vars
    BY <1>1, <1>35
       DEF vars, telegramVars, postedVars, target, LedgerIsKnown,
           JournalsOnlyPresent, Unposted
  <1> QED
    BY <1>3, <1>4, <1>5, <1>6, <1>7, <1>8, <1>9, <1>10, <1>11, <1>12, <1>13,
       <1>14, <1>15, <1>16, <1>17, <1>18, <1>19, <1>20, <1>21, <1>22, <1>23,
       <1>24, <1>25, <1>26, <1>27, <1>28, <1>29, <1>30, <1>31, <1>32, <1>33,
       <1>34, <1>35
       DEF Next, Step

LEMMA PostedInit == Init => PostedInv
  BY TypeInit
     DEF Init, PostedInv, LedgerIsKnown, JournalsOnlyPresent, Unposted,
         Requested

(* What the ledger or the duplicate index calls delivered is in the target:
   under every failure of the model and for every setting of its constants. *)
THEOREM PostedPresent == Spec => []PostedIsInTarget
  <1>1. Init => PostedInv
    BY PostedInit
  <1>2. PostedInv /\ [Next]_vars => PostedInv'
    BY PostedStep
  <1>3. PostedInv => PostedIsInTarget
    BY DEF PostedInv, LedgerIsKnown, JournalsOnlyPresent, PostedIsInTarget
  <1> QED BY <1>1, <1>2, <1>3, PTL DEF Spec

-----------------------------------------------------------------------------
(* Lapses *)

(* No event has happened that may have the media sent twice: none at all, or
   only a send by the second sender, in a process that lives on. *)
Unhurt ==
    \/ lapses = {}
    \/ lapses \subseteq {"second sender"} /\ crashes = 0

(* What has happened stays in "lapses", and crashes are counted. *)
LEMMA PastGrows ==
    ASSUME ControlOK, [Next]_vars
    PROVE  /\ lapses \subseteq lapses'
           /\ crashes' = crashes \/ crashes' = crashes + 1
  <1>1. CASE \/ begin_failed \/ send_refused \/ send_timeout \/ journal_failed
             \/ reconcile_failed \/ reconcile_grace
    BY <1>1
       DEF begin_failed, send_refused, send_timeout, journal_failed,
           reconcile_failed, reconcile_grace, RetryUpload, Lapse
  <1>2. CASE \/ send_next_client \/ tg_call_again \/ startup_unresolved
             \/ reconcile_proceeds \/ Crash
    BY <1>2
       DEF send_next_client, tg_call_again, startup_unresolved,
           reconcile_proceeds, Crash, Unresolved, Lapse
  <1>3. CASE \/ admit_duplicate \/ admit_copy \/ admit_download \/ meet_again
             \/ begin_reused \/ begin_persisted \/ send_accepted
             \/ record_accepted \/ copy_with_caption \/ confirm_found
             \/ confirm_missed \/ journal_append \/ copy_discarded
             \/ finalize_posted \/ circuit_closes
    BY <1>3
       DEF admit_duplicate, admit_copy, admit_download, meet_again,
           begin_reused, begin_persisted, send_accepted, record_accepted,
           copy_with_caption, confirm_found, confirm_missed, journal_append,
           copy_discarded, finalize_posted, circuit_closes, pastVars
  <1>4. CASE \/ startup_committed \/ reconcile_committed \/ upload_take
             \/ upload_duplicate \/ upload_send
    BY <1>4
       DEF startup_committed, reconcile_committed, upload_take,
           upload_duplicate, upload_send, pastVars
  <1>5. ASSUME NEW o \in Ops, telegram_accepts_late(o) \/ grace_over(o)
        PROVE  UNCHANGED pastVars
    BY <1>5 DEF telegram_accepts_late, grace_over
  <1>6. CASE UNCHANGED vars
    BY <1>6 DEF vars, pastVars
  <1> QED
    BY <1>1, <1>2, <1>3, <1>4, <1>5, <1>6 DEF Next, Step, pastVars

LEMMA LapseHappens ==
    ASSUME NEW c, NEW ACTION h, Lapse(c, h), c \notin lapses'
    PROVE  ~h
  BY DEF Lapse

(* A process that is unhurt has been so before. *)
LEMMA UnhurtBefore ==
    ASSUME ControlOK, [Next]_vars, Unhurt'
    PROVE  Unhurt
  <1>1. /\ lapses \subseteq lapses'
        /\ crashes' = crashes \/ crashes' = crashes + 1
        /\ crashes \in Nat
    BY PastGrows DEF ControlOK
  <1>2. CASE lapses' = {}
    BY <1>1, <1>2 DEF Unhurt
  <1>3. CASE lapses' \subseteq {"second sender"} /\ crashes' = 0
    <2>1. lapses \subseteq {"second sender"}
      BY <1>1, <1>3
    <2>2. crashes = 0
      <3>1. crashes' = 0
        BY <1>3
      <3> QED BY <1>1, <3>1
    <2> QED BY <2>1, <2>2 DEF Unhurt
  <1> QED BY <1>2, <1>3 DEF Unhurt

(* An unhurt upload that ends is queued again, or closed without an open
   intent. *)
LEMMA RetryStage ==
    ASSUME RetryUpload, Unhurt'
    PROVE  \/ stage' = "queued"
           \/ stage' = "met" /\ \A o \in Ops : intents'[o] \notin Open
  <1>1. CASE Queue
    BY <1>1 DEF Queue
  <1>2. CASE stage' = "met" /\ Lapse("job closed", OpenOps' # {})
    <2>1. OpenOps' = {}
      BY <1>2 DEF Lapse, Unhurt
    <2> QED BY <1>2, <2>1 DEF OpenOps
  <1> QED BY <1>1, <1>2 DEF RetryUpload

-----------------------------------------------------------------------------
(* Open intents are on disk *)

(* A write that opens no intent, made or failed, keeps every open intent on
   disk. *)
LEMMA PersistOpen ==
    ASSUME OpenOnDisk, NEW i, NEW f, Persist(i, f),
           \A o \in Ops : i[o] \in Open => intents[o] \in Open
    PROVE  OpenOnDisk' /\ intents' = i
  <1>1. intents' = i /\ (disk' = i \/ disk' = disk)
    BY DEF Persist
  <1> QED BY <1>1 DEF OpenOnDisk

(* A status written to an open intent keeps the others as they are. *)
LEMMA UpdateOpen ==
    ASSUME IntentsOK, op \in Ops, OpenOnDisk,
           NEW s, update_delivery_intent(s),
           s \in Open => intents[op] \in Open
    PROVE  OpenOnDisk' /\ intents' = [intents EXCEPT ![op] = s]
  <1>1. \A o \in Ops :
            [intents EXCEPT ![op] = s][o] \in Open => intents[o] \in Open
    BY DEF IntentsOK
  <1> QED BY <1>1, PersistOpen DEF update_delivery_intent

(* After completion no intent is open. *)
LEMMA CompleteOpen ==
    ASSUME OpenOnDisk, complete_delivery_intents_for_job
    PROVE  OpenOnDisk'
  <1>1. \A o \in Ops : NoIntents[o] \in Open => intents[o] \in Open
    BY DEF NoIntents, Open
  <1> QED BY <1>1, PersistOpen DEF complete_delivery_intents_for_job

(* Dropping failed intents drops no open one. *)
LEMMA DropFailedOpen ==
    ASSUME OpenOnDisk, DropFailed
    PROVE  OpenOnDisk'
  <1>1. CASE \E o \in Ops : intents[o] = "failed"
    <2> DEFINE i == [o \in Ops |-> IF intents[o] = "failed" THEN "none"
                                   ELSE intents[o]]
    <2>1. \A o \in Ops : i[o] \in Open <=> intents[o] \in Open
      BY DEF Open
    <2>2. Persist(i, fresh \cap OpenOps)
      BY <1>1 DEF DropFailed
    <2> HIDE DEF i
    <2> QED BY <2>1, <2>2, PersistOpen
  <1>2. CASE ~ \E o \in Ops : intents[o] = "failed"
    BY <1>2 DEF DropFailed, intentVars, OpenOnDisk
  <1> QED BY <1>1, <1>2

(* As long as no intent is marked failed under a request that goes on, the
   request of the media has an open intent, in memory and on disk. *)
LEMMA OpenStep ==
    ASSUME TypeOK, lapses' = {}, OpenOnDisk, RequestIsOpen, [Next]_vars
    PROVE  (OpenOnDisk /\ RequestIsOpen)'
  <1>1. op \in Ops /\ IntentsOK /\ OpenOnDisk /\ RequestIsOpen
    BY DEF TypeOK, ControlOK
  <1>2. lapses' = {}
    OBVIOUS
  <1>3. CASE admit_duplicate
    BY <1>1, <1>2, <1>3 DEF admit_duplicate, intentVars, OpenOnDisk,
       RequestIsOpen, Requested
  <1>4. CASE admit_copy
    BY <1>1, <1>2, <1>4 DEF admit_copy, intentVars, OpenOnDisk, RequestIsOpen,
       Requested
  <1>5. CASE admit_download
    BY <1>1, <1>2, <1>5 DEF admit_download, intentVars, OpenOnDisk,
       RequestIsOpen, Requested, Queue
  <1>6. CASE meet_again
    BY <1>1, <1>2, <1>6 DEF meet_again, intentVars, OpenOnDisk, RequestIsOpen,
       Requested
  <1>7. CASE begin_reused
    BY <1>1, <1>2, <1>7 DEF begin_reused, intentVars, OpenOnDisk,
       RequestIsOpen, Requested
  <1>8. CASE send_accepted
    BY <1>1, <1>2, <1>8 DEF send_accepted, intentVars, OpenOnDisk,
       RequestIsOpen, Requested
  <1>9. CASE tg_call_again
    BY <1>1, <1>2, <1>9 DEF tg_call_again, intentVars, OpenOnDisk,
       RequestIsOpen, Requested
  <1>10. CASE confirm_found
    BY <1>1, <1>2, <1>10 DEF confirm_found, intentVars, OpenOnDisk,
       RequestIsOpen, Requested
  <1>11. CASE confirm_missed
    BY <1>1, <1>2, <1>11 DEF confirm_missed, intentVars, OpenOnDisk,
       RequestIsOpen, Requested, Queue
  <1>12. CASE journal_append
    BY <1>1, <1>2, <1>12 DEF journal_append, intentVars, OpenOnDisk,
       RequestIsOpen, Requested, Journals
  <1>13. CASE journal_failed
    BY <1>1, <1>2, <1>13 DEF journal_failed, intentVars, OpenOnDisk,
       RequestIsOpen, Requested, Journals, RetryUpload, Queue
  <1>14. CASE circuit_closes
    BY <1>1, <1>2, <1>14 DEF circuit_closes, intentVars, OpenOnDisk,
       RequestIsOpen, Requested
  <1>15. CASE reconcile_failed
    BY <1>1, <1>2, <1>15 DEF reconcile_failed, intentVars, OpenOnDisk,
       RequestIsOpen, Requested, RetryUpload, Queue
  <1>16. CASE reconcile_grace
    BY <1>1, <1>2, <1>16 DEF reconcile_grace, intentVars, OpenOnDisk,
       RequestIsOpen, Requested, RetryUpload, Queue
  <1>17. CASE reconcile_proceeds
    BY <1>1, <1>2, <1>17 DEF reconcile_proceeds, intentVars, OpenOnDisk,
       RequestIsOpen, Requested
  <1>18. CASE upload_duplicate
    BY <1>1, <1>2, <1>18 DEF upload_duplicate, intentVars, OpenOnDisk,
       RequestIsOpen, Requested
  <1>19. CASE upload_send
    BY <1>1, <1>2, <1>19 DEF upload_send, intentVars, OpenOnDisk,
       RequestIsOpen, Requested
  <1>20. CASE begin_persisted
    BY <1>1, <1>2, <1>20
       DEF begin_persisted, IntentsOK, Open, OpenOnDisk, RequestIsOpen
  <1>21. CASE begin_failed
    BY <1>1, <1>2, <1>21
       DEF begin_failed, IntentsOK, Open, OpenOnDisk, RequestIsOpen, Requested,
           RetryUpload, Queue
  <1>22. CASE send_refused
    <2>1. OpenOnDisk' /\ intents' = [intents EXCEPT ![op] = "failed"]
      BY <1>1, <1>22, UpdateOpen DEF send_refused, Open
    <2> QED
      BY <1>1, <1>22, <2>1 DEF send_refused, IntentsOK, Open, RequestIsOpen,
         Requested, NextCopy, RetryUpload, Queue
  <1>23. CASE send_timeout
    <2>1. OpenOnDisk' /\ intents' = [intents EXCEPT ![op] = "ambiguous"]
      BY <1>1, <1>23, UpdateOpen DEF send_timeout, Open, RequestIsOpen,
         Requested
    <2> QED
      BY <1>1, <1>23, <2>1 DEF send_timeout, IntentsOK, Open, RequestIsOpen,
         Requested, RetryUpload, Queue
  <1>24. CASE record_accepted
    <2>1. OpenOnDisk' /\ intents' = [intents EXCEPT ![op] = "accepted"]
      BY <1>1, <1>24, UpdateOpen DEF record_accepted, Open, RequestIsOpen,
         Requested
    <2> QED
      BY <1>1, <1>24, <2>1 DEF record_accepted, IntentsOK, Open, RequestIsOpen,
         Requested
  <1>25. CASE copy_with_caption
    <2>1. OpenOnDisk' /\ intents' = [intents EXCEPT ![op] = "failed"]
      BY <1>1, <1>25, UpdateOpen DEF copy_with_caption, Open
    <2> QED
      BY <1>1, <1>25, <2>1 DEF copy_with_caption, IntentsOK, Open,
         RequestIsOpen, Requested, Queue
  <1>26. CASE copy_discarded
    <2>1. OpenOnDisk' /\ intents' = [intents EXCEPT ![op] = "failed"]
      BY <1>1, <1>26, UpdateOpen DEF copy_discarded, Open
    <2> QED
      BY <1>1, <1>26, <2>1 DEF copy_discarded, IntentsOK, Open, RequestIsOpen,
         Requested, NextCopy, Queue
  <1>27. CASE send_next_client
    BY <1>2, <1>27 DEF send_next_client, Lapse
  <1>28. CASE finalize_posted
    BY <1>1, <1>28, CompleteOpen DEF finalize_posted, RequestIsOpen, Requested
  <1>29. CASE startup_committed
    BY <1>1, <1>29, CompleteOpen DEF startup_committed, RequestIsOpen,
       Requested, Commit
  <1>30. CASE reconcile_committed
    BY <1>1, <1>30, CompleteOpen DEF reconcile_committed, RequestIsOpen,
       Requested, Commit
  <1>31. CASE startup_unresolved
    BY <1>1, <1>31, DropFailedOpen DEF startup_unresolved, RequestIsOpen,
       Requested
  <1>32. CASE upload_take
    BY <1>1, <1>32, DropFailedOpen DEF upload_take, RequestIsOpen, Requested
  <1>33. CASE Crash
    BY <1>33
       DEF Crash, load_delivery_intents, OpenOnDisk, RequestIsOpen, Requested
  <1>34. ASSUME NEW o \in Ops, telegram_accepts_late(o) \/ grace_over(o)
        PROVE  (OpenOnDisk /\ RequestIsOpen)'
    BY <1>1, <1>34
       DEF telegram_accepts_late, grace_over, intentVars, OpenOnDisk,
           RequestIsOpen
  <1>35. CASE UNCHANGED vars
    BY <1>1, <1>35 DEF vars, intentVars, OpenOnDisk, RequestIsOpen
  <1> QED
    BY <1>3, <1>4, <1>5, <1>6, <1>7, <1>8, <1>9, <1>10, <1>11, <1>12, <1>13,
       <1>14, <1>15, <1>16, <1>17, <1>18, <1>19, <1>20, <1>21, <1>22, <1>23,
       <1>24, <1>25, <1>26, <1>27, <1>28, <1>29, <1>30, <1>31, <1>32, <1>33,
       <1>34, <1>35 DEF Next, Step

-----------------------------------------------------------------------------
(* At most once *)

(* A request that Telegram may still accept is the only one, its intent is open
   and within its grace time, and the job waits for it. *)
LateIsAwaited ==
    \/ flying = {}
    \/ /\ target = 0
       /\ stage \in {"confirm", "queued", "reconcile"}
       /\ \E o \in Ops : flying = {o} /\ o \in fresh /\ intents[o] \in Open

AcceptedIsOpen ==
    target > 0 /\ ~ledger =>
        stage = "accepted" \/ \E o \in Ops : intents[o] \in Open

(* What makes the protocol send only what is absent. *)
OnceStill ==
    /\ stage # "discard"
    /\ AtMostOnce
    /\ LateIsAwaited
    /\ AcceptedIsOpen
    /\ SendsOnlyAbsent

IInv ==
    /\ PostedInv
    /\ Unhurt => OnceStill
    /\ lapses = {} => OpenOnDisk /\ RequestIsOpen

LEMMA UpdateMemory ==
    ASSUME IntentsOK, op \in Ops, NEW s, update_delivery_intent(s)
    PROVE  /\ fresh' = fresh \cup {op} /\ intents'[op] = s
           /\ \A o \in Ops \ {op} : intents'[o] = intents[o]
  <1>1. fresh' = fresh \cup {op} /\ intents' = [intents EXCEPT ![op] = s]
    BY DEF update_delivery_intent, Persist
  <1> QED BY <1>1 DEF IntentsOK

(* Dropping failed intents drops no open one, nor its grace time. *)
LEMMA DropFailedMemory ==
    ASSUME IntentsOK, DropFailed
    PROVE  /\ \A o \in Ops : intents'[o] \in Open <=> intents[o] \in Open
           /\ \A o \in fresh : intents[o] \in Open => o \in fresh'
  <1>1. CASE \E o \in Ops : intents[o] = "failed"
    <2>1. /\ intents' = [o \in Ops |-> IF intents[o] = "failed" THEN "none"
                                       ELSE intents[o]]
          /\ fresh' = fresh \cap OpenOps
      BY <1>1 DEF DropFailed, Persist
    <2> QED BY <2>1 DEF OpenOps, IntentsOK, Open
  <1>2. CASE ~ \E o \in Ops : intents[o] = "failed"
    BY <1>2 DEF DropFailed, intentVars
  <1> QED BY <1>1, <1>2

(* With an empty target, Telegram accepts at most this one request. *)
LEMMA AcceptOne ==
    ASSUME TelegramOK, NEW o \in Ops, Accept(o), target = 0
    PROVE  target' = 1
  BY Operations DEF TelegramOK, Accept, target, Ops

(* A lost answer leaves the target empty with the request on its way, or
   decided. *)
LEMMA LostLate ==
    ASSUME TelegramOK, op \in Ops, flying = {}, Lost, target = 0
    PROVE  \/ flying' = {} /\ target' \in {0, 1}
           \/ flying' = {op} /\ target' = 0
  <1>1. CASE Accept(op) /\ UNCHANGED flying
    BY <1>1, AcceptOne
  <1>2. CASE /\ flying' = flying \cup {op}
             /\ UNCHANGED <<copied, uploaded, captioned>>
    BY <1>2 DEF target
  <1>3. CASE UNCHANGED telegramVars
    BY <1>3 DEF telegramVars, target
  <1> QED BY <1>1, <1>2, <1>3 DEF Lost

(* What a scan by uid tells of the target. *)
LEMMA ScanTells ==
    ASSUME TelegramOK
    PROVE  /\ target \in Nat
           /\ InTarget => target > 0
           /\ ~InTarget /\ ~ (uploaded > 0) => target = 0
  BY DEF TelegramOK, InTarget, target

(* An open intent that is not committed, and is no lapse, is of an absent
   media. *)
LEMMA UnresolvedIsAbsent ==
    ASSUME TelegramOK, lapses' \subseteq {"second sender"}, Unresolved
    PROVE  target = 0 /\ ~InTarget
  <1>1. /\ "unseen upload" \notin lapses'
        /\ "unreachable source" \notin lapses'
    OBVIOUS
  <1>2. ~ Lapse("unreachable source", TRUE)
    BY <1>1 DEF Lapse
  <1>3. ~InTarget /\ Lapse("unseen upload", uploaded > 0)
    BY <1>2 DEF Unresolved
  <1>4. ~ (uploaded > 0)
    BY <1>1, <1>3 DEF Lapse
  <1> QED BY <1>3, <1>4, ScanTells

(* While the process is unhurt, every step sends only what is absent. *)
LEMMA OnceStep ==
    ASSUME PostedInv, OnceStill, lapses = {} => OpenOnDisk /\ RequestIsOpen,
           Unhurt', [Next]_vars
    PROVE  OnceStill'
  <1> USE DEF OnceStill
  <1>1. PostedInv'
    BY PostedStep
  <1>2. /\ op \in Ops /\ IntentsOK /\ TelegramOK /\ ControlOK
        /\ stage # "discard"
        /\ lapses = {} => OpenOnDisk /\ RequestIsOpen
    BY DEF PostedInv, TypeOK, ControlOK
  <1>3. /\ target \in Nat
        /\ InTarget => target > 0
        /\ ~InTarget /\ ~ (uploaded > 0) => target = 0
    BY <1>2, ScanTells
  <1>4. ledger \in BOOLEAN /\ known \in BOOLEAN
    BY DEF PostedInv, TypeOK, PostedOK
  <1>5. LedgerIsKnown /\ JournalsOnlyPresent /\ Unhurt'
    BY DEF PostedInv
  <1>6. /\ lapses' \subseteq {"second sender"}
        /\ lapses' = {} \/ crashes' = 0
    BY DEF Unhurt
  <1>7. CASE admit_duplicate
    <2>1. /\ intents' = intents /\ fresh' = fresh
          /\ target' = target /\ flying' = flying
      BY <1>7 DEF admit_duplicate, intentVars, telegramVars, target
    <2> QED
      BY <1>1, <1>2, <1>3, <1>4, <1>5, <1>7, <2>1 DEF admit_duplicate,
         OnceStill, AtMostOnce, LateIsAwaited, AcceptedIsOpen, SendsOnlyAbsent,
         LedgerIsKnown, JournalsOnlyPresent, Requested, postedVars
  <1>8. CASE admit_copy
    <2>1. /\ intents' = intents /\ fresh' = fresh
          /\ target' = target /\ flying' = flying
      BY <1>8 DEF admit_copy, intentVars, telegramVars, target
    <2> QED
      BY <1>1, <1>2, <1>3, <1>4, <1>5, <1>8, <2>1 DEF admit_copy, OnceStill,
         AtMostOnce, LateIsAwaited, AcceptedIsOpen, SendsOnlyAbsent,
         LedgerIsKnown, JournalsOnlyPresent, Requested, postedVars
  <1>9. CASE admit_download
    <2>1. /\ intents' = intents /\ fresh' = fresh
          /\ target' = target /\ flying' = flying
      BY <1>9 DEF admit_download, intentVars, telegramVars, target
    <2> QED
      BY <1>1, <1>2, <1>3, <1>4, <1>5, <1>9, <2>1 DEF admit_download,
         OnceStill, AtMostOnce, LateIsAwaited, AcceptedIsOpen, SendsOnlyAbsent,
         LedgerIsKnown, JournalsOnlyPresent, Requested, postedVars, Queue
  <1>10. CASE meet_again
    <2>1. /\ intents' = intents /\ fresh' = fresh
          /\ target' = target /\ flying' = flying
      BY <1>10 DEF meet_again, intentVars, telegramVars, target
    <2> QED
      BY <1>1, <1>2, <1>3, <1>4, <1>5, <1>10, <2>1 DEF meet_again, OnceStill,
         AtMostOnce, LateIsAwaited, AcceptedIsOpen, SendsOnlyAbsent,
         LedgerIsKnown, JournalsOnlyPresent, Requested, postedVars
  <1>11. CASE begin_reused
    <2>1. intents' = intents /\ target' = target /\ flying' = flying
      BY <1>11 DEF begin_reused, telegramVars, target
    <2> QED
      BY <1>1, <1>2, <1>3, <1>4, <1>5, <1>11, <2>1 DEF begin_reused, OnceStill,
         AtMostOnce, LateIsAwaited, AcceptedIsOpen, SendsOnlyAbsent,
         LedgerIsKnown, JournalsOnlyPresent, Requested, postedVars
  <1>12. CASE begin_persisted
    <2>1. target' = target /\ flying' = flying
      BY <1>12 DEF begin_persisted, telegramVars, target
    <2> QED
      BY <1>1, <1>2, <1>3, <1>4, <1>5, <1>12, <2>1 DEF begin_persisted,
         OnceStill, AtMostOnce, LateIsAwaited, AcceptedIsOpen, SendsOnlyAbsent,
         LedgerIsKnown, JournalsOnlyPresent, Requested, postedVars
  <1>13. CASE begin_failed
    <2>1. target' = target /\ flying' = flying
      BY <1>13 DEF begin_failed, telegramVars, target
    <2> QED
      BY <1>1, <1>2, <1>3, <1>4, <1>5, <1>13, <2>1, RetryStage
         DEF begin_failed, OnceStill, AtMostOnce, LateIsAwaited,
             AcceptedIsOpen,
         SendsOnlyAbsent, LedgerIsKnown, JournalsOnlyPresent, Requested,
         postedVars
  <1>14. CASE send_accepted
    <2>1. target' = 1
      BY <1>2, <1>14, AcceptOne DEF send_accepted, SendsOnlyAbsent
    <2>2. flying' = flying
      BY <1>14 DEF send_accepted
    <2> QED
      BY <1>1, <1>2, <1>3, <1>4, <1>5, <1>14, <2>1, <2>2 DEF send_accepted,
         OnceStill, AtMostOnce, LateIsAwaited, AcceptedIsOpen, SendsOnlyAbsent,
         LedgerIsKnown, JournalsOnlyPresent, Requested, postedVars
  <1>15. CASE send_refused
    <2>1. target' = target /\ flying' = flying
      BY <1>15 DEF send_refused, telegramVars, target
    <2> QED
      BY <1>1, <1>2, <1>3, <1>4, <1>5, <1>15, <2>1, RetryStage
         DEF send_refused, OnceStill, AtMostOnce, LateIsAwaited,
             AcceptedIsOpen,
         SendsOnlyAbsent, LedgerIsKnown, JournalsOnlyPresent, Requested,
         postedVars, Queue, NextCopy
  <1>16. CASE send_next_client
    <2>1. target' = target /\ flying' = flying
      BY <1>16 DEF send_next_client, telegramVars, target
    <2>2. flying = {} /\ target = 0 /\ stage' = "inflight"
      BY <1>16 DEF send_next_client, LateIsAwaited, SendsOnlyAbsent
    <2> QED
      BY <2>1, <2>2
         DEF OnceStill, AtMostOnce, LateIsAwaited, AcceptedIsOpen,
             SendsOnlyAbsent
  <1>17. CASE tg_call_again
    <2>1. ~ (copied' # copied \/ op \in flying')
      <3>1. "repeated call" \notin lapses'
        BY <1>6
      <3> QED BY <1>17, <3>1, LapseHappens DEF tg_call_again
    <2>2. flying = {} /\ target = 0 /\ stage' = "inflight"
      BY <1>17 DEF tg_call_again, LateIsAwaited, SendsOnlyAbsent
    <2>3. op > 0 /\ Lost
      BY <1>17 DEF tg_call_again
    <2>4. target' = target /\ flying' = flying
      BY <1>2, <2>1, <2>3
         DEF Lost, Accept, TelegramOK, telegramVars, target
    <2> QED
      BY <2>2, <2>4
         DEF OnceStill, AtMostOnce, LateIsAwaited, AcceptedIsOpen,
             SendsOnlyAbsent
  <1>18. CASE send_timeout
    <2>1. op \in fresh' /\ intents'[op] \in Open
      BY <1>2, <1>18, UpdateMemory DEF send_timeout, Open
    <2>2. flying = {} /\ target = 0
      BY <1>18 DEF send_timeout, LateIsAwaited, SendsOnlyAbsent
    <2>3. \/ flying' = {} /\ target' \in {0, 1}
          \/ flying' = {op} /\ target' = 0
      BY <1>2, <1>18, <2>2, LostLate DEF send_timeout
    <2>4. stage' \in {"confirm", "queued"}
      BY <1>2, <1>6, <1>18, <2>1, RetryStage DEF send_timeout
    <2> QED
      BY <1>1, <1>2, <1>3, <1>4, <1>5, <1>18, <2>1, <2>2, <2>3, <2>4
         DEF send_timeout, OnceStill, AtMostOnce, LateIsAwaited,
             AcceptedIsOpen,
         SendsOnlyAbsent, LedgerIsKnown, JournalsOnlyPresent, Requested,
         postedVars
  <1>19. CASE record_accepted
    <2>1. intents'[op] \in Open
      BY <1>2, <1>19, UpdateMemory DEF record_accepted, Open
    <2>2. target' = target /\ flying' = flying
      BY <1>19 DEF record_accepted, telegramVars, target
    <2> QED
      BY <1>1, <1>2, <1>3, <1>4, <1>5, <1>19, <2>1, <2>2 DEF record_accepted,
         OnceStill, AtMostOnce, LateIsAwaited, AcceptedIsOpen, SendsOnlyAbsent,
         LedgerIsKnown, JournalsOnlyPresent, Requested, postedVars
  <1>20. CASE copy_with_caption
    <2>1. target' = 0 /\ flying' = flying
      BY <1>2, <1>20 DEF copy_with_caption, target, TelegramOK, AtMostOnce
    <2> QED
      BY <1>1, <1>2, <1>3, <1>4, <1>5, <1>20, <2>1 DEF copy_with_caption,
         OnceStill, AtMostOnce, LateIsAwaited, AcceptedIsOpen, SendsOnlyAbsent,
         LedgerIsKnown, JournalsOnlyPresent, Requested, postedVars, Queue
  <1>21. CASE confirm_found
    <2>1. /\ intents' = intents /\ fresh' = fresh
          /\ target' = target /\ flying' = flying
      BY <1>21 DEF confirm_found, intentVars, telegramVars, target
    <2> QED
      BY <1>1, <1>2, <1>3, <1>4, <1>5, <1>21, <2>1 DEF confirm_found,
         OnceStill, AtMostOnce, LateIsAwaited, AcceptedIsOpen, SendsOnlyAbsent,
         LedgerIsKnown, JournalsOnlyPresent, Requested, postedVars
  <1>22. CASE confirm_missed
    <2>1. /\ intents' = intents /\ fresh' = fresh
          /\ target' = target /\ flying' = flying
      BY <1>22 DEF confirm_missed, intentVars, telegramVars, target
    <2> QED
      BY <1>1, <1>2, <1>3, <1>4, <1>5, <1>22, <2>1 DEF confirm_missed,
         OnceStill, AtMostOnce, LateIsAwaited, AcceptedIsOpen, SendsOnlyAbsent,
         LedgerIsKnown, JournalsOnlyPresent, Requested, postedVars, Queue
  <1>23. CASE journal_append
    <2>1. /\ intents' = intents /\ fresh' = fresh
          /\ target' = target /\ flying' = flying
      BY <1>23 DEF journal_append, intentVars, telegramVars, target
    <2> QED
      BY <1>1, <1>2, <1>3, <1>4, <1>5, <1>23, <2>1 DEF journal_append,
         OnceStill, AtMostOnce, LateIsAwaited, AcceptedIsOpen, SendsOnlyAbsent,
         LedgerIsKnown, JournalsOnlyPresent, Requested, postedVars, Journals
  <1>24. CASE journal_failed
    <2>1. /\ stage = "journal" /\ RetryUpload
          /\ intents' = intents /\ fresh' = fresh
      <3>1. "refused by ledger" \notin lapses'
        BY <1>6
      <3>2. ~ Lapse("refused by ledger", TRUE)
        BY <3>1 DEF Lapse
      <3> QED BY <1>24, <3>2 DEF journal_failed
    <2>2. /\ target' = target /\ flying' = flying
          /\ ledger' = ledger /\ known' = known
      BY <1>24 DEF journal_failed, LedgerFails, telegramVars, target
    <2> QED
      BY <1>1, <1>2, <1>3, <1>4, <1>5, <1>24, <2>1, <2>2, RetryStage
         DEF journal_failed, OnceStill, AtMostOnce, LateIsAwaited,
             AcceptedIsOpen,
         SendsOnlyAbsent, LedgerIsKnown, JournalsOnlyPresent, Requested,
         postedVars
  <1>25. CASE copy_discarded
    BY <1>25 DEF copy_discarded, OnceStill
  <1>26. CASE finalize_posted
    <2>1. target' = target /\ flying' = flying
      BY <1>26 DEF finalize_posted, telegramVars, target
    <2> QED
      BY <1>1, <1>2, <1>3, <1>4, <1>5, <1>26, <2>1 DEF finalize_posted,
         OnceStill, AtMostOnce, LateIsAwaited, AcceptedIsOpen, SendsOnlyAbsent,
         LedgerIsKnown, JournalsOnlyPresent, Requested, postedVars
  <1>27. CASE circuit_closes
    <2>1. /\ intents' = intents /\ fresh' = fresh
          /\ target' = target /\ flying' = flying
      BY <1>27 DEF circuit_closes, intentVars, telegramVars, target
    <2> QED
      BY <1>1, <1>2, <1>3, <1>4, <1>5, <1>27, <2>1 DEF circuit_closes,
         OnceStill, AtMostOnce, LateIsAwaited, AcceptedIsOpen, SendsOnlyAbsent,
         LedgerIsKnown, JournalsOnlyPresent, Requested, postedVars
  <1>28. CASE startup_committed
    <2>1. target' = target /\ flying' = flying
      BY <1>28 DEF startup_committed, telegramVars, target
    <2> QED
      BY <1>1, <1>2, <1>3, <1>4, <1>5, <1>28, <2>1 DEF startup_committed,
         OnceStill, AtMostOnce, LateIsAwaited, AcceptedIsOpen, SendsOnlyAbsent,
         LedgerIsKnown, JournalsOnlyPresent, Requested, postedVars, Commit,
         mark_posted
  <1>29. CASE reconcile_committed
    <2>1. target' = target /\ flying' = flying
      BY <1>29 DEF reconcile_committed, telegramVars, target
    <2> QED
      BY <1>1, <1>2, <1>3, <1>4, <1>5, <1>29, <2>1 DEF reconcile_committed,
         OnceStill, AtMostOnce, LateIsAwaited, AcceptedIsOpen, SendsOnlyAbsent,
         LedgerIsKnown, JournalsOnlyPresent, Requested, postedVars, Commit,
         mark_posted
  <1>30. CASE startup_unresolved
    <2>1. /\ \A o \in Ops : intents'[o] \in Open <=> intents[o] \in Open
          /\ \A o \in fresh : intents[o] \in Open => o \in fresh'
      BY <1>2, <1>30, DropFailedMemory DEF startup_unresolved
    <2>2. target' = target /\ flying' = flying
      BY <1>30 DEF startup_unresolved, telegramVars, target
    <2>3. OpenOps # {} => target = 0
      BY <1>2, <1>6, <1>30, UnresolvedIsAbsent DEF startup_unresolved
    <2> QED
      BY <1>1, <1>2, <1>3, <1>4, <1>5, <1>30, <2>1, <2>2, <2>3
         DEF startup_unresolved, OnceStill, AtMostOnce, LateIsAwaited,
         AcceptedIsOpen, SendsOnlyAbsent, LedgerIsKnown, JournalsOnlyPresent,
         Requested, postedVars, OpenOps
  <1>31. CASE upload_take
    <2>1. /\ \A o \in Ops : intents'[o] \in Open <=> intents[o] \in Open
          /\ \A o \in fresh : intents[o] \in Open => o \in fresh'
      BY <1>2, <1>31, DropFailedMemory DEF upload_take
    <2>2. target' = target /\ flying' = flying
      BY <1>31 DEF upload_take, telegramVars, target
    <2> QED
      BY <1>1, <1>2, <1>3, <1>4, <1>5, <1>31, <2>1, <2>2 DEF upload_take,
         OnceStill, AtMostOnce, LateIsAwaited, AcceptedIsOpen, SendsOnlyAbsent,
         LedgerIsKnown, JournalsOnlyPresent, Requested, postedVars
  <1>32. CASE reconcile_failed
    <2>1. /\ ledger' = ledger /\ known' = known
          /\ intents' = intents /\ fresh' = fresh
          /\ target' = target /\ flying' = flying
      BY <1>32 DEF reconcile_failed, LedgerFails, telegramVars, target
    <2> QED
      BY <1>1, <1>2, <1>3, <1>4, <1>5, <1>32, <2>1, RetryStage
         DEF reconcile_failed, OnceStill, AtMostOnce, LateIsAwaited,
         AcceptedIsOpen, SendsOnlyAbsent, LedgerIsKnown, JournalsOnlyPresent,
         Requested, postedVars, OpenOps
  <1>33. CASE reconcile_grace
    <2>1. /\ intents' = intents /\ fresh' = fresh
          /\ target' = target /\ flying' = flying
      BY <1>33 DEF reconcile_grace, intentVars, telegramVars, target
    <2> QED
      BY <1>1, <1>2, <1>3, <1>4, <1>5, <1>33, <2>1, RetryStage
         DEF reconcile_grace, OnceStill, AtMostOnce, LateIsAwaited,
             AcceptedIsOpen,
         SendsOnlyAbsent, LedgerIsKnown, JournalsOnlyPresent, Requested,
         postedVars, OpenOps
  <1>34. CASE reconcile_proceeds
    <2>1. /\ intents' = intents /\ fresh' = fresh
          /\ target' = target /\ flying' = flying
      BY <1>34 DEF reconcile_proceeds, intentVars, telegramVars, target
    <2>2. OpenOps # {} => target = 0 /\ OpenOps \cap fresh = {}
      BY <1>2, <1>3, <1>6, <1>34, UnresolvedIsAbsent DEF reconcile_proceeds
    <2> QED
      BY <1>1, <1>2, <1>3, <1>4, <1>5, <1>34, <2>1, <2>2
         DEF reconcile_proceeds, OnceStill, AtMostOnce, LateIsAwaited,
         AcceptedIsOpen, SendsOnlyAbsent, LedgerIsKnown, JournalsOnlyPresent,
         Requested, postedVars, OpenOps
  <1>35. CASE upload_duplicate
    <2>1. /\ intents' = intents /\ fresh' = fresh
          /\ target' = target /\ flying' = flying
      BY <1>35 DEF upload_duplicate, intentVars, telegramVars, target
    <2> QED
      BY <1>1, <1>2, <1>3, <1>4, <1>5, <1>35, <2>1 DEF upload_duplicate,
         OnceStill, AtMostOnce, LateIsAwaited, AcceptedIsOpen, SendsOnlyAbsent,
         LedgerIsKnown, JournalsOnlyPresent, Requested, postedVars
  <1>36. CASE upload_send
    <2>1. /\ intents' = intents /\ fresh' = fresh
          /\ target' = target /\ flying' = flying
      BY <1>36 DEF upload_send, intentVars, telegramVars, target
    <2> QED
      BY <1>1, <1>2, <1>3, <1>4, <1>5, <1>36, <2>1 DEF upload_send, OnceStill,
         AtMostOnce, LateIsAwaited, AcceptedIsOpen, SendsOnlyAbsent,
         LedgerIsKnown, JournalsOnlyPresent, Requested, postedVars
  <1>37. CASE Crash
    <2>1. lapses = {} /\ lapses' = {} /\ flying' = {}
      <3>1. crashes' # 0
        <4>1. crashes \in Nat
          BY <1>2 DEF ControlOK
        <4>2. crashes' = crashes + 1
          BY <1>37 DEF Crash
        <4> QED BY <4>1, <4>2
      <3>2. lapses' = {}
        BY <1>6, <3>1
      <3>3. Lapse("undecided at crash", flying' # {})
        BY <1>37 DEF Crash
      <3>4. flying' = {}
        BY <3>2, <3>3, LapseHappens
      <3> QED BY <3>2, <3>3, <3>4 DEF Lapse
    <2>2. \A o \in Ops : intents[o] \in Open => intents'[o] \in Open
      BY <2>1, <1>37 DEF Crash, load_delivery_intents, OpenOnDisk
    <2>3. /\ target' \in Nat /\ target' <= 1
          /\ target' > 0 => target > 0 \/ intents[op] \in Open
      <3>1. CASE stage = "inflight"
        <4>1. flying = {} /\ target = 0
          BY <3>1 DEF LateIsAwaited, SendsOnlyAbsent
        <4>2. intents[op] \in Open
          BY <1>2, <2>1, <3>1 DEF RequestIsOpen, Requested
        <4>3. Lost
          BY <1>37, <3>1 DEF Crash
        <4>4. target' \in {0, 1}
          BY <1>2, <4>1, <4>3, LostLate
        <4> QED BY <4>2, <4>4
      <3>2. CASE stage # "inflight"
        BY <1>3, <1>37, <3>2 DEF Crash, telegramVars, target, AtMostOnce
      <3> QED BY <3>1, <3>2
    <2>4. target' > 0 /\ ~ledger => \E o \in Ops : intents[o] \in Open
      BY <1>2, <2>1, <2>3 DEF AcceptedIsOpen, RequestIsOpen, Requested
    <2> QED
      BY <1>1, <1>2, <1>4, <1>5, <1>37, <2>1, <2>2, <2>3, <2>4
         DEF Crash, replay_media_delivery_ledger, OnceStill, AtMostOnce,
             LateIsAwaited, AcceptedIsOpen, SendsOnlyAbsent
  <1>38. ASSUME NEW o \in Ops, telegram_accepts_late(o) PROVE OnceStill'
    <2>1. /\ target = 0 /\ flying' = {}
          /\ stage \in {"confirm", "queued", "reconcile"}
          /\ \E u \in Ops : intents[u] \in Open
      BY <1>38 DEF telegram_accepts_late, LateIsAwaited
    <2>2. target' = 1
      BY <1>2, <1>38, <2>1, AcceptOne DEF telegram_accepts_late
    <2> QED
      BY <1>1, <1>2, <1>4, <1>38, <2>1, <2>2
         DEF telegram_accepts_late, intentVars, OnceStill, AtMostOnce,
             LateIsAwaited, AcceptedIsOpen, SendsOnlyAbsent
  <1>39. ASSUME NEW o \in Ops, grace_over(o) PROVE OnceStill'
    <2>1. target' = target /\ flying' = flying
      BY <1>39 DEF grace_over, telegramVars, target
    <2> QED
      BY <1>1, <1>2, <1>3, <1>4, <1>39, <2>1
         DEF grace_over, postedVars, OnceStill, AtMostOnce, LateIsAwaited,
             AcceptedIsOpen, SendsOnlyAbsent
  <1>40. CASE UNCHANGED vars
    BY <1>1, <1>40
       DEF vars, intentVars, telegramVars, postedVars, target, OnceStill,
           AtMostOnce, LateIsAwaited, AcceptedIsOpen, SendsOnlyAbsent
  <1> QED
    BY <1>7, <1>8, <1>9, <1>10, <1>11, <1>12, <1>13, <1>14, <1>15, <1>16,
       <1>17, <1>18, <1>19, <1>20, <1>21, <1>22, <1>23, <1>24, <1>25, <1>26,
       <1>27, <1>28, <1>29, <1>30, <1>31, <1>32, <1>33, <1>34, <1>35, <1>36,
       <1>37, <1>38, <1>39, <1>40 DEF Next, Step

LEMMA OnceInit == Init => IInv
  <1> SUFFICES ASSUME Init PROVE IInv
    OBVIOUS
  <1>1. PostedInv
    BY PostedInit
  <1>2. OpenOnDisk /\ RequestIsOpen
    BY DEF Init, OpenOnDisk, RequestIsOpen, Requested, NoIntents, Open
  <1>3. OnceStill
    BY DEF Init, OnceStill, AtMostOnce, LateIsAwaited, AcceptedIsOpen,
           SendsOnlyAbsent, target
  <1> QED BY <1>1, <1>2, <1>3 DEF IInv

LEMMA Once == Spec => []IInv
  <1>1. Init => IInv
    BY OnceInit
  <1>2. IInv /\ [Next]_vars => IInv'
    <2> SUFFICES ASSUME IInv, [Next]_vars PROVE IInv'
      OBVIOUS
    <2>1. PostedInv /\ TypeOK /\ ControlOK
      BY DEF IInv, PostedInv, TypeOK
    <2>2. PostedInv'
      BY <2>1, PostedStep
    <2>3. Unhurt' => OnceStill'
      BY <2>1, UnhurtBefore, OnceStep DEF IInv
    <2>4. lapses' = {} => (OpenOnDisk /\ RequestIsOpen)'
      <3>1. lapses' = {} => lapses = {}
        BY <2>1, PastGrows
      <3> QED BY <2>1, <3>1, OpenStep DEF IInv
    <2> QED BY <2>2, <2>3, <2>4 DEF IInv
  <1> QED BY <1>1, <1>2, PTL DEF Spec

(* For every setting of the constants, so with every number of copy requests,
   repeated calls and crashes, with a second sender and each of the faults: a
   media that is in the target twice, or in no ledger and without an open
   intent on disk, has met one of the events of "lapses"; and the second sender
   alone sends nothing twice while the process lives. *)
THEOREM OnlyLapsesRepeat == Spec => []OnlyLapsesHurt
  <1>1. IInv => OnlyLapsesHurt
    <2> SUFFICES ASSUME IInv PROVE OnlyLapsesHurt
      OBVIOUS
    <2>1. lapses = {} => AtMostOnce /\ AcceptedIsTraceable
      <3> SUFFICES ASSUME lapses = {} PROVE AtMostOnce /\ AcceptedIsTraceable
        OBVIOUS
      <3>1. OnceStill /\ OpenOnDisk /\ RequestIsOpen /\ op \in Ops
        BY DEF IInv, Unhurt, PostedInv, TypeOK, ControlOK
      <3> QED
        BY <3>1
           DEF OnceStill, AcceptedIsOpen, OpenOnDisk, RequestIsOpen, Requested,
               AcceptedIsTraceable
    <2>2. lapses = {"second sender"} /\ crashes = 0 => AtMostOnce
      BY DEF IInv, Unhurt, OnceStill
    <2> QED BY <2>1, <2>2 DEF OnlyLapsesHurt
  <1> QED BY <1>1, Once, PTL

-----------------------------------------------------------------------------
(* What the events need *)

LapsesHaveCauses ==
    /\ "repeated call" \in lapses => CallTries > 1
    /\ "second sender" \in lapses => SecondSender
    /\ "refused by ledger" \in lapses => LedgerFaults \/ CircuitFaults
    /\ "unreachable source" \in lapses => SourceFaults
    /\ "unseen upload" \in lapses => ~UidKept
    /\ "job closed" \in lapses => ~Renewable
    /\ "undecided at crash" \in lapses => LateAccept

CausesInv ==
    /\ TypeOK
    /\ circuit => CircuitFaults
    /\ flying # {} => LateAccept
    /\ LapsesHaveCauses

(* An I/O error opens the circuit, nothing else does. *)
LEMMA CircuitOpens ==
    ASSUME CausesInv, WriteFails \/ LedgerFails
    PROVE  circuit' => CircuitFaults
  BY Zenon DEF CausesInv, WriteFails, LedgerFails

LEMMA PersistCircuit ==
    ASSUME CausesInv, NEW i, NEW f, Persist(i, f)
    PROVE  circuit' => CircuitFaults
  BY CircuitOpens, Zenon DEF CausesInv, Persist

LEMMA DropFailedCircuit ==
    ASSUME CausesInv, DropFailed
    PROVE  circuit' => CircuitFaults
  BY PersistCircuit, Zenon DEF CausesInv, DropFailed, intentVars

(* A step leaves the circuit open and a request with Telegram only for the
   reasons the constants give. *)
LEMMA FaultsStep ==
    ASSUME CausesInv, [Next]_vars
    PROVE  /\ circuit' => CircuitFaults
           /\ flying' # {} => LateAccept
  <1>1. CASE \/ admit_duplicate \/ admit_copy \/ admit_download \/ meet_again
             \/ begin_reused \/ begin_persisted \/ send_accepted
             \/ confirm_found \/ confirm_missed \/ journal_append
    BY <1>1 DEF CausesInv, admit_duplicate, admit_copy, admit_download,
       meet_again, begin_reused, begin_persisted, send_accepted, confirm_found,
       confirm_missed, journal_append, intentVars, telegramVars
  <1>2. CASE \/ circuit_closes \/ reconcile_grace \/ reconcile_proceeds
             \/ upload_duplicate \/ upload_send
    <2>1. (circuit' => circuit) /\ flying' = flying
      BY <1>2
         DEF circuit_closes, reconcile_grace, reconcile_proceeds,
             upload_duplicate, upload_send, intentVars, telegramVars
    <2> QED BY <2>1 DEF CausesInv
  <1>3. CASE \/ begin_failed \/ journal_failed \/ reconcile_failed
    <2>1. WriteFails \/ LedgerFails \/ (circuit' => circuit)
      BY <1>3 DEF begin_failed, journal_failed, reconcile_failed
    <2>2. circuit' => CircuitFaults
      BY <2>1, CircuitOpens DEF CausesInv
    <2>3. flying' = flying
      BY <1>3
         DEF begin_failed, journal_failed, reconcile_failed, telegramVars
    <2> QED BY <2>2, <2>3 DEF CausesInv
  <1>4. CASE \/ send_refused \/ send_next_client \/ record_accepted
             \/ copy_with_caption \/ copy_discarded
    <2>1. (\E s \in Statuses : update_delivery_intent(s)) /\ flying' = flying
      BY <1>4
         DEF send_refused, send_next_client, record_accepted,
             copy_with_caption, copy_discarded, telegramVars, Statuses, Open
    <2>2. circuit' => CircuitFaults
      BY <2>1, PersistCircuit DEF update_delivery_intent
    <2>3. flying' = flying
      BY <2>1
    <2> QED BY <2>2, <2>3 DEF CausesInv
  <1>5. CASE \/ tg_call_again \/ send_timeout
    <2>1. update_delivery_intent("ambiguous") \/ (circuit' => circuit)
      BY <1>5 DEF tg_call_again, send_timeout, intentVars
    <2>2. circuit' => CircuitFaults
      BY <2>1, PersistCircuit DEF update_delivery_intent, CausesInv
    <2>3. flying' # {} => LateAccept
      BY <1>5
         DEF tg_call_again, send_timeout, Lost, telegramVars, CausesInv
    <2> QED BY <2>2, <2>3
  <1>6. CASE \/ finalize_posted \/ startup_committed \/ reconcile_committed
    BY <1>6, PersistCircuit DEF CausesInv, finalize_posted, startup_committed,
       reconcile_committed, Commit, complete_delivery_intents_for_job,
       telegramVars
  <1>7. CASE \/ startup_unresolved \/ upload_take
    BY <1>7, DropFailedCircuit DEF CausesInv, startup_unresolved, upload_take,
       telegramVars
  <1>8. CASE Crash
    BY <1>8 DEF CausesInv, Crash, Lost, telegramVars
  <1>9. ASSUME NEW o \in Ops, telegram_accepts_late(o) \/ grace_over(o)
        PROVE  (circuit' => CircuitFaults) /\ (flying' # {} => LateAccept)
    BY <1>9
       DEF CausesInv, telegram_accepts_late, grace_over, intentVars,
           telegramVars
  <1>10. CASE UNCHANGED vars
    BY <1>10 DEF CausesInv, vars, intentVars, telegramVars
  <1> QED
    BY <1>1, <1>2, <1>3, <1>4, <1>5, <1>6, <1>7, <1>8, <1>9, <1>10 DEF Next,
       Step

(* Every event is named when its cause is there. *)
LEMMA CausesStep ==
    ASSUME CausesInv, [Next]_vars
    PROVE  LapsesHaveCauses'
  <1>1. LapsesHaveCauses /\ TelegramOK /\ ControlOK /\ CallTries \in Nat
    BY CallsAtLeastOne DEF CausesInv, TypeOK
  <1>2. CASE UNCHANGED lapses
    BY <1>1, <1>2 DEF LapsesHaveCauses
  <1>3. ASSUME RetryUpload
        PROVE  \/ UNCHANGED lapses
               \/ ~Renewable /\ lapses' \subseteq lapses \cup {"job closed"}
    BY <1>3 DEF RetryUpload, Lapse
  <1>4. ASSUME ~Renewable, lapses' \subseteq lapses \cup {"job closed"}
        PROVE  LapsesHaveCauses'
    BY <1>1, <1>4 DEF LapsesHaveCauses
  <1>5. CASE \/ begin_failed \/ send_refused \/ send_timeout
             \/ reconcile_failed \/ reconcile_grace
    BY <1>2, <1>3, <1>4, <1>5
       DEF begin_failed, send_refused, send_timeout, reconcile_failed,
           reconcile_grace
  <1>6. CASE journal_failed
    <2>1. CASE stage = "journal" /\ op = 0 /\ RetryUpload
      BY <1>2, <1>3, <1>4, <2>1
    <2>2. CASE lapses' = lapses \cup {"refused by ledger"}
      <3>1. LedgerFaults \/ CircuitFaults
        BY <1>6 DEF journal_failed, LedgerFails, CausesInv
      <3> QED BY <1>1, <2>2, <3>1 DEF LapsesHaveCauses
    <2> QED BY <1>6, <2>1, <2>2 DEF journal_failed, Lapse
  <1>7. CASE send_next_client
    BY <1>1, <1>7 DEF send_next_client, Lapse, LapsesHaveCauses
  <1>8. CASE tg_call_again
    <2>1. CallTries > 1
      <3>1. tries < CallTries
        BY <1>8 DEF tg_call_again
      <3> QED BY <1>1, <3>1 DEF ControlOK
    <2>2. lapses' \subseteq lapses \cup {"repeated call"}
      BY <1>8 DEF tg_call_again, Lapse
    <2> QED BY <1>1, <2>1, <2>2 DEF LapsesHaveCauses
  <1>9. CASE Unresolved
    <2>1. CASE lapses' = lapses \cup {"unseen upload"} /\ uploaded > 0
                 /\ ~InTarget
      <3>1. ~UidKept
        BY <2>1 DEF InTarget
      <3> QED BY <1>1, <2>1, <3>1 DEF LapsesHaveCauses
    <2>2. CASE lapses' = lapses \cup {"unreachable source"} /\ SourceFaults
      BY <1>1, <2>2 DEF LapsesHaveCauses
    <2> QED BY <1>2, <1>9, <2>1, <2>2 DEF Unresolved, Lapse
  <1>10. CASE startup_unresolved \/ reconcile_proceeds
    BY <1>2, <1>9, <1>10 DEF startup_unresolved, reconcile_proceeds
  <1>11. CASE Crash
    <2>1. CASE lapses' = lapses \cup {"undecided at crash"} /\ flying' # {}
      BY <1>1, <2>1, FaultsStep DEF LapsesHaveCauses
    <2> QED BY <1>2, <1>11, <2>1 DEF Crash, Lapse
  <1>12. CASE \/ admit_duplicate \/ admit_copy \/ admit_download
              \/ meet_again \/ begin_reused \/ begin_persisted
              \/ send_accepted \/ record_accepted \/ copy_with_caption
              \/ confirm_found \/ confirm_missed \/ journal_append
              \/ copy_discarded \/ finalize_posted \/ circuit_closes
    BY <1>2, <1>12
       DEF admit_duplicate, admit_copy, admit_download, meet_again,
           begin_reused, begin_persisted, send_accepted, record_accepted,
           copy_with_caption, confirm_found, confirm_missed, journal_append,
           copy_discarded, finalize_posted, circuit_closes, pastVars
  <1>13. CASE \/ startup_committed \/ reconcile_committed \/ upload_take
              \/ upload_duplicate \/ upload_send
    BY <1>2, <1>13
       DEF startup_committed, reconcile_committed, upload_take,
           upload_duplicate, upload_send, pastVars
  <1>14. ASSUME NEW o \in Ops, telegram_accepts_late(o) \/ grace_over(o)
         PROVE  LapsesHaveCauses'
    BY <1>2, <1>14 DEF telegram_accepts_late, grace_over, pastVars
  <1>15. CASE UNCHANGED vars
    BY <1>2, <1>15 DEF vars, pastVars
  <1> QED
    BY <1>5, <1>6, <1>7, <1>8, <1>10, <1>11, <1>12, <1>13, <1>14, <1>15
       DEF Next, Step

(* For every setting of the constants: an event of "lapses" happens only where
   the code's settings and the faults of its surroundings let it.  A run that
   excludes them all, as that of the first two properties does, has the media
   posted once and traceable. *)
THEOREM LapsesNeedFaults == Spec => []LapsesHaveCauses
  <1>1. Init => CausesInv
    BY TypeInit DEF Init, CausesInv, LapsesHaveCauses
  <1>2. CausesInv /\ [Next]_vars => CausesInv'
    BY TypeStep, FaultsStep, CausesStep DEF CausesInv
  <1>3. CausesInv => LapsesHaveCauses
    BY DEF CausesInv
  <1> QED BY <1>1, <1>2, <1>3, PTL DEF Spec
=============================================================================
