------------------------------ MODULE Delivery ------------------------------
(***************************************************************************)
(* The delivery of one media across Telegram's acceptance boundary: the    *)
(* intent persisted before a send, the answer that may be lost, the ledger *)
(* that makes an accepted delivery durable, and the reconciliation of      *)
(* intents at startup and before every upload.                             *)
(*                                                                         *)
(* The media is met by a producer, copied (one try per client and mode) or *)
(* else queued, and uploaded by the upload worker from its prepared file.  *)
(* Operation 0 is the upload, operation i > 0 the i-th copyMessage try.    *)
(* Queues, files and competing jobs are the subject of MediaPipeline.      *)
(* The history variable "lapses" holds what has happened of the events     *)
(* after which the code may post a media again, or forget that it did.     *)
(***************************************************************************)
EXTENDS Naturals

CONSTANTS
    Copies,         \* copyMessage requests: clients times protected/plain
    CallTries,      \* TELEGRAM_CALL_RETRIES: tries of tg_call for one request
    UidKept,        \* an uploaded media keeps the uid of its source
    SecondSender,   \* the bot account uploads what the userbot may not
    Renewable,      \* source_job_retry_forever holds and the scheduler admits
    StorageFaults,  \* a write of the intents file may fail
    LedgerFaults,   \* an append to the delivery ledger may fail
    CircuitFaults,  \* a failed write may be an I/O error that opens the circuit
    ScanFaults,     \* a scan of the target channel may fail
    SourceFaults,   \* the source may be unreachable during reconciliation
    LateAccept,     \* Telegram may accept a request after its timeout
    MaxTarget,      \* bound on accepted requests
    MaxCrashes      \* bound on restarts

ASSUME DeliveryAssumption ==
    /\ Copies \in Nat
    /\ CallTries \in Nat \ {0}
    /\ UidKept \in BOOLEAN
    /\ SecondSender \in BOOLEAN
    /\ Renewable \in BOOLEAN
    /\ CircuitFaults \in BOOLEAN
    /\ StorageFaults \in BOOLEAN
    /\ LedgerFaults \in BOOLEAN
    /\ ScanFaults \in BOOLEAN
    /\ SourceFaults \in BOOLEAN
    /\ LateAccept \in BOOLEAN
    /\ MaxTarget \in Nat
    /\ MaxCrashes \in Nat

VARIABLES
    stage,          \* where the media is, see Stages
    op,             \* the operation being tried
    tries,          \* tries of tg_call for op
    intents,        \* DELIVERY_INTENTS: status by operation
    disk,           \* the intents file
    fresh,          \* operations whose intent is within its grace time
    freshDisk,      \* the same for the updated_at on disk
    flying,         \* timed-out requests that Telegram may still accept
    copied,         \* copies of the media in the target channel
    uploaded,       \* uploads of the media in the target channel
    captioned,      \* Telegram leaves a caption on a copy of this media
    ledger,         \* the media is in the fsynced delivery ledger
    known,          \* the media is in the duplicate index
    recorded,       \* the job has a recoverable queue record
    circuit,        \* the persistence circuit is open
    crashes,
    lapses          \* see Lapses

intentVars == <<intents, disk, fresh, freshDisk, circuit>>
telegramVars == <<flying, copied, uploaded, captioned>>
postedVars == <<ledger, known>>
pastVars == <<crashes, lapses>>
vars ==
    <<stage, op, tries, intentVars, telegramVars, postedVars, recorded,
      pastVars>>

Ops == 0..Copies

Open == {"pending", "accepted", "ambiguous"}

Statuses == Open \cup {"none", "failed"}

Stages ==
    {"met",        \* seen in its channel, in no queue
     "begin",      \* the intent of op is about to be prepared
     "inflight",   \* the request of op is with Telegram
     "accepted",   \* the call returned the sent message
     "journal",    \* waiting for the critical writer
     "discard",    \* the ledger refused an accepted copy
     "confirm",    \* an ambiguous copy is looked up in the target
     "confirmed",  \* and was found
     "journaled",  \* in the ledger, not yet in memory
     "queued",     \* recorded, on its way to the upload worker
     "reconcile",  \* the upload worker resolves the job's open intents
     "send",       \* the upload worker looks the media up, then sends
     "done",
     "boot"}       \* restarted, reconciliation of main not done yet

Lapses ==
    {"repeated call",       \* tg_call repeats what Telegram may have taken
     "second sender",       \* sends under an intent marked failed
     "refused by ledger",   \* an accepted copy cannot be journaled
     "unreachable source",  \* what the target holds is not committed
     "unseen upload",       \* the target is searched for another uid
     "job closed",          \* given up, its open intents stay
     "undecided at crash"}  \* Telegram may accept after the restart

OpenOps == {o \in Ops : intents[o] \in Open}

NoIntents == [o \in Ops |-> "none"]

target == copied + uploaded

(* What a scan of the target for the source's media uid can find. *)
InTarget == copied > 0 \/ (UidKept /\ uploaded > 0)

Lapse(cause, happens) ==
    lapses' = IF happens THEN lapses \cup {cause} ELSE lapses

(* Telegram accepts a request of operation o. *)
Accept(o) ==
    /\ target < MaxTarget
    /\ copied' = IF o = 0 THEN copied ELSE copied + 1
    /\ uploaded' = IF o = 0 THEN uploaded + 1 ELSE uploaded
    /\ UNCHANGED captioned

Init ==
    /\ stage = "met" /\ op = 0 /\ tries = 1
    /\ intents = NoIntents /\ disk = NoIntents
    /\ fresh = {} /\ freshDisk = {}
    /\ flying = {} /\ copied = 0 /\ uploaded = 0 /\ captioned \in BOOLEAN
    /\ ledger = FALSE /\ known = FALSE
    /\ recorded = FALSE /\ circuit = FALSE /\ crashes = 0
    /\ lapses = {}

-----------------------------------------------------------------------------
(* Intents *)

(* A failed write leaves the file as it was; record_persistence_io_failure
   opens the circuit, on which every write fails until it closes. *)
WriteFails ==
    \/ circuit /\ UNCHANGED circuit
    \/ StorageFaults /\ circuit' \in {circuit, circuit \/ CircuitFaults}

(* persist_delivery_intents without "required": the snapshot is written, or
   the failure is only logged. *)
Persist(newIntents, newFresh) ==
    /\ intents' = newIntents
    /\ fresh' = newFresh
    /\ \/ /\ ~circuit
          /\ disk' = newIntents
          /\ freshDisk' = newFresh
          /\ UNCHANGED circuit
       \/ WriteFails /\ UNCHANGED <<disk, freshDisk>>

update_delivery_intent(status) ==
    Persist([intents EXCEPT ![op] = status], fresh \cup {op})

complete_delivery_intents_for_job == Persist(NoIntents, {})

Queue ==
    /\ stage' = "queued"
    /\ recorded' = TRUE

(* An upload that failed is retried; a job that is not renewable is closed when
   its attempts are spent. *)
RetryUpload ==
    \/ Queue /\ UNCHANGED lapses
    \/ /\ ~Renewable
       /\ stage' = "met" /\ recorded' = FALSE
       /\ Lapse("job closed", OpenOps' # {})

(* A mutant: one request too many. *)
MutantNextCopyUnbounded ==
    \/ /\ op <= Copies
       /\ op' = op + 1
       /\ stage' = "begin"
       /\ UNCHANGED recorded
    \/ Queue /\ op' = 0

(* The next copyMessage request, or the download path when none is left or the
   source turned out to be restricted. *)
NextCopy ==
    \/ /\ op < Copies
       /\ op' = op + 1
       /\ stage' = "begin"
       /\ UNCHANGED recorded
    \/ Queue /\ op' = 0

-----------------------------------------------------------------------------
(* Admission *)

admit_duplicate ==
    /\ stage = "met"
    /\ known
    /\ stage' = "done"
    /\ UNCHANGED <<op, tries, intentVars, telegramVars, postedVars, recorded,
                   pastVars>>

admit_copy ==
    /\ stage = "met"
    /\ ~known
    /\ Copies > 0
    /\ stage' = "begin"
    /\ op' = 1
    /\ UNCHANGED <<tries, intentVars, telegramVars, postedVars, recorded,
                   pastVars>>

(* Copying is restricted or does not apply to the media. *)
admit_download ==
    /\ stage = "met"
    /\ ~known
    /\ Queue
    /\ UNCHANGED <<op, tries, intentVars, telegramVars, postedVars, pastVars>>

(* A later scan of the channel meets a finished media again. *)
meet_again ==
    /\ stage = "done"
    /\ stage' = "met"
    /\ UNCHANGED <<op, tries, intentVars, telegramVars, postedVars, recorded,
                   pastVars>>

-----------------------------------------------------------------------------
(* One send *)

(* begin_delivery_intent: an open intent is used again, without a write. *)
begin_reused ==
    /\ stage = "begin"
    /\ intents[op] \in Open
    /\ fresh' = fresh \cup {op}
    /\ stage' = "inflight"
    /\ tries' = 1
    /\ UNCHANGED <<op, intents, disk, freshDisk, circuit, telegramVars,
                   postedVars, recorded, pastVars>>

(* A mutant: the write before the send is not required. *)
MutantBeginNotRequired ==
    /\ stage = "begin"
    /\ intents[op] \notin Open
    /\ Persist([intents EXCEPT ![op] = "pending"], fresh \cup {op})
    /\ stage' = "inflight"
    /\ tries' = 1
    /\ UNCHANGED <<op, telegramVars, postedVars, recorded, pastVars>>

begin_persisted ==
    /\ stage = "begin"
    /\ intents[op] \notin Open
    /\ ~circuit
    /\ intents' = [intents EXCEPT ![op] = "pending"]
    /\ fresh' = fresh \cup {op}
    /\ disk' = intents'
    /\ freshDisk' = fresh'
    /\ stage' = "inflight"
    /\ tries' = 1
    /\ UNCHANGED <<op, circuit, telegramVars, postedVars, recorded, pastVars>>

(* The required write failed: no send.  A producer gives up, the upload worker
   retries. *)
begin_failed ==
    /\ stage = "begin"
    /\ intents[op] \notin Open
    /\ WriteFails
    /\ intents' = [intents EXCEPT ![op] = "none"]
    /\ \/ op = 0 /\ RetryUpload
       \/ op > 0 /\ stage' = "met" /\ UNCHANGED <<recorded, lapses>>
    /\ op' = 0
    /\ UNCHANGED <<tries, disk, fresh, freshDisk, telegramVars, postedVars,
                   crashes>>

send_accepted ==
    /\ stage = "inflight"
    /\ Accept(op)
    /\ stage' = "accepted"
    /\ UNCHANGED <<op, tries, intentVars, flying, postedVars, recorded,
                   pastVars>>

(* Telegram refuses the request. *)
send_refused ==
    /\ stage = "inflight"
    /\ update_delivery_intent("failed")
    /\ \/ op > 0 /\ NextCopy /\ UNCHANGED lapses
       \/ op = 0 /\ RetryUpload /\ UNCHANGED op
    /\ UNCHANGED <<tries, telegramVars, postedVars, crashes>>

(* target_send_*: the userbot may not write to the target, the bot account is
   tried next, under the intent that has just been marked failed. *)
send_next_client ==
    /\ stage = "inflight"
    /\ SecondSender
    /\ op = 0
    /\ intents[op] \in Open
    /\ update_delivery_intent("failed")
    /\ Lapse("second sender", TRUE)
    /\ UNCHANGED <<stage, op, tries, telegramVars, postedVars, recorded,
                   crashes>>

(* The answer is lost: Telegram took the request, will take it, or never. *)
Lost ==
    \/ Accept(op) /\ UNCHANGED flying
    \/ /\ LateAccept
       /\ flying' = flying \cup {op}
       /\ UNCHANGED <<copied, uploaded, captioned>>
    \/ UNCHANGED telegramVars

(* tg_call repeats a copyMessage request that timed out or met a temporary
   network error, without a look at the target. *)
tg_call_again ==
    /\ stage = "inflight"
    /\ op > 0
    /\ tries < CallTries
    /\ Lost
    /\ tries' = tries + 1
    /\ Lapse("repeated call", copied' # copied \/ op \in flying')
    /\ UNCHANGED <<stage, op, intentVars, postedVars, recorded, crashes>>

send_timeout ==
    /\ stage = "inflight"
    /\ op > 0 => tries = CallTries
    /\ Lost
    /\ update_delivery_intent("ambiguous")
    /\ \/ op > 0 /\ stage' = "confirm" /\ UNCHANGED <<recorded, lapses>>
       \/ op = 0 /\ RetryUpload
    /\ UNCHANGED <<op, tries, postedVars, crashes>>

record_accepted ==
    /\ stage = "accepted"
    /\ update_delivery_intent("accepted")
    /\ stage' = "journal"
    /\ UNCHANGED <<op, tries, telegramVars, postedVars, recorded, pastVars>>

(* finalize_copy finds a caption on the copy: the copy is deleted and the
   media uploaded instead. *)
copy_with_caption ==
    /\ stage \in {"journal", "confirmed"}
    /\ op > 0
    /\ captioned
    /\ copied > 0
    /\ copied' = copied - 1
    /\ update_delivery_intent("failed")
    /\ Queue
    /\ op' = 0
    /\ UNCHANGED <<tries, flying, uploaded, captioned, postedVars, pastVars>>

(* confirm_recent_target_media_item *)
confirm_found ==
    /\ stage = "confirm"
    /\ InTarget
    /\ stage' = "confirmed"
    /\ UNCHANGED <<op, tries, intentVars, telegramVars, postedVars, recorded,
                   pastVars>>

(* A mutant: a copy that was not found is repeated at once. *)
MutantMissedRepeats ==
    /\ stage = "confirm"
    /\ ~InTarget \/ ScanFaults
    /\ NextCopy
    /\ UNCHANGED <<tries, intentVars, telegramVars, postedVars, pastVars>>

confirm_missed ==
    /\ stage = "confirm"
    /\ ~InTarget \/ ScanFaults
    /\ Queue
    /\ op' = 0
    /\ UNCHANGED <<tries, intentVars, telegramVars, postedVars, pastVars>>

-----------------------------------------------------------------------------
(* The critical writer *)

(* finalize_copy journals a copy without a caption, or the upload that the
   confirmation found. *)
Journals ==
    \/ stage = "journal" /\ (op = 0 \/ ~captioned)
    \/ stage = "confirmed" /\ (~captioned \/ uploaded > 0)

(* The batch is fsynced to the ledger, then mirrored to SQLite. *)
journal_append ==
    /\ Journals
    /\ ~circuit
    /\ ledger' = TRUE
    /\ stage' = "journaled"
    /\ UNCHANGED <<op, tries, intentVars, telegramVars, known, recorded,
                   pastVars>>

(* The append fails and leaves no line; an I/O error opens the circuit. *)
LedgerFails ==
    /\ \/ circuit /\ UNCHANGED circuit
       \/ LedgerFaults /\ circuit' \in {circuit, circuit \/ CircuitFaults}
    /\ UNCHANGED ledger

(* In the copy loop the copy's own handler takes the error; from a confirmed
   copy it reaches the producer; the upload worker retries the job. *)
journal_failed ==
    /\ Journals
    /\ LedgerFails
    /\ UNCHANGED <<op, tries, intents, disk, fresh, freshDisk, telegramVars,
                   known, crashes>>
    /\ \/ /\ op > 0
          /\ stage' = IF stage = "journal" THEN "discard" ELSE "met"
          /\ Lapse("refused by ledger", TRUE)
          /\ UNCHANGED recorded
       \/ stage = "journal" /\ op = 0 /\ RetryUpload

(* The handler takes the error for a refusal and tries the next client. *)
copy_discarded ==
    /\ stage = "discard"
    /\ update_delivery_intent("failed")
    /\ NextCopy
    /\ UNCHANGED <<tries, telegramVars, postedVars, pastVars>>

(* _finalize_mark_posted_memory, then the job's intents and its records. *)
finalize_posted ==
    /\ stage = "journaled"
    /\ known' = TRUE
    /\ complete_delivery_intents_for_job
    /\ recorded' = FALSE
    /\ stage' = "done"
    /\ op' = 0
    /\ UNCHANGED <<tries, telegramVars, ledger, pastVars>>

circuit_closes ==
    /\ circuit
    /\ circuit' = FALSE
    /\ UNCHANGED <<stage, op, tries, intents, disk, fresh, freshDisk,
                   telegramVars, postedVars, recorded, pastVars>>

-----------------------------------------------------------------------------
(* Reconciliation and the upload worker *)

(* mark_posted: the ledger, then the duplicate index. *)
mark_posted ==
    /\ ~circuit
    /\ ledger' = TRUE
    /\ known' = TRUE

(* A mutant: open intents are committed without the target. *)
MutantCommitUnseen ==
    /\ OpenOps # {}
    /\ mark_posted
    /\ complete_delivery_intents_for_job

(* recover_delivery_intents_after_restart.  Failed intents are dropped; open
   ones are committed when the target holds the media and the source message
   can be fetched. *)
Commit ==
    /\ OpenOps # {}
    /\ InTarget
    /\ mark_posted
    /\ complete_delivery_intents_for_job

DropFailed ==
    IF \E o \in Ops : intents[o] = "failed"
    THEN Persist([o \in Ops |-> IF intents[o] = "failed" THEN "none"
                                ELSE intents[o]], fresh \cap OpenOps)
    ELSE UNCHANGED intentVars

(* The target holds no media of the uid that is searched, or the source of
   the found one cannot be fetched. *)
Unresolved ==
    /\ OpenOps # {}
    /\ \/ ~InTarget /\ Lapse("unseen upload", uploaded > 0)
       \/ InTarget /\ SourceFaults /\ Lapse("unreachable source", TRUE)

startup_committed ==
    /\ stage = "boot"
    /\ Commit
    /\ stage' = IF recorded THEN "queued" ELSE "met"
    /\ UNCHANGED <<op, tries, telegramVars, recorded, pastVars>>

startup_unresolved ==
    /\ stage = "boot"
    /\ \/ OpenOps = {} /\ UNCHANGED lapses
       \/ Unresolved
    /\ DropFailed
    /\ stage' = IF recorded THEN "queued" ELSE "met"
    /\ UNCHANGED <<op, tries, telegramVars, postedVars, recorded, crashes>>

(* The worker takes the job up and drops its failed intents. *)
upload_take ==
    /\ stage = "queued"
    /\ DropFailed
    /\ stage' = "reconcile"
    /\ UNCHANGED <<op, tries, telegramVars, postedVars, recorded, pastVars>>

(* The scan raises, or the ledger refuses the commit: the job is retried. *)
reconcile_failed ==
    /\ stage = "reconcile"
    /\ OpenOps # {}
    /\ \/ ScanFaults /\ UNCHANGED <<circuit, ledger>>
       \/ InTarget /\ LedgerFails
    /\ UNCHANGED <<op, tries, intents, disk, fresh, freshDisk, telegramVars,
                   known, crashes>>
    /\ RetryUpload

(* A mutant: what was found is left for the next pass. *)
MutantCommitDeferred ==
    /\ stage = "reconcile"
    /\ OpenOps # {}
    /\ InTarget
    /\ Queue
    /\ UNCHANGED <<op, tries, intentVars, telegramVars, postedVars, pastVars>>

reconcile_committed ==
    /\ stage = "reconcile"
    /\ Commit
    /\ stage' = "send"
    /\ UNCHANGED <<op, tries, telegramVars, recorded, pastVars>>

(* Not in the target and within the grace time: wait. *)
reconcile_grace ==
    /\ stage = "reconcile"
    /\ ~InTarget
    /\ OpenOps \cap fresh # {}
    /\ UNCHANGED <<op, tries, intentVars, telegramVars, postedVars, crashes>>
    /\ RetryUpload

(* A mutant: an absent media is sent again without waiting. *)
MutantNoGrace ==
    /\ stage = "reconcile"
    /\ OpenOps = {} \/ ~InTarget
    /\ stage' = "send"
    /\ UNCHANGED <<op, tries, intentVars, telegramVars, postedVars, recorded,
                   pastVars>>

(* Nothing open, the grace time is over, or the media is in the target and its
   source could not be fetched: only an absent media has a retry_after. *)
reconcile_proceeds ==
    /\ stage = "reconcile"
    /\ \/ OpenOps = {} /\ UNCHANGED lapses
       \/ Unresolved /\ (InTarget \/ OpenOps \cap fresh = {})
    /\ stage' = "send"
    /\ UNCHANGED <<op, tries, intentVars, telegramVars, postedVars, recorded,
                   crashes>>

upload_duplicate ==
    /\ stage = "send"
    /\ known
    /\ stage' = "done"
    /\ recorded' = FALSE
    /\ UNCHANGED <<op, tries, intentVars, telegramVars, postedVars, pastVars>>

upload_send ==
    /\ stage = "send"
    /\ ~known
    /\ stage' = "begin"
    /\ op' = 0
    /\ UNCHANGED <<tries, intentVars, telegramVars, postedVars, recorded,
                   pastVars>>

-----------------------------------------------------------------------------
(* Telegram, time and crashes *)

telegram_accepts_late(o) ==
    /\ o \in flying
    /\ Accept(o)
    /\ flying' = flying \ {o}
    /\ UNCHANGED <<stage, op, tries, intentVars, postedVars, recorded,
                   pastVars>>

(* DELIVERY_AMBIGUITY_GRACE_SECONDS pass.  Telegram is assumed to have decided
   about a request by then; the timestamp on disk may be an older one. *)
grace_over(o) ==
    /\ o \in fresh \cup freshDisk
    /\ o \notin flying
    /\ freshDisk' = freshDisk \ {o}
    /\ fresh' \in {fresh, fresh \ {o}}
    /\ UNCHANGED <<stage, op, tries, intents, disk, circuit, telegramVars,
                   postedVars, recorded, pastVars>>

load_delivery_intents ==
    /\ intents' = disk
    /\ fresh' = freshDisk
    /\ UNCHANGED <<disk, freshDisk>>

replay_media_delivery_ledger ==
    /\ known' = ledger
    /\ UNCHANGED ledger

(* The process dies and main starts again.  A request in flight is decided by
   Telegram alone. *)
Crash ==
    /\ crashes < MaxCrashes
    /\ crashes' = crashes + 1
    /\ IF stage = "inflight" THEN Lost ELSE UNCHANGED telegramVars
    /\ Lapse("undecided at crash", flying' # {})
    /\ load_delivery_intents
    /\ replay_media_delivery_ledger
    /\ circuit' = FALSE
    /\ stage' = "boot"
    /\ op' = 0
    /\ UNCHANGED <<tries, recorded>>

Step ==
    \/ admit_duplicate
    \/ admit_copy
    \/ admit_download
    \/ begin_reused
    \/ begin_persisted
    \/ begin_failed
    \/ send_accepted
    \/ send_refused
    \/ send_next_client
    \/ tg_call_again
    \/ send_timeout
    \/ record_accepted
    \/ copy_with_caption
    \/ confirm_found
    \/ confirm_missed
    \/ journal_append
    \/ journal_failed
    \/ copy_discarded
    \/ finalize_posted
    \/ startup_committed
    \/ startup_unresolved
    \/ upload_take
    \/ reconcile_failed
    \/ reconcile_committed
    \/ reconcile_grace
    \/ reconcile_proceeds
    \/ upload_duplicate
    \/ upload_send

Next ==
    \/ Step
    \/ meet_again
    \/ circuit_closes
    \/ \E o \in Ops : telegram_accepts_late(o) \/ grace_over(o)
    \/ Crash

Spec == Init /\ [][Next]_vars

(* The coroutine that holds the media goes on: every call it awaits has a
   timeout, a queued job is taken up again by the scheduler or by recovery.
   Scans that are repeated for ever do not fail for ever. *)
FairSpec == Spec /\ WF_vars(Step) /\ SF_vars(reconcile_committed)

-----------------------------------------------------------------------------

ControlOK ==
    /\ stage \in Stages /\ op \in Ops /\ tries \in 1..CallTries
    /\ recorded \in BOOLEAN
    /\ crashes \in Nat /\ lapses \subseteq Lapses

IntentsOK ==
    /\ intents \in [Ops -> Statuses] /\ disk \in [Ops -> Statuses]
    /\ fresh \in SUBSET Ops /\ freshDisk \in SUBSET Ops
    /\ circuit \in BOOLEAN

TelegramOK ==
    /\ flying \in SUBSET Ops
    /\ copied \in Nat /\ uploaded \in Nat /\ captioned \in BOOLEAN

PostedOK == ledger \in BOOLEAN /\ known \in BOOLEAN

(* Every variable has its type: operations and tries stay within bounds. *)
TypeOK == ControlOK /\ IntentsOK /\ TelegramOK /\ PostedOK

(* "a send interrupted at Telegram's acceptance boundary is confirmed before
   replay": the target never holds the media twice. *)
AtMostOnce == target <= 1

(* A copy in the target is never anonymous: until the ledger has it, an open
   intent for it is on disk, so that a crash at any point leaves something for
   the reconciliation to find. *)
AcceptedIsTraceable ==
    target > 0 /\ ~ledger => \E o \in Ops : disk[o] \in Open

(* A media is posted twice, or posted and forgotten, only after one of the
   named events; a second sender alone posts nothing twice while the process
   lives. *)
OnlyLapsesHurt ==
    /\ lapses = {} => AtMostOnce /\ AcceptedIsTraceable
    /\ lapses = {"second sender"} /\ crashes = 0 => AtMostOnce

(* What Telegram accepted is journaled in the end, unless the copy was deleted
   again because of its caption. *)
AcceptedIsJournaled == (target > 0) ~> (ledger \/ target = 0)

(* The duplicate index never hides a media that is not in the target: what the
   ledger says was delivered is there, whatever fails and in whatever order. *)
PostedIsInTarget == (ledger \/ known) => target > 0
=============================================================================
