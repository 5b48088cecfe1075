--------------------------- MODULE TelegramProofs ---------------------------
(***************************************************************************)
(* Proofs about the gate of the Telegram calls, about the hot scan and     *)
(* about the composition Telegram.  The gate: a restart of the transport   *)
(* meets no transfer it did not wait for, and only a validation that was   *)
(* under way when the session was marked clears the mark.  The scan: a     *)
(* completed source was scanned to its end, and the exact ids of falsely   *)
(* dead media are lost only where the scan state is begun afresh.  For any *)
(* calls and sources and any number of retries, recovery tasks, faults,    *)
(* crashes and removals.                                                   *)
(***************************************************************************)
EXTENDS Telegram, DeliveryProofs, FiniteSetTheorems

-----------------------------------------------------------------------------
(* The gate *)

GateStages == {"idle", "client", "flood", "transport", "slot", "rpc"}

Recoveries == {"idle", "draining", "stopped", "refreshing", "failed"}

Transfers == GateCalls \cap {"download", "media"}

(* While the client is stopped after a drain, no transfer is registered. *)
NoTransfer ==
    (recovery = "stopped" /\ ~drainExpired)
        => \A c \in Transfers : callStage[c] \notin {"slot", "rpc"}

(* A validator call that runs under the mark was under way when it was set. *)
StaleKnown ==
    /\ SESSION_AUTH_INVALID
    /\ "validator" \in GateCalls
    /\ callStage["validator"] \in {"slot", "rpc"}
    => staleCall

CallsOK ==
    /\ callStage \in [GateCalls -> GateStages]
    /\ callTry \in [GateCalls -> 0..TELEGRAM_CALL_RETRIES]

FlagsOK ==
    /\ flooded \in BOOLEAN /\ SESSION_AUTH_INVALID \in BOOLEAN
    /\ staleCall \in BOOLEAN /\ transport \in BOOLEAN
    /\ drainExpired \in BOOLEAN /\ cooling \in BOOLEAN

RecoveryOK ==
    /\ recovery \in Recoveries
    /\ asked \in 0..MaxRecoveryTasks
    /\ atLock \in 0..MaxRecoveryTasks

GateInv ==
    /\ CallsOK /\ FlagsOK /\ RecoveryOK
    /\ NoTransfer
    /\ StaleKnown

LEMMA GateTypeParts == GateTypeOK <=> CallsOK /\ FlagsOK /\ RecoveryOK
  BY DEF GateTypeOK, CallsOK, FlagsOK, RecoveryOK, GateStages, Recoveries

-----------------------------------------------------------------------------
(* What moves a call *)

(* A call moves to a stage; it enters a slot only from the transport check
   or, for a control call, from the flood gate. *)
LEMMA MoveType ==
    ASSUME CallsOK, NEW c \in GateCalls, NEW to \in GateStages, MoveCall(c, to)
    PROVE  CallsOK'
  BY DEF CallsOK, MoveCall

LEMMA EndType ==
    ASSUME CallsOK, NEW c \in GateCalls, EndCall(c)
    PROVE  CallsOK' /\ callStage'[c] = "idle"
  BY GateAssumption DEF CallsOK, EndCall, GateStages

LEMMA RetryType ==
    ASSUME CallsOK, NEW c \in GateCalls, RetryOrRaise(c)
    PROVE  CallsOK' /\ callStage'[c] \in {"idle", "client", "flood"}
  <1>1. CASE c \in {"download", "control"} /\ callTry[c] < TELEGRAM_CALL_RETRIES
    <2>1. callTry[c] + 1 \in 0..TELEGRAM_CALL_RETRIES
      BY <1>1, GateAssumption DEF CallsOK
    <2>2. /\ callStage' = [callStage EXCEPT ![c] = FirstStage(c)]
          /\ callTry' = [callTry EXCEPT ![c] = @ + 1]
          /\ FirstStage(c) \in {"client", "flood"}
      BY <1>1 DEF RetryOrRaise, FirstStage
    <2> QED BY <2>1, <2>2 DEF CallsOK, GateStages
  <1>2. CASE EndCall(c)
    BY <1>2, EndType
  <1> QED BY <1>1, <1>2 DEF RetryOrRaise

(* A call that leaves its slot, or never had one, keeps both invariants,
   when recovery and mark stay as they are. *)
LEMMA LeavingKeeps ==
    ASSUME GateInv, NEW c \in GateCalls, CallsOK',
           callStage'[c] \notin {"slot", "rpc"},
           \A d \in GateCalls \ {c} : callStage'[d] = callStage[d],
           UNCHANGED <<recovery, drainExpired>>
    PROVE  /\ NoTransfer'
           /\ UNCHANGED sessionVars => StaleKnown'
  BY DEF GateInv, NoTransfer, StaleKnown, Transfers, sessionVars

LEMMA OnlyThisCall ==
    ASSUME CallsOK, NEW c \in GateCalls,
           EndCall(c) \/ RetryOrRaise(c)
               \/ (\E to \in GateStages : MoveCall(c, to))
    PROVE  \A d \in GateCalls \ {c} : callStage'[d] = callStage[d]
  BY DEF CallsOK, EndCall, RetryOrRaise, MoveCall

(* Marking the session records whether the validator is past the check. *)
LEMMA MarkKeeps ==
    ASSUME GateInv, NEW c \in GateCalls, EndCall(c), mark_session_auth_invalid
    PROVE  /\ SESSION_AUTH_INVALID' \in BOOLEAN /\ staleCall' \in BOOLEAN
           /\ StaleKnown'
  <1>1. "validator" \in GateCalls /\ callStage'["validator"] \in {"slot", "rpc"}
        => callStage["validator"] \in {"slot", "rpc"}
    BY EndType, OnlyThisCall DEF GateInv
  <1>2. StaleKnown'
    BY <1>1 DEF mark_session_auth_invalid, StaleKnown
  <1> QED BY <1>2 DEF mark_session_auth_invalid

-----------------------------------------------------------------------------
(* The steps of a call *)

LEMMA CallBeginsKeeps ==
    ASSUME GateInv, NEW c \in GateCalls, call_begins(c)
    PROVE  GateInv'
  <1>1. FirstStage(c) \in {"client", "flood"}
    BY DEF FirstStage
  <1>2. /\ CallsOK'
        /\ callStage'[c] \notin {"slot", "rpc"}
        /\ \A d \in GateCalls \ {c} : callStage'[d] = callStage[d]
    BY <1>1, GateAssumption DEF call_begins, GateInv, CallsOK, GateStages
  <1>3. NoTransfer' /\ StaleKnown'
    BY <1>2, LeavingKeeps DEF call_begins, recoveryVars
  <1> QED
    BY <1>2, <1>3 DEF call_begins, GateInv, FlagsOK, RecoveryOK,
                      sessionVars, recoveryVars

(* The way to a slot is open only when no recovery runs and no mark is set. *)
LEMMA ClientPassesKeeps ==
    ASSUME GateInv, NEW c \in GateCalls, client_passes(c)
    PROVE  GateInv'
  <1>1. CallsOK'
    BY MoveType DEF client_passes, GateInv, GateStages
  <1>2. ~SESSION_AUTH_INVALID' /\ recovery' # "stopped"
    BY DEF client_passes, wait_for_telegram_client, recoveryVars
  <1>3. staleCall' \in BOOLEAN
    BY DEF client_passes
  <1>4. FlagsOK' /\ RecoveryOK'
    BY <1>3 DEF client_passes, GateInv, FlagsOK, RecoveryOK, recoveryVars
  <1> QED
    BY <1>1, <1>2, <1>4 DEF GateInv, NoTransfer, StaleKnown

LEMMA FloodGateKeeps ==
    ASSUME GateInv, NEW c \in GateCalls, wait_global_flood_gate(c)
    PROVE  GateInv'
  <1>1. AfterFlood(c) \in GateStages
    BY DEF AfterFlood, GateStages
  <1>2. CallsOK' /\ \A d \in GateCalls \ {c} : callStage'[d] = callStage[d]
    BY <1>1, MoveType, OnlyThisCall DEF wait_global_flood_gate, GateInv
  <1>3. callStage'[c] = AfterFlood(c)
    BY DEF wait_global_flood_gate, MoveCall, GateInv, CallsOK
  <1>4. NoTransfer' /\ StaleKnown'
    <2>1. CASE c = "control"
      BY <1>2, <2>1
         DEF wait_global_flood_gate, GateInv, NoTransfer, StaleKnown,
             Transfers, sessionVars, recoveryVars
    <2>2. CASE c # "control"
      BY <1>2, <1>3, <2>2, LeavingKeeps
         DEF AfterFlood, wait_global_flood_gate, sessionVars, recoveryVars
    <2> QED BY <2>1, <2>2
  <1> QED
    BY <1>2, <1>4 DEF wait_global_flood_gate, GateInv, FlagsOK, RecoveryOK,
                      sessionVars, recoveryVars

LEMMA SlotTakenKeeps ==
    ASSUME GateInv, NEW c \in GateCalls, slot_taken(c)
    PROVE  GateInv'
  <1>1. CallsOK' /\ \A d \in GateCalls \ {c} : callStage'[d] = callStage[d]
    BY MoveType, OnlyThisCall DEF slot_taken, GateInv, GateStages
  <1>2. NoTransfer' /\ StaleKnown'
    BY <1>1 DEF slot_taken, GateInv, NoTransfer, StaleKnown, Transfers,
                sessionVars, recoveryVars
  <1> QED
    BY <1>1, <1>2 DEF slot_taken, GateInv, FlagsOK, RecoveryOK, sessionVars,
                      recoveryVars

(* A call that ends or is tried again and leaves the mark as it is. *)
LEMMA LeftAloneKeeps ==
    ASSUME GateInv, NEW c \in GateCalls, EndCall(c) \/ RetryOrRaise(c),
           FlagsOK', RecoveryOK',
           UNCHANGED <<sessionVars, recovery, drainExpired>>
    PROVE  GateInv'
  <1>1. /\ CallsOK'
        /\ callStage'[c] \notin {"slot", "rpc"}
        /\ \A d \in GateCalls \ {c} : callStage'[d] = callStage[d]
    BY EndType, RetryType, OnlyThisCall DEF GateInv
  <1> QED BY <1>1, LeavingKeeps DEF GateInv

(* A call that ends and marks the session. *)
LEMMA MarkedKeeps ==
    ASSUME GateInv, NEW c \in GateCalls, EndCall(c),
           mark_session_auth_invalid,
           UNCHANGED <<flooded, transport, recoveryVars, asked>>
    PROVE  GateInv'
  <1>1. /\ CallsOK'
        /\ callStage'[c] \notin {"slot", "rpc"}
        /\ \A d \in GateCalls \ {c} : callStage'[d] = callStage[d]
    BY EndType, OnlyThisCall DEF GateInv
  <1>2. NoTransfer'
    BY <1>1, LeavingKeeps DEF recoveryVars
  <1>3. FlagsOK' /\ RecoveryOK'
    BY MarkKeeps DEF GateInv, FlagsOK, RecoveryOK, recoveryVars
  <1> QED BY <1>1, <1>2, <1>3, MarkKeeps DEF GateInv

LEMMA RpcReturnsKeeps ==
    ASSUME GateInv, NEW c \in GateCalls, rpc_returns(c)
    PROVE  GateInv'
  <1>1. /\ CallsOK'
        /\ callStage'[c] \notin {"slot", "rpc"}
        /\ \A d \in GateCalls \ {c} : callStage'[d] = callStage[d]
    BY EndType, OnlyThisCall DEF rpc_returns, GateInv
  <1>2. NoTransfer' /\ (UNCHANGED sessionVars => StaleKnown')
    BY <1>1, LeavingKeeps DEF rpc_returns, recoveryVars
  <1>3. /\ SESSION_AUTH_INVALID' \in BOOLEAN /\ staleCall' \in BOOLEAN
        /\ StaleKnown'
    <2>1. CASE UNCHANGED sessionVars
      BY <1>2, <2>1 DEF GateInv, FlagsOK, sessionVars
    <2>2. CASE SESSION_AUTH_INVALID' = FALSE /\ staleCall' = FALSE
      BY <2>2 DEF StaleKnown
    <2> QED BY <2>1, <2>2 DEF rpc_returns, clear_session_auth_invalid
  <1> QED
    BY <1>1, <1>2, <1>3 DEF rpc_returns, GateInv, FlagsOK, RecoveryOK,
                            recoveryVars

LEMMA RpcFloodWaitKeeps ==
    ASSUME GateInv, NEW c \in GateCalls, rpc_flood_wait(c)
    PROVE  GateInv'
  <1>1. FlagsOK' /\ RecoveryOK'
    BY DEF rpc_flood_wait, note_global_flood_wait, GateInv, FlagsOK,
           RecoveryOK, sessionVars, recoveryVars
  <1> QED BY <1>1, LeftAloneKeeps DEF rpc_flood_wait, recoveryVars

LEMMA AskedType ==
    ASSUME RecoveryOK, schedule_userbot_reconnect
    PROVE  asked' \in 0..MaxRecoveryTasks
  BY GateAssumption DEF RecoveryOK, schedule_userbot_reconnect

LEMMA ConnectionErrorKeeps ==
    ASSUME GateInv, NEW c \in GateCalls, rpc_connection_error(c)
    PROVE  GateInv'
  <1>1. FlagsOK' /\ RecoveryOK'
    BY AskedType DEF rpc_connection_error, GateInv, FlagsOK, RecoveryOK,
                     sessionVars, recoveryVars
  <1> QED BY <1>1, LeftAloneKeeps DEF rpc_connection_error, recoveryVars

LEMMA CallKeeps ==
    ASSUME GateInv, NEW c \in GateCalls, CallProceeds(c) \/ call_cancelled(c)
    PROVE  GateInv'
  <1>1. CASE client_refused(c)
    BY <1>1, MarkedKeeps DEF client_refused
  <1>2. CASE rpc_auth_error(c)
    BY <1>2, MarkedKeeps DEF rpc_auth_error
  <1>3. CASE client_wait_timeout(c) \/ rpc_fails(c) \/ call_cancelled(c)
    <2>1. /\ EndCall(c) \/ RetryOrRaise(c)
          /\ UNCHANGED <<flooded, sessionVars, transport, recoveryVars,
                         asked>>
      BY <1>3 DEF client_wait_timeout, rpc_fails, call_cancelled
    <2>2. FlagsOK' /\ RecoveryOK'
      BY <2>1 DEF GateInv, FlagsOK, RecoveryOK, sessionVars, recoveryVars
    <2> QED BY <2>1, <2>2, LeftAloneKeeps DEF recoveryVars
  <1> QED
    BY <1>1, <1>2, <1>3, CallBeginsKeeps, ClientPassesKeeps, FloodGateKeeps,
       SlotTakenKeeps, RpcReturnsKeeps, RpcFloodWaitKeeps,
       ConnectionErrorKeeps
       DEF CallProceeds, rpc_ends

-----------------------------------------------------------------------------
(* The steps of the recovery and of the surroundings *)

(* The count of transfers is zero when none of them is past the checks. *)
LEMMA CountIsZero ==
    /\ active_userbot_media_rpc_count \in Nat
    /\ active_userbot_media_rpc_count = 0
       <=> \A c \in Transfers : callStage[c] \notin {"slot", "rpc"}
  <1> DEFINE R == {c \in GateCalls \cap {"download", "media"} : Registered(c)}
  <1>1. IsFiniteSet({"download", "media"})
    <2>1. IsFiniteSet({}) BY FS_EmptySet
    <2>2. IsFiniteSet({} \cup {"download"}) BY <2>1, FS_AddElement
    <2>3. IsFiniteSet(({} \cup {"download"}) \cup {"media"})
      BY <2>2, FS_AddElement
    <2>4. ({} \cup {"download"}) \cup {"media"} = {"download", "media"}
      OBVIOUS
    <2> QED BY <2>3, <2>4
  <1>2. R \subseteq {"download", "media"}
    OBVIOUS
  <1>3. IsFiniteSet(R)
    BY <1>1, <1>2, FS_Subset
  <1>4. Cardinality(R) \in Nat /\ (Cardinality(R) = 0 <=> R = {})
    BY <1>3, FS_CardinalityType, FS_EmptySet
  <1>5. R = {} <=> \A c \in Transfers : callStage[c] \notin {"slot", "rpc"}
    BY DEF Registered, Transfers
  <1> QED BY <1>4, <1>5 DEF active_userbot_media_rpc_count

(* A recovery that stops the client without having waited is known as one. *)
LEMMA RecoveryStopsKeeps ==
    ASSUME GateInv, recovery_stops
    PROVE  GateInv'
  <1>1. CallsOK' /\ StaleKnown'
    BY DEF recovery_stops, GateInv, CallsOK, StaleKnown, callVars, sessionVars
  <1>2. drainExpired' = (active_userbot_media_rpc_count > 0)
    BY DEF recovery_stops
  <1>3. drainExpired' \in BOOLEAN
    <2>1. (active_userbot_media_rpc_count > 0) \in BOOLEAN
      OBVIOUS
    <2> QED BY <1>2, <2>1, Zenon
  <1>4. NoTransfer'
    <2> SUFFICES ASSUME ~drainExpired'
                 PROVE  \A c \in Transfers :
                           callStage'[c] \notin {"slot", "rpc"}
      BY DEF NoTransfer
    <2>1. ~(active_userbot_media_rpc_count > 0)
      BY <1>2, Zenon
    <2>2. active_userbot_media_rpc_count = 0
      BY <2>1, CountIsZero
    <2> QED BY <2>2, CountIsZero DEF recovery_stops, callVars
  <1>5. FlagsOK' /\ RecoveryOK'
    BY <1>3 DEF recovery_stops, GateInv, FlagsOK, RecoveryOK, Recoveries,
                sessionVars
  <1> QED BY <1>1, <1>4, <1>5 DEF GateInv

(* The other steps leave the calls and the mark alone, and do not stop the
   client. *)
LEMMA CallsLeftAlone ==
    ASSUME GateInv, UNCHANGED <<callVars, sessionVars>>,
           \/ recovery' # "stopped"
           \/ UNCHANGED <<recovery, drainExpired>>
    PROVE  CallsOK' /\ NoTransfer' /\ StaleKnown'
  BY DEF GateInv, CallsOK, NoTransfer, StaleKnown, callVars, sessionVars

LEMMA RecoveryKeeps ==
    ASSUME GateInv,
           \/ recovery_begins \/ recovery_locks \/ recovery_starts
           \/ recovery_fails \/ refresh_userbot_dialog_cache
    PROVE  GateInv'
  <1>1. CASE recovery_begins
    <2>1. asked' \in 0..MaxRecoveryTasks /\ atLock' \in 0..MaxRecoveryTasks
      BY <1>1, GateAssumption DEF recovery_begins, GateInv, RecoveryOK
    <2> QED
      BY <1>1, <2>1, CallsLeftAlone
         DEF recovery_begins, GateInv, FlagsOK, RecoveryOK, sessionVars
  <1>2. CASE recovery_locks
    <2>1. atLock' \in 0..MaxRecoveryTasks /\ recovery' \in Recoveries
      BY <1>2, GateAssumption
         DEF recovery_locks, GateInv, RecoveryOK, Recoveries
    <2>2. recovery' # "stopped"
      BY <1>2 DEF recovery_locks
    <2> QED
      BY <1>2, <2>1, <2>2, CallsLeftAlone
         DEF recovery_locks, GateInv, FlagsOK, RecoveryOK, sessionVars
  <1>3. CASE recovery_starts
    BY <1>3, CallsLeftAlone
       DEF recovery_starts, GateInv, FlagsOK, RecoveryOK, Recoveries,
           sessionVars
  <1>4. CASE recovery_fails
    BY <1>4, CallsLeftAlone
       DEF recovery_fails, GateInv, FlagsOK, RecoveryOK, Recoveries,
           sessionVars
  <1>5. CASE refresh_userbot_dialog_cache
    <2>1. flooded' \in BOOLEAN
      BY <1>5 DEF refresh_userbot_dialog_cache, note_global_flood_wait,
                  GateInv, FlagsOK
    <2> QED
      BY <1>5, <2>1, CallsLeftAlone
         DEF refresh_userbot_dialog_cache, GateInv, FlagsOK, RecoveryOK,
             Recoveries, sessionVars
  <1> QED BY <1>1, <1>2, <1>3, <1>4, <1>5

LEMMA SurroundingsKeep ==
    ASSUME GateInv,
           \/ transport_lost \/ watchdog_loop
           \/ flood_gate_opens \/ cooldown_ends
    PROVE  GateInv'
  <1>1. CASE transport_lost
    BY <1>1, CallsLeftAlone
       DEF transport_lost, GateInv, FlagsOK, RecoveryOK, sessionVars,
           recoveryVars
  <1>2. CASE watchdog_loop
    BY <1>2, AskedType, CallsLeftAlone
       DEF watchdog_loop, GateInv, FlagsOK, RecoveryOK, sessionVars,
           recoveryVars
  <1>3. CASE flood_gate_opens
    BY <1>3, CallsLeftAlone
       DEF flood_gate_opens, GateInv, FlagsOK, RecoveryOK, sessionVars,
           recoveryVars
  <1>4. CASE cooldown_ends
    BY <1>4, CallsLeftAlone
       DEF cooldown_ends, GateInv, FlagsOK, RecoveryOK, sessionVars
  <1> QED BY <1>1, <1>2, <1>3, <1>4

-----------------------------------------------------------------------------
(* The theorems *)

LEMMA GateInvInit == GateInit => GateInv
  <1> SUFFICES ASSUME GateInit PROVE GateInv
    OBVIOUS
  <1>1. CallsOK
    BY GateAssumption DEF GateInit, CallsOK, GateStages
  <1>2. FlagsOK
    BY Zenon DEF GateInit, FlagsOK
  <1>3. RecoveryOK
    BY GateAssumption DEF GateInit, RecoveryOK, Recoveries
  <1>4. NoTransfer /\ StaleKnown
    BY DEF GateInit, NoTransfer, StaleKnown
  <1> QED BY <1>1, <1>2, <1>3, <1>4 DEF GateInv

LEMMA GateInvStep == GateInv /\ [GateNext]_gateVars => GateInv'
  <1>1. ASSUME GateInv, UNCHANGED gateVars PROVE GateInv'
    BY <1>1
       DEF gateVars, callVars, sessionVars, recoveryVars, GateInv, CallsOK,
           FlagsOK, RecoveryOK, NoTransfer, StaleKnown
  <1> QED
    BY <1>1, CallKeeps, RecoveryStopsKeeps, RecoveryKeeps, SurroundingsKeep
       DEF GateNext, LockHolderProceeds

LEMMA GateInvAlways == GateSpec => []GateInv
  BY GateInvInit, GateInvStep, PTL DEF GateSpec

(* Every stage, attempt, flag and count of the gate stays within its type. *)
THEOREM GateTyped == GateSpec => []GateTypeOK
  <1>1. GateInv => GateTypeOK
    BY GateTypeParts DEF GateInv
  <1> QED BY <1>1, GateInvAlways, PTL

(* A recovery that stopped the client after the transfers had drained finds
   none registered until it has started the client again. *)
THEOREM RestartMeetsNoTransfer == GateSpec => []TransfersDrain
  <1>1. GateInv => TransfersDrain
    BY CountIsZero DEF GateInv, NoTransfer, TransfersDrain
  <1> QED BY <1>1, GateInvAlways, PTL

(* No validation that began under the mark clears it: a session that is
   marked while no validation runs stays marked. *)
THEOREM OnlyStaleCallClears == GateSpec => ClearedByStaleCall
  <1> DEFINE Cleared == SESSION_AUTH_INVALID /\ ~SESSION_AUTH_INVALID'
  <1>1. ASSUME GateInv, GateNext, Cleared
        PROVE  staleCall
    <2>1. PICK c \in GateCalls : rpc_returns(c)
      <3>1. SESSION_AUTH_INVALID # SESSION_AUTH_INVALID'
        BY <1>1
      <3>2. ASSUME NEW c \in GateCalls, ~rpc_returns(c)
            PROVE  ~(CallProceeds(c) \/ call_cancelled(c))
        BY <1>1, <3>1, <3>2
           DEF CallProceeds, rpc_ends, call_begins, client_passes,
               client_refused, client_wait_timeout, wait_global_flood_gate,
               slot_taken, rpc_fails, rpc_flood_wait, rpc_auth_error,
               rpc_connection_error, call_cancelled, sessionVars,
               mark_session_auth_invalid
      <3> QED
        BY <1>1, <3>1, <3>2
           DEF GateNext, LockHolderProceeds, transport_lost, watchdog_loop,
               recovery_begins, recovery_locks, recovery_stops,
               recovery_starts, recovery_fails, refresh_userbot_dialog_cache,
               flood_gate_opens, cooldown_ends, sessionVars
    <2>2. c = "validator" /\ callStage[c] = "rpc"
      BY <1>1, <2>1 DEF rpc_returns, clear_session_auth_invalid, sessionVars
    <2> QED BY <1>1, <2>2 DEF GateInv, StaleKnown
  <1>2. GateInv /\ [GateNext]_gateVars => [Cleared => staleCall]_gateVars
    BY <1>1
  <1> QED
    BY <1>2, GateInvAlways, PTL DEF GateSpec, ClearedByStaleCall

-----------------------------------------------------------------------------
(* The hot scan *)

(* While no order is stored, what precedes a source with records was scanned,
   but for the sources the migration has reopened. *)
InferredScanned ==
    sourceOrder = {} /\ ~emptied =>
        \A s \in HotSources :
            (\E later \in reported : s < later)
                => s \in scanned \cup repairSources

(* A source is scanned under a stored order only. *)
ScansOrdered == hotStage \in {"exact", "sync"} => sourceOrder # {}

(* Exact ids are listed only for a source under repair. *)
ItemsInRepair == repairItems \subseteq repairSources

(* The history of a source is read when its exact ids are dealt with, or
   were refused. *)
ExactFirst ==
    hotStage = "sync" /\ exactSuccess => chosen \notin repairItems

HotSetsOK ==
    /\ active \in SUBSET HotSources /\ completed \in SUBSET HotSources
    /\ deferred \in SUBSET HotSources /\ repairSources \in SUBSET HotSources
    /\ repairItems \in SUBSET HotSources /\ reported \in SUBSET HotSources
    /\ retryLater \in SUBSET HotSources /\ hotCooling \in SUBSET HotSources
    /\ pendingPass \in SUBSET HotSources /\ scanned \in SUBSET HotSources
    /\ requeued \in SUBSET HotSources /\ removedOnce \in SUBSET HotSources
    /\ sourceOrder \in SUBSET HotSources /\ dropped \in SUBSET HotSources

HotLocalsOK ==
    /\ hotStatus \in {"none", "running", "deferred", "complete"}
    /\ hotStage \in {"boot", "barrier", "top", "pass", "exact", "sync"}
    /\ chosen \in 0..SourceCount
    /\ migrated \in BOOLEAN /\ exactSuccess \in BOOLEAN
    /\ released \in BOOLEAN /\ emptied \in BOOLEAN
    /\ toggles \in 0..MaxToggles /\ hotCrashes \in 0..MaxHotCrashes
    /\ hotStage \in {"exact", "sync"} => chosen \in HotSources

HotScanned == CompletedWasScanned /\ InferredScanned /\ ScansOrdered

HotRepair == ItemsInRepair /\ ExactFirst /\ OnlyFreshStateDrops

HotInv == HotSetsOK /\ HotLocalsOK /\ HotScanned /\ HotRepair

LEMMA HotTypeParts == HotSetsOK /\ HotLocalsOK => HotTypeOK
  BY DEF HotTypeOK, HotSetsOK, HotLocalsOK

-----------------------------------------------------------------------------
(* The steps that write the reconciled state *)

(* The reconciled state is about active sources; what it calls completed was
   scanned or loses its repair now; it lists no ids but those of sources under
   repair. *)
LEMMA ReconciledFacts ==
    ASSUME HotInv
    PROVE  /\ Reconciled.completed \in SUBSET HotSources
           /\ Reconciled.deferred \in SUBSET HotSources
           /\ Reconciled.repairSources \in SUBSET HotSources
           /\ Reconciled.repairItems \subseteq Reconciled.repairSources
           /\ HotStatus(Reconciled) \in {"running", "deferred", "complete"}
  <1>1. CASE sourceOrder = {}
    BY <1>1 DEF Reconciled, infer_legacy_startup_hot_completed_sources,
                HotInv, HotSetsOK, HotStatus
  <1>2. CASE sourceOrder # {}
    BY <1>2 DEF Reconciled, HotInv, HotSetsOK, HotStatus, HotRepair,
                ItemsInRepair
  <1> QED BY <1>1, <1>2

(* What a reconciliation loses it notes: a source that is not active, a repair
   that no stored order keeps. *)
LEMMA ReconcileKeeps ==
    ASSUME HotInv, completed' = Reconciled.completed, OrderReconciled,
           UNCHANGED <<active, reported, scanned, requeued, migrated>>
    PROVE  /\ CompletedWasScanned' /\ InferredScanned'
           /\ ItemsInRepair' /\ OnlyFreshStateDrops'
  <1>1. CompletedWasScanned'
    <2> SUFFICES ASSUME ~emptied', NEW s \in completed'
                 PROVE  s \in scanned \cup dropped'
      BY DEF CompletedWasScanned
    <2>1. ~emptied /\ active # {}
      BY DEF OrderReconciled
    <2>2. CASE sourceOrder = {}
      <3>1. s \in active /\ \E later \in reported \cap active : s < later
        BY <2>2 DEF Reconciled, infer_legacy_startup_hot_completed_sources
      <3>2. s \in scanned \cup repairSources
        BY <2>1, <2>2, <3>1
           DEF HotInv, HotScanned, InferredScanned, HotSetsOK
      <3> QED BY <2>2, <3>1, <3>2 DEF OrderReconciled
    <2>3. CASE sourceOrder # {}
      <3>1. s \in completed
        BY <2>3 DEF Reconciled
      <3> QED
        BY <2>1, <3>1
           DEF OrderReconciled, HotInv, HotScanned, CompletedWasScanned
    <2> QED BY <2>2, <2>3
  <1>2. InferredScanned'
    BY DEF OrderReconciled, InferredScanned
  <1>3. ItemsInRepair'
    BY ReconciledFacts DEF OrderReconciled, ItemsInRepair
  <1>4. OnlyFreshStateDrops'
    <2>1. CASE sourceOrder = {}
      BY <2>1 DEF OrderReconciled, OnlyFreshStateDrops, HotInv, HotRepair,
                  ItemsInRepair, HotSetsOK
    <2>2. CASE sourceOrder # {}
      BY <2>2 DEF OrderReconciled, Reconciled, OnlyFreshStateDrops, HotInv,
                  HotRepair, HotSetsOK
    <2> QED BY <2>1, <2>2
  <1> QED BY <1>1, <1>2, <1>3, <1>4

(* The sets and the flag a reconciliation writes are of their types. *)
LEMMA OrderTyped ==
    ASSUME HotInv, OrderReconciled
    PROVE  /\ sourceOrder' \in SUBSET HotSources
           /\ repairSources' \in SUBSET HotSources
           /\ repairItems' \in SUBSET HotSources
           /\ removedOnce' \in SUBSET HotSources
           /\ dropped' \in SUBSET HotSources
           /\ emptied' \in BOOLEAN
  BY ReconciledFacts DEF OrderReconciled, HotInv, HotSetsOK, HotLocalsOK

(* A step that calls the reconciliation and goes on elsewhere. *)
LEMMA ReconcileStepKeeps ==
    ASSUME HotInv, NEW status \in {"running", "deferred", "complete"},
           StateReconciled(status),
           UNCHANGED <<active, reported, migrated, hotCooling, chosen,
                       exactSuccess, scanned, requeued, toggles, hotCrashes>>,
           pendingPass' \in SUBSET HotSources, released' \in BOOLEAN,
           hotStage' \in {"top", "pass"}
    PROVE  HotInv'
  <1>1. /\ CompletedWasScanned' /\ InferredScanned'
        /\ ItemsInRepair' /\ OnlyFreshStateDrops'
    BY ReconcileKeeps DEF StateReconciled
  <1>2. ExactFirst' /\ ScansOrdered'
    BY DEF ExactFirst, ScansOrdered
  <1>3. HotSetsOK'
    BY ReconciledFacts, OrderTyped DEF StateReconciled, HotInv, HotSetsOK
  <1>4. HotLocalsOK'
    BY OrderTyped DEF StateReconciled, HotInv, HotLocalsOK
  <1> QED BY <1>1, <1>2, <1>3, <1>4 DEF HotInv, HotRepair, HotScanned

LEMMA ReconcileCallKeeps ==
    ASSUME HotInv, reconcile_startup_hot_scan_state,
           UNCHANGED <<active, reported, migrated, hotCooling, chosen,
                       exactSuccess, scanned, requeued, toggles, hotCrashes>>,
           pendingPass' \in SUBSET HotSources, released' \in BOOLEAN,
           hotStage' \in {"top", "pass"}
    PROVE  HotInv'
  BY ReconciledFacts, ReconcileStepKeeps DEF reconcile_startup_hot_scan_state

LEMMA BarrierKeeps == HotInv /\ barrier_passed => HotInv'
  <1> SUFFICES ASSUME HotInv, barrier_passed PROVE HotInv'
    OBVIOUS
  <1>1. pendingPass' \in SUBSET HotSources /\ released' \in BOOLEAN
    BY DEF barrier_passed, HotInv, HotSetsOK, HotLocalsOK
  <1> QED BY <1>1, ReconcileCallKeeps DEF barrier_passed

LEMMA PassBeginsKeeps == HotInv /\ pass_begins => HotInv'
  <1> SUFFICES ASSUME HotInv, pass_begins PROVE HotInv'
    OBVIOUS
  <1>1. pendingPass' \in SUBSET HotSources /\ released' \in BOOLEAN
    BY DEF pass_begins, Due, HotInv, HotSetsOK, HotLocalsOK
  <1> QED BY <1>1, ReconcileCallKeeps DEF pass_begins

LEMMA ReleaseAdmissionKeeps ==
    HotInv /\ release_startup_hot_scan_admission => HotInv'
  <1> SUFFICES ASSUME HotInv, release_startup_hot_scan_admission PROVE HotInv'
    OBVIOUS
  <1>1. pendingPass' \in SUBSET HotSources /\ released' \in BOOLEAN
    BY DEF release_startup_hot_scan_admission, hotLocals, HotInv, HotSetsOK
  <1> QED
    BY <1>1, ReconcileCallKeeps
       DEF release_startup_hot_scan_admission, hotLocals

LEMMA SkippedKeeps ==
    ASSUME HotInv, NEW s \in HotSources, source_skipped(s)
    PROVE  HotInv'
  <1>1. pendingPass' \in SUBSET HotSources /\ released' \in BOOLEAN
    BY DEF source_skipped, HotInv, HotSetsOK, HotLocalsOK
  <1> QED BY <1>1, ReconcileCallKeeps DEF source_skipped

LEMMA PassEndsKeeps == HotInv /\ pass_ends => HotInv'
  <1> SUFFICES ASSUME HotInv, pass_ends PROVE HotInv'
    OBVIOUS
  <1>1. pendingPass' \in SUBSET HotSources /\ released' \in BOOLEAN
    BY DEF pass_ends, HotInv, HotSetsOK, HotLocalsOK
  <1> QED BY <1>1, ReconcileCallKeeps DEF pass_ends

LEMMA FinishKeeps == HotInv /\ finish_startup_hot_scan => HotInv'
  <1> SUFFICES ASSUME HotInv, finish_startup_hot_scan PROVE HotInv'
    OBVIOUS
  <1>1. pendingPass' \in SUBSET HotSources /\ released' \in BOOLEAN
    BY DEF finish_startup_hot_scan, hotLocals, HotInv, HotSetsOK
  <1> QED
    BY <1>1, ReconcileStepKeeps DEF finish_startup_hot_scan, hotLocals

(* A source that cools down is deferred, not completed. *)
LEMMA CoolingKeeps ==
    ASSUME HotInv, NEW s \in HotSources, source_cooling(s)
    PROVE  HotInv'
  <1>1. /\ CompletedWasScanned' /\ InferredScanned'
        /\ ItemsInRepair' /\ OnlyFreshStateDrops'
    BY ReconcileKeeps DEF source_cooling, Deferral
  <1>2. ExactFirst' /\ ScansOrdered'
    BY DEF source_cooling, Deferral, ExactFirst, ScansOrdered
  <1>3. HotSetsOK'
    BY ReconciledFacts, OrderTyped
       DEF source_cooling, Deferral, HotInv, HotSetsOK
  <1>4. HotLocalsOK'
    BY ReconciledFacts, OrderTyped, HotAssumption
       DEF source_cooling, Deferral, HotInv, HotLocalsOK
  <1> QED BY <1>1, <1>2, <1>3, <1>4 DEF HotInv, HotRepair, HotScanned

(* A source without a repair has no exact ids to be asked for first. *)
LEMMA ChosenKeeps ==
    ASSUME HotInv, NEW s \in HotSources, source_chosen(s)
    PROVE  HotInv'
  <1>1. /\ CompletedWasScanned' /\ InferredScanned'
        /\ ItemsInRepair' /\ OnlyFreshStateDrops'
    BY ReconcileKeeps DEF source_chosen, StateReconciled
  <1>2. ExactFirst'
    <2>1. hotStage' = "sync" => s \notin repairSources'
      BY DEF source_chosen, StateReconciled, OrderReconciled
    <2> QED BY <1>1, <2>1 DEF source_chosen, ItemsInRepair, ExactFirst
  <1>3. ScansOrdered'
    BY DEF source_chosen, StateReconciled, OrderReconciled, ScansOrdered
  <1>4. HotSetsOK'
    BY ReconciledFacts, OrderTyped
       DEF source_chosen, StateReconciled, HotInv, HotSetsOK
  <1>5. HotLocalsOK'
    <2>1. s \in 0..SourceCount
      BY HotAssumption DEF HotSources
    <2> QED
      BY <2>1, OrderTyped
         DEF source_chosen, StateReconciled, HotInv, HotLocalsOK
  <1> QED BY <1>1, <1>2, <1>3, <1>4, <1>5 DEF HotInv, HotRepair, HotScanned

-----------------------------------------------------------------------------
(* The migration, the exact ids and the end of a scan *)

(* The migration reopens its sources and lists their ids in one step. *)
LEMMA MigrationKeeps ==
    HotInv /\ release_legacy_false_zero_byte_quarantine => HotInv'
  <1> SUFFICES ASSUME HotInv, release_legacy_false_zero_byte_quarantine
               PROVE  HotInv'
    OBVIOUS
  <1>1. hotStage' = "barrier" /\ ExactFirst' /\ ScansOrdered'
    BY DEF release_legacy_false_zero_byte_quarantine, ExactFirst,
           ScansOrdered
  <1>2. CASE migrated
    BY <1>1, <1>2
       DEF release_legacy_false_zero_byte_quarantine, durableHot,
           reconcileHistory, HotInv, HotSetsOK, HotLocalsOK, HotScanned,
           CompletedWasScanned, InferredScanned, HotRepair, ItemsInRepair,
           OnlyFreshStateDrops
  <1>3. CASE ~migrated
    <2>1. HotSetsOK' /\ HotLocalsOK'
      BY <1>1, <1>3, HotAssumption
         DEF release_legacy_false_zero_byte_quarantine, reconcileHistory,
             HotInv, HotSetsOK, HotLocalsOK
    <2>2. CompletedWasScanned'
      BY <1>3 DEF release_legacy_false_zero_byte_quarantine,
                  reconcileHistory, HotInv, HotScanned, CompletedWasScanned
    <2>3. InferredScanned'
      BY <1>3
         DEF release_legacy_false_zero_byte_quarantine, reconcileHistory,
             HotInv, HotScanned, InferredScanned
    <2>4. ItemsInRepair' /\ OnlyFreshStateDrops'
      BY <1>3 DEF release_legacy_false_zero_byte_quarantine, HotInv,
                  HotRepair, ItemsInRepair, OnlyFreshStateDrops
    <2> QED BY <1>1, <2>1, <2>2, <2>3, <2>4 DEF HotInv, HotScanned, HotRepair
  <1> QED BY <1>2, <1>3

(* A step that touches none of what the two invariants are about. *)
LEMMA RecordsLeftAlone ==
    ASSUME HotInv,
           UNCHANGED <<durableHot, migrated, scanned, requeued,
                       reconcileHistory>>,
           reported' \in SUBSET reported,
           \/ hotStage' \notin {"exact", "sync"}
           \/ ~exactSuccess' /\ hotStage = "exact"
           \/ UNCHANGED <<hotStage, chosen, exactSuccess>>
    PROVE  HotScanned' /\ HotRepair'
  <1>1. CompletedWasScanned' /\ ScansOrdered'
    BY DEF durableHot, reconcileHistory, HotInv, HotScanned,
           CompletedWasScanned, ScansOrdered
  <1>2. InferredScanned'
    BY DEF durableHot, reconcileHistory, HotInv, HotScanned, InferredScanned
  <1>3. HotRepair'
    BY DEF durableHot, reconcileHistory, HotInv, HotRepair, ItemsInRepair,
           ExactFirst, OnlyFreshStateDrops
  <1> QED BY <1>1, <1>2, <1>3 DEF HotScanned

LEMMA ExactRefusedKeeps == HotInv /\ exact_refused => HotInv'
  <1> SUFFICES ASSUME HotInv, exact_refused PROVE HotInv'
    OBVIOUS
  <1>1. HotScanned' /\ HotRepair'
    BY RecordsLeftAlone DEF exact_refused
  <1> QED
    BY <1>1 DEF exact_refused, durableHot, reconcileHistory, HotInv,
                HotSetsOK, HotLocalsOK

(* While a source is scanned the records it leaves prove nothing: an order is
   stored. *)
LEMMA ScanLeavesRecords ==
    ASSUME HotInv, hotStage \in {"exact", "sync"}, LeavesRecords
    PROVE  reported' \in SUBSET HotSources /\ sourceOrder # {}
  BY DEF LeavesRecords, HotInv, HotSetsOK, HotLocalsOK, HotScanned,
         ScansOrdered

(* The ids leave the list for the queue. *)
LEMMA ExactEnqueuedKeeps == HotInv /\ exact_enqueued => HotInv'
  <1> SUFFICES ASSUME HotInv, exact_enqueued PROVE HotInv'
    OBVIOUS
  <1>1. reported' \in SUBSET HotSources /\ sourceOrder # {}
    BY ScanLeavesRecords DEF exact_enqueued
  <1>2. HotSetsOK' /\ HotLocalsOK'
    BY <1>1 DEF exact_enqueued, reconcileHistory, HotInv, HotSetsOK,
                HotLocalsOK
  <1>3. HotScanned'
    BY <1>1 DEF exact_enqueued, reconcileHistory, HotInv, HotScanned,
                CompletedWasScanned, InferredScanned, ScansOrdered
  <1>4. HotRepair'
    BY DEF exact_enqueued, reconcileHistory, HotInv, HotRepair,
           ItemsInRepair, ExactFirst, OnlyFreshStateDrops
  <1> QED BY <1>2, <1>3, <1>4 DEF HotInv

(* A source is completed in the step that ends its scan, and its repair with
   it only when no id of it is left. *)
LEMMA ScanSucceedsKeeps == HotInv /\ scan_succeeds => HotInv'
  <1> SUFFICES ASSUME HotInv, scan_succeeds PROVE HotInv'
    OBVIOUS
  <1>1. chosen \in HotSources /\ hotStage' = "pass" /\ chosen' = 0
    BY DEF scan_succeeds, Deferral, HotInv, HotLocalsOK
  <1>2. HotLocalsOK'
    BY <1>1, HotAssumption
       DEF scan_succeeds, reconcileHistory, HotInv, HotLocalsOK
  <1>3. reported' \in SUBSET HotSources /\ sourceOrder # {}
    BY ScanLeavesRecords DEF scan_succeeds
  <1>4. CASE exactSuccess
    <2>1. /\ completed' = completed \cup {chosen}
          /\ deferred' = deferred \ {chosen}
          /\ retryLater' = retryLater \ {chosen}
          /\ repairSources' = repairSources \ {chosen}
          /\ repairItems' = repairItems \ {chosen}
          /\ pendingPass' = pendingPass \ {chosen}
          /\ scanned' = scanned \cup {chosen}
      BY <1>4 DEF scan_succeeds, complete_validator_repair_source
    <2>2. HotSetsOK'
      BY <1>1, <1>3, <2>1
         DEF scan_succeeds, reconcileHistory, HotInv, HotSetsOK
    <2>3. HotScanned'
      BY <1>3, <2>1
         DEF scan_succeeds, reconcileHistory, HotInv, HotScanned,
             CompletedWasScanned, InferredScanned, ScansOrdered
    <2>4. HotRepair'
      BY <1>1, <1>4, <2>1
         DEF scan_succeeds, reconcileHistory, HotInv, HotRepair,
             ItemsInRepair, ExactFirst, OnlyFreshStateDrops
    <2> QED BY <1>2, <2>2, <2>3, <2>4 DEF HotInv
  <1>5. CASE ~exactSuccess
    <2>1. /\ completed' = completed
          /\ deferred' = deferred \cup {chosen}
          /\ retryLater' = (retryLater \cap deferred) \cup {chosen}
          /\ pendingPass' = pendingPass \ {chosen}
          /\ UNCHANGED <<repairSources, repairItems, scanned>>
      BY <1>5 DEF scan_succeeds, Deferral
    <2>2. HotSetsOK'
      BY <1>1, <1>3, <2>1
         DEF scan_succeeds, reconcileHistory, HotInv, HotSetsOK
    <2>3. HotScanned'
      BY <1>1, <1>3, <2>1
         DEF scan_succeeds, reconcileHistory, HotInv, HotScanned,
             CompletedWasScanned, InferredScanned, ScansOrdered
    <2>4. HotRepair'
      BY <1>1, <2>1
         DEF scan_succeeds, reconcileHistory, HotInv, HotRepair,
             ItemsInRepair, ExactFirst, OnlyFreshStateDrops
    <2> QED BY <1>2, <2>2, <2>3, <2>4 DEF HotInv
  <1> QED BY <1>4, <1>5

LEMMA ScanFailsKeeps == HotInv /\ scan_fails => HotInv'
  <1> SUFFICES ASSUME HotInv, scan_fails PROVE HotInv'
    OBVIOUS
  <1>1. /\ chosen \in HotSources /\ hotStage' = "pass" /\ chosen' = 0
        /\ completed' = completed
        /\ deferred' = deferred \cup {chosen}
        /\ retryLater' = (retryLater \cap deferred) \cup {chosen}
        /\ pendingPass' = pendingPass \ {chosen}
        /\ hotCooling' \in {hotCooling, hotCooling \cup {chosen}}
    BY DEF scan_fails, Deferral, register_guard_temp_error, HotInv,
           HotLocalsOK
  <1>2. HotLocalsOK'
    BY <1>1, HotAssumption
       DEF scan_fails, reconcileHistory, HotInv, HotLocalsOK
  <1>3. reported' \in SUBSET HotSources /\ sourceOrder # {}
    BY ScanLeavesRecords DEF scan_fails
  <1>4. HotSetsOK'
    BY <1>1, <1>3 DEF scan_fails, reconcileHistory, HotInv, HotSetsOK
  <1>5. HotScanned'
    BY <1>1, <1>3
       DEF scan_fails, reconcileHistory, HotInv, HotScanned,
           CompletedWasScanned, InferredScanned, ScansOrdered
  <1>6. HotRepair'
    BY <1>1 DEF scan_fails, reconcileHistory, HotInv, HotRepair,
                ItemsInRepair, ExactFirst, OnlyFreshStateDrops
  <1> QED BY <1>2, <1>4, <1>5, <1>6 DEF HotInv

-----------------------------------------------------------------------------
(* The surroundings *)

LEMMA SurroundingsKeepHot ==
    ASSUME HotInv,
           \/ \E s \in HotSources : retry_time_passes(s)
           \/ \E s \in HotSources : cooldown_passes(s)
           \/ \E s \in HotSources : records_finish(s)
           \/ \E s \in HotSources : source_toggled(s)
           \/ \E s \in HotSources : source_guard_error(s)
    PROVE  HotInv'
  <1>1. /\ UNCHANGED <<durableHot, migrated, scanned, requeued,
                       reconcileHistory, hotLocals, released, hotCrashes>>
        /\ active' \in SUBSET HotSources
        /\ reported' \in SUBSET reported
        /\ retryLater' \in SUBSET HotSources
        /\ hotCooling' \in SUBSET HotSources
        /\ toggles' \in 0..MaxToggles
    BY HotAssumption
       DEF retry_time_passes, cooldown_passes, records_finish, source_toggled,
           source_guard_error, HotInv, HotSetsOK, HotLocalsOK
  <1>2. HotScanned' /\ HotRepair'
    BY <1>1, RecordsLeftAlone DEF hotLocals
  <1> QED
    BY <1>1, <1>2
       DEF durableHot, reconcileHistory, hotLocals, HotInv, HotSetsOK,
           HotLocalsOK

(* A crash loses the position of the scan, not its records. *)
LEMMA CrashKeepsHot == HotInv /\ hot_crash => HotInv'
  <1> SUFFICES ASSUME HotInv, hot_crash PROVE HotInv'
    OBVIOUS
  <1>1. HotScanned' /\ HotRepair'
    BY RecordsLeftAlone DEF hot_crash
  <1>2. hotCrashes' \in 0..MaxHotCrashes /\ 0 \in 0..SourceCount
    BY HotAssumption DEF hot_crash, HotInv, HotLocalsOK
  <1>3. HotSetsOK'
    BY DEF hot_crash, durableHot, reconcileHistory, HotInv, HotSetsOK
  <1>4. HotLocalsOK'
    BY <1>2 DEF hot_crash, durableHot, reconcileHistory, HotInv, HotLocalsOK
  <1> QED BY <1>1, <1>3, <1>4 DEF HotInv

-----------------------------------------------------------------------------
(* The theorems *)

(* Records of an older build reach up to the source it stopped in; a build
   that stores its progress has scanned what it calls completed. *)
LEMMA HotInvInit == HotInit => HotInv
  <1> SUFFICES ASSUME HotInit PROVE HotInv
    OBVIOUS
  <1>1. /\ sourceOrder \in SUBSET HotSources /\ completed \in SUBSET HotSources
        /\ scanned \in SUBSET HotSources /\ reported \in SUBSET HotSources
        /\ hotStatus \in {"none", "running", "complete"}
    <2>1. CASE NoScanStored
      BY <2>1, HotAssumption DEF NoScanStored, HotSources
    <2>2. CASE ScanStored
      BY <2>2 DEF ScanStored, HotInit
    <2> QED BY <2>1, <2>2 DEF HotInit
  <1>2. HotSetsOK
    BY <1>1 DEF HotInit, HotSetsOK
  <1>3. HotLocalsOK
    <2>1. 0 \in 0..SourceCount /\ 0 \in 0..MaxToggles /\ 0 \in 0..MaxHotCrashes
      BY HotAssumption
    <2> QED BY <1>1, <2>1 DEF HotInit, HotLocalsOK
  <1>4. InferredScanned
    <2> SUFFICES ASSUME sourceOrder = {}, NEW s \in HotSources,
                        NEW later \in reported, s < later
                 PROVE  s \in scanned
      BY DEF InferredScanned
    <2>1. PICK last \in 0..SourceCount :
                scanned = 1..(last - 1) /\ reported \in SUBSET (1..last)
      BY DEF HotInit, NoScanStored, ScanStored
    <2>2. later \in 1..last /\ last \in Nat /\ s \in Nat /\ s >= 1
      BY <2>1, HotAssumption DEF HotSources
    <2> QED BY <2>1, <2>2
  <1>5. CompletedWasScanned /\ ScansOrdered /\ HotRepair
    BY DEF HotInit, NoScanStored, ScanStored, CompletedWasScanned,
           ScansOrdered, HotRepair, ItemsInRepair, ExactFirst,
           OnlyFreshStateDrops
  <1> QED BY <1>2, <1>3, <1>4, <1>5 DEF HotInv, HotScanned

LEMMA HotInvStep == HotInv /\ [HotNext]_hotVars => HotInv'
  <1>1. ASSUME HotInv, UNCHANGED hotVars PROVE HotInv'
    <2>1. HotScanned' /\ HotRepair'
      BY <1>1, RecordsLeftAlone DEF hotVars, hotLocals
    <2> QED
      BY <1>1, <2>1
         DEF hotVars, durableHot, reconcileHistory, hotLocals, HotInv,
             HotSetsOK, HotLocalsOK
  <1> QED
    BY <1>1, MigrationKeeps, BarrierKeeps, PassBeginsKeeps,
       ReleaseAdmissionKeeps, FinishKeeps, SkippedKeeps, CoolingKeeps,
       ChosenKeeps, ExactRefusedKeeps, ExactEnqueuedKeeps, ScanSucceedsKeeps,
       ScanFailsKeeps, PassEndsKeeps, SurroundingsKeepHot, CrashKeepsHot
       DEF HotNext, HotLoop

LEMMA HotInvAlways == HotSpec => []HotInv
  BY HotInvInit, HotInvStep, PTL DEF HotSpec

(* The sets of sources, the stage and the counters of the scan stay within
   their types. *)
THEOREM HotTyped == HotSpec => []HotTypeOK
  <1>1. HotInv => HotTypeOK
    BY HotTypeParts DEF HotInv
  <1> QED BY <1>1, HotInvAlways, PTL

(* As long as there was a source at every reconciliation, no source is
   completed that was not scanned to its end since it was last opened, unless
   its repair was lost when the state was begun afresh. *)
THEOREM CompletedAreScanned == HotSpec => []CompletedWasScanned
  <1>1. HotInv => CompletedWasScanned
    BY DEF HotInv, HotScanned
  <1> QED BY <1>1, HotInvAlways, PTL

(* The exact ids of a falsely dead media are listed until they are enqueued,
   however often the scan crashes, is refused or fails, unless a reconciliation
   finds no stored order. *)
THEOREM FreshStateAloneDrops == HotSpec => []OnlyFreshStateDrops
  <1>1. HotInv => OnlyFreshStateDrops
    BY DEF HotInv, HotRepair
  <1> QED BY <1>1, HotInvAlways, PTL

(* Nothing is lost where the migration meets a stored order and some source is
   always active. *)
OrderKept == sourceOrder # {} /\ dropped = {}

LEMMA OrderReconciledKeeps ==
    ASSUME OrderKept, active # {}, OrderReconciled
    PROVE  OrderKept'
  BY DEF OrderKept, OrderReconciled

LEMMA OrderKeptStep ==
    OrderKept /\ active # {} /\ [HotNext]_hotVars => OrderKept'
  <1> SUFFICES ASSUME OrderKept, active # {}, [HotNext]_hotVars,
                      ~OrderReconciled
               PROVE  OrderKept'
    BY OrderReconciledKeeps
  <1>1. UNCHANGED <<sourceOrder, dropped>>
    BY DEF HotNext, HotLoop, hotVars, durableHot, reconcileHistory,
           release_legacy_false_zero_byte_quarantine, barrier_passed,
           pass_begins, release_startup_hot_scan_admission,
           finish_startup_hot_scan, source_skipped, source_cooling,
           source_chosen, exact_refused, exact_enqueued, scan_succeeds,
           scan_fails, pass_ends, retry_time_passes, cooldown_passes,
           records_finish, source_toggled, source_guard_error, hot_crash,
           reconcile_startup_hot_scan_state, StateReconciled
  <1> QED BY <1>1 DEF OrderKept

(* The claim of the code's comment, with the two conditions under which it is
   true: the migration meets a stored order, and it never becomes empty. *)
THEOREM RepairIsKept ==
    HotSpec /\ ScanStored /\ [](active # {}) => []RepairSurvives
  <1>1. HotInit /\ ScanStored => OrderKept
    BY DEF HotInit, ScanStored, OrderKept
  <1>2. OrderKept /\ OnlyFreshStateDrops => RepairSurvives
    BY DEF OrderKept, OnlyFreshStateDrops, RepairSurvives
  <1> QED
    BY <1>1, <1>2, OrderKeptStep, FreshStateAloneDrops, PTL DEF HotSpec

-----------------------------------------------------------------------------
(* The composition *)

(* Each part of a behaviour of Telegram is a behaviour of that part. *)
LEMMA PartsBehave ==
    TelegramSpec => Init /\ [][Next]_vars /\ HotSpec /\ GateSpec
  <1>1. TelegramInit => Init /\ HotInit /\ GateInit
    BY DEF TelegramInit
  <1>2. [TelegramNext]_allTelegramVars
            => [Next]_vars /\ [HotNext]_hotVars /\ [GateNext]_gateVars
    BY DEF TelegramNext, allTelegramVars
  <1> QED BY <1>1, <1>2, PTL DEF TelegramSpec, HotSpec, GateSpec


(* In every state of the composition the part that is explored is of its
   type. *)
THEOREM TelegramIsTyped == TelegramSpec => []TelegramTypeOK
  <1>1. Init /\ [][Next]_vars => []TypeOK
    BY TypeCorrect DEF Spec
  <1>2. TypeOK /\ HotTypeOK /\ GateTypeOK => TelegramTypeOK
    BY DEF TelegramTypeOK
  <1> QED BY <1>1, <1>2, PartsBehave, HotTyped, GateTyped, PTL

=============================================================================
