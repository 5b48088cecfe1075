----------------------------- MODULE TelegramGate ---------------------------
(***************************************************************************)
(* The calls of the user account: each waits for the transport and for the *)
(* flood gate, registers itself, waits for a slot and runs, with timeouts  *)
(* and retries.  A lost transport is restarted behind a lock, after the    *)
(* transfers in flight have drained; an answer that the authorization is   *)
(* invalid pauses the account.                                             *)
(***************************************************************************)
EXTENDS Naturals, FiniteSets

CONSTANTS
    GateCalls,              \* the kinds of call made, one of each at a time
    TELEGRAM_CALL_RETRIES,
    MaxRecoveryTasks,       \* bound on the recovery tasks waiting
    MaxGateFaults           \* bound on losses, flood waits and refusals

(* tg_call makes "download" and "validator" calls, telegram_media_call
   "media", telegram_gateway_await "control". *)
CallKinds == {"download", "validator", "media", "control"}

ASSUME GateAssumption ==
    /\ GateCalls \subseteq CallKinds
    /\ {TELEGRAM_CALL_RETRIES, MaxRecoveryTasks} \subseteq Nat \ {0}
    /\ MaxGateFaults \in Nat

VARIABLES
    callStage,          \* step of each call
    callTry,            \* attempt of each call
    flooded,            \* the flood gate is closed
    SESSION_AUTH_INVALID,
    staleCall,          \* the validator ran when the session was marked
    transport,          \* the client is connected
    recovery,           \* step of the holder of telegram_reconnect_lock
    drainExpired,       \* the recovery did not wait for the transfers
    asked,              \* recovery tasks that did not start
    atLock,             \* recovery tasks that wait for the lock
    cooling,            \* the last recovery is recent
    gateFaults

callVars == <<callStage, callTry>>
sessionVars == <<SESSION_AUTH_INVALID, staleCall>>
recoveryVars == <<recovery, drainExpired, atLock, cooling>>
gateVars == <<callVars, flooded, sessionVars, transport, recoveryVars, asked,
              gateFaults>>

GateInit ==
    /\ callStage = [c \in GateCalls |-> "idle"]
    /\ callTry = [c \in GateCalls |-> 0]
    /\ flooded = FALSE
    /\ SESSION_AUTH_INVALID = FALSE /\ staleCall = FALSE
    /\ transport = TRUE
    /\ recovery = "idle" /\ drainExpired = FALSE
    /\ asked = 0 /\ atLock = 0
    /\ cooling = FALSE
    /\ gateFaults = 0

Fault == gateFaults < MaxGateFaults /\ gateFaults' = gateFaults + 1

-----------------------------------------------------------------------------
(* The way of a call *)

FirstStage(c) == IF c = "media" THEN "flood" ELSE "client"

(* A mutant: the transport is not looked at again after the flood gate. *)
MutantNoRecheck(c) == IF c = "media" THEN "transport" ELSE "slot"

AfterFlood(c) == IF c = "control" THEN "slot" ELSE "transport"

(* begin_telegram_inflight is called on entering this stage. *)
Registered(c) ==
    \/ callStage[c] \in {"slot", "rpc"}
    \/ c = "control" /\ callStage[c] = "flood"

active_userbot_media_rpc_count ==
    Cardinality({c \in GateCalls \cap {"download", "media"} : Registered(c)})

MoveCall(c, to) ==
    /\ callStage' = [callStage EXCEPT ![c] = to]
    /\ UNCHANGED callTry

(* end_telegram_inflight included: the entry goes with the call. *)
EndCall(c) ==
    /\ callStage' = [callStage EXCEPT ![c] = "idle"]
    /\ callTry' = [callTry EXCEPT ![c] = 0]

(* An upload is not tried again here, its caller must look for the message
   first; the validator asks for one attempt. *)
RetryOrRaise(c) ==
    IF c \in {"download", "control"} /\ callTry[c] < TELEGRAM_CALL_RETRIES
    THEN /\ callStage' = [callStage EXCEPT ![c] = FirstStage(c)]
         /\ callTry' = [callTry EXCEPT ![c] = @ + 1]
    ELSE EndCall(c)

call_begins(c) ==
    /\ callStage[c] = "idle"
    /\ callStage' = [callStage EXCEPT ![c] = FirstStage(c)]
    /\ callTry' = [callTry EXCEPT ![c] = 1]
    /\ UNCHANGED <<flooded, sessionVars, transport, recoveryVars, asked,
                   gateFaults>>

mark_session_auth_invalid ==
    /\ SESSION_AUTH_INVALID' = TRUE
    /\ staleCall' = /\ "validator" \in GateCalls
                    /\ callStage'["validator"] \in {"slot", "rpc"}

AtClient(c) == callStage[c] \in {"client", "transport"}

(* A mutant: the validation itself is let through. *)
MutantValidatorPasses(c) ==
    /\ AtClient(c)
    /\ c = "validator" \/ ~SESSION_AUTH_INVALID
    /\ recovery = "idle"

wait_for_telegram_client(c) ==
    /\ AtClient(c)
    /\ ~SESSION_AUTH_INVALID
    /\ recovery = "idle"

client_passes(c) ==
    /\ wait_for_telegram_client(c)
    /\ MoveCall(c, IF callStage[c] = "client" THEN "flood" ELSE "slot")
    /\ staleCall' = (staleCall /\ c # "validator")
    /\ UNCHANGED <<flooded, SESSION_AUTH_INVALID, transport, recoveryVars,
                   asked, gateFaults>>

(* The error quotes the reason of the mark, and so marks the session again. *)
client_refused(c) ==
    /\ AtClient(c)
    /\ SESSION_AUTH_INVALID
    /\ EndCall(c)
    /\ mark_session_auth_invalid
    /\ UNCHANGED <<flooded, transport, recoveryVars, asked, gateFaults>>

client_wait_timeout(c) ==
    /\ AtClient(c)
    /\ ~SESSION_AUTH_INVALID
    /\ recovery # "idle"
    /\ RetryOrRaise(c)
    /\ UNCHANGED <<flooded, sessionVars, transport, recoveryVars, asked,
                   gateFaults>>

wait_global_flood_gate(c) ==
    /\ callStage[c] = "flood"
    /\ ~flooded
    /\ MoveCall(c, AfterFlood(c))
    /\ UNCHANGED <<flooded, sessionVars, transport, recoveryVars, asked,
                   gateFaults>>

(* The semaphore of the lane has a place. *)
slot_taken(c) ==
    /\ callStage[c] = "slot"
    /\ MoveCall(c, "rpc")
    /\ UNCHANGED <<flooded, sessionVars, transport, recoveryVars, asked,
                   gateFaults>>

-----------------------------------------------------------------------------
(* What a call ends with *)

(* session_validator_loop clears the mark when its call returns. *)
clear_session_auth_invalid(c) ==
    IF c = "validator"
    THEN SESSION_AUTH_INVALID' = FALSE /\ staleCall' = FALSE
    ELSE UNCHANGED sessionVars

rpc_returns(c) ==
    /\ callStage[c] = "rpc" /\ transport
    /\ EndCall(c)
    /\ clear_session_auth_invalid(c)
    /\ UNCHANGED <<flooded, transport, recoveryVars, asked, gateFaults>>

(* A timeout is tried again, any other error raised. *)
rpc_fails(c) ==
    /\ callStage[c] = "rpc" /\ transport
    /\ RetryOrRaise(c) \/ EndCall(c)
    /\ UNCHANGED <<flooded, sessionVars, transport, recoveryVars, asked,
                   gateFaults>>

note_global_flood_wait == Fault /\ flooded' = TRUE

(* should_wait_for_internal_flood_retry: only with an attempt left. *)
rpc_flood_wait(c) ==
    /\ callStage[c] = "rpc" /\ transport
    /\ note_global_flood_wait
    /\ RetryOrRaise(c)
    /\ UNCHANGED <<sessionVars, transport, recoveryVars, asked>>

(* is_session_auth_error *)
rpc_auth_error(c) ==
    /\ callStage[c] = "rpc" /\ transport
    /\ Fault
    /\ EndCall(c)
    /\ mark_session_auth_invalid
    /\ UNCHANGED <<flooded, transport, recoveryVars, asked>>

schedule_userbot_reconnect ==
    asked' = IF asked < MaxRecoveryTasks THEN asked + 1 ELSE asked

(* should_reconnect_telegram_error, is_temporary_network_error *)
rpc_connection_error(c) ==
    /\ callStage[c] = "rpc" /\ ~transport
    /\ schedule_userbot_reconnect
    /\ RetryOrRaise(c)
    /\ UNCHANGED <<flooded, sessionVars, transport, recoveryVars, gateFaults>>

(* cancel_stalled_worker_job: the task of a download or upload worker is
   cancelled, at whatever step of its call. *)
call_cancelled(c) ==
    /\ c \in {"download", "media"} /\ callStage[c] # "idle"
    /\ EndCall(c)
    /\ UNCHANGED <<flooded, sessionVars, transport, recoveryVars, asked,
                   gateFaults>>

-----------------------------------------------------------------------------
(* recover_userbot_connection *)

transport_lost ==
    /\ transport
    /\ Fault
    /\ transport' = FALSE
    /\ UNCHANGED <<callVars, flooded, sessionVars, recoveryVars, asked>>

(* watchdog_loop: the source guard has not been seen for long. *)
watchdog_loop ==
    /\ asked = 0
    /\ schedule_userbot_reconnect
    /\ UNCHANGED <<callVars, flooded, sessionVars, transport, recoveryVars,
                   gateFaults>>

recovery_begins ==
    /\ asked > 0
    /\ asked' = asked - 1
    /\ atLock' = IF SESSION_AUTH_INVALID \/ cooling \/ atLock = MaxRecoveryTasks
                 THEN atLock ELSE atLock + 1
    /\ UNCHANGED <<callVars, flooded, sessionVars, transport, recovery,
                   drainExpired, cooling, gateFaults>>

recovery_locks ==
    /\ atLock > 0 /\ recovery = "idle"
    /\ atLock' = atLock - 1
    /\ recovery' = IF cooling THEN "idle" ELSE "draining"
    /\ UNCHANGED <<callVars, flooded, sessionVars, transport, drainExpired,
                   cooling, asked, gateFaults>>

(* The transfers have drained, or their deadline has passed. *)
recovery_stops ==
    /\ recovery = "draining"
    /\ recovery' = "stopped"
    /\ drainExpired' = (active_userbot_media_rpc_count > 0)
    /\ transport' = FALSE
    /\ cooling' = TRUE
    /\ UNCHANGED <<callVars, flooded, sessionVars, atLock, asked, gateFaults>>

recovery_starts ==
    /\ recovery = "stopped"
    /\ recovery' = "refreshing"
    /\ transport' = TRUE
    /\ UNCHANGED <<callVars, flooded, sessionVars, drainExpired, atLock,
                   cooling, asked, gateFaults>>

(* A mutant: the lock is not given back. *)
MutantKeepsLock ==
    /\ recovery = "stopped"
    /\ Fault
    /\ recovery' = "failed"
    /\ drainExpired' = FALSE
    /\ cooling' = TRUE
    /\ UNCHANGED <<callVars, flooded, sessionVars, transport, atLock, asked>>

recovery_fails ==
    /\ recovery = "stopped"
    /\ Fault
    /\ recovery' = "idle"
    /\ drainExpired' = FALSE
    /\ cooling' = TRUE
    /\ UNCHANGED <<callVars, flooded, sessionVars, transport, atLock, asked>>

(* It waits for the flood gate with the lock held, and may be told to wait
   itself. *)
refresh_userbot_dialog_cache ==
    /\ recovery = "refreshing" /\ ~flooded
    /\ recovery' = "idle"
    /\ drainExpired' = FALSE
    /\ note_global_flood_wait \/ UNCHANGED <<flooded, gateFaults>>
    /\ UNCHANGED <<callVars, sessionVars, transport, atLock, cooling, asked>>

flood_gate_opens ==
    /\ flooded
    /\ flooded' = FALSE
    /\ UNCHANGED <<callVars, sessionVars, transport, recoveryVars, asked,
                   gateFaults>>

cooldown_ends ==
    /\ cooling
    /\ cooling' = FALSE
    /\ UNCHANGED <<callVars, flooded, sessionVars, transport, recovery,
                   drainExpired, atLock, asked, gateFaults>>

rpc_ends(c) ==
    \/ rpc_returns(c) \/ rpc_fails(c) \/ rpc_flood_wait(c)
    \/ rpc_auth_error(c) \/ rpc_connection_error(c)

CallProceeds(c) ==
    \/ call_begins(c)
    \/ client_passes(c) \/ client_refused(c) \/ client_wait_timeout(c)
    \/ wait_global_flood_gate(c) \/ slot_taken(c) \/ rpc_ends(c)

LockHolderProceeds ==
    \/ recovery_stops \/ recovery_starts \/ recovery_fails
    \/ refresh_userbot_dialog_cache

GateNext ==
    \/ \E c \in GateCalls : CallProceeds(c) \/ call_cancelled(c)
    \/ transport_lost \/ watchdog_loop
    \/ recovery_begins \/ recovery_locks \/ LockHolderProceeds
    \/ flood_gate_opens \/ cooldown_ends

GateSpec == GateInit /\ [][GateNext]_gateVars

-----------------------------------------------------------------------------

GateTypeOK ==
    /\ callStage \in [GateCalls -> {"idle", "client", "flood", "transport",
                                    "slot", "rpc"}]
    /\ callTry \in [GateCalls -> 0..TELEGRAM_CALL_RETRIES]
    /\ {flooded, SESSION_AUTH_INVALID, staleCall, transport, drainExpired,
        cooling} \subseteq BOOLEAN
    /\ recovery \in {"idle", "draining", "stopped", "refreshing", "failed"}
    /\ {asked, atLock} \subseteq 0..MaxRecoveryTasks

(* A restart of the transport never meets a transfer it did not wait for:
   unless the deadline of the drain passed, no download or upload is
   registered while the client is stopped. *)
TransfersDrain ==
    (recovery = "stopped" /\ ~drainExpired)
        => active_userbot_media_rpc_count = 0

(* The mark of an invalid session is only ever cleared by a validation that
   was already running when the mark was set: the validator's later calls are
   refused, so that a session marked by mistake stays paused. *)
ClearedByStaleCall ==
    [][(SESSION_AUTH_INVALID /\ ~SESSION_AUTH_INVALID') => staleCall]_gateVars

(* A lost transport comes back, whatever cooldowns, failed restarts, flood
   waits and drains lie between, unless the session is marked invalid. *)
TransportReturns == ~transport ~> (transport \/ SESSION_AUTH_INVALID)
=============================================================================
