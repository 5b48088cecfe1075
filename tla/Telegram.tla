------------------------------ MODULE Telegram ------------------------------
(***************************************************************************)
(* The parts that talk to Telegram and must come to rest: the delivery of  *)
(* a media, the hot scan of the sources and the gate every call passes.    *)
(* They share no variable, so that a behaviour of one is explored while    *)
(* the others stand still; "focus" says which.                             *)
(***************************************************************************)
EXTENDS Delivery, HotScan, TelegramGate

VARIABLE focus

allTelegramVars == <<focus, vars, hotVars, gateVars>>

TelegramInit ==
    /\ focus \in {"delivery", "scan", "gate"}
    /\ Init
    /\ HotInit
    /\ focus # "scan" =>
          active = {} /\ sourceOrder = {} /\ reported = {} /\ scanned = {}
    /\ GateInit

TelegramNext ==
    \/ /\ focus = "delivery"
       /\ Next
       /\ UNCHANGED <<focus, hotVars, gateVars>>
    \/ /\ focus = "scan"
       /\ HotNext
       /\ UNCHANGED <<focus, vars, gateVars>>
    \/ /\ focus = "gate"
       /\ GateNext
       /\ UNCHANGED <<focus, vars, hotVars>>

(* The coroutine that holds the media goes on, and scans of the target that
   are repeated for ever do not fail for ever. *)
DeliveryFairness ==
    /\ WF_vars(focus = "delivery" /\ Step)
    /\ SF_vars(focus = "delivery" /\ reconcile_committed)

(* The loop is endless and each await of it is bounded; time passes; a source
   that is scanned again and again is read in the end. *)
ScanFairness ==
    /\ WF_hotVars(focus = "scan" /\ HotLoop)
    /\ \A s \in HotSources :
          /\ WF_hotVars(focus = "scan" /\ retry_time_passes(s))
          /\ WF_hotVars(focus = "scan" /\ cooldown_passes(s))
          /\ SF_hotVars(focus = "scan" /\ chosen = s /\ scan_succeeds)
    /\ \A s \in FalselyDead :
          SF_hotVars(focus = "scan" /\ chosen = s /\ exact_enqueued)

(* Every wait has a timeout, the tasks run on one event loop, and calls go on
   being made.  Watchdog requests and cancellations are not assumed. *)
GateFairness ==
    /\ \A c \in GateCalls : WF_gateVars(focus = "gate" /\ CallProceeds(c))
    /\ WF_gateVars(focus = "gate" /\ recovery_begins)
    /\ WF_gateVars(focus = "gate" /\ recovery_locks)
    /\ WF_gateVars(focus = "gate" /\ LockHolderProceeds)
    /\ WF_gateVars(focus = "gate" /\ flood_gate_opens)
    /\ WF_gateVars(focus = "gate" /\ cooldown_ends)

TelegramSpec ==
    /\ TelegramInit
    /\ [][TelegramNext]_allTelegramVars
    /\ DeliveryFairness
    /\ ScanFairness
    /\ GateFairness

(* The state of the part that is explored is of its type. *)
TelegramTypeOK ==
    /\ focus = "delivery" => TypeOK
    /\ focus = "scan" => HotTypeOK
    /\ focus = "gate" => GateTypeOK
=============================================================================
