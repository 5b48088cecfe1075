------------------------- MODULE WorkerSupervision --------------------------
(***************************************************************************)
(* The supervised worker tasks: download workers, of which the scaler adds *)
(* and stops extra ones, and the link worker; the watchdogs that cancel a  *)
(* stalled worker and spare the workers after a pause of the event loop;   *)
(* the ordered shutdown.  A cancellation reaches a task at the await where *)
(* it waits.  The upload worker handles cancellation as the download       *)
(* worker does and has no extra ones, it is not modelled again.            *)
(***************************************************************************)
EXTENDS Integers, FiniteSets

CONSTANTS
    PoolJobs,                          \* media jobs
    PoolLinks,                         \* links sent by users
    NoWork,
    ADAPTIVE_DOWNLOAD_WORKERS_MAX,
    ADAPTIVE_WORKER_LOW_WATERMARK,
    RetryAdmissionLimit,
    WorkerStallAge,                    \* WORKER_STALL_SECONDS
    WorkerResumeGrace,                 \* WORKER_STALL_RESUME_GRACE_SECONDS
    MaxExtraId,                        \* bound on the ids of download workers
    MaxPauses                          \* bound on pauses of the event loop

ASSUME SupervisionAssumption ==
    /\ PoolJobs \cap PoolLinks = {}
    /\ NoWork \notin PoolJobs \cup PoolLinks
    /\ {ADAPTIVE_DOWNLOAD_WORKERS_MAX, RetryAdmissionLimit,
        WorkerStallAge, MaxExtraId} \subseteq Nat \ {0}
    /\ {ADAPTIVE_WORKER_LOW_WATERMARK, WorkerResumeGrace,
        MaxPauses} \subseteq Nat
    /\ WorkerResumeGrace <= WorkerStallAge

VARIABLES
    taskStep,        \* await at which each worker's task is
    taskJob,         \* active_worker_jobs: the job in each worker's hand
    taskAge,         \* time since its last progress
    taskAwake,       \* part of that time in which the event loop ran
    cancelling,      \* tasks with a cancellation on its way
    extras,          \* extra_download_tasks of the scaler
    nextExtra,       \* next_download_id
    work,            \* where each job and link is
    heartbeatOld,    \* EVENT_LOOP_HEARTBEAT_TS is long ago
    stallSeen,       \* the watchdog thread has seen that
    stallActive,     \* GLOBAL_EVENT_LOOP_STALL_ACTIVE
    graceLeft,       \* time until WORKER_STALL_SUPPRESS_UNTIL_MONOTONIC
    watchdogDue,     \* the watchdog has slept since its last look
    pauses,
    shutdownAsked,   \* the lifecycle's _requested
    shutdownPhase,
    savedLinks,      \* links in the last checkpoint of the shutdown
    lateLinks        \* links taken after the checkpoint the shutdown awaits

supervisionVars ==
    <<taskStep, taskJob, taskAge, taskAwake, cancelling, extras, nextExtra,
      work, heartbeatOld, stallSeen, stallActive, graceLeft,
      watchdogDue, pauses, shutdownAsked, shutdownPhase, savedLinks, lateLinks>>

taskVars == <<taskStep, taskJob, taskAge, taskAwake>>
clockVars == <<heartbeatOld, stallSeen, stallActive, graceLeft, watchdogDue,
               pauses>>
shutdownVars == <<shutdownAsked, shutdownPhase, savedLinks, lateLinks>>

LinkWorker == 0
BaseWorker == 1
PoolWorkers == {LinkWorker} \cup 1..MaxExtraId
AgeCap == WorkerStallAge + 1

(* Awaits in the error handlers of a loop; at "busy" it is in its try block. *)
Handling == {"handling", "notifying"}
Spawned(w) == taskStep[w] \notin {"none", "ended"}

WorkAt(place) == {x \in PoolJobs \cup PoolLinks : work[x] = place}

SupervisionInit ==
    /\ taskStep = [w \in PoolWorkers |->
                      IF w \in {LinkWorker, BaseWorker} THEN "idle" ELSE "none"]
    /\ taskJob = [w \in PoolWorkers |-> NoWork]
    /\ taskAge = [w \in PoolWorkers |-> 0]
    /\ taskAwake = [w \in PoolWorkers |-> 0]
    /\ cancelling = {}
    /\ extras = {}
    /\ nextExtra = BaseWorker + 1
    /\ work = [x \in PoolJobs \cup PoolLinks |-> "new"]
    /\ heartbeatOld = FALSE /\ stallSeen = FALSE /\ stallActive = FALSE
    /\ graceLeft = 0
    /\ watchdogDue = TRUE
    /\ pauses = 0
    /\ shutdownAsked = FALSE
    /\ shutdownPhase = "run"
    /\ savedLinks = {} /\ lateLinks = {}

-----------------------------------------------------------------------------
(* Work *)

(* Admission, and the healer for a job that is only on record. *)
job_admitted(j) ==
    /\ work[j] \in {"new", "left"}
    /\ work' = [work EXCEPT ![j] = "queue"]
    /\ UNCHANGED <<taskVars, cancelling, extras, nextExtra, clockVars,
                   shutdownVars>>

(* The user's message is answered before the link is put into the queue. *)
queue_private_link(l) ==
    /\ work[l] = "new"
    /\ work' = [work EXCEPT ![l] = "queue"]
    /\ lateLinks' = IF shutdownPhase \in {"run", "asked"} THEN lateLinks
                    ELSE lateLinks \cup {l}
    /\ UNCHANGED <<taskVars, cancelling, extras, nextExtra, clockVars,
                   shutdownAsked, shutdownPhase, savedLinks>>

retry_scheduler_loop(x) ==
    /\ work[x] = "retry"
    /\ work' = [work EXCEPT ![x] = "queue"]
    /\ UNCHANGED <<taskVars, cancelling, extras, nextExtra, clockVars,
                   shutdownVars>>

(* Work whose retry is refused: a job stays on record, a link is gone. *)
schedule_queue_retry(x) ==
    work' = [work EXCEPT ![x] =
                IF Cardinality(WorkAt("retry")) < RetryAdmissionLimit
                THEN "retry"
                ELSE IF x \in PoolLinks THEN "dropped" ELSE "left"]

-----------------------------------------------------------------------------
(* Steps of a worker without a cancellation on its way *)

ToStep(w, step) == taskStep' = [taskStep EXCEPT ![w] = step]
clear_worker_job(w, step) ==
    /\ ToStep(w, step)
    /\ taskJob' = [taskJob EXCEPT ![w] = NoWork]
    /\ taskAge' = [taskAge EXCEPT ![w] = 0]
    /\ taskAwake' = [taskAwake EXCEPT ![w] = 0]
touch_worker_job(w) ==
    /\ taskAge' = [taskAge EXCEPT ![w] = 0]
    /\ taskAwake' = [taskAwake EXCEPT ![w] = 0]

WorkFor(w) == IF w = LinkWorker THEN PoolLinks ELSE PoolJobs

mark_worker_job(w, x) ==
    /\ taskStep[w] = "idle" /\ w \notin cancelling
    /\ x \in WorkFor(w) /\ work[x] = "queue"
    /\ work' = [work EXCEPT ![x] = "hand"]
    /\ taskJob' = [taskJob EXCEPT ![w] = x]
    /\ touch_worker_job(w)
    /\ ToStep(w, "busy")
    /\ UNCHANGED <<cancelling, extras, nextExtra, clockVars, shutdownVars>>

(* Progress: the next item, the begin or the end of a media call. *)
worker_progress(w) ==
    /\ taskStep[w] = "busy" /\ w \notin cancelling /\ w # LinkWorker
    /\ touch_worker_job(w)
    /\ UNCHANGED <<taskStep, taskJob, cancelling, extras, nextExtra, work,
                   clockVars, shutdownVars>>

worker_done(w) ==
    /\ taskStep[w] = "busy" /\ w \notin cancelling /\ w # LinkWorker
    /\ work' = [work EXCEPT ![taskJob[w]] = "done"]
    /\ clear_worker_job(w, "idle")
    /\ UNCHANGED <<cancelling, extras, nextExtra, clockVars, shutdownVars>>

(* The handler of an error awaits before it schedules the retry. *)
worker_error(w) ==
    /\ taskStep[w] = "busy" /\ w \notin cancelling /\ w # LinkWorker
    /\ ToStep(w, "handling")
    /\ UNCHANGED <<taskJob, taskAge, taskAwake, cancelling, extras, nextExtra,
                   work, clockVars, shutdownVars>>

(* It schedules the retry, or raises and leaves the job to its record. *)
error_handled(w) ==
    /\ taskStep[w] = "handling" /\ w \notin cancelling
    /\ \/ schedule_queue_retry(taskJob[w]) /\ clear_worker_job(w, "idle")
       \/ /\ work' = [work EXCEPT ![taskJob[w]] = "left"]
          /\ clear_worker_job(w, "restart_wait")
    /\ UNCHANGED <<cancelling, extras, nextExtra, clockVars, shutdownVars>>

(* The link is answered, with or without a media job put into the queue. *)
process_telegram_link ==
    /\ taskStep[LinkWorker] = "busy" /\ LinkWorker \notin cancelling
    /\ \E queued \in {{}} \cup {{j} : j \in PoolJobs \cap WorkAt("new")} :
          work' = [x \in DOMAIN work |->
                      CASE x = taskJob[LinkWorker] -> "done"
                        [] x \in queued -> "queue"
                        [] OTHER -> work[x]]
    /\ clear_worker_job(LinkWorker, "idle")
    /\ UNCHANGED <<cancelling, extras, nextExtra, clockVars, shutdownVars>>

(* Tried again unless its MAX_RETRIES retries, not counted here, are used. *)
link_error ==
    LET l == taskJob[LinkWorker]
    IN  /\ taskStep[LinkWorker] = "busy" /\ LinkWorker \notin cancelling
        /\ schedule_queue_retry(l) \/ work' = [work EXCEPT ![l] = "done"]
        /\ clear_worker_job(LinkWorker, "idle")
        /\ UNCHANGED <<cancelling, extras, nextExtra, clockVars,
                       shutdownVars>>

(* The user has been told that a stalled job was cancelled. *)
stall_notified(w) ==
    /\ taskStep[w] = "notifying" /\ w \notin cancelling
    /\ clear_worker_job(w, "idle")
    /\ UNCHANGED <<cancelling, extras, nextExtra, work, clockVars,
                   shutdownVars>>

(* TaskSupervisor._run after its delay *)
run_again(w) ==
    /\ taskStep[w] = "restart_wait" /\ w \notin cancelling
    /\ ToStep(w, IF shutdownAsked THEN "ended" ELSE "idle")
    /\ UNCHANGED <<taskJob, taskAge, taskAwake, cancelling, extras, nextExtra,
                   work, clockVars, shutdownVars>>

-----------------------------------------------------------------------------
(* A cancellation arrives *)

(* Outside the try block, in a handler, and in the link worker it ends the
   task.  A job of which a handler has not scheduled the retry is on record. *)
task_cancelled(w) ==
    /\ w \in cancelling
    /\ \/ taskStep[w] # "busy"
       \/ shutdownPhase # "run" \/ w = LinkWorker
    /\ cancelling' = cancelling \ {w}
    /\ clear_worker_job(w, "ended")
    /\ work' = IF taskStep[w] \in {"busy", "handling"}
               THEN [work EXCEPT ![taskJob[w]] =
                        IF w = LinkWorker THEN "unfinished" ELSE "left"]
               ELSE work
    /\ UNCHANGED <<extras, nextExtra, clockVars, shutdownVars>>

(* In the try block a download worker takes it for the watchdog's. *)
stall_handled(w) ==
    /\ w \in cancelling /\ w # LinkWorker
    /\ taskStep[w] = "busy" /\ shutdownPhase = "run"
    /\ cancelling' = cancelling \ {w}
    /\ schedule_queue_retry(taskJob[w])
    /\ \/ ToStep(w, "notifying") /\ UNCHANGED <<taskJob, taskAge, taskAwake>>
       \/ clear_worker_job(w, "idle")
    /\ UNCHANGED <<extras, nextExtra, clockVars, shutdownVars>>

-----------------------------------------------------------------------------
(* The watchdogs *)

(* The link worker is listed too, but never cancelled; its age is left out. *)
Watched == {w \in PoolWorkers \ {LinkWorker} : taskJob[w] # NoWork}

Suppressed == stallActive \/ graceLeft > 0

(* A mutant: the age of the heartbeat is not looked at. *)
MutantTrustsAges ==
    IF Suppressed THEN {}
    ELSE {w \in Watched : taskAge[w] > WorkerStallAge}

(* A media call counts from its start once its own time limit is over, which
   is below the age of a stall. *)
stalled_worker_jobs ==
    IF heartbeatOld \/ Suppressed THEN {}
    ELSE {w \in Watched : taskAge[w] > WorkerStallAge}

cancel_stalled_worker_job ==
    /\ watchdogDue
    /\ \E w \in stalled_worker_jobs :
          cancelling' = cancelling \cup {w}
    /\ watchdogDue' = FALSE
    /\ UNCHANGED <<taskVars, extras, nextExtra, work, heartbeatOld, stallSeen,
                   stallActive, graceLeft, pauses, shutdownVars>>

(* The watchdog's look at an old heartbeat begins the grace time. *)
watchdog_suppresses ==
    /\ heartbeatOld /\ watchdogDue /\ shutdownPhase # "stopping"
    /\ graceLeft' = WorkerResumeGrace
    /\ watchdogDue' = FALSE
    /\ UNCHANGED <<taskVars, cancelling, extras, nextExtra, work,
                   heartbeatOld, stallSeen, stallActive, pauses,
                   shutdownVars>>

event_loop_heartbeat_loop ==
    /\ heartbeatOld \/ stallActive
    /\ shutdownPhase # "stopping"
    /\ heartbeatOld' = FALSE /\ stallActive' = FALSE
    /\ graceLeft' = WorkerResumeGrace
    /\ UNCHANGED <<taskVars, cancelling, extras, nextExtra, work, stallSeen,
                   watchdogDue, pauses, shutdownVars>>

(* The thread of start_hard_watchdog looks, then marks. *)
watchdog_runner_looks ==
    /\ heartbeatOld /\ ~stallSeen
    /\ stallSeen' = TRUE
    /\ UNCHANGED <<taskVars, cancelling, extras, nextExtra, work,
                   heartbeatOld, stallActive, graceLeft, watchdogDue, pauses,
                   shutdownVars>>

watchdog_runner_marks ==
    /\ stallSeen
    /\ stallSeen' = FALSE /\ stallActive' = TRUE
    /\ graceLeft' = WorkerResumeGrace
    /\ UNCHANGED <<taskVars, cancelling, extras, nextExtra, work,
                   heartbeatOld, watchdogDue, pauses, shutdownVars>>

(* The event loop or the whole host stands still for long, before a shutdown
   is asked for. *)
loop_paused ==
    /\ pauses < MaxPauses /\ ~shutdownAsked
    /\ pauses' = pauses + 1
    /\ watchdogDue' = TRUE
    /\ heartbeatOld' = TRUE
    /\ graceLeft' = 0
    /\ taskAge' = [w \in PoolWorkers |->
                      IF w \in Watched THEN AgeCap ELSE taskAge[w]]
    /\ UNCHANGED <<taskStep, taskJob, taskAwake, cancelling, extras,
                   nextExtra, work, stallSeen, stallActive, shutdownVars>>

(* The heartbeat and a cancellation take less than a unit of time. *)
loop_time_passes ==
    /\ ~heartbeatOld /\ ~stallActive /\ cancelling = {}
    /\ taskAge' = [w \in PoolWorkers |->
                      IF w \in Watched /\ taskAge[w] < AgeCap
                      THEN taskAge[w] + 1 ELSE taskAge[w]]
    /\ taskAwake' = [w \in PoolWorkers |->
                        IF /\ w \in Watched
                           /\ taskAwake[w] < WorkerResumeGrace
                        THEN taskAwake[w] + 1 ELSE taskAwake[w]]
    /\ graceLeft' = IF graceLeft = 0 THEN 0 ELSE graceLeft - 1
    /\ watchdogDue' = TRUE
    /\ UNCHANGED <<taskStep, taskJob, cancelling, extras, nextExtra, work,
                   heartbeatOld, stallSeen, stallActive, pauses,
                   shutdownVars>>

-----------------------------------------------------------------------------
(* The scaler *)

desired_total ==
    LET queued == Cardinality(PoolJobs \cap WorkAt("queue"))
    IN  IF queued <= ADAPTIVE_WORKER_LOW_WATERMARK THEN {1}
        ELSE 1..ADAPTIVE_DOWNLOAD_WORKERS_MAX

reap_finished == {w \in extras : taskStep[w] # "ended"}

(* Only when the supervisor is not stopping; the task ends at once if the
   shutdown is asked for. *)
spawn ==
    /\ shutdownPhase \in {"run", "asked", "saved"}
    /\ nextExtra <= MaxExtraId
    /\ \E desired \in desired_total :
          1 + Cardinality(reap_finished) < desired
    /\ extras' = reap_finished \cup {nextExtra}
    /\ nextExtra' = nextExtra + 1
    /\ ToStep(nextExtra, IF shutdownAsked THEN "ended" ELSE "idle")
    /\ UNCHANGED <<taskJob, taskAge, taskAwake, cancelling, work, clockVars,
                   shutdownVars>>

cancel_idle_extra(w) ==
    /\ shutdownPhase \in {"run", "asked", "saved"}
    /\ w \in reap_finished /\ taskJob[w] = NoWork
    /\ \E desired \in desired_total :
          1 + Cardinality(reap_finished) > desired
    /\ cancelling' = cancelling \cup {w}
    /\ extras' = reap_finished \ {w}
    /\ UNCHANGED <<taskVars, nextExtra, work, clockVars, shutdownVars>>

-----------------------------------------------------------------------------
(* The shutdown *)

request_shutdown ==
    /\ ~shutdownAsked
    /\ shutdownAsked' = TRUE
    /\ UNCHANGED <<taskVars, cancelling, extras, nextExtra, work, clockVars,
                   shutdownPhase, savedLinks, lateLinks>>

wait_for_shutdown_signal ==
    /\ shutdownPhase = "run" /\ shutdownAsked
    /\ shutdownPhase' = "asked"
    /\ UNCHANGED <<taskVars, cancelling, extras, nextExtra, work, clockVars,
                   shutdownAsked, savedLinks, lateLinks>>

OpenLinks == PoolLinks \cap (WorkAt("queue") \cup WorkAt("retry")
                             \cup WorkAt("hand"))

(* Links have no record, only the checkpoint holds them.  Until the tasks are
   stopped the periodic checkpoint may follow. *)
shutdown_checkpoint ==
    /\ shutdownPhase \in {"asked", "saved"}
    /\ shutdownPhase' = "saved"
    /\ savedLinks' = OpenLinks
    /\ UNCHANGED <<taskVars, cancelling, extras, nextExtra, work, clockVars,
                   shutdownAsked, lateLinks>>

(* TaskSupervisor.stop *)
supervisor_stop ==
    /\ shutdownPhase = "saved"
    /\ shutdownPhase' = "stopping"
    /\ cancelling' = {w \in PoolWorkers : Spawned(w)}
    /\ UNCHANGED <<taskVars, extras, nextExtra, work, clockVars,
                   shutdownAsked, savedLinks, lateLinks>>

(* All tasks have ended, or the time for that is over. *)
process_exits ==
    /\ shutdownPhase = "stopping"
    /\ shutdownPhase' = "exit"
    /\ taskStep' = [w \in PoolWorkers |-> "ended"]
    /\ taskJob' = [w \in PoolWorkers |-> NoWork]
    /\ taskAge' = [w \in PoolWorkers |-> 0]
    /\ taskAwake' = taskAge'
    /\ cancelling' = {} /\ extras' = {} /\ nextExtra' = BaseWorker + 1
    /\ heartbeatOld' = FALSE /\ stallSeen' = FALSE /\ stallActive' = FALSE
    /\ graceLeft' = 0 /\ watchdogDue' = TRUE
    /\ UNCHANGED <<work, pauses, shutdownAsked, savedLinks, lateLinks>>

-----------------------------------------------------------------------------

SupervisionNext ==
    /\ shutdownPhase # "exit"
    /\ \/ \E j \in PoolJobs : job_admitted(j)
       \/ \E l \in PoolLinks : queue_private_link(l)
       \/ \E x \in PoolJobs \cup PoolLinks : retry_scheduler_loop(x)
       \/ \E w \in PoolWorkers :
             \/ \E x \in PoolJobs \cup PoolLinks : mark_worker_job(w, x)
             \/ worker_progress(w) \/ worker_done(w) \/ worker_error(w)
             \/ error_handled(w) \/ stall_notified(w) \/ run_again(w)
             \/ task_cancelled(w) \/ stall_handled(w) \/ cancel_idle_extra(w)
       \/ process_telegram_link \/ link_error
       \/ cancel_stalled_worker_job \/ watchdog_suppresses
       \/ event_loop_heartbeat_loop
       \/ watchdog_runner_looks \/ watchdog_runner_marks
       \/ loop_paused \/ loop_time_passes
       \/ spawn
       \/ request_shutdown \/ wait_for_shutdown_signal \/ shutdown_checkpoint
       \/ supervisor_stop \/ process_exits

SupervisionSpec == SupervisionInit /\ [][SupervisionNext]_supervisionVars

-----------------------------------------------------------------------------

SupervisionTypeOK ==
    /\ taskStep \in [PoolWorkers -> Handling \cup {"none", "idle", "busy",
                                                  "restart_wait", "ended"}]
    /\ taskJob \in [PoolWorkers -> PoolJobs \cup PoolLinks \cup {NoWork}]
    /\ taskAge \in [PoolWorkers -> 0..AgeCap]
    /\ taskAwake \in [PoolWorkers -> 0..WorkerResumeGrace]
    /\ cancelling \subseteq {w \in PoolWorkers : Spawned(w)}
    /\ extras \subseteq 2..MaxExtraId
    /\ nextExtra \in 2..(MaxExtraId + 1)
    /\ graceLeft \in 0..WorkerResumeGrace
    /\ savedLinks \cup lateLinks \subseteq PoolLinks

(* A link the bot has taken before the checkpoint of the shutdown and that is
   not answered, nor refused by the full retry queue, when its worker ends or
   the process exits is in the checkpoint. *)
LinksKept ==
    \A l \in PoolLinks \ lateLinks :
        \/ work[l] = "unfinished"
        \/ shutdownPhase = "exit" /\ l \in OpenLinks
        => l \in savedLinks

(* A worker is cancelled only by the shutdown, as an extra one without a job,
   or if the event loop ran for the grace time without progress of its job:
   a pause alone cancels nobody. *)
CancelledWithCause ==
    \A w \in cancelling' \ cancelling :
        \/ shutdownPhase' = "stopping"
        \/ w \in extras /\ taskJob[w] = NoWork
        \/ taskAwake[w] = WorkerResumeGrace

(* A task ends before the shutdown only as an extra one without a job, or if
   the watchdog finds it stalled in a handler of an error or of a stall; no
   job then stays in a hand that is gone. *)
EndedWithCause ==
    \A w \in PoolWorkers :
        taskStep'[w] = "ended" /\ taskStep[w] # "ended" =>
            /\ \/ shutdownAsked
               \/ w > BaseWorker /\ taskJob[w] = NoWork
               \/ taskStep[w] \in Handling /\ taskAge[w] > WorkerStallAge
            /\ \/ shutdownPhase' = "exit"
               \/ taskJob[w] = NoWork
               \/ work'[taskJob[w]] # "hand"
               \/ \E v \in PoolWorkers \ {w} : taskJob'[v] = taskJob[w]

(* Cancellations have a cause, and what they interrupt is not lost. *)
CancelsSoundly ==
    /\ []LinksKept
    /\ [][CancelledWithCause /\ EndedWithCause]_supervisionVars
=============================================================================
