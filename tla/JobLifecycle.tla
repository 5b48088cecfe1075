---------------------------- MODULE JobLifecycle ----------------------------
(***************************************************************************)
(* What the media pipeline promises of a job.  The job is away (nothing    *)
(* owes it anything), stranded (recorded, in nobody's hands, and recovery  *)
(* owes it an answer), or in the hands of a queue, the retry scheduler or  *)
(* a worker of one of the two lanes.  A step moves one job along one of    *)
(* the edges below.  Only admission takes a job that is away, and only     *)
(* recovery takes one that is stranded.                                    *)
(***************************************************************************)
CONSTANTS
    Jobs,
    Lagging     \* whether the records on disk may lag those in memory

VARIABLE at     \* where each job is

LifecycleInit == at = [j \in Jobs |-> "away"]

(* enqueue_media_job records the job; without room for it, recovery owes it. *)
Admitted == {"away"} \X {"download queue", "download retry", "stranded"}

(* A retry falls due, and a worker takes what is queued. *)
Scheduled == {<<"download retry", "download queue">>,
              <<"upload retry", "upload queue">>,
              <<"download queue", "downloading">>,
              <<"upload queue", "uploading">>}

(* A worker hands its job to the next lane, or back to the scheduler. *)
HandedOn == {"downloading"} \X {"upload queue", "upload retry"}

Retried == {<<"downloading", "download retry">>,
            <<"uploading", "upload retry">>,
            <<"uploading", "download retry">>}

(* A worker closes its job, or leaves it to recovery. *)
Left == {"downloading", "uploading"} \X {"away", "stranded"}

(* Recovery finds the job a place, or closes its record. *)
Recovered ==
    {"stranded"} \X {"download queue", "download retry", "upload queue",
                     "upload retry", "away"}

Edges == Admitted \cup Scheduled \cup HandedOn \cup Retried \cup Left
             \cup Recovered

Move(j) ==
    /\ <<at[j], at'[j]>> \in Edges
    /\ at' = [at EXCEPT ![j] = at'[j]]

(* The process dies: every job in somebody's hands is stranded, and where the
   files lag, a job counts as recorded when they have it recorded. *)
Die ==
    /\ at' \in [Jobs -> {"away", "stranded"}]
    /\ Lagging \/ \A j \in Jobs : at[j] = "away" <=> at'[j] = "away"

LifecycleNext == Die \/ \E j \in Jobs : Move(j)

LifecycleSpec == LifecycleInit /\ [][LifecycleNext]_at
=============================================================================
