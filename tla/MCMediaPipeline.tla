-------------------------- MODULE MCMediaPipeline --------------------------
(* Small instances of MediaPipeline: two jobs, one or two media. *)
EXTENDS MediaPipeline, TLC

CONSTANTS j1, j2, u1, u2, w1, w2, p1, p2

\* Each job carries its own media.
DistinctMedia == (j1 :> u1) @@ (j2 :> u2)

\* The same album posted in two channels.
SharedMedia == (j1 :> u1) @@ (j2 :> u1)

\* One producer that meets every job.
AllSources == (p1 :> {j1, j2})

\* Two producers, each with a channel of its own.
TwoSources == (p1 :> {j1}) @@ (p2 :> {j2})

\* One job met by one producer.
OneJob == (j1 :> u1)
OneSource == (p1 :> {j1})

(* Next, where LaggingFiles is FALSE: record files that follow memory leave
   the writer thread nothing to save. *)
MemoryNext ==
    \/ \E p \in Producers : ProducerNext(p)
    \/ clear_processing_cache_if_idle
    \/ \E w \in DlWorkers : DownloadNext(w)
    \/ UploadNext
    \/ \E j \in Jobs : retry_scheduler_download(j) \/ retry_scheduler_upload(j)
    \/ RecoveryNext
    \/ Restart

MemorySpec == Init /\ [][MemoryNext]_vars

MemoryFairSpec == MemorySpec /\ WF_vars(RecoveryNext)
=============================================================================
