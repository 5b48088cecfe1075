---------------------------- MODULE MCMediaFiles ----------------------------
(***************************************************************************)
(* The files of one media after its job is closed, with a process that is  *)
(* not restarted and cleaners that keep running.                           *)
(***************************************************************************)
EXTENDS MediaFiles

(* The cleaners go on after the job; reap_deferred_download_cleanup is called
   before every download and by the maintenance loops, and a deadline that is
   not postponed again passes. *)
CleanersSpec ==
    /\ FilesInit
    /\ [][FilesSteps]_fileVars
    /\ WF_fileVars(FilesSteps)
    /\ WF_fileVars(prune_runtime_caches)
    /\ \A p \in Paths : /\ WF_fileVars(reap_deferred(p))
                        /\ WF_fileVars(reap_deferred_download_cleanup(p))

(* What the release notes say: a download attempt that was given up is
   protected for a grace period and then reaped, so that no storage leaks.
   Violated: a deferred path is entered into the set of active files, and a
   path that is active is postponed, by both reapers, for ever. *)
DeferredIsReaped ==
    \A p \in Paths :
        (fileStage = "closed" /\ p \in deferredPaths)
            ~> (content[p] = "absent")
=============================================================================
