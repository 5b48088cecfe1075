------------------------------ MODULE Storage -------------------------------
(***************************************************************************)
(* The JSON state files and the runtime checkpoint, each with its own      *)
(* files, threads and state. They share no variable, so that a behaviour   *)
(* of one is explored while the other stands still; "focus" says which.    *)
(***************************************************************************)
EXTENDS StateWriter, RuntimeCheckpoint

VARIABLE focus

storageVars == <<focus, saveVars, checkpointVars>>

StorageInit ==
    /\ focus \in {"files", "checkpoint"}
    /\ SaveInit
    /\ CheckpointInit

StorageNext ==
    \/ /\ focus = "files"
       /\ SaveNext
       /\ UNCHANGED <<focus, checkpointVars>>
    \/ /\ focus = "checkpoint"
       /\ CheckpointNext
       /\ UNCHANGED <<focus, saveVars>>

StorageSpec ==
    /\ StorageInit
    /\ [][StorageNext]_storageVars
    /\ SaveFairness
    /\ CheckpointFairness

(* The state of the part that is explored is of its type. *)
StorageTypeOK ==
    /\ focus = "files" => SaveTypeOK
    /\ focus = "checkpoint" => CheckpointTypeOK
=============================================================================
