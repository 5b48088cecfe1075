-------------------------- MODULE MCPipelineFiles --------------------------
(***************************************************************************)
(* Three worlds of the pipeline in one run.  In "lagging" the constants    *)
(* are those of the configuration: one job, whose two record files the     *)
(* writer thread saves late and independently while the process dies       *)
(* twice.  In "memory" two jobs share a media, one of them cannot be       *)
(* fetched, and the record files follow memory.  In "downloads" the        *)
(* pipeline stands still while the files of one album are fetched, kept,   *)
(* uploaded and cleaned up.                                                *)
(***************************************************************************)
EXTENDS MCMediaPipeline, MediaFiles

VARIABLE world

worldVars == <<world, vars, fileVars>>

Memory ==
    INSTANCE MCMediaPipeline WITH
        Jobs <- {j1, j2}, UidOf <- SharedMedia, Sees <- AllSources,
        Unroutable <- {j2}, Deleted <- {j2}, Unfetchable <- {j2},
        LaggingFiles <- FALSE, MaxCrashes <- 1

WorldInit ==
    /\ \/ world \in {"lagging", "downloads"} /\ Init
       \/ world = "memory" /\ Memory!Init
    /\ FilesInit

WorldNext ==
    \/ /\ world = "lagging"
       /\ Next
       /\ UNCHANGED <<world, fileVars>>
    \/ /\ world = "memory"
       /\ Memory!MemoryNext
       /\ UNCHANGED <<world, fileVars>>
    \/ /\ world = "downloads"
       /\ FilesNext
       /\ UNCHANGED <<world, vars>>

WorldSpec == WorldInit /\ [][WorldNext]_worldVars
=============================================================================
