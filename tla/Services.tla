------------------------------ MODULE Services ------------------------------
(***************************************************************************)
(* The services around the pipeline: the index of delivered media, the     *)
(* lease queue, the compute helper and the supervised workers.  They share *)
(* no variable, so that a behaviour of one is explored while the others    *)
(* stand still; "focus" says which.                                        *)
(***************************************************************************)
EXTENDS DuplicateIndex, LeaseQueue, ComputeHelper, WorkerSupervision

VARIABLE focus

servicesVars == <<focus, indexVars, leaseVars, helperVars, supervisionVars>>

ServicesInit ==
    /\ focus \in {"index", "lease", "helper", "workers"}
    /\ IndexInit
    /\ LeaseInit
    /\ HelperInit
    /\ SupervisionInit

ServicesNext ==
    \/ /\ focus = "index"
       /\ IndexNext
       /\ UNCHANGED <<focus, leaseVars, helperVars, supervisionVars>>
    \/ /\ focus = "lease"
       /\ LeaseNext
       /\ UNCHANGED <<focus, indexVars, helperVars, supervisionVars>>
    \/ /\ focus = "helper"
       /\ HelperNext
       /\ UNCHANGED <<focus, indexVars, leaseVars, supervisionVars>>
    \/ /\ focus = "workers"
       /\ SupervisionNext
       /\ UNCHANGED <<focus, indexVars, leaseVars, helperVars>>

ServicesSpec == ServicesInit /\ [][ServicesNext]_servicesVars

(* The state of the part that is explored is of its type. *)
ServicesTypeOK ==
    /\ focus = "index" => IndexTypeOK
    /\ focus = "lease" => LeaseTypeOK
    /\ focus = "helper" => HelperTypeOK
    /\ focus = "workers" => SupervisionTypeOK
=============================================================================
