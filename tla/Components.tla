----------------------------- MODULE Components -----------------------------
(***************************************************************************)
(* The parts that are checked alone, one of them in each behaviour: the    *)
(* allocators of the metadata server and its request planning, and of a    *)
(* RdmaSocket its verbs objects, its transfers and its batch verbs.  They  *)
(* have no variable in common and none calls another.                      *)
(***************************************************************************)
EXTENDS FileMap, InodeTable, SpaceClient, BlockPlanCheck,
        RdmaResources, MCRdmaTransfer, BatchPost

VARIABLE part       \* the part that is checked

partVars == <<fdVars, inodeVars, clientVars, planVars, resVars, vars, batchVars>>

Parts == {"descriptors", "inodes", "space", "plan", "resources", "transfer", "batch"}

PartsInit ==
    /\ part \in Parts
    /\ FileMapInit /\ InodeTableInit /\ ClientInit /\ PlanInit
    /\ ResInit /\ (part # "resources" => ~ server /\ ~ garbage)
    /\ Init /\ BatchInit

PartsNext ==
    \/ /\ part = "descriptors" /\ FileMapNext
       /\ UNCHANGED <<inodeVars, clientVars, planVars, resVars, vars, batchVars, part>>
    \/ /\ part = "inodes" /\ InodeTableNext
       /\ UNCHANGED <<fdVars, clientVars, planVars, resVars, vars, batchVars, part>>
    \/ /\ part = "space" /\ ClientNext
       /\ UNCHANGED <<fdVars, inodeVars, planVars, resVars, vars, batchVars, part>>
    \/ /\ part = "plan" /\ PlanNext
       /\ UNCHANGED <<fdVars, inodeVars, clientVars, resVars, vars, batchVars, part>>
    \/ /\ part = "resources" /\ ResNext
       /\ UNCHANGED <<fdVars, inodeVars, clientVars, planVars, vars, batchVars, part>>
    \/ /\ part = "transfer" /\ Next
       /\ UNCHANGED <<fdVars, inodeVars, clientVars, planVars, resVars, batchVars, part>>
    \/ /\ part = "batch" /\ BatchNext
       /\ UNCHANGED <<fdVars, inodeVars, clientVars, planVars, resVars, vars, part>>

PartsSpec == PartsInit /\ [][PartsNext]_<<partVars, part>> /\ Fairness /\ BatchFairness

(***************************************************************************)
(* The state of every part stays within the types its class declares:      *)
(* descriptors and inode numbers within their tables, block counts natural *)
(* numbers although they are differences of unsigned ones, and transfers   *)
(* within their buffers.                                                   *)
(***************************************************************************)
ComponentTypes == FdTypeOK /\ InodeTypeOK /\ ClientTypeOK /\ TypeOK
=============================================================================
