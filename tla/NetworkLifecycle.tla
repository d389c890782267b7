-------------------------- MODULE NetworkLifecycle ---------------------------
(***************************************************************************)
(* What the operator promises about the VPC of one AWSCluster, without     *)
(* saying how: the object is guarded by a finalizer before it names a VPC, *)
(* the name stays, the VPC is deleted only for a cluster that is being     *)
(* deleted, and the guard is dropped only when no VPC is left behind it.   *)
(***************************************************************************)
CONSTANTS VpcIds, NoId

VARIABLES
    vpcId,     \* the VPC the object names
    alive,     \* does that VPC exist?
    guarded,   \* does the object exist with the operator's finalizer?
    deleting   \* has the deletion of the cluster been requested?

vars == <<vpcId, alive, guarded, deleting>>

Init ==
    /\ vpcId = NoId
    /\ alive = FALSE
    /\ guarded = FALSE
    /\ deleting = FALSE

Guard ==
    /\ ~guarded /\ ~deleting
    /\ guarded' = TRUE
    /\ UNCHANGED <<vpcId, alive, deleting>>

\* The first patch that names a VPC may be the one that adds the finalizer.
Acquire ==
    /\ vpcId = NoId /\ vpcId' \in VpcIds
    /\ alive' = TRUE
    /\ guarded \/ ~deleting
    /\ guarded' = TRUE
    /\ UNCHANGED deleting

RequestDeletion ==
    /\ ~deleting /\ deleting' = TRUE
    /\ UNCHANGED <<vpcId, alive, guarded>>

Release ==
    /\ deleting /\ guarded /\ alive
    /\ alive' = FALSE
    /\ UNCHANGED <<vpcId, guarded, deleting>>

Finish ==
    /\ deleting /\ guarded /\ ~alive
    /\ guarded' = FALSE
    /\ UNCHANGED <<vpcId, alive, deleting>>

Next == Guard \/ Acquire \/ RequestDeletion \/ Release \/ Finish

Spec == Init /\ [][Next]_vars
=============================================================================
