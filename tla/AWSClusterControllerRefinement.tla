-------------------- MODULE AWSClusterControllerRefinement --------------------
(***************************************************************************)
(* The reconciler implements two abstract specifications: NetworkLifecycle *)
(* for the VPC the object names, and RouteTableSlots for the tables of     *)
(* every VPC.                                                              *)
(***************************************************************************)
EXTENDS AWSClusterController

Lifecycle == INSTANCE NetworkLifecycle WITH
    vpcId    <- obj.vpcId,
    alive    <- obj.vpcId # NoId /\ VpcLives(obj.vpcId),
    guarded  <- obj.exists /\ "operator" \in obj.finalizers,
    deleting <- obj.deleting

\* From the first finalizer to the last, the object and its VPC live through
\* the steps of NetworkLifecycle, whichever of the user, CAPA, EC2, the
\* operator and a crash takes them, as long as the cache does not lag.
ImplementsNetworkLifecycle == Lifecycle!Spec

Tables(v) == INSTANCE RouteTableSlots WITH
    slot     <- routeTable[v],
    deleting <- obj.deleting

\* The stages treat the route tables of every VPC as RouteTableSlots allows,
\* that is, as the requests of pkg/aws/routetables do.
ImplementsRouteTableSlots ==
    /\ \A v \in VpcIds : Tables(v)!Init
    /\ [][\A v \in VpcIds : [Tables(v)!Next]_(Tables(v)!vars)]_vars
=============================================================================
