-------------------- MODULE AWSClusterController_safety_proofs --------------------
(***************************************************************************)
(* Proofs of the safety and action properties of AWSClusterController, for *)
(* every number of subnets, VPC IDs and faults.  Each part strengthens one *)
(* property into an inductive invariant, or the few it rests on.           *)
(***************************************************************************)
EXTENDS AWSClusterController_proofs, FiniteSetTheorems

\* Every copy of the object names only VPCs whose attributes were set, and
\* those were created before.
DnsInv ==
    /\ \A o \in {obj, cache, base, work} : o.vpcId # NoId => o.vpcId \in dns
    /\ \A v \in dns : vpc[v] # "none"

\* The copies of the object never claim a deletion the API server does not
\* know, the delete stages run on such copies, and they alone start the
\* deletion of an endpoint.
TeardownInv ==
    /\ \A o \in {cache, base, work} : o.deleting => obj.deleting
    /\ work.deleting = base.deleting
    /\ pc \in DeleteStages => base.deleting
    /\ \A v \in VpcIds : endpoint[v] = "deleting" => obj.deleting

\* While a reconcile of an up to date object runs, the API server keeps the
\* VPC ID and the operator's finalizer of the snapshot; a normal reconcile
\* adds the finalizer and at most fills in a missing ID, and a deleting one
\* drops the finalizer only of a VPC that is gone.
NormalWork ==
    /\ ~base.deleting
    /\ work.finalizers = base.finalizers \cup {"operator"}
    /\ base.vpcId # NoId => work.vpcId = base.vpcId

DeletingWork ==
    /\ base.deleting
    /\ work.vpcId = base.vpcId
    /\ \/ work.finalizers = base.finalizers
       \/ /\ pc \in {"patchConditions", "patchObject"}
          /\ work.finalizers = base.finalizers \ {"operator"}
          /\ work.vpcId # NoId => vpc[work.vpcId] = "gone"

WorkInv ==
    pc # "idle" =>
        /\ base.vpcId = obj.vpcId
        /\ "operator" \in base.finalizers <=> "operator" \in obj.finalizers
        /\ NormalWork \/ DeletingWork
        /\ pc \in NormalStages => ~base.deleting

GuardInv == cache = obj /\ FinalizerGuardsVpc /\ WorkInv

-----------------------------------------------------------------------------
(* What the steps of the system do to the copies of the object.            *)

StageStep ==
    \/ GetVpc \/ CreateVpc \/ VpcCallFails
    \/ ReconcileSubnets \/ SubnetsCallFails
    \/ ReconcileRouteTables \/ RouteTablesCallFails
    \/ WaitForSecurityGroups \/ ReconcileVpcEndpoint \/ VpcEndpointCallFails
    \/ SkipVpcEndpoint \/ DeleteVpcEndpoint \/ DeleteVpcEndpointFails
    \/ WaitForCapa
    \/ DeleteRouteTables \/ DeleteRouteTablesFails
    \/ DeleteSubnets \/ DeleteSubnetsFails
    \/ DeleteVpc \/ DeleteVpcFails

\* A stage works on its own copy, whose VPC ID it changes only when it has
\* just created that VPC, and whose finalizers only when the VPC is gone.
SameIdentity(w) ==
    w.deleting = work.deleting /\ w.vpcId = work.vpcId /\ w.finalizers = work.finalizers

StageShape ==
    /\ UNCHANGED <<obj, cache, base>>
    /\ pc \in NormalStages => pc' \in NormalStages \cup {"patchConditions"}
    /\ pc \in DeleteStages => pc' \in DeleteStages \cup {"patchConditions"}
    /\ \/ SameIdentity(work')
       \/ /\ pc = "vpc" /\ work.vpcId = NoId /\ work'.vpcId \in dns'
          /\ work'.deleting = work.deleting /\ work'.finalizers = work.finalizers
       \/ /\ pc = "deleteVpc" /\ pc' = "patchConditions"
          /\ work'.deleting = work.deleting /\ work'.vpcId = work.vpcId
          /\ work'.finalizers = work.finalizers \ {"operator"}
          /\ work.vpcId # NoId => vpc'[work.vpcId] = "gone"

LEMMA HandOverShape ==
    ASSUME NEW w, SameIdentity(w), NEW stage,
           \/ Proceed(stage, w)
           \/ stage = "patchConditions" /\ \E again \in BOOLEAN : Return(w, again),
           pc \in NormalStages => stage \in NormalStages \cup {"patchConditions"},
           pc \in DeleteStages => stage \in DeleteStages \cup {"patchConditions"}
    PROVE  StageShape
  BY DEF Proceed, Return, StageShape, SameIdentity

LEMMA StageStepShape ==
    ASSUME ConstantsAssumption, TypeInv, StageStep
    PROVE  StageShape /\ pc \in NormalStages \cup DeleteStages
  <1>1. /\ work \in Cluster /\ SameIdentity(work)
        /\ \A c \in OperatorConditions, value \in {"True", "False", "Deleting", "Deleted"} :
                SameIdentity(Mark(work, c, value))
    BY WorkMarks DEF SameIdentity
  <1>2. CASE GetVpc \/ CreateVpc \/ VpcCallFails
    <2>1. \A v \in VpcIds, value \in {"True", "False"} :
            LET w == Mark([work EXCEPT !.vpcId = v], "VpcReady", value)
            IN  w.vpcId = v /\ w.deleting = work.deleting /\ w.finalizers = work.finalizers
      BY <1>1 DEF Mark, Cluster
    <2>2. ASSUME NEW v \in VpcIds, NEW state, AfterVpc(v, state), pc = "vpc",
                 \/ v = work.vpcId
                 \/ work.vpcId = NoId /\ v \in dns'
          PROVE  StageShape
      <3>1. PICK value \in {"True", "False"} :
                LET w == Mark([work EXCEPT !.vpcId = v], "VpcReady", value) IN
                \/ Proceed("subnets", w)
                \/ Return(w, TRUE)
        BY <2>2 DEF AfterVpc
      <3>2. /\ work'.vpcId = v /\ work'.deleting = work.deleting
            /\ work'.finalizers = work.finalizers
            /\ UNCHANGED <<obj, cache, base>>
            /\ pc' \in {"subnets", "patchConditions"}
        BY <2>1, <3>1 DEF Proceed, Return
      <3> QED
        BY <2>2, <3>2 DEF StageShape, SameIdentity, NormalStages, DeleteStages
    <2>3. CASE GetVpc
      <3>1. /\ work.vpcId \in VpcIds /\ pc = "vpc"
            /\ AfterVpc(work.vpcId, vpc[work.vpcId])
        BY <2>3, WorkMarks DEF GetVpc, Ids
      <3>2. StageShape
        BY <2>2, <3>1
      <3> QED
        BY <3>1, <3>2 DEF NormalStages
    <2>4. CASE CreateVpc
      <3>1. ASSUME NEW v \in VpcIds, EnsureAttributes(v), AfterVpc(v, "pending")
            PROVE  StageShape
        BY <2>2, <2>4, <3>1 DEF CreateVpc, EnsureAttributes
      <3>2. CASE Return(work, TRUE)
        BY <1>1, <2>4, <3>2, HandOverShape DEF CreateVpc, NormalStages, DeleteStages
      <3> QED
        BY <2>4, <3>1, <3>2 DEF CreateVpc, NormalStages
    <2>5. CASE VpcCallFails
      BY <1>1, <2>5, HandOverShape DEF VpcCallFails, NormalStages
    <2> QED
      BY <1>2, <2>3, <2>4, <2>5
  <1>3. CASE ReconcileSubnets \/ SubnetsCallFails
    <2>1. SameIdentity(Mark(RecordSubnets(work, work.vpcId), "SubnetsReady",
                            SubnetsReadyValue(work.vpcId)))
      BY <1>1 DEF SameIdentity, Mark, RecordSubnets, Cluster
    <2> QED
      BY <1>1, <1>3, <2>1, HandOverShape
         DEF ReconcileSubnets, SubnetsCallFails, NormalStages, DeleteStages
  <1>4. CASE ReconcileRouteTables \/ RouteTablesCallFails
    <2>1. \/ Proceed("endpoint", Mark(work, "RouteTablesReady", "True"))
          \/ Return(Mark(work, "RouteTablesReady", "False"), TRUE)
          \/ Return(work, TRUE)
      BY <1>4 DEF ReconcileRouteTables, RouteTablesCallFails
    <2>2. pc = "routeTables"
      BY <1>4 DEF ReconcileRouteTables, RouteTablesCallFails
    <2> QED
      BY <1>1, <2>1, <2>2, HandOverShape DEF NormalStages, DeleteStages, OperatorConditions
  <1>5. CASE WaitForSecurityGroups \/ ReconcileVpcEndpoint \/ VpcEndpointCallFails
    <2>1. \/ Return(work, TRUE)
          \/ Return(Mark(work, "VpcEndpointReady", "True"), FALSE)
          \/ Return(Mark(work, "VpcEndpointReady", "False"), TRUE)
      BY <1>5 DEF WaitForSecurityGroups, ReconcileVpcEndpoint, VpcEndpointCallFails
    <2>2. pc = "endpoint"
      BY <1>5 DEF WaitForSecurityGroups, ReconcileVpcEndpoint, VpcEndpointCallFails
    <2> QED
      BY <1>1, <2>1, <2>2, HandOverShape DEF NormalStages, OperatorConditions
  <1>6. CASE SkipVpcEndpoint \/ DeleteVpcEndpoint \/ DeleteVpcEndpointFails
                \/ WaitForCapa
    <2>1. \/ Return(work, TRUE)
          \/ \E stage \in DeleteStages :
                Proceed(stage, work) \/ Proceed(stage, MarkEndpointDeleted)
      BY <1>6 DEF SkipVpcEndpoint, DeleteVpcEndpoint, DeleteVpcEndpointFails,
                  WaitForCapa, DeleteStages
    <2>2. pc \in DeleteStages /\ pc \notin NormalStages
      BY <1>6 DEF SkipVpcEndpoint, DeleteVpcEndpoint, DeleteVpcEndpointFails,
                  WaitForCapa, DeleteStages, NormalStages
    <2> QED
      BY <1>1, <2>1, <2>2, HandOverShape DEF MarkEndpointDeleted, OperatorConditions
  <1>7. CASE DeleteRouteTables \/ DeleteRouteTablesFails
    <2>1. \/ Return(Mark(work, "RouteTablesReady", "Deleting"), TRUE)
          \/ Proceed("deleteSubnets", work)
          \/ Proceed("deleteSubnets", Mark(work, "RouteTablesReady", "Deleted"))
      BY <1>7 DEF DeleteRouteTables, DeleteRouteTablesFails
    <2>2. pc = "deleteRouteTables"
      BY <1>7 DEF DeleteRouteTables, DeleteRouteTablesFails
    <2> QED
      BY <1>1, <2>1, <2>2, HandOverShape DEF DeleteStages, NormalStages, OperatorConditions
  <1>8. CASE DeleteSubnets \/ DeleteSubnetsFails
    <2>1. \/ Return(Mark(work, "SubnetsReady", "Deleting"), TRUE)
          \/ Proceed("deleteVpc", work)
          \/ Proceed("deleteVpc", Mark(work, "SubnetsReady", "Deleted"))
      BY <1>8 DEF DeleteSubnets, DeleteSubnetsFails
    <2>2. pc = "deleteSubnets"
      BY <1>8 DEF DeleteSubnets, DeleteSubnetsFails
    <2> QED
      BY <1>1, <2>1, <2>2, HandOverShape DEF DeleteStages, NormalStages, OperatorConditions
  <1>9. CASE DeleteVpc
    <2>1. \/ /\ work.vpcId = NoId
             /\ Return(RemoveFinalizer(work), FALSE)
          \/ /\ work.vpcId # NoId /\ VpcIsGone(work.vpcId)
             /\ Return(RemoveFinalizer(Mark(work, "VpcReady", "Deleted")), FALSE)
      BY <1>9 DEF DeleteVpc
    <2>2. pc = "deleteVpc"
      BY <1>9 DEF DeleteVpc
    <2>3. work.vpcId # NoId => vpc'[work.vpcId] = "gone"
      BY <2>1, WorkMarks DEF VpcIsGone, TypeInv, TypeOK, Ids
    <2>4. \E w \in {work, Mark(work, "VpcReady", "Deleted")} :
            /\ w \in Cluster /\ SameIdentity(w)
            /\ Return(RemoveFinalizer(w), FALSE)
      BY <1>1, <2>1, WorkMarks DEF OperatorConditions
    <2>5. /\ work'.deleting = work.deleting /\ work'.vpcId = work.vpcId
          /\ work'.finalizers = work.finalizers \ {"operator"}
          /\ pc' = "patchConditions" /\ UNCHANGED <<obj, cache, base>>
      BY <2>4, RemoveFinalizerCluster DEF Return, SameIdentity
    <2> QED
      BY <2>2, <2>3, <2>5 DEF StageShape, DeleteStages, NormalStages
  <1>10. CASE DeleteVpcFails
    BY <1>1, <1>10, HandOverShape DEF DeleteVpcFails, DeleteStages, NormalStages, OperatorConditions
  <1> QED
    BY <1>2, <1>3, <1>4, <1>5, <1>6, <1>7, <1>8, <1>9, <1>10 DEF StageStep

\* A write to the API server, and what the cache makes of it.
NewObj(o) ==
    /\ obj' = o
    /\ cache' \in {cache, o}
    /\ ~CacheLags => cache' = o

LEMMA ApiWriteShape ==
    ASSUME NEW o, ApiWrite(o)
    PROVE  NewObj(o)
  BY DEF ApiWrite, NewObj

\* The user and CAPA leave the VPC, its ID, the operator's conditions and its
\* finalizer alone, and nobody takes a deletion back.
SameOperatorConditions(o) ==
    \A c \in OperatorConditions : o.conditions[c] = obj.conditions[c]

OthersWrite ==
    /\ UNCHANGED <<pc, base, work, vpc, subnet, routeTable>>
    /\ \E o \in Cluster :
        /\ NewObj(Settle(o))
        /\ o.exists = obj.exists /\ o.vpcId = obj.vpcId /\ o.subnetId = obj.subnetId
        /\ SameOperatorConditions(o)
        /\ obj.deleting => o.deleting
        /\ "operator" \in o.finalizers <=> "operator" \in obj.finalizers

StepShape ==
    \/ StageStep /\ StageShape /\ pc \in NormalStages \cup DeleteStages
    \/ Reconcile
    \/ PatchConditions \/ PatchObject
    \/ OthersWrite
    \/ Crash \/ SyncCache
    \/ UNCHANGED <<obj, cache, base, work, pc>>

LEMMA UserWriteShape ==
    ASSUME TypeInv, UserDeletes \/ UserChangesVpcMode
    PROVE  OthersWrite
  <1>. DEFINE Harmless(o) ==
                /\ o \in Cluster
                /\ o.exists = obj.exists
                /\ o.vpcId = obj.vpcId /\ o.subnetId = obj.subnetId
                /\ SameOperatorConditions(o)
                /\ obj.deleting => o.deleting
                /\ o.finalizers = obj.finalizers
  <1>1. /\ Harmless([obj EXCEPT !.deleting = TRUE])
        /\ Harmless([obj EXCEPT !.private = ~@])
    BY DEF TypeInv, TypeOK, Cluster, SameOperatorConditions
  <1>2. PICK o : /\ Harmless(o)
                 /\ ApiWrite(Settle(o)) /\ UNCHANGED <<pc, base, work, vpc, subnet, routeTable>>
    BY <1>1 DEF UserDeletes, UserChangesVpcMode, cloudVars
  <1>3. NewObj(Settle(o))
    BY <1>2, ApiWriteShape
  <1> QED
    BY <1>2, <1>3 DEF OthersWrite

LEMMA CapaWriteShape ==
    ASSUME TypeInv, AnyCapaStep
    PROVE  OthersWrite
  <1>. DEFINE Harmless(o) ==
                /\ o \in Cluster
                /\ o.exists = obj.exists
                /\ o.vpcId = obj.vpcId /\ o.subnetId = obj.subnetId
                /\ SameOperatorConditions(o)
                /\ o.deleting = obj.deleting
                /\ "operator" \in o.finalizers <=> "operator" \in obj.finalizers
  <1>1. obj \in Cluster
    BY DEF TypeInv, TypeOK
  <1>2. \A c \in CapaConditions, value \in ConditionValues : Harmless(Mark(obj, c, value))
    BY <1>1 DEF Mark, Cluster, Conditions, CapaConditions, OperatorConditions,
                SameOperatorConditions
  <1>3. /\ Harmless([obj EXCEPT !.finalizers = @ \cup {"capa"}])
        /\ Harmless([obj EXCEPT !.finalizers = @ \ {"capa"}])
    BY <1>1 DEF Cluster, Finalizers, SameOperatorConditions
  <1>4. PICK o : Harmless(o) /\ CapaWrites(o)
    BY <1>2, <1>3, CapaStepWrites DEF CapaWrite
  <1>5. NewObj(Settle(o)) /\ UNCHANGED <<pc, base, work, vpc, subnet, routeTable>>
    BY <1>4, ApiWriteShape DEF CapaWrites, cloudVars
  <1> QED
    BY <1>4, <1>5 DEF OthersWrite

LEMMA NextShape ==
    ASSUME ConstantsAssumption, TypeInv, [Next]_vars
    PROVE  StepShape
  <1>1. CASE StageStep
    BY <1>1, StageStepShape DEF StepShape
  <1>2. CASE ReconcileNotFound \/ ReconcileSkips \/ ReconcileWithoutIdentity
    BY <1>2 DEF ReconcileNotFound, ReconcileSkips, ReconcileWithoutIdentity, StepShape
  <1>3. CASE Ec2
    BY <1>3 DEF Ec2, VpcBecomesAvailable, EndpointSettles, SubnetBecomesAvailable,
                RouteTableAssociates, operatorVars, StepShape
  <1>4. CASE UserDeletes \/ UserChangesVpcMode \/ AnyCapaStep
    BY <1>4, UserWriteShape, CapaWriteShape DEF StepShape
  <1>5. CASE UNCHANGED vars
    BY <1>5 DEF vars, StepShape
  <1> QED
    BY <1>1, <1>2, <1>3, <1>4, <1>5
       DEF Next, OperatorSteps, StageStep, AnyCapaStep, Finished, StepShape

\* What the two patch requests do.
ConditionsPatched ==
    /\ pc = "patchConditions" /\ pc' = "patchObject" /\ UNCHANGED <<base, work>>
    /\ \/ UNCHANGED <<obj, cache>>
       \/ /\ NewObj(WithConditions(obj))
          /\ obj'.exists = obj.exists /\ obj'.deleting = obj.deleting
          /\ obj'.vpcId = obj.vpcId /\ obj'.finalizers = obj.finalizers

ObjectPatched ==
    /\ pc = "patchObject" /\ pc' = "idle" /\ base' = Blank /\ work' = Blank
    /\ \/ UNCHANGED <<obj, cache>>
       \/ /\ obj.exists /\ NewObj(Settle(MergePatch(obj)))
          /\ ~Forbidden(MergePatch(obj))
          /\ obj'.deleting = obj.deleting
          /\ obj'.vpcId = MergePatch(obj).vpcId
          /\ obj'.finalizers = MergePatch(obj).finalizers
          /\ obj'.exists <=> ~(obj'.deleting /\ obj'.finalizers = {})

LEMMA PatchShape ==
    ASSUME TypeInv
    PROVE  /\ PatchConditions => ConditionsPatched
           /\ PatchObject => ObjectPatched
  <1>1. TypeOK
    BY DEF TypeInv
  <1>2. ASSUME PatchConditions
        PROVE  ConditionsPatched
    <2>1. ASSUME ApiWrite(WithConditions(obj))
          PROVE  ConditionsPatched
      BY <1>1, <1>2, <2>1, PatchCluster, ApiWriteShape
         DEF PatchConditions, ConditionsPatched, NewObj
    <2> QED
      BY <1>2, <2>1 DEF PatchConditions, ConditionsPatched
  <1>3. ASSUME PatchObject
        PROVE  ObjectPatched
    <2>. DEFINE patched == MergePatch(obj)
    <2>1. ASSUME obj.exists, ~Forbidden(patched), ApiWrite(Settle(patched))
          PROVE  ObjectPatched
      <3>1. patched \in Cluster /\ patched.deleting = obj.deleting /\ patched.exists
        BY <1>1, <2>1, PatchCluster
      <3>2. NewObj(Settle(patched)) /\ obj' = Settle(patched)
        BY <2>1, ApiWriteShape DEF NewObj
      <3>3. /\ obj'.deleting = obj.deleting /\ obj'.vpcId = patched.vpcId
            /\ obj'.finalizers = patched.finalizers
            /\ obj'.exists <=> ~(obj'.deleting /\ obj'.finalizers = {})
        BY <3>1, <3>2, SettleCluster
      <3> QED
        BY <1>3, <2>1, <3>2, <3>3 DEF PatchObject, EndReconcile, ObjectPatched
    <2> QED
      BY <1>3, <2>1 DEF PatchObject, EndReconcile, ObjectPatched
  <1> QED
    BY <1>2, <1>3

-----------------------------------------------------------------------------
(* The recorded VPC has its DNS attributes.                                *)

\* What one step does to the VPCs: EC2 hands each ID out once, and only
\* deleteVpc ends a VPC.
VpcMoves ==
    /\ dns \subseteq dns'
    /\ \A v \in dns' \ dns : vpc'[v] # "none"
    /\ \A v \in VpcIds :
        \/ vpc'[v] = vpc[v]
        \/ vpc[v] = "none" /\ vpc'[v] = "pending" /\ pc = "vpc" /\ CreateVpc
        \/ vpc[v] = "pending" /\ vpc'[v] = "available"
        \/ vpc'[v] = "gone" /\ pc = "deleteVpc" /\ v = work.vpcId

LEMMA NextVpcMoves ==
    ASSUME TypeInv, [Next]_vars
    PROVE  VpcMoves
  <1>1. vpc \in [VpcIds -> VpcStates] /\ dns \subseteq VpcIds
    BY DEF TypeInv, TypeOK
  <1>2. CASE CreateVpc
    BY <1>1, <1>2 DEF CreateVpc, EnsureAttributes, VpcMoves
  <1>3. CASE DeleteVpc \/ DeleteVpcFails
    BY <1>1, <1>3 DEF DeleteVpc, DeleteVpcFails, VpcIsGone, cloudVars, VpcMoves
  <1>4. CASE \E v \in VpcIds : VpcBecomesAvailable(v)
    BY <1>1, <1>4 DEF VpcBecomesAvailable, VpcMoves
  <1>5. CASE UNCHANGED <<vpc, dns>>
    BY <1>5 DEF VpcMoves
  <1>6. \/ CreateVpc \/ DeleteVpc \/ DeleteVpcFails
        \/ \E v \in VpcIds : VpcBecomesAvailable(v)
        \/ UNCHANGED <<vpc, dns>>
    <2>1. CASE StageStep
      BY <2>1
         DEF StageStep, GetVpc, VpcCallFails, ReconcileSubnets, SubnetsCallFails,
             ReconcileRouteTables, RouteTablesCallFails, WaitForSecurityGroups,
             ReconcileVpcEndpoint, VpcEndpointCallFails, SkipVpcEndpoint,
             DeleteVpcEndpoint, DeleteVpcEndpointFails, WaitForCapa,
             DeleteRouteTables, DeleteRouteTablesFails, DeleteSubnets,
             DeleteSubnetsFails, cloudVars
    <2>2. CASE \/ ReconcileNotFound \/ ReconcileSkips \/ ReconcileWithoutIdentity \/ Reconcile
               \/ PatchConditions \/ PatchObject
               \/ SyncCache \/ Crash \/ UserDeletes \/ UserChangesVpcMode
      BY <2>2 DEF ReconcileNotFound, ReconcileSkips, ReconcileWithoutIdentity, Reconcile,
                  PatchConditions, PatchObject, SyncCache, Crash, UserDeletes, UserChangesVpcMode,
                    cloudVars
    <2>3. CASE Ec2
      BY <2>3 DEF Ec2, EndpointSettles, SubnetBecomesAvailable, RouteTableAssociates
    <2>4. CASE AnyCapaStep
      BY <2>4, CapaStepWrites DEF CapaWrite, CapaWrites, cloudVars
    <2>5. CASE UNCHANGED vars
      BY <2>5 DEF vars, cloudVars
    <2> QED
      BY <2>1, <2>2, <2>3, <2>4, <2>5
         DEF Next, OperatorSteps, StageStep, AnyCapaStep, Finished
  <1> QED
    BY <1>2, <1>3, <1>4, <1>5, <1>6

LEMMA InitDns ==
    ASSUME ConstantsAssumption, Init
    PROVE  DnsInv
  BY BlankCluster DEF Init, DnsInv

LEMMA StepDns ==
    ASSUME ConstantsAssumption, TypeInv, DnsInv, [Next]_vars
    PROVE  DnsInv'
  <1>. DEFINE Backed(o) == o.vpcId # NoId => o.vpcId \in dns'
  <1>1. VpcMoves /\ dns \subseteq VpcIds
    BY NextVpcMoves DEF TypeInv, TypeOK
  <1>2. \A v \in dns' : vpc'[v] # "none"
    BY <1>1 DEF DnsInv, VpcMoves
  <1>3. /\ Backed(obj) /\ Backed(cache) /\ Backed(base) /\ Backed(work)
        /\ Backed(Blank)
    BY <1>1, BlankCluster DEF DnsInv, VpcMoves
  <1>4. Backed(obj') /\ Backed(cache') /\ Backed(base') /\ Backed(work')
    <2>1. CASE StageShape
      BY <1>3, <2>1 DEF StageShape, SameIdentity
    <2>2. CASE Reconcile
      <3>1. AddFinalizer(cache).vpcId = cache.vpcId
        BY DEF AddFinalizer, TypeInv, TypeOK, Cluster
      <3> QED
        BY <1>3, <2>2, <3>1 DEF Reconcile
    <2>3. CASE PatchConditions
      <3>1. ConditionsPatched
        BY <2>3, PatchShape
      <3> QED
        BY <1>3, <3>1 DEF ConditionsPatched, NewObj
    <2>4. CASE PatchObject
      <3>1. ObjectPatched /\ MergePatch(obj).vpcId \in {work.vpcId, obj.vpcId}
        BY <2>4, PatchShape, PatchCluster DEF TypeInv
      <3> QED
        BY <1>3, <3>1 DEF ObjectPatched, NewObj
    <2>5. CASE OthersWrite
      <3>1. PICK o \in Cluster : NewObj(Settle(o)) /\ o.vpcId = obj.vpcId
        BY <2>5 DEF OthersWrite
      <3>2. Settle(o).vpcId = obj.vpcId
        BY <3>1, SettleCluster
      <3> QED
        BY <1>3, <2>5, <3>1, <3>2 DEF NewObj, OthersWrite
    <2>6. CASE Crash \/ SyncCache
      BY <1>3, <2>6 DEF Crash, EndReconcile, SyncCache
    <2>7. CASE UNCHANGED <<obj, cache, base, work, pc>>
      BY <1>3, <2>7
    <2> QED
      BY <2>1, <2>2, <2>3, <2>4, <2>5, <2>6, <2>7, NextShape DEF StepShape
  <1> QED
    BY <1>2, <1>4 DEF DnsInv

\* A VPC whose ID is in the spec was configured completely: ensureAttributes
\* had succeeded before CreateVpc handed the ID to reconcileNormal, and every
\* later copy and patch of the object only passes that ID on, however old the
\* copy is.
THEOREM RecordedVpcIsConfigured == Spec => []RecordedVpcHasDns
  <1>1. Init => TypeInv /\ DnsInv
    BY InitType, InitDns, ConstantsAssumption
  <1>2. TypeInv /\ DnsInv /\ [Next]_vars => (TypeInv /\ DnsInv)'
    BY StepType, StepDns, ConstantsAssumption
  <1>3. DnsInv => RecordedVpcHasDns
    BY DEF DnsInv, RecordedVpcHasDns
  <1> QED
    BY <1>1, <1>2, <1>3, PTL DEF Spec

-----------------------------------------------------------------------------
(* Only a teardown deletes.                                                *)

LEMMA InitTeardown ==
    ASSUME ConstantsAssumption, Init
    PROVE  TeardownInv
  BY BlankCluster DEF Init, TeardownInv, DeleteStages

\* A deletion is never taken back.
LEMMA DeletingStays ==
    ASSUME ConstantsAssumption, TypeInv, [Next]_vars
    PROVE  obj.deleting => obj'.deleting
  <1>1. CASE StageShape \/ Reconcile \/ Crash \/ SyncCache
                \/ UNCHANGED <<obj, cache, base, work, pc>>
    BY <1>1 DEF StageShape, Reconcile, Crash, SyncCache
  <1>2. CASE PatchConditions \/ PatchObject
    BY <1>2, PatchShape DEF ConditionsPatched, ObjectPatched
  <1>3. CASE OthersWrite
    BY <1>3, SettleCluster DEF OthersWrite, NewObj
  <1> QED
    BY <1>1, <1>2, <1>3, NextShape DEF StepShape

LEMMA StepTeardown ==
    ASSUME ConstantsAssumption, TypeInv, TeardownInv, [Next]_vars
    PROVE  TeardownInv'
  <1>1. obj.deleting => obj'.deleting
    BY DeletingStays
  <1>2. /\ \A o \in {cache, base, work} : o.deleting => obj.deleting
        /\ work.deleting = base.deleting
        /\ pc \in DeleteStages => base.deleting
    BY DEF TeardownInv
  <1>3. /\ cache'.deleting => obj'.deleting
        /\ base'.deleting => obj'.deleting
        /\ work'.deleting = base'.deleting
        /\ pc' \in DeleteStages => base'.deleting
    <2>1. CASE StageShape /\ pc \in NormalStages \cup DeleteStages
      <3>1. work'.deleting = work.deleting /\ UNCHANGED <<obj, cache, base>>
        BY <2>1 DEF StageShape, SameIdentity
      <3>2. pc' \in DeleteStages => pc \in DeleteStages
        BY <2>1 DEF StageShape, NormalStages, DeleteStages
      <3> QED
        BY <1>2, <3>1, <3>2
    <2>2. CASE Reconcile
      <3>1. AddFinalizer(cache).deleting = cache.deleting
        BY DEF AddFinalizer, TypeInv, TypeOK, Cluster
      <3>2. FirstStage(cache) \in DeleteStages => cache.deleting
        BY DEF FirstStage, DeleteStages
      <3> QED
        BY <1>2, <2>2, <3>1, <3>2 DEF Reconcile
    <2>3. CASE PatchConditions
      BY <1>2, <2>3, PatchShape DEF ConditionsPatched, NewObj, DeleteStages
    <2>4. CASE PatchObject
      BY <1>2, <2>4, PatchShape, BlankCluster DEF ObjectPatched, NewObj, DeleteStages
    <2>5. CASE OthersWrite
      <3>1. PICK o \in Cluster : NewObj(Settle(o))
        BY <2>5 DEF OthersWrite
      <3> QED
        BY <1>1, <1>2, <2>5, <3>1 DEF NewObj, OthersWrite
    <2>6. CASE Crash \/ SyncCache
      BY <1>2, <2>6, BlankCluster DEF Crash, EndReconcile, SyncCache, DeleteStages
    <2>7. CASE UNCHANGED <<obj, cache, base, work, pc>>
      BY <1>2, <2>7
    <2> QED
      BY <2>1, <2>2, <2>3, <2>4, <2>5, <2>6, <2>7, NextShape DEF StepShape
  <1>4. ASSUME NEW v \in VpcIds, endpoint'[v] = "deleting"
        PROVE  obj'.deleting
    <2>1. endpoint \in [VpcIds -> EndpointStates] /\ (endpoint[v] = "deleting" => obj.deleting)
      BY DEF TypeInv, TypeOK, TeardownInv
    <2>2. pc = "deleteEndpoint" => obj.deleting
      BY <1>2 DEF DeleteStages
    <2>3. endpoint'[v] = endpoint[v] \/ pc = "deleteEndpoint"
      <3>1. CASE StageStep
        BY <1>4, <2>1, <3>1
           DEF StageStep, GetVpc, CreateVpc, VpcCallFails, ReconcileSubnets, SubnetsCallFails,
               ReconcileRouteTables, RouteTablesCallFails, WaitForSecurityGroups,
               ReconcileVpcEndpoint, VpcEndpointCallFails, SkipVpcEndpoint,
               DeleteVpcEndpoint, DeleteVpcEndpointFails, WaitForCapa,
               DeleteRouteTables, DeleteRouteTablesFails, DeleteSubnets,
               DeleteSubnetsFails, DeleteVpc, DeleteVpcFails, cloudVars
      <3>2. CASE \/ ReconcileNotFound \/ ReconcileSkips \/ ReconcileWithoutIdentity \/ Reconcile
                 \/ PatchConditions \/ PatchObject
                 \/ SyncCache \/ Crash \/ UserDeletes \/ UserChangesVpcMode
        BY <3>2 DEF ReconcileNotFound, ReconcileSkips, ReconcileWithoutIdentity, Reconcile,
                    PatchConditions, PatchObject, SyncCache, Crash, UserDeletes, UserChangesVpcMode,
                    cloudVars
      <3>3. CASE Ec2
        BY <1>4, <2>1, <3>3 DEF Ec2, VpcBecomesAvailable, EndpointSettles,
                                SubnetBecomesAvailable, RouteTableAssociates
      <3>4. CASE AnyCapaStep
        BY <3>4, CapaStepWrites DEF CapaWrite, CapaWrites, cloudVars
      <3>5. CASE UNCHANGED vars
        BY <3>5 DEF vars, cloudVars
      <3> QED
        BY <3>1, <3>2, <3>3, <3>4, <3>5
           DEF Next, OperatorSteps, StageStep, AnyCapaStep, Finished
    <2> QED
      BY <1>1, <1>4, <2>1, <2>2, <2>3
  <1> QED
    BY <1>3, <1>4 DEF TeardownInv

\* One step of a cluster nobody deletes.
KeepsResources ==
    \A v \in VpcIds :
        /\ VpcLives(v) => vpc'[v] # "gone"
        /\ endpoint[v] # "none" => endpoint'[v] \notin {"none", "deleting"}
        /\ \A s \in Slots :
            /\ subnet[v][s] # "none" => subnet'[v][s] # "none"
            /\ routeTable[v][s] \in {"associating", "associated"}
                    => routeTable'[v][s] \in {"associating", "associated"}

\* The stages that take away what CAPA uses.
RemovalStages == {"deleteRouteTables", "deleteSubnets", "deleteVpc"}

\* Outside of them these are the only steps that touch a subnet or a route
\* table.
LEMMA NormalMoves ==
    ASSUME pc \notin RemovalStages, [Next]_vars
    PROVE  \/ ReconcileSubnets \/ SubnetsCallFails
           \/ ReconcileRouteTables \/ RouteTablesCallFails
           \/ \E w \in VpcIds, t \in Slots :
                    SubnetBecomesAvailable(w, t) \/ RouteTableAssociates(w, t)
           \/ UNCHANGED <<subnet, routeTable>>
  <1>1. CASE StageStep
    BY <1>1
       DEF StageStep, GetVpc, CreateVpc, VpcCallFails, WaitForSecurityGroups,
           ReconcileVpcEndpoint, VpcEndpointCallFails, SkipVpcEndpoint,
           DeleteVpcEndpoint, DeleteVpcEndpointFails, WaitForCapa, DeleteRouteTables,
           DeleteRouteTablesFails, DeleteSubnets, DeleteSubnetsFails, DeleteVpc,
           DeleteVpcFails, RemovalStages, cloudVars
  <1>2. CASE \/ ReconcileNotFound \/ ReconcileSkips \/ ReconcileWithoutIdentity \/ Reconcile
             \/ PatchConditions \/ PatchObject
             \/ SyncCache \/ Crash \/ UserDeletes \/ UserChangesVpcMode
    BY <1>2 DEF ReconcileNotFound, ReconcileSkips, ReconcileWithoutIdentity, Reconcile,
                PatchConditions, PatchObject, SyncCache, Crash, UserDeletes, UserChangesVpcMode,
                  cloudVars
  <1>3. CASE Ec2
    BY <1>3 DEF Ec2, VpcBecomesAvailable, EndpointSettles, SubnetBecomesAvailable,
                RouteTableAssociates
  <1>4. CASE AnyCapaStep
    BY <1>4, CapaStepWrites DEF CapaWrite, CapaWrites, cloudVars
  <1>5. CASE UNCHANGED vars
    BY <1>5 DEF vars, cloudVars
  <1> QED
    BY <1>1, <1>2, <1>3, <1>4, <1>5
       DEF Next, OperatorSteps, StageStep, AnyCapaStep, Finished

LEMMA KeepsSubnetsAndTables ==
    ASSUME ConstantsAssumption, TypeInv, pc \notin RemovalStages, [Next]_vars,
           NEW v \in VpcIds, NEW s \in Slots
    PROVE  /\ subnet[v][s] # "none" => subnet'[v][s] # "none"
           /\ routeTable[v][s] \in {"associating", "associated"}
                    => routeTable'[v][s] \in {"associating", "associated"}
           /\ routeTable[v][s] = "associated" => routeTable'[v][s] = "associated"
           /\ subnet[v][s] = "available" => subnet'[v][s] = "available"
  <1>1. /\ subnet \in [VpcIds -> [Slots -> SubnetStates]]
        /\ routeTable \in [VpcIds -> [Slots -> RouteTableStates]]
    BY DEF TypeInv, TypeOK
  <1>2. CASE ReconcileSubnets \/ SubnetsCallFails
    <2>1. PICK S \in SUBSET MissingSubnets(work.vpcId) :
            subnet' = SetSlots(subnet, work.vpcId, S, "pending")
      BY <1>2 DEF ReconcileSubnets, SubnetsCallFails, Before
    <2>2. UNCHANGED routeTable
      BY <1>2 DEF ReconcileSubnets, SubnetsCallFails
    <2>3. subnet[v][s] # "none" => subnet'[v][s] = subnet[v][s]
      BY <1>1, <2>1 DEF SetSlots, MissingSubnets
    <2> QED
      BY <2>2, <2>3
  <1>3. CASE ReconcileRouteTables
    BY <1>1, <1>3 DEF ReconcileRouteTables, SetSlots, WithoutRouteTable
  <1>4. CASE RouteTablesCallFails
    <2>. DEFINE clean == SetSlots(routeTable, work.vpcId, Unassociated(work.vpcId), "none")
                Kept(f) == routeTable[v][s] \in {"associating", "associated"}
                            => f[v][s] = routeTable[v][s]
                Tables == [VpcIds -> [Slots -> RouteTableStates]]
    <2>1. work.vpcId \in VpcIds
      BY <1>4, WorkMarks DEF TypeInv, StageHasVpc, RouteTablesCallFails, Ids
    <2>2. \A S \in SUBSET Unassociated(work.vpcId) :
            Kept(SetSlots(routeTable, work.vpcId, S, "none"))
      BY <1>1, <2>1 DEF SetSlots, Unassociated
    <2>3. clean \in Tables /\ Kept(clean)
      BY <1>1, <2>1, SetSlotsType DEF SetSlots, Unassociated, RouteTableStates
    <2>4. ASSUME NEW k \in WithoutRouteTable(work.vpcId),
                 NEW state \in {"none", "unassociated"},
                 NEW made \in {"associating", "associated"},
                 routeTable' =
                   SetSlots(SetSlots(clean, work.vpcId,
                                     Before(WithoutRouteTable(work.vpcId), k), made),
                            work.vpcId, {k}, state)
          PROVE  Kept(routeTable')
      <3>. DEFINE between == SetSlots(clean, work.vpcId,
                                      Before(WithoutRouteTable(work.vpcId), k), made)
      <3>1. between \in Tables /\ Kept(between)
        <4>. HIDE DEF clean
        <4>1. between \in Tables
          BY <2>1, <2>3, SetSlotsType DEF RouteTableStates
        <4>2. Kept(between)
          BY <2>1, <2>3 DEF SetSlots, Before, WithoutRouteTable
        <4> QED
          BY <4>1, <4>2
      <3>2. v = work.vpcId /\ s = k => routeTable[v][s] \notin {"associating", "associated"}
        BY DEF WithoutRouteTable
      <3>3. routeTable' = SetSlots(between, work.vpcId, {k}, state)
        BY <2>4
      <3>. HIDE DEF between
      <3> QED
        BY <2>1, <3>1, <3>2, <3>3 DEF SetSlots
    <2> QED
      BY <1>4, <2>2, <2>4 DEF RouteTablesCallFails
  <1>5. CASE \/ \E w \in VpcIds, t \in Slots :
                    SubnetBecomesAvailable(w, t) \/ RouteTableAssociates(w, t)
             \/ UNCHANGED <<subnet, routeTable>>
    <2>1. ASSUME NEW w \in VpcIds, NEW t \in Slots, SubnetBecomesAvailable(w, t)
          PROVE  UNCHANGED routeTable /\ subnet'[v][s] \in {subnet[v][s], "available"}
      BY <1>1, <2>1 DEF SubnetBecomesAvailable
    <2>2. ASSUME NEW w \in VpcIds, NEW t \in Slots, RouteTableAssociates(w, t)
          PROVE  UNCHANGED subnet /\ routeTable'[v][s] \in {routeTable[v][s], "associated"}
      BY <1>1, <2>2 DEF RouteTableAssociates
    <2> QED
      BY <1>5, <2>1, <2>2
  <1> QED
    BY <1>2, <1>3, <1>4, <1>5, NormalMoves

LEMMA KeepsEndpoint ==
    ASSUME TypeInv, TeardownInv, [Next]_vars, ~obj.deleting,
           NEW v \in VpcIds, endpoint[v] # "none"
    PROVE  endpoint[v] # "deleting" /\ endpoint'[v] \in {endpoint[v], "available"}
  <1>1. pc \notin DeleteStages /\ endpoint[v] # "deleting"
        /\ endpoint \in [VpcIds -> EndpointStates]
    BY DEF TeardownInv, TypeInv, TypeOK
  <1>2. CASE StageStep
    BY <1>1, <1>2
       DEF StageStep, GetVpc, CreateVpc, VpcCallFails, ReconcileSubnets, SubnetsCallFails,
           ReconcileRouteTables, RouteTablesCallFails, WaitForSecurityGroups,
           ReconcileVpcEndpoint, VpcEndpointCallFails, SkipVpcEndpoint,
           DeleteVpcEndpoint, DeleteVpcEndpointFails, WaitForCapa,
           DeleteRouteTables, DeleteRouteTablesFails, DeleteSubnets,
           DeleteSubnetsFails, DeleteVpc, DeleteVpcFails, cloudVars, DeleteStages
  <1>3. CASE \/ ReconcileNotFound \/ ReconcileSkips \/ ReconcileWithoutIdentity \/ Reconcile
             \/ PatchConditions \/ PatchObject
             \/ SyncCache \/ Crash \/ UserDeletes \/ UserChangesVpcMode
    BY <1>1, <1>3
       DEF ReconcileNotFound, ReconcileSkips, ReconcileWithoutIdentity, Reconcile,
           PatchConditions, PatchObject, SyncCache, Crash, UserDeletes, UserChangesVpcMode,
           cloudVars
  <1>4. CASE Ec2
    BY <1>1, <1>4 DEF Ec2, VpcBecomesAvailable, EndpointSettles,
                      SubnetBecomesAvailable, RouteTableAssociates
  <1>5. CASE AnyCapaStep
    BY <1>1, <1>5, CapaStepWrites DEF CapaWrite, CapaWrites, cloudVars
  <1>6. CASE UNCHANGED vars
    BY <1>1, <1>6 DEF vars, cloudVars
  <1> QED
    BY <1>2, <1>3, <1>4, <1>5, <1>6
       DEF Next, OperatorSteps, StageStep, AnyCapaStep, Finished

LEMMA StepKeepsResources ==
    ASSUME ConstantsAssumption, TypeInv, TeardownInv, [Next]_vars, ~obj.deleting
    PROVE  KeepsResources
  <1>1. pc \notin DeleteStages
    BY DEF TeardownInv
  <1>2. ASSUME NEW v \in VpcIds, VpcLives(v)
        PROVE  vpc'[v] # "gone"
    BY <1>1, <1>2, NextVpcMoves DEF VpcMoves, VpcLives, DeleteStages
  <1>3. ASSUME NEW v \in VpcIds, endpoint[v] # "none"
        PROVE  endpoint'[v] \notin {"none", "deleting"}
    BY <1>3, KeepsEndpoint
  <1> QED
    BY <1>1, <1>2, <1>3, KeepsSubnetsAndTables DEF KeepsResources, RemovalStages, DeleteStages

\* Nothing of a cluster is deleted before the user deletes the cluster: a
\* delete stage runs only on a copy with a deletion timestamp, a copy has one
\* only if the API server set it, and no normal stage undoes what exists.
THEOREM TeardownDeletesOnly == Spec => OnlyTeardownDeletes
  <1>1. Init => TypeInv /\ TeardownInv
    BY InitType, InitTeardown, ConstantsAssumption
  <1>2. TypeInv /\ TeardownInv /\ [Next]_vars => (TypeInv /\ TeardownInv)'
    BY StepType, StepTeardown, ConstantsAssumption
  <1>3. TypeInv /\ TeardownInv /\ [Next]_vars => [~obj.deleting => KeepsResources]_vars
    BY StepKeepsResources, ConstantsAssumption
  <1> QED
    BY <1>1, <1>2, <1>3, PTL DEF Spec, OnlyTeardownDeletes, KeepsResources

-----------------------------------------------------------------------------
(* The finalizer guards the recorded VPC, when the cache is up to date.    *)

LEMMA InitGuard ==
    ASSUME ConstantsAssumption, Init
    PROVE  GuardInv
  BY BlankCluster DEF Init, GuardInv, FinalizerGuardsVpc, WorkInv

\* EC2 never brings a deleted VPC back.
LEMMA GoneStays ==
    ASSUME TypeInv, [Next]_vars
    PROVE  \A v \in VpcIds : vpc[v] = "gone" => vpc'[v] = "gone"
  BY NextVpcMoves DEF VpcMoves

\* The guard moves along with every step that leaves the VPC ID and the
\* operator's finalizer of the object alone.
LEMMA GuardKept ==
    ASSUME TypeInv, DnsInv, [Next]_vars, FinalizerGuardsVpc,
           obj'.vpcId = obj.vpcId,
           "operator" \in obj.finalizers => "operator" \in obj'.finalizers,
           obj.exists /\ "operator" \in obj.finalizers => obj'.exists
    PROVE  FinalizerGuardsVpc'
  <1>1. obj'.vpcId # NoId /\ vpc'[obj'.vpcId] \in {"pending", "available"}
            => obj.vpcId # NoId /\ vpc[obj.vpcId] \in {"pending", "available"}
    <2>1. /\ VpcMoves /\ vpc \in [VpcIds -> VpcStates] /\ dns \subseteq VpcIds
      BY NextVpcMoves DEF TypeInv, TypeOK
    <2>2. obj.vpcId # NoId => obj.vpcId \in VpcIds /\ vpc[obj.vpcId] # "none"
      BY <2>1 DEF DnsInv
    <2> QED
      BY <2>1, <2>2 DEF VpcMoves, VpcStates
  <1> QED
    BY <1>1 DEF FinalizerGuardsVpc, VpcLives

\* The running reconcile goes on: the snapshot agrees with the API server.
SnapshotAgrees ==
    /\ base.vpcId = obj.vpcId
    /\ "operator" \in base.finalizers <=> "operator" \in obj.finalizers

LEMMA StepGuard ==
    ASSUME ConstantsAssumption, ~CacheLags, TypeInv, DnsInv, TeardownInv, GuardInv,
           [Next]_vars
    PROVE  GuardInv' /\ (obj.vpcId # NoId => obj'.vpcId = obj.vpcId)
  <1>1. cache = obj /\ FinalizerGuardsVpc /\ WorkInv
    BY DEF GuardInv
  <1>2. \A v \in VpcIds : vpc[v] = "gone" => vpc'[v] = "gone"
    BY GoneStays
  <1>3. work.vpcId # NoId => work.vpcId \in VpcIds
    BY WorkMarks DEF Ids
  <1>4. CASE StageShape /\ pc \in NormalStages \cup DeleteStages
    <2>1. UNCHANGED <<obj, cache, base>> /\ pc # "idle"
      BY <1>4 DEF StageShape, NormalStages, DeleteStages
    <2>2. pc \notin {"patchConditions", "patchObject"}
      BY <1>4 DEF NormalStages, DeleteStages
    <2>3. FinalizerGuardsVpc'
      BY <1>1, <2>1, GuardKept
    <2>4. CASE SameIdentity(work')
      <3>1. NormalWork => NormalWork'
        BY <2>1, <2>4 DEF NormalWork, SameIdentity
      <3>2. DeletingWork => DeletingWork'
        BY <2>1, <2>2, <2>4 DEF DeletingWork, SameIdentity
      <3>3. pc' \in NormalStages => pc \in NormalStages
        BY <1>4 DEF StageShape, NormalStages, DeleteStages
      <3> QED
        BY <1>1, <2>1, <2>3, <3>1, <3>2, <3>3 DEF GuardInv, WorkInv
    <2>5. CASE /\ pc = "vpc" /\ work.vpcId = NoId
               /\ work'.deleting = work.deleting /\ work'.finalizers = work.finalizers
      <3>1. NormalWork /\ ~base.deleting
        BY <1>1, <2>1, <2>5 DEF WorkInv, DeletingWork, NormalStages
      <3>2. NormalWork'
        BY <2>1, <2>5, <3>1 DEF NormalWork
      <3> QED
        BY <1>1, <2>1, <2>3, <3>1, <3>2 DEF GuardInv, WorkInv
    <2>6. CASE /\ pc = "deleteVpc" /\ pc' = "patchConditions"
               /\ work'.deleting = work.deleting /\ work'.vpcId = work.vpcId
               /\ work'.finalizers = work.finalizers \ {"operator"}
               /\ work.vpcId # NoId => vpc'[work.vpcId] = "gone"
      <3>1. DeletingWork
        BY <1>1, <2>1, <2>6 DEF WorkInv, NormalWork, TeardownInv, DeleteStages
      <3>2. DeletingWork'
        BY <2>1, <2>2, <2>6, <3>1 DEF DeletingWork
      <3> QED
        BY <1>1, <2>1, <2>3, <2>6, <3>2 DEF GuardInv, WorkInv, NormalStages
    <2> QED
      BY <1>4, <2>1, <2>4, <2>5, <2>6 DEF StageShape
  <1>5. CASE Reconcile
    <2>1. /\ base' = obj /\ UNCHANGED <<obj, cache>>
          /\ pc' = FirstStage(obj)
          /\ work' = IF obj.deleting THEN obj ELSE AddFinalizer(obj)
      BY <1>1, <1>5 DEF Reconcile
    <2>2. /\ AddFinalizer(obj).finalizers = obj.finalizers \cup {"operator"}
          /\ AddFinalizer(obj).vpcId = obj.vpcId
      BY DEF AddFinalizer, TypeInv, TypeOK, Cluster
    <2>3. (NormalWork \/ DeletingWork)'
      BY <2>1, <2>2 DEF NormalWork, DeletingWork
    <2>4. pc' \in NormalStages => ~obj.deleting
      BY <2>1 DEF FirstStage, NormalStages
    <2>5. FinalizerGuardsVpc'
      BY <1>1, <2>1, GuardKept
    <2> QED
      BY <1>1, <2>1, <2>3, <2>4, <2>5 DEF GuardInv, WorkInv
  <1>6. CASE PatchConditions
    <2>1. /\ ConditionsPatched
          /\ obj'.vpcId = obj.vpcId /\ obj'.finalizers = obj.finalizers
          /\ obj'.exists = obj.exists /\ cache' = obj'
          /\ UNCHANGED <<base, work>> /\ pc = "patchConditions" /\ pc' = "patchObject"
      BY <1>1, <1>6, PatchShape DEF ConditionsPatched, NewObj
    <2>2. FinalizerGuardsVpc'
      BY <1>1, <2>1, GuardKept
    <2>3. NormalWork => NormalWork'
      BY <2>1 DEF NormalWork
    <2>4. DeletingWork => DeletingWork'
      BY <1>2, <1>3, <2>1 DEF DeletingWork
    <2> QED
      BY <1>1, <2>1, <2>2, <2>3, <2>4 DEF GuardInv, WorkInv, NormalStages
  <1>7. CASE PatchObject
    <2>1. ObjectPatched /\ cache' = obj' /\ pc = "patchObject" /\ pc' = "idle"
      BY <1>1, <1>7, PatchShape DEF ObjectPatched, NewObj
    <2>2. CASE UNCHANGED <<obj, cache>>
      BY <1>1, <2>1, <2>2, GuardKept DEF GuardInv, WorkInv
    <2>3. CASE ~(UNCHANGED <<obj, cache>>)
      <3>1. /\ obj'.vpcId = IF work.vpcId # base.vpcId THEN work.vpcId ELSE obj.vpcId
            /\ obj'.finalizers = IF work.finalizers # base.finalizers
                                 THEN work.finalizers ELSE obj.finalizers
            /\ obj'.exists <=> ~(obj'.deleting /\ obj'.finalizers = {})
            /\ obj.exists
        BY <2>1, <2>3, PatchCluster DEF ObjectPatched, TypeInv
      <3>2. SnapshotAgrees /\ (NormalWork \/ DeletingWork)
        BY <1>1, <2>1 DEF WorkInv, SnapshotAgrees
      <3>3. CASE NormalWork
        <4>1. "operator" \in obj'.finalizers /\ obj'.exists
          BY <3>1, <3>2, <3>3 DEF NormalWork, SnapshotAgrees
        <4>2. obj.vpcId # NoId => obj'.vpcId = obj.vpcId
          BY <3>1, <3>2, <3>3 DEF NormalWork, SnapshotAgrees
        <4> QED
          BY <2>1, <4>1, <4>2 DEF GuardInv, WorkInv, FinalizerGuardsVpc
      <3>4. CASE DeletingWork
        <4>1. obj'.vpcId = obj.vpcId /\ obj.vpcId = work.vpcId
          BY <3>1, <3>2, <3>4 DEF DeletingWork, SnapshotAgrees
        <4>2. FinalizerGuardsVpc'
          <5>1. CASE work.finalizers = base.finalizers
            BY <1>1, <3>1, <4>1, <5>1, GuardKept
          <5>2. CASE work.vpcId # NoId => vpc[work.vpcId] = "gone"
            BY <1>2, <1>3, <4>1, <5>2 DEF FinalizerGuardsVpc, VpcLives
          <5> QED
            BY <3>4, <5>1, <5>2 DEF DeletingWork
        <4> QED
          BY <2>1, <4>1, <4>2 DEF GuardInv, WorkInv
      <3> QED
        BY <3>2, <3>3, <3>4
    <2> QED
      BY <2>2, <2>3
  <1>8. CASE OthersWrite
    <2>1. PICK o \in Cluster :
            /\ NewObj(Settle(o)) /\ o.exists = obj.exists /\ o.vpcId = obj.vpcId
            /\ "operator" \in o.finalizers <=> "operator" \in obj.finalizers
      BY <1>8 DEF OthersWrite
    <2>2. /\ obj' = Settle(o) /\ cache' = obj' /\ UNCHANGED <<pc, base, work>>
      BY <1>8, <2>1 DEF NewObj, OthersWrite
    <2>3. /\ obj'.vpcId = obj.vpcId
          /\ "operator" \in obj'.finalizers <=> "operator" \in obj.finalizers
          /\ obj.exists /\ "operator" \in obj.finalizers => obj'.exists
      BY <2>1, <2>2, SettleCluster
    <2>4. FinalizerGuardsVpc'
      BY <1>1, <2>3, GuardKept
    <2>5. NormalWork => NormalWork'
      BY <2>2 DEF NormalWork
    <2>6. DeletingWork => DeletingWork'
      BY <1>2, <1>3, <2>2 DEF DeletingWork
    <2> QED
      BY <1>1, <2>2, <2>3, <2>4, <2>5, <2>6 DEF GuardInv, WorkInv
  <1>9. CASE Crash \/ SyncCache
    <2>1. Crash
      BY <1>1, <1>9 DEF SyncCache
    <2>2. UNCHANGED obj /\ cache' = obj /\ pc' = "idle"
      BY <2>1 DEF Crash, EndReconcile
    <2>3. FinalizerGuardsVpc'
      BY <1>1, <2>2, GuardKept
    <2> QED
      BY <2>2, <2>3 DEF GuardInv, WorkInv
  <1>10. CASE UNCHANGED <<obj, cache, base, work, pc>>
    <2>1. FinalizerGuardsVpc'
      BY <1>1, <1>10, GuardKept
    <2>2. NormalWork => NormalWork'
      BY <1>10 DEF NormalWork
    <2>3. DeletingWork => DeletingWork'
      BY <1>2, <1>3, <1>10 DEF DeletingWork
    <2> QED
      BY <1>1, <1>10, <2>1, <2>2, <2>3 DEF GuardInv, WorkInv
  <1> QED
    BY <1>4, <1>5, <1>6, <1>7, <1>8, <1>9, <1>10, NextShape DEF StepShape

\* A VPC in the spec cannot outlive the object: as long as the cache is up to
\* date, the operator's merge patch drops its finalizer only after deleteVpc
\* has seen that VPC gone, and no patch of CAPA or the user takes it away.
THEOREM FinalizerGuards ==
    ASSUME ~CacheLags
    PROVE  Spec => []FinalizerGuardsVpc
  <1>. DEFINE IInv == TypeInv /\ DnsInv /\ TeardownInv /\ GuardInv
  <1>1. Init => IInv
    BY InitType, InitDns, InitTeardown, InitGuard, ConstantsAssumption
  <1>2. IInv /\ [Next]_vars => IInv'
    BY StepType, StepDns, StepTeardown, StepGuard, ConstantsAssumption
  <1>3. IInv => FinalizerGuardsVpc
    BY DEF GuardInv
  <1> QED
    BY <1>1, <1>2, <1>3, PTL DEF Spec

\* With the cache up to date the recorded VPC ID is never replaced: a patch
\* fills in a missing ID once.
THEOREM VpcIdIsStable ==
    ASSUME ~CacheLags
    PROVE  Spec => VpcIdStable
  <1>. DEFINE IInv == TypeInv /\ DnsInv /\ TeardownInv /\ GuardInv
  <1>1. Init => IInv
    BY InitType, InitDns, InitTeardown, InitGuard, ConstantsAssumption
  <1>2. IInv /\ [Next]_vars => IInv'
    BY StepType, StepDns, StepTeardown, StepGuard, ConstantsAssumption
  <1>3. IInv /\ [Next]_vars => [obj.vpcId # NoId => obj'.vpcId = obj.vpcId]_vars
    BY StepGuard, ConstantsAssumption
  <1> QED
    BY <1>1, <1>2, <1>3, PTL DEF Spec, VpcIdStable
-----------------------------------------------------------------------------
(* Route tables live only beside their subnets.                            *)

\* The IDs of subnets are recorded with the VPC they lie in.
SubnetIdsInv ==
    \A o \in {obj, base, work} : \A s \in Slots : o.subnetId[s] \in {NoId, o.vpcId}

\* A stage that makes tables has all subnets, and one that deletes subnets
\* has no tables left.
OrderInv ==
    /\ pc = "routeTables" => \A s \in Slots : subnet[work.vpcId][s] # "none"
    /\ pc = "deleteSubnets" /\ work.vpcId # NoId =>
            \A s \in Slots : routeTable[work.vpcId][s] = "none"

TablesInv == SubnetIdsInv /\ OrderInv /\ NoStrandedRouteTable

LEMMA SubnetIdsKept ==
    ASSUME NEW o \in Cluster
    PROVE  /\ \A c, value : Mark(o, c, value).subnetId = o.subnetId
           /\ \A v, c, value : Mark([o EXCEPT !.vpcId = v], c, value).subnetId = o.subnetId
           /\ Settle(o).subnetId = o.subnetId
           /\ AddFinalizer(o).subnetId = o.subnetId /\ AddFinalizer(o).vpcId = o.vpcId
           /\ RemoveFinalizer(o).subnetId = o.subnetId
  BY DEF Mark, Settle, AddFinalizer, RemoveFinalizer, Cluster

LEMMA StageSubnetIds ==
    ASSUME TypeInv, StageStep
    PROVE  \/ work'.subnetId = work.subnetId
           \/ pc = "subnets" /\ work'.subnetId = [s \in Slots |-> work.vpcId]
  <1>1. work \in Cluster
    BY WorkMarks
  <1>2. CASE GetVpc \/ CreateVpc \/ VpcCallFails
    <2>1. \A v, state : AfterVpc(v, state) => work'.subnetId = work.subnetId
      BY <1>1, SubnetIdsKept DEF AfterVpc, Proceed, Return
    <2>2. Return(work, TRUE) => work' = work
      BY DEF Return
    <2> QED
      BY <1>2, <2>1, <2>2 DEF GetVpc, CreateVpc, VpcCallFails
  <1>3. CASE ReconcileSubnets \/ SubnetsCallFails
    <2>1. /\ RecordSubnets(work, work.vpcId) \in Cluster
          /\ RecordSubnets(work, work.vpcId).subnetId = [s \in Slots |-> work.vpcId]
      BY <1>1 DEF RecordSubnets, Cluster
    <2> QED
      BY <1>3, <2>1, SubnetIdsKept DEF ReconcileSubnets, SubnetsCallFails, Proceed, Return
  <1>4. CASE ReconcileRouteTables \/ RouteTablesCallFails
                \/ WaitForSecurityGroups \/ ReconcileVpcEndpoint \/ VpcEndpointCallFails
    BY <1>1, <1>4, SubnetIdsKept
       DEF ReconcileRouteTables, RouteTablesCallFails, WaitForSecurityGroups,
           ReconcileVpcEndpoint, VpcEndpointCallFails, Proceed, Return
  <1>5. CASE SkipVpcEndpoint \/ DeleteVpcEndpoint \/ DeleteVpcEndpointFails
                \/ WaitForCapa \/ DeleteRouteTables \/ DeleteRouteTablesFails
    BY <1>1, <1>5, SubnetIdsKept
       DEF SkipVpcEndpoint, DeleteVpcEndpoint, MarkEndpointDeleted, DeleteVpcEndpointFails,
           WaitForCapa, DeleteRouteTables, DeleteRouteTablesFails, Proceed, Return
  <1>6. CASE DeleteSubnets \/ DeleteSubnetsFails
    BY <1>1, <1>6, SubnetIdsKept DEF DeleteSubnets, DeleteSubnetsFails, Proceed, Return
  <1>7. CASE DeleteVpc \/ DeleteVpcFails
    <2>1. Mark(work, "VpcReady", "Deleted") \in Cluster
      BY WorkMarks DEF OperatorConditions
    <2> QED
      BY <1>1, <1>7, <2>1, SubnetIdsKept DEF DeleteVpc, DeleteVpcFails, Return
  <1> QED
    BY <1>2, <1>3, <1>4, <1>5, <1>6, <1>7 DEF StageStep

LEMMA StepSubnetIds ==
    ASSUME ConstantsAssumption, ~CacheLags, TypeInv, GuardInv, SubnetIdsInv, [Next]_vars
    PROVE  SubnetIdsInv'
  <1>. DEFINE InVpc(o) == \A s \in Slots : o.subnetId[s] \in {NoId, o.vpcId}
  <1>1. InVpc(obj) /\ InVpc(base) /\ InVpc(work) /\ cache = obj
    BY DEF SubnetIdsInv, GuardInv
  <1>2. obj \in Cluster /\ InVpc(Blank)
    BY BlankCluster DEF TypeInv, TypeOK, Blank, NewCluster
  <1>3. SUFFICES InVpc(obj)' /\ InVpc(base)' /\ InVpc(work)'
    BY DEF SubnetIdsInv
  <1>4. CASE StageStep /\ StageShape
    <2>1. UNCHANGED <<obj, base>>
      BY <1>4 DEF StageShape
    <2>2. work'.vpcId = work.vpcId \/ work.vpcId = NoId
      BY <1>4 DEF StageShape, SameIdentity
    <2>3. pc = "subnets" => work'.vpcId = work.vpcId
      BY <1>4 DEF StageShape, SameIdentity
    <2> QED
      BY <1>1, <1>4, <2>1, <2>2, <2>3, StageSubnetIds
  <1>5. CASE Reconcile
    BY <1>1, <1>2, <1>5, SubnetIdsKept DEF Reconcile
  <1>6. CASE PatchConditions
    <2>1. WithConditions(obj).subnetId = obj.subnetId
      BY <1>2 DEF WithConditions, Cluster
    <2> QED
      BY <1>1, <1>6, <2>1, PatchShape DEF ConditionsPatched, NewObj
  <1>7. CASE PatchObject
    <2>1. ObjectPatched
      BY <1>7, PatchShape
    <2>2. base' = Blank /\ work' = Blank
      BY <2>1 DEF ObjectPatched
    <2>3. CASE NewObj(Settle(MergePatch(obj)))
      <3>1. /\ MergePatch(obj) \in Cluster
            /\ MergePatch(obj).vpcId = IF work.vpcId # base.vpcId THEN work.vpcId ELSE obj.vpcId
            /\ MergePatch(obj).subnetId \in {work.subnetId, obj.subnetId}
        BY <1>2, PatchCluster DEF MergePatch, Cluster, TypeInv
      <3>2. /\ obj'.subnetId = MergePatch(obj).subnetId
            /\ obj'.vpcId = MergePatch(obj).vpcId
        BY <2>3, <3>1, SubnetIdsKept, SettleCluster DEF NewObj
      <3>3. base.vpcId = obj.vpcId /\ (base.vpcId # NoId => work.vpcId = base.vpcId)
        BY <2>1 DEF ObjectPatched, GuardInv, WorkInv, NormalWork, DeletingWork
      <3>4. MergePatch(obj).vpcId = work.vpcId
        BY <3>1, <3>3
      <3> QED
        BY <1>1, <1>2, <2>2, <3>1, <3>2, <3>3, <3>4
    <2> QED
      BY <1>1, <1>2, <2>1, <2>2, <2>3 DEF ObjectPatched
  <1>8. CASE OthersWrite
    <2>1. PICK o \in Cluster : /\ NewObj(Settle(o))
                               /\ o.vpcId = obj.vpcId /\ o.subnetId = obj.subnetId
      BY <1>8 DEF OthersWrite
    <2> QED
      BY <1>1, <1>8, <2>1, SubnetIdsKept, SettleCluster DEF OthersWrite, NewObj
  <1>9. CASE Crash \/ SyncCache \/ UNCHANGED <<obj, cache, base, work, pc>>
    BY <1>1, <1>2, <1>9 DEF Crash, EndReconcile, SyncCache
  <1> QED
    BY <1>4, <1>5, <1>6, <1>7, <1>8, <1>9, NextShape DEF StepShape
\* How a reconcile comes to make tables, and to delete subnets.
LEMMA StageEntry ==
    ASSUME ConstantsAssumption, TypeInv, [Next]_vars
    PROVE  /\ pc' = "routeTables" =>
                \/ pc = "routeTables" /\ work' = work
                \/ /\ ReconcileSubnets /\ AllSubnets(work.vpcId, "available")
                   /\ work'.vpcId = work.vpcId
           /\ pc' = "deleteSubnets" =>
                \/ pc = "deleteSubnets" /\ work' = work
                \/ DeleteRouteTables /\ work'.vpcId = work.vpcId
  <1>1. CASE StageStep /\ StageShape
    <2>1. pc' \in {"routeTables", "deleteSubnets"} => work'.vpcId = work.vpcId \/ pc = "vpc"
      BY <1>1 DEF StageShape, SameIdentity
    <2>2. CASE GetVpc \/ CreateVpc \/ VpcCallFails
      BY <2>2 DEF GetVpc, CreateVpc, VpcCallFails, AfterVpc, Proceed, Return
    <2>3. CASE ReconcileSubnets
      BY <2>1, <2>3 DEF ReconcileSubnets, Proceed, Return
    <2>4. CASE SubnetsCallFails \/ ReconcileRouteTables \/ RouteTablesCallFails
                \/ WaitForSecurityGroups \/ ReconcileVpcEndpoint \/ VpcEndpointCallFails
      BY <2>4 DEF SubnetsCallFails, ReconcileRouteTables, RouteTablesCallFails,
                  WaitForSecurityGroups, ReconcileVpcEndpoint, VpcEndpointCallFails,
                  Proceed, Return
    <2>5. CASE SkipVpcEndpoint \/ DeleteVpcEndpoint \/ DeleteVpcEndpointFails \/ WaitForCapa
      BY <2>5 DEF SkipVpcEndpoint, DeleteVpcEndpoint, DeleteVpcEndpointFails, WaitForCapa,
                  Proceed, Return
    <2>6. CASE DeleteRouteTables
      BY <2>1, <2>6 DEF DeleteRouteTables, Proceed
    <2>7. CASE DeleteRouteTablesFails \/ DeleteSubnets \/ DeleteSubnetsFails
                \/ DeleteVpc \/ DeleteVpcFails
      BY <2>7 DEF DeleteRouteTablesFails, DeleteSubnets, DeleteSubnetsFails, DeleteVpc,
                  DeleteVpcFails, Proceed, Return
    <2> QED
      BY <1>1, <2>2, <2>3, <2>4, <2>5, <2>6, <2>7 DEF StageStep
  <1>2. CASE Reconcile
    BY <1>2 DEF Reconcile, FirstStage
  <1>3. CASE PatchConditions \/ PatchObject
    BY <1>3 DEF PatchConditions, PatchObject, EndReconcile
  <1>4. CASE OthersWrite \/ Crash \/ SyncCache \/ UNCHANGED <<obj, cache, base, work, pc>>
    BY <1>4 DEF OthersWrite, Crash, EndReconcile, SyncCache
  <1> QED
    BY <1>1, <1>2, <1>3, <1>4, NextShape DEF StepShape

\* In the delete stages few steps touch a subnet or a route table.
LEMMA OtherTableSteps ==
    ASSUME pc \in DeleteStages, [Next]_vars
    PROVE  /\ UNCHANGED routeTable \/ DeleteRouteTables \/ DeleteRouteTablesFails \/ Ec2
           /\ UNCHANGED subnet \/ DeleteSubnets \/ DeleteSubnetsFails \/ Ec2
  <1>1. CASE StageStep
    BY <1>1
       DEF StageStep, GetVpc, CreateVpc, VpcCallFails, ReconcileSubnets, SubnetsCallFails,
           ReconcileRouteTables, RouteTablesCallFails, WaitForSecurityGroups,
           ReconcileVpcEndpoint, VpcEndpointCallFails, SkipVpcEndpoint,
           DeleteVpcEndpoint, DeleteVpcEndpointFails, WaitForCapa, DeleteRouteTables,
           DeleteRouteTablesFails, DeleteSubnets, DeleteSubnetsFails, DeleteVpc,
           DeleteVpcFails, DeleteStages, cloudVars
  <1>2. CASE \/ ReconcileNotFound \/ ReconcileSkips \/ ReconcileWithoutIdentity \/ Reconcile
             \/ PatchConditions \/ PatchObject
             \/ SyncCache \/ Crash \/ UserDeletes \/ UserChangesVpcMode
    BY <1>2 DEF ReconcileNotFound, ReconcileSkips, ReconcileWithoutIdentity, Reconcile,
                PatchConditions, PatchObject, SyncCache, Crash, UserDeletes, UserChangesVpcMode,
                cloudVars
  <1>3. CASE AnyCapaStep
    BY <1>3, CapaStepWrites DEF CapaWrite, CapaWrites, cloudVars
  <1>4. CASE UNCHANGED vars
    BY <1>4 DEF vars, cloudVars
  <1> QED
    BY <1>1, <1>2, <1>3, <1>4
       DEF Next, OperatorSteps, StageStep, AnyCapaStep, Finished

\* Tables are made in the VPC the reconcile works on, subnets deleted by the
\* recorded IDs.
LEMMA TablesAppear ==
    ASSUME ConstantsAssumption, TypeInv, [Next]_vars, NEW v \in VpcIds, NEW s \in Slots,
           routeTable[v][s] = "none", routeTable'[v][s] # "none"
    PROVE  pc = "routeTables" /\ v = work.vpcId
  <1>1. routeTable \in [VpcIds -> [Slots -> RouteTableStates]]
    BY DEF TypeInv, TypeOK
  <1>2. CASE pc \notin DeleteStages
    <2>1. ASSUME NEW w \in VpcIds, NEW t \in Slots, RouteTableAssociates(w, t)
          PROVE  FALSE
      BY <1>1, <2>1 DEF RouteTableAssociates
    <2>2. ReconcileRouteTables \/ RouteTablesCallFails
      BY <1>2, <2>1, NormalMoves
         DEF ReconcileSubnets, SubnetsCallFails, SubnetBecomesAvailable,
             RemovalStages, DeleteStages
    <2>. DEFINE Same(f) == f \in [VpcIds -> [Slots -> RouteTableStates]]
                            /\ f[v] = routeTable[v]
    <2>3. ASSUME v # work.vpcId
          PROVE  Same(routeTable')
      <3>1. work.vpcId \in VpcIds
        BY <2>2, WorkMarks
           DEF ReconcileRouteTables, RouteTablesCallFails, TypeInv, StageHasVpc, Ids
      <3>2. \A f, S : \A state \in RouteTableStates :
                Same(f) => Same(SetSlots(f, work.vpcId, S, state))
        BY <2>3, <3>1, SetSlotsType DEF SetSlots
      <3>3. Same(routeTable)
        BY <1>1
      <3>. HIDE DEF Same
      <3> QED
        BY <2>2, <3>2, <3>3
           DEF ReconcileRouteTables, RouteTablesCallFails, RouteTableStates
    <2>4. v = work.vpcId
      BY <2>3
    <2> QED
      BY <2>2, <2>4 DEF ReconcileRouteTables, RouteTablesCallFails
  <1>3. CASE pc \in DeleteStages
    <2>1. CASE DeleteRouteTables
      BY <1>1, <2>1 DEF DeleteRouteTables, SetSlots
    <2>2. CASE DeleteRouteTablesFails
      <3>1. PICK S \in SUBSET Slots :
                LET after == SetSlots(routeTable, work.vpcId, S, "none") IN
                \/ routeTable' = after
                \/ \E t \in Slots :
                        /\ after[work.vpcId][t] # "none"
                        /\ routeTable' = SetSlots(after, work.vpcId, {t}, "unassociated")
        BY <2>2 DEF DeleteRouteTablesFails
      <3>. DEFINE after == SetSlots(routeTable, work.vpcId, S, "none")
      <3>2. work.vpcId \in VpcIds
        BY <2>2, WorkMarks DEF DeleteRouteTablesFails, Ids
      <3>3. after \in [VpcIds -> [Slots -> RouteTableStates]] /\ after[v][s] = "none"
        BY <1>1, <3>2, SetSlotsType DEF SetSlots, RouteTableStates
      <3>. HIDE DEF after
      <3>4. ASSUME NEW t \in Slots, after[work.vpcId][t] # "none",
                   routeTable' = SetSlots(after, work.vpcId, {t}, "unassociated")
            PROVE  FALSE
        BY <3>2, <3>3, <3>4 DEF SetSlots
      <3> QED
        BY <3>1, <3>3, <3>4 DEF after
    <2>3. CASE Ec2
      BY <1>1, <2>3 DEF Ec2, VpcBecomesAvailable, EndpointSettles, SubnetBecomesAvailable,
                        RouteTableAssociates
    <2>4. UNCHANGED routeTable \/ DeleteRouteTables \/ DeleteRouteTablesFails \/ Ec2
      BY <1>3, OtherTableSteps
    <2> QED
      BY <2>1, <2>2, <2>3, <2>4
  <1> QED
    BY <1>2, <1>3

LEMMA SubnetsVanish ==
    ASSUME ConstantsAssumption, TypeInv, [Next]_vars, NEW v \in VpcIds, NEW s \in Slots,
           subnet[v][s] # "none", subnet'[v][s] = "none"
    PROVE  pc = "deleteSubnets" /\ work.subnetId[s] = v
  <1>1. subnet \in [VpcIds -> [Slots -> SubnetStates]]
    BY DEF TypeInv, TypeOK
  <1>2. pc \in DeleteStages
    BY KeepsSubnetsAndTables DEF RemovalStages, DeleteStages
  <1>3. CASE DeleteSubnets \/ DeleteSubnetsFails
    <2>1. UNCHANGED subnet \/ \E S : subnet' = WithoutSubnets(S)
      BY <1>3 DEF DeleteSubnets, DeleteSubnetsFails
    <2>2. pc = "deleteSubnets"
      BY <1>3 DEF DeleteSubnets, DeleteSubnetsFails
    <2> QED
      BY <1>1, <2>1, <2>2 DEF WithoutSubnets
  <1>4. CASE Ec2
    BY <1>1, <1>4 DEF Ec2, VpcBecomesAvailable, EndpointSettles, SubnetBecomesAvailable,
                      RouteTableAssociates
  <1> QED
    BY <1>2, <1>3, <1>4, OtherTableSteps

LEMMA StepOrder ==
    ASSUME ConstantsAssumption, TypeInv, SubnetIdsInv, OrderInv, NoStrandedRouteTable,
           [Next]_vars
    PROVE  OrderInv' /\ NoStrandedRouteTable'
  <1>1. ASSUME NEW v \in VpcIds, NEW s \in Slots, routeTable'[v][s] # "none"
        PROVE  subnet'[v][s] # "none"
    <2>1. subnet[v][s] # "none"
      BY <1>1, TablesAppear DEF OrderInv, NoStrandedRouteTable
    <2>2. ASSUME subnet'[v][s] = "none"
          PROVE  FALSE
      <3>1. pc = "deleteSubnets" /\ work.subnetId[s] = v
        BY <2>1, <2>2, SubnetsVanish
      <3>2. work.vpcId = v /\ v # NoId
        BY <3>1 DEF SubnetIdsInv, ConstantsAssumption
      <3>3. routeTable[v][s] = "none"
        BY <3>1, <3>2 DEF OrderInv
      <3> QED
        BY <1>1, <3>1, <3>3, TablesAppear
    <2> QED
      BY <2>2
  <1>2. ASSUME pc' = "routeTables", NEW s \in Slots
        PROVE  subnet'[work'.vpcId][s] # "none"
    <2>1. work'.vpcId = work.vpcId /\ work.vpcId \in VpcIds /\ pc # "deleteSubnets"
      BY <1>2, StageEntry, WorkMarks DEF TypeInv, StageHasVpc, ReconcileSubnets, Ids
    <2>2. subnet[work.vpcId][s] # "none"
      BY <1>2, StageEntry DEF OrderInv, AllSubnets
    <2> QED
      BY <2>1, <2>2, SubnetsVanish
  <1>3. ASSUME pc' = "deleteSubnets", work'.vpcId # NoId, NEW s \in Slots
        PROVE  routeTable'[work'.vpcId][s] = "none"
    <2>1. work'.vpcId = work.vpcId /\ work.vpcId \in VpcIds /\ pc # "routeTables"
      BY <1>3, StageEntry, WorkMarks DEF DeleteRouteTables, Ids
    <2>2. CASE DeleteRouteTables
      BY <1>3, <2>1, <2>2 DEF DeleteRouteTables, SetSlots, TypeInv, TypeOK
    <2>3. CASE pc = "deleteSubnets"
      BY <1>3, <2>1, <2>3, TablesAppear DEF OrderInv
    <2> QED
      BY <1>3, <2>2, <2>3, StageEntry
  <1> QED
    BY <1>1, <1>2, <1>3 DEF OrderInv, NoStrandedRouteTable

LEMMA InitTablesInv ==
    ASSUME ConstantsAssumption, Init
    PROVE  TablesInv
  BY DEF Init, TablesInv, SubnetIdsInv, OrderInv, NoStrandedRouteTable, NewCluster, Blank

\* A table never outlives its subnet, as long as the cache is up to date:
\* teardown works on the recorded subnets, which lie in the recorded VPC.
THEOREM NoRouteTableIsStranded ==
    ASSUME ~CacheLags
    PROVE  Spec => []NoStrandedRouteTable
  <1>. DEFINE IInv == TypeInv /\ DnsInv /\ TeardownInv /\ GuardInv /\ TablesInv
  <1>1. Init => IInv
    BY InitType, InitDns, InitTeardown, InitGuard, InitTablesInv, ConstantsAssumption
  <1>2. IInv /\ [Next]_vars => IInv'
    BY StepType, StepDns, StepTeardown, StepGuard, StepSubnetIds, StepOrder,
       ConstantsAssumption DEF TablesInv
  <1>3. IInv => NoStrandedRouteTable
    BY DEF TablesInv
  <1> QED
    BY <1>1, <1>2, <1>3, PTL DEF Spec
-----------------------------------------------------------------------------
(* CAPA's finalizer survives the operator's patches.                       *)

\* The operator's finalizer is there, or never will be again.  A reconcile
\* that starts from such an object does not add it, and so does not replace
\* the list of finalizers before it has deleted the VPC.
Claimed(o) == "operator" \in o.finalizers \/ o.deleting

\* The object was claimed before the cache, and with it any reconcile to come,
\* had what is recorded now.
Held == Claimed(cache) /\ (pc # "idle" => Claimed(base))

FinalizersInv ==
    pc # "idle" =>
        \/ ~base.deleting /\ work.finalizers = base.finalizers \cup {"operator"}
        \/ /\ base.deleting
           /\ work.finalizers \in {base.finalizers, base.finalizers \ {"operator"}}

\* What an older copy knows, a newer one knows too; a VPC ID, and then the
\* subnet IDs, are recorded only by claiming the object.
ClaimInv ==
    /\ Claimed(cache) => Claimed(obj)
    /\ pc # "idle" /\ Claimed(base) => Claimed(cache)
    /\ obj.vpcId # NoId => Claimed(obj)
    /\ cache.vpcId # NoId => Claimed(cache)
    /\ pc # "idle" /\ base.vpcId # NoId => Claimed(base)
    /\ pc = "vpc" => work.vpcId = base.vpcId
    /\ pc = "subnets" => Claimed(base)
    /\ pc # "idle" /\ work.subnetId # base.subnetId => Claimed(base)
    /\ (\E s \in Slots : obj.subnetId[s] # NoId) => Held

LEMMA StepFinalizers ==
    ASSUME ConstantsAssumption, TypeInv, TeardownInv, FinalizersInv, [Next]_vars
    PROVE  FinalizersInv'
  <1>1. CASE StageStep /\ StageShape /\ pc \in NormalStages \cup DeleteStages
    <2>1. /\ pc # "idle" /\ base' = base
          /\ \/ work'.finalizers = work.finalizers
             \/ /\ pc = "deleteVpc"
                /\ work'.finalizers = work.finalizers \ {"operator"}
      BY <1>1 DEF StageShape, SameIdentity, NormalStages, DeleteStages
    <2>2. pc = "deleteVpc" => base.deleting
      BY DEF TeardownInv, DeleteStages
    <2> QED
      BY <2>1, <2>2 DEF FinalizersInv
  <1>2. CASE Reconcile
    <2>1. AddFinalizer(cache).finalizers = cache.finalizers \cup {"operator"}
      BY DEF AddFinalizer, TypeInv, TypeOK, Cluster
    <2> QED
      BY <1>2, <2>1 DEF Reconcile, FinalizersInv
  <1>3. CASE PatchConditions \/ PatchObject
    BY <1>3, PatchShape DEF ConditionsPatched, ObjectPatched, FinalizersInv
  <1>4. CASE OthersWrite \/ Crash \/ SyncCache \/ UNCHANGED <<obj, cache, base, work, pc>>
    BY <1>4 DEF OthersWrite, Crash, EndReconcile, SyncCache, FinalizersInv
  <1> QED
    BY <1>1, <1>2, <1>3, <1>4, NextShape DEF StepShape

\* A claim stays, and the patch of a reconcile claims the object.
LEMMA ClaimStays ==
    ASSUME ConstantsAssumption, TypeInv, TeardownInv, FinalizersInv, [Next]_vars
    PROVE  /\ Claimed(obj) => Claimed(obj')
           /\ PatchObject /\ obj' # obj /\ ~Claimed(base) => Claimed(obj')
  <1>1. CASE StageShape \/ Reconcile \/ Crash \/ SyncCache
                \/ UNCHANGED <<obj, cache, base, work, pc>>
    BY <1>1 DEF StageShape, Reconcile, Crash, SyncCache
  <1>2. CASE PatchConditions
    BY <1>2, PatchShape DEF ConditionsPatched, PatchConditions, PatchObject, Claimed
  <1>3. CASE PatchObject
    <2>1. ObjectPatched /\ pc # "idle"
      BY <1>3, PatchShape DEF PatchObject
    <2>2. CASE obj' # obj
      <3>1. /\ obj'.deleting = obj.deleting
            /\ obj'.finalizers = IF work.finalizers # base.finalizers
                                 THEN work.finalizers ELSE obj.finalizers
        BY <2>1, <2>2, PatchCluster DEF ObjectPatched, TypeInv
      <3>2. CASE base.deleting
        BY <3>1, <3>2 DEF TeardownInv, Claimed
      <3>3. CASE ~base.deleting
        <4>1. work.finalizers = base.finalizers \cup {"operator"}
          BY <2>1, <3>3 DEF FinalizersInv
        <4>2. ~Claimed(base) => "operator" \in obj'.finalizers
          BY <3>1, <4>1 DEF Claimed
        <4>3. Claimed(obj) => Claimed(obj')
          BY <3>1, <4>1 DEF Claimed
        <4> QED
          BY <4>2, <4>3 DEF Claimed
      <3> QED
        BY <3>2, <3>3
    <2> QED
      BY <2>2
  <1>4. CASE OthersWrite
    <2>1. PICK o \in Cluster : /\ obj' = Settle(o)
                               /\ obj.deleting => o.deleting
                               /\ "operator" \in o.finalizers <=> "operator" \in obj.finalizers
      BY <1>4 DEF OthersWrite, NewObj
    <2>2. obj'.deleting = o.deleting /\ obj'.finalizers = o.finalizers
      BY <2>1, SettleCluster
    <2>3. PatchObject => ObjectPatched /\ pc' # pc
      BY PatchShape DEF ObjectPatched
    <2> QED
      BY <1>4, <2>1, <2>2, <2>3 DEF Claimed, OthersWrite
  <1> QED
    BY <1>1, <1>2, <1>3, <1>4, NextShape DEF StepShape

\* A reconcile starts with the VPC, and goes on to the subnets only with one
\* that it found recorded.
LEMMA SubnetsEntry ==
    ASSUME StageStep
    PROVE  /\ pc' # "vpc"
           /\ pc' = "subnets" => pc = "vpc" /\ work.vpcId # NoId
  <1>1. CASE GetVpc \/ CreateVpc \/ VpcCallFails
    BY <1>1 DEF GetVpc, CreateVpc, VpcCallFails, AfterVpc, Proceed, Return
  <1>2. CASE ReconcileSubnets \/ SubnetsCallFails \/ ReconcileRouteTables
                \/ RouteTablesCallFails
                \/ WaitForSecurityGroups \/ ReconcileVpcEndpoint \/ VpcEndpointCallFails
    BY <1>2 DEF ReconcileSubnets, SubnetsCallFails, ReconcileRouteTables,
                RouteTablesCallFails, WaitForSecurityGroups, ReconcileVpcEndpoint,
                VpcEndpointCallFails, Proceed, Return
  <1>3. CASE SkipVpcEndpoint \/ DeleteVpcEndpoint \/ DeleteVpcEndpointFails \/ WaitForCapa
                \/ DeleteRouteTables \/ DeleteRouteTablesFails \/ DeleteSubnets
                \/ DeleteSubnetsFails \/ DeleteVpc \/ DeleteVpcFails
    BY <1>3 DEF SkipVpcEndpoint, DeleteVpcEndpoint, DeleteVpcEndpointFails, WaitForCapa,
                DeleteRouteTables, DeleteRouteTablesFails, DeleteSubnets,
                DeleteSubnetsFails, DeleteVpc, DeleteVpcFails, Proceed, Return
  <1> QED
    BY <1>1, <1>2, <1>3 DEF StageStep

\* Subnet IDs are new in the API server only by the patch of a reconcile that
\* recorded them.
LEMMA SubnetIdsPatched ==
    ASSUME ConstantsAssumption, TypeInv, [Next]_vars,
           obj'.subnetId # obj.subnetId
    PROVE  PatchObject /\ work.subnetId # base.subnetId
  <1>1. obj \in Cluster
    BY DEF TypeInv, TypeOK
  <1>2. CASE StageShape \/ Reconcile \/ Crash \/ SyncCache
                \/ UNCHANGED <<obj, cache, base, work, pc>>
    BY <1>2 DEF StageShape, Reconcile, Crash, SyncCache
  <1>3. CASE PatchConditions
    <2>1. WithConditions(obj).subnetId = obj.subnetId
      BY <1>1 DEF WithConditions, Cluster
    <2> QED
      BY <1>3, <2>1, PatchShape DEF ConditionsPatched, NewObj
  <1>4. CASE PatchObject
    <2>1. obj' = Settle(MergePatch(obj)) /\ MergePatch(obj) \in Cluster
      BY <1>4, PatchShape, PatchCluster DEF ObjectPatched, NewObj, TypeInv
    <2>2. obj'.subnetId = MergePatch(obj).subnetId
      BY <2>1, SubnetIdsKept
    <2> QED
      BY <1>1, <1>4, <2>2 DEF MergePatch, Cluster
  <1>5. CASE OthersWrite
    BY <1>5, SubnetIdsKept DEF OthersWrite, NewObj
  <1> QED
    BY <1>2, <1>3, <1>4, <1>5, NextShape DEF StepShape

LEMMA StepClaim ==
    ASSUME ConstantsAssumption, TypeInv, TeardownInv, FinalizersInv, ClaimInv, [Next]_vars
    PROVE  /\ ClaimInv'
           /\ Held /\ Claimed(obj) => Held'
  <1>1. Claimed(obj) => Claimed(obj')
    BY ClaimStays
  <1>2. ~Claimed(Blank) /\ Blank.vpcId = NoId
    BY BlankCluster DEF Claimed, Blank, NewCluster
  <1>3. CASE StageStep /\ StageShape /\ pc \in NormalStages \cup DeleteStages
    <2>1. UNCHANGED <<obj, cache, base>> /\ pc # "idle"
      BY <1>3 DEF StageShape, NormalStages, DeleteStages
    <2>2. pc' # "vpc" /\ (pc' = "subnets" => Claimed(base))
      BY <1>3, <2>1, SubnetsEntry DEF ClaimInv
    <2>3. work'.subnetId # base.subnetId => Claimed(base)
      BY <1>3, <2>1, StageSubnetIds DEF ClaimInv
    <2> QED
      BY <2>1, <2>2, <2>3 DEF ClaimInv, Held, Claimed
  <1>4. CASE Reconcile
    <2>1. /\ UNCHANGED <<obj, cache>> /\ base' = cache /\ pc' \in {"vpc", "deleteEndpoint"}
          /\ work'.vpcId = cache.vpcId /\ work'.subnetId = cache.subnetId
      BY <1>4, SubnetIdsKept DEF Reconcile, FirstStage, TypeInv, TypeOK
    <2> QED
      BY <2>1 DEF ClaimInv, Held, Claimed
  <1>5. CASE \/ /\ UNCHANGED <<pc, base, work>>
                /\ obj'.vpcId = obj.vpcId /\ obj'.subnetId = obj.subnetId
                /\ cache' \in {cache, obj'}
             \/ /\ pc' \in {"idle", "patchObject"}
                /\ \/ UNCHANGED <<base, work>> /\ pc # "idle"
                   \/ pc' = "idle"
                /\ obj'.vpcId = obj.vpcId /\ obj'.subnetId = obj.subnetId
                /\ cache' \in {cache, obj'}
    <2>1. /\ Claimed(cache') => Claimed(obj')
          /\ Claimed(cache) => Claimed(cache')
          /\ cache'.vpcId # NoId => Claimed(cache')
          /\ obj'.vpcId # NoId => Claimed(obj')
      BY <1>1, <1>5 DEF ClaimInv
    <2>2. Held => Held'
      BY <1>5, <2>1 DEF Held, Claimed
    <2> QED
      BY <1>5, <2>1, <2>2 DEF ClaimInv, Held, Claimed
  <1>6. CASE PatchObject
    <2>1. /\ pc' = "idle" /\ pc # "idle" /\ cache' \in {cache, obj'}
      BY <1>6, PatchShape DEF PatchObject, ObjectPatched, NewObj
    <2>2. obj'.vpcId # NoId => Claimed(obj')
      BY <1>1, <1>6, ClaimStays, <2>1 DEF ClaimInv
    <2>3. /\ Claimed(cache') => Claimed(obj')
          /\ Claimed(cache) => Claimed(cache')
          /\ cache'.vpcId # NoId => Claimed(cache')
      BY <1>1, <2>1, <2>2 DEF ClaimInv
    <2>4. ASSUME NEW s \in Slots, obj'.subnetId[s] # NoId
          PROVE  Claimed(cache')
      <3>1. CASE obj'.subnetId = obj.subnetId
        BY <2>3, <2>4, <3>1 DEF ClaimInv, Held
      <3>2. CASE obj'.subnetId # obj.subnetId
        BY <2>1, <2>3, <3>2, SubnetIdsPatched DEF ClaimInv
      <3> QED
        BY <3>1, <3>2
    <2> QED
      BY <2>1, <2>2, <2>3, <2>4 DEF ClaimInv, Held
  <1>7. CASE PatchConditions
    <2>1. WithConditions(obj).subnetId = obj.subnetId
      BY DEF WithConditions, Cluster, TypeInv, TypeOK
    <2> QED
      BY <1>5, <1>7, <2>1, PatchShape DEF ConditionsPatched, NewObj
  <1>8. CASE OthersWrite
    <2>1. PICK o \in Cluster : /\ NewObj(Settle(o))
                               /\ o.vpcId = obj.vpcId /\ o.subnetId = obj.subnetId
      BY <1>8 DEF OthersWrite
    <2>2. /\ obj'.vpcId = obj.vpcId /\ obj'.subnetId = obj.subnetId
          /\ cache' \in {cache, obj'}
      BY <2>1, SettleCluster, SubnetIdsKept DEF NewObj
    <2> QED
      BY <1>5, <1>8, <2>2 DEF OthersWrite
  <1>9. CASE Crash \/ SyncCache \/ UNCHANGED <<obj, cache, base, work, pc>>
    BY <1>5, <1>9 DEF Crash, EndReconcile, SyncCache
  <1> QED
    BY <1>3, <1>4, <1>6, <1>7, <1>8, <1>9, NextShape DEF StepShape

\* While CAPA has its finalizer on the object, no older copy of an object
\* being deleted lacks it: nobody gets a finalizer any more.
CapaSeenInv ==
    "capa" \in obj.finalizers =>
        /\ cache.deleting => "capa" \in cache.finalizers
        /\ pc # "idle" /\ base.deleting => "capa" \in base.finalizers

\* The operator has no say in CAPA's conditions, and CAPA reports a resource
\* deleted only when it is, for good.
CapaReportsInv ==
    /\ \A c \in CapaConditions :
        obj.conditions[c] = "Deleted" => obj.deleting /\ ~CapaHas(c)
    /\ pc # "idle" => \A c \in CapaConditions : work.conditions[c] = base.conditions[c]

CapaInv ==
    /\ CapaStaysGuarded
    /\ {lb, sg} # {NoId} => Held
    /\ CapaSeenInv
    /\ CapaReportsInv

LEMMA StageCapaConditions ==
    ASSUME TypeInv, StageStep, NEW c \in CapaConditions
    PROVE  work'.conditions[c] = work.conditions[c]
  <1>. DEFINE Same(w) == w.conditions[c] = work.conditions[c]
  <1>1. /\ work \in Cluster /\ c \notin OperatorConditions /\ c \in Conditions
    BY WorkMarks DEF CapaConditions, OperatorConditions, Conditions
  <1>2. \A d \in OperatorConditions : \A value : Same(Mark(work, d, value))
    BY <1>1 DEF Mark, Cluster
  <1>3. \A d \in OperatorConditions : \A v, value : Same(Mark([work EXCEPT !.vpcId = v], d, value))
    BY <1>1 DEF Mark, Cluster
  <1>4. \A d \in OperatorConditions : \A v, value : Same(Mark(RecordSubnets(work, v), d, value))
    BY <1>1 DEF Mark, RecordSubnets, Cluster
  <1>5. \A d \in OperatorConditions : \A value : Same(RemoveFinalizer(Mark(work, d, value)))
    BY <1>1 DEF Mark, RemoveFinalizer, Cluster
  <1>6. Same(RemoveFinalizer(work)) /\ Same(work)
    BY <1>1 DEF RemoveFinalizer, Cluster
  <1>7. /\ "VpcReady" \in OperatorConditions /\ "SubnetsReady" \in OperatorConditions
        /\ "RouteTablesReady" \in OperatorConditions
        /\ "VpcEndpointReady" \in OperatorConditions
    BY DEF OperatorConditions
  <1>. HIDE DEF Same
  <1>8. CASE GetVpc \/ CreateVpc \/ VpcCallFails
    <2>1. \A v, state : AfterVpc(v, state) => Same(work')
      BY <1>3, <1>7 DEF AfterVpc, Proceed, Return
    <2>2. Return(work, TRUE) => Same(work')
      BY <1>6 DEF Return
    <2> QED
      BY <1>8, <2>1, <2>2 DEF GetVpc, CreateVpc, VpcCallFails, Same
  <1>9. CASE ReconcileSubnets \/ SubnetsCallFails
    BY <1>4, <1>6, <1>7, <1>9 DEF ReconcileSubnets, SubnetsCallFails, Proceed, Return, Same
  <1>10. CASE ReconcileRouteTables \/ RouteTablesCallFails
                \/ WaitForSecurityGroups \/ ReconcileVpcEndpoint \/ VpcEndpointCallFails
    BY <1>2, <1>6, <1>7, <1>10
       DEF ReconcileRouteTables, RouteTablesCallFails, WaitForSecurityGroups,
           ReconcileVpcEndpoint, VpcEndpointCallFails, Proceed, Return, Same
  <1>11. CASE SkipVpcEndpoint \/ DeleteVpcEndpoint \/ DeleteVpcEndpointFails
                \/ WaitForCapa \/ DeleteRouteTables \/ DeleteRouteTablesFails
    BY <1>2, <1>6, <1>7, <1>11
       DEF SkipVpcEndpoint, DeleteVpcEndpoint, MarkEndpointDeleted, DeleteVpcEndpointFails,
           WaitForCapa, DeleteRouteTables, DeleteRouteTablesFails, Proceed, Return, Same
  <1>12. CASE DeleteSubnets \/ DeleteSubnetsFails \/ DeleteVpc \/ DeleteVpcFails
    BY <1>2, <1>5, <1>6, <1>7, <1>12
       DEF DeleteSubnets, DeleteSubnetsFails, DeleteVpc, DeleteVpcFails, Proceed, Return, Same
  <1> QED
    BY <1>8, <1>9, <1>10, <1>11, <1>12 DEF StageStep, Same

SameCapaConditions == \A c \in CapaConditions : obj'.conditions[c] = obj.conditions[c]

\* What CAPA does: it takes and drops its finalizer, marks a condition of a
\* resource, makes a resource in the recorded network, or deletes one.
CapaMarks(c, value) ==
    /\ "capa" \in obj.finalizers /\ obj'.finalizers = obj.finalizers /\ obj'.exists
    /\ obj'.conditions[c] = value
    /\ \A d \in CapaConditions \ {c} : obj'.conditions[d] = obj.conditions[d]

\* The values by which a condition of CAPA holds the deletion back.
Holding == {"True", "Deleting", "DeletingFailed"}

CapaMoves ==
    /\ UNCHANGED <<pc, base, work>> /\ cache' \in {cache, obj'}
    /\ obj.exists /\ obj'.deleting = obj.deleting
    /\ \/ /\ ~obj.deleting /\ obj'.exists /\ obj'.finalizers = obj.finalizers \cup {"capa"}
          /\ SameCapaConditions /\ UNCHANGED <<lb, sg>>
       \/ /\ \A c \in CapaConditions : obj.conditions[c] = "Deleted"
          /\ obj'.finalizers = obj.finalizers \ {"capa"}
          /\ obj.deleting /\ SameCapaConditions /\ UNCHANGED <<lb, sg>>
       \/ \E c \in CapaConditions, value \in ConditionValues \ {"Deleted"} :
            /\ CapaMarks(c, value)
            /\ c = "ClusterSecurityGroupsReady" /\ ~CapaRelapses => value \in Holding
            /\ UNCHANGED <<lb, sg>> \/ (~obj.deleting /\ NetworkRecorded /\ sg' # NoId)
            /\ c = "LoadBalancerReady" => UNCHANGED sg
       \/ \E c \in CapaConditions :
            /\ CapaMarks(c, "Deleted") /\ obj.deleting
            /\ \/ c = "LoadBalancerReady" /\ lb' = NoId /\ UNCHANGED sg
               \/ /\ c = "ClusterSecurityGroupsReady" /\ sg' = NoId /\ UNCHANGED lb
                  /\ obj.conditions["LoadBalancerReady"] = "Deleted"

LEMMA CapaMarkWrites ==
    ASSUME TypeInv, CapaOwns, NEW c \in CapaConditions, NEW value \in ConditionValues,
           CapaWrites(Mark(obj, c, value))
    PROVE  /\ CapaMarks(c, value)
           /\ UNCHANGED <<pc, base, work>> /\ cache' \in {cache, obj'}
           /\ obj.exists /\ obj'.deleting = obj.deleting
  <1>. DEFINE o == Mark(obj, c, value)
  <1>1. obj \in Cluster /\ c \in Conditions
    BY DEF TypeInv, TypeOK, Conditions
  <1>2. /\ o \in Cluster /\ o.deleting = obj.deleting /\ o.finalizers = obj.finalizers
        /\ o.exists = obj.exists /\ o.conditions[c] = value
        /\ \A d \in CapaConditions \ {c} : o.conditions[d] = obj.conditions[d]
    BY <1>1, MarkCluster DEF Mark, Cluster, Conditions
  <1>3. obj' = Settle(o) /\ cache' \in {cache, obj'} /\ UNCHANGED <<pc, base, work>>
    BY DEF CapaWrites, ApiWrite
  <1>4. Settle(o).conditions = o.conditions
    BY <1>2 DEF Settle, Cluster
  <1> QED
    BY <1>2, <1>3, <1>4, SettleCluster DEF CapaMarks, CapaOwns

LEMMA CapaFinalizerWrites ==
    ASSUME TypeInv, NEW f \in SUBSET Finalizers,
           CapaWrites([obj EXCEPT !.finalizers = f])
    PROVE  /\ UNCHANGED <<pc, base, work>> /\ cache' \in {cache, obj'}
           /\ obj'.deleting = obj.deleting /\ obj'.finalizers = f /\ SameCapaConditions
           /\ obj'.exists <=> obj.exists /\ ~(obj.deleting /\ f = {})
  <1>. DEFINE o == [obj EXCEPT !.finalizers = f]
  <1>1. obj \in Cluster
    BY DEF TypeInv, TypeOK
  <1>2. /\ o \in Cluster /\ o.deleting = obj.deleting /\ o.finalizers = f
        /\ o.exists = obj.exists /\ o.conditions = obj.conditions
    BY <1>1, ClusterFields DEF Cluster
  <1>3. obj' = Settle(o) /\ cache' \in {cache, obj'} /\ UNCHANGED <<pc, base, work>>
    BY DEF CapaWrites, ApiWrite
  <1>4. Settle(o).conditions = o.conditions
    BY <1>2 DEF Settle, Cluster
  <1> QED
    BY <1>2, <1>3, <1>4, SettleCluster DEF SameCapaConditions

LEMMA CapaStepMoves ==
    ASSUME TypeInv, AnyCapaStep
    PROVE  CapaMoves
  <1>1. /\ \A value \in {"True", "False", "Deleting", "DeletingFailed"} :
            value \in ConditionValues \ {"Deleted"}
        /\ "Deleted" \in ConditionValues
        /\ "LoadBalancerReady" \in CapaConditions
        /\ "ClusterSecurityGroupsReady" \in CapaConditions
        /\ \A c \in CapaConditions : c \in {"LoadBalancerReady", "ClusterSecurityGroupsReady"}
    BY DEF ConditionValues, CapaConditions
  <1>2. /\ obj.finalizers \cup {"capa"} \in SUBSET Finalizers
        /\ obj.finalizers \ {"capa"} \in SUBSET Finalizers
    BY DEF TypeInv, TypeOK, Cluster, Finalizers
  <1>3. CASE CapaAddsFinalizer
    BY <1>2, <1>3, CapaFinalizerWrites DEF CapaAddsFinalizer, CapaMoves
  <1>4. CASE CapaRemovesFinalizer
    BY <1>2, <1>4, CapaFinalizerWrites DEF CapaRemovesFinalizer, CapaOwns, CapaMoves
  <1>5. CASE CapaCreatesSecurityGroups
    BY <1>1, <1>5, CapaMarkWrites DEF CapaCreatesSecurityGroups, NetworkRecorded, Holding, CapaMoves
  <1>6. CASE CapaCreatesLoadBalancer
    BY <1>1, <1>6, CapaMarkWrites DEF CapaCreatesLoadBalancer, CapaMoves
  <1>7. ASSUME NEW c \in CapaConditions,
               \/ CapaReportsReady(c) \/ CapaReportsFailure(c)
               \/ CapaStartsDeletion(c) \/ CapaFailsDeletion(c)
        PROVE  CapaMoves
    <2>1. PICK value \in ConditionValues \ {"Deleted"} :
            /\ CapaOwns /\ CapaWrites(Mark(obj, c, value)) /\ UNCHANGED <<lb, sg>>
            /\ ~CapaRelapses => value \in Holding
      BY <1>1, <1>7 DEF Holding, CapaReportsReady, CapaReportsFailure, CapaStartsDeletion,
                        CapaFailsDeletion, CapaDeletes
    <2> QED
      BY <2>1, CapaMarkWrites DEF CapaMoves
  <1>8. ASSUME NEW c \in CapaConditions, CapaFinishesDeletion(c)
        PROVE  CapaMoves
    BY <1>1, <1>8, CapaMarkWrites DEF CapaFinishesDeletion, CapaDeletes, CapaMoves
  <1> QED
    BY <1>3, <1>4, <1>5, <1>6, <1>7, <1>8 DEF AnyCapaStep, CapaSteps

\* CAPA keeps its finalizer, and what it reports is so, in its own steps.
LEMMA CapaStepKeepsCapa ==
    ASSUME ConstantsAssumption, TypeInv, TeardownInv, ClaimInv, CapaInv,
           [Next]_vars, CapaMoves
    PROVE  /\ CapaStaysGuarded' /\ ({lb', sg'} # {NoId} => {lb, sg} # {NoId} \/ Held)
           /\ \A c \in CapaConditions :
                obj'.conditions[c] = "Deleted" => obj'.deleting /\ ~CapaHas(c)'
  <1>1. /\ \A c \in CapaConditions :
            obj.conditions[c] = "Deleted" => obj.deleting /\ ~CapaHas(c)
        /\ {lb, sg} # {NoId} => obj.exists /\ "capa" \in obj.finalizers
    BY DEF CapaInv, CapaReportsInv, CapaStaysGuarded
  <1>2. CapaConditions = {"LoadBalancerReady", "ClusterSecurityGroupsReady"}
    BY DEF CapaConditions
  <1>3. NetworkRecorded => Held
    <2>1. 1 \in Slots
      BY DEF ConstantsAssumption, Slots
    <2> QED
      BY <2>1 DEF NetworkRecorded, ClaimInv
  <1>4. CASE /\ ~obj.deleting /\ obj'.exists /\ obj'.finalizers = obj.finalizers \cup {"capa"}
             /\ SameCapaConditions /\ UNCHANGED <<lb, sg>>
    BY <1>1, <1>4 DEF SameCapaConditions, CapaHas, CapaStaysGuarded
  <1>5. CASE /\ \A c \in CapaConditions : obj.conditions[c] = "Deleted"
             /\ obj'.deleting = obj.deleting
             /\ obj.deleting /\ SameCapaConditions /\ UNCHANGED <<lb, sg>>
    <2>1. lb = NoId /\ sg = NoId
      BY <1>1, <1>2, <1>5 DEF CapaHas
    <2> QED
      BY <1>1, <1>5, <2>1 DEF SameCapaConditions, CapaHas, CapaStaysGuarded
  <1>6. ASSUME NEW c \in CapaConditions, NEW value \in ConditionValues \ {"Deleted"},
               CapaMarks(c, value), obj'.deleting = obj.deleting,
               UNCHANGED <<lb, sg>> \/ (~obj.deleting /\ NetworkRecorded)
        PROVE  /\ CapaStaysGuarded' /\ ({lb', sg'} # {NoId} => {lb, sg} # {NoId} \/ Held)
               /\ \A d \in CapaConditions :
                    obj'.conditions[d] = "Deleted" => obj'.deleting /\ ~CapaHas(d)'
    BY <1>1, <1>3, <1>6 DEF CapaMarks, CapaHas, CapaStaysGuarded
  <1>7. ASSUME NEW c \in CapaConditions, CapaMarks(c, "Deleted"),
               obj.deleting, obj'.deleting = obj.deleting,
               \/ c = "LoadBalancerReady" /\ lb' = NoId /\ UNCHANGED sg
               \/ c = "ClusterSecurityGroupsReady" /\ sg' = NoId /\ UNCHANGED lb
        PROVE  /\ CapaStaysGuarded' /\ ({lb', sg'} # {NoId} => {lb, sg} # {NoId} \/ Held)
               /\ \A d \in CapaConditions :
                    obj'.conditions[d] = "Deleted" => obj'.deleting /\ ~CapaHas(d)'
    BY <1>1, <1>2, <1>7 DEF CapaMarks, CapaHas, CapaStaysGuarded
  <1> QED
    BY <1>4, <1>5, <1>6, <1>7 DEF CapaMoves

\* Everybody else leaves CAPA's resources and conditions alone.
LEMMA OthersLeaveCapa ==
    ASSUME ConstantsAssumption, TypeInv, CapaInv, [Next]_vars, ~AnyCapaStep
    PROVE  /\ UNCHANGED <<lb, sg>> /\ SameCapaConditions
           /\ UNCHANGED obj \/ PatchConditions \/ PatchObject \/ UserDeletes \/ UserChangesVpcMode
  <1>1. obj \in Cluster /\ CapaConditions \subseteq Conditions
    BY DEF TypeInv, TypeOK, Conditions
  <1>2. CASE StageStep
    BY <1>2, StageStepShape
       DEF StageShape, SameCapaConditions, StageStep, GetVpc, CreateVpc, VpcCallFails,
           ReconcileSubnets, SubnetsCallFails, ReconcileRouteTables, RouteTablesCallFails,
           WaitForSecurityGroups, ReconcileVpcEndpoint, VpcEndpointCallFails,
           SkipVpcEndpoint, DeleteVpcEndpoint, DeleteVpcEndpointFails, WaitForCapa,
           DeleteRouteTables, DeleteRouteTablesFails, DeleteSubnets, DeleteSubnetsFails,
           DeleteVpc, DeleteVpcFails, capaVars
  <1>3. CASE ReconcileNotFound \/ ReconcileSkips \/ ReconcileWithoutIdentity \/ Reconcile
                \/ SyncCache \/ Crash \/ UNCHANGED vars
    BY <1>3 DEF ReconcileNotFound, ReconcileSkips, ReconcileWithoutIdentity, Reconcile,
                SyncCache, Crash, vars, capaVars, SameCapaConditions
  <1>4. CASE Ec2
    BY <1>4 DEF Ec2, VpcBecomesAvailable, EndpointSettles, SubnetBecomesAvailable,
                RouteTableAssociates, operatorVars, capaVars, SameCapaConditions
  <1>5. CASE UserDeletes \/ UserChangesVpcMode
    <2>1. /\ UNCHANGED <<lb, sg>>
          /\ obj' \in {Settle([obj EXCEPT !.deleting = TRUE]), Settle([obj EXCEPT !.private = ~@])}
      BY <1>5 DEF UserDeletes, UserChangesVpcMode, ApiWrite, capaVars
    <2>2. obj'.conditions = obj.conditions
      BY <1>1, <2>1 DEF Settle, Cluster
    <2> QED
      BY <1>5, <2>1, <2>2 DEF SameCapaConditions
  <1>6. CASE PatchConditions
    <2>1. UNCHANGED <<lb, sg>> /\ (UNCHANGED obj \/ obj' = WithConditions(obj))
      BY <1>6 DEF PatchConditions, ApiWrite, capaVars
    <2>2. \A c \in CapaConditions : work.conditions[c] = base.conditions[c]
      BY <1>6 DEF PatchConditions, CapaInv, CapaReportsInv
    <2>3. \A c \in CapaConditions : WithConditions(obj).conditions[c] = obj.conditions[c]
      BY <1>1, <2>2 DEF WithConditions, ChangedConditions, Cluster
    <2> QED
      BY <1>6, <2>1, <2>3 DEF SameCapaConditions
  <1>7. CASE PatchObject
    <2>1. UNCHANGED <<lb, sg>> /\ (UNCHANGED obj \/ obj' = Settle(MergePatch(obj)))
      BY <1>7 DEF PatchObject, ApiWrite, capaVars
    <2>2. Settle(MergePatch(obj)).conditions = obj.conditions
      BY <1>1 DEF MergePatch, Settle, Cluster
    <2> QED
      BY <1>7, <2>1, <2>2 DEF SameCapaConditions
  <1> QED
    BY <1>2, <1>3, <1>4, <1>5, <1>6, <1>7
       DEF Next, OperatorSteps, StageStep, AnyCapaStep, Finished

\* A patch that replaces the finalizers was taken of an object that had CAPA's,
\* or of one the operator had not claimed, which CAPA cannot have used.
LEMMA OthersKeepCapaGuarded ==
    ASSUME ConstantsAssumption, TypeInv, FinalizersInv, CapaInv, [Next]_vars, ~AnyCapaStep
    PROVE  CapaStaysGuarded'
  <1>1. SUFFICES ASSUME {lb', sg'} # {NoId}
                 PROVE  obj'.exists /\ "capa" \in obj'.finalizers
    BY DEF CapaStaysGuarded
  <1>2. obj.exists /\ "capa" \in obj.finalizers /\ Held
    BY <1>1, OthersLeaveCapa DEF CapaInv, CapaStaysGuarded
  <1>3. CASE PatchConditions
    BY <1>2, <1>3, PatchShape DEF ConditionsPatched
  <1>4. CASE PatchObject /\ ~UNCHANGED obj
    <2>1. ObjectPatched /\ pc # "idle"
      BY <1>4, PatchShape DEF PatchObject
    <2>2. obj'.finalizers = IF work.finalizers # base.finalizers
                            THEN work.finalizers ELSE obj.finalizers
      BY <1>4, <2>1, PatchCluster DEF ObjectPatched, TypeInv
    <2>3. CASE base.deleting
      <3>1. "capa" \in base.finalizers
        BY <1>2, <2>1, <2>3 DEF CapaInv, CapaSeenInv
      <3>2. "capa" \in work.finalizers
        BY <2>1, <2>3, <3>1 DEF FinalizersInv
      <3> QED
        BY <1>2, <1>4, <2>1, <2>2, <3>2 DEF ObjectPatched
    <2>4. CASE ~base.deleting
      <3>1. work.finalizers = base.finalizers \cup {"operator"} /\ "operator" \in base.finalizers
        BY <1>2, <2>1, <2>4 DEF FinalizersInv, Held, Claimed
      <3>2. work.finalizers = base.finalizers
        BY <3>1
      <3> QED
        BY <1>2, <1>4, <2>1, <2>2, <3>2 DEF ObjectPatched
    <2> QED
      BY <2>3, <2>4
  <1>5. CASE UserDeletes \/ UserChangesVpcMode
    <2>1. obj \in Cluster
      BY DEF TypeInv, TypeOK
    <2>2. obj' \in {Settle([obj EXCEPT !.deleting = TRUE]), Settle([obj EXCEPT !.private = ~@])}
      BY <1>5 DEF UserDeletes, UserChangesVpcMode, ApiWrite
    <2> QED
      BY <1>2, <2>1, <2>2 DEF Settle, Cluster
  <1> QED
    BY <1>2, <1>3, <1>4, <1>5, OthersLeaveCapa

\* An object being deleted gets no finalizer any more.
LEMMA CapaComesBefore ==
    ASSUME ConstantsAssumption, TypeInv, CapaInv, [Next]_vars,
           obj.deleting, "capa" \in obj'.finalizers
    PROVE  "capa" \in obj.finalizers
  <1>1. CASE AnyCapaStep
    BY <1>1, CapaStepMoves DEF CapaMoves, CapaMarks
  <1>2. CASE PatchConditions
    BY <1>2, PatchShape DEF ConditionsPatched
  <1>3. CASE PatchObject
    BY <1>3, PatchShape DEF ObjectPatched, Forbidden
  <1>4. CASE UserDeletes \/ UserChangesVpcMode
    <2>1. obj \in Cluster
      BY DEF TypeInv, TypeOK
    <2>2. obj' \in {Settle([obj EXCEPT !.deleting = TRUE]), Settle([obj EXCEPT !.private = ~@])}
      BY <1>4 DEF UserDeletes, UserChangesVpcMode, ApiWrite
    <2> QED
      BY <2>1, <2>2 DEF Settle, Cluster
  <1> QED
    BY <1>1, <1>2, <1>3, <1>4, OthersLeaveCapa

\* Where the copies of the next state come from.
LEMMA CopiesMove ==
    ASSUME ConstantsAssumption, TypeInv, [Next]_vars
    PROVE  /\ cache' \in {cache, obj'}
           /\ pc' # "idle" =>
                \/ pc # "idle" /\ base' = base
                \/ base' = cache /\ UNCHANGED <<obj, cache>>
  <1>1. CASE StageShape /\ pc \in NormalStages \cup DeleteStages
    BY <1>1 DEF StageShape, NormalStages, DeleteStages
  <1>2. CASE Reconcile \/ Crash \/ SyncCache \/ UNCHANGED <<obj, cache, base, work, pc>>
    BY <1>2 DEF Reconcile, Crash, EndReconcile, SyncCache
  <1>3. CASE PatchConditions \/ PatchObject
    BY <1>3, PatchShape DEF ConditionsPatched, ObjectPatched, NewObj
  <1>4. CASE OthersWrite
    BY <1>4 DEF OthersWrite, NewObj
  <1> QED
    BY <1>1, <1>2, <1>3, <1>4, NextShape DEF StepShape

LEMMA CopiedCapaConditions ==
    ASSUME ConstantsAssumption, TypeInv, CapaReportsInv, [Next]_vars, pc' # "idle",
           NEW c \in CapaConditions
    PROVE  work'.conditions[c] = base'.conditions[c]
  <1>1. CASE StageStep /\ StageShape /\ pc \in NormalStages \cup DeleteStages
    BY <1>1, StageCapaConditions DEF StageShape, CapaReportsInv, NormalStages, DeleteStages
  <1>2. CASE Reconcile
    <2>1. AddFinalizer(cache).conditions = cache.conditions
      BY DEF AddFinalizer, TypeInv, TypeOK, Cluster
    <2> QED
      BY <1>2, <2>1 DEF Reconcile
  <1>3. CASE PatchConditions \/ PatchObject
    BY <1>3, PatchShape DEF ConditionsPatched, ObjectPatched, CapaReportsInv
  <1>4. CASE OthersWrite \/ Crash \/ SyncCache \/ UNCHANGED <<obj, cache, base, work, pc>>
    BY <1>4 DEF OthersWrite, Crash, EndReconcile, SyncCache, CapaReportsInv
  <1> QED
    BY <1>1, <1>2, <1>3, <1>4, NextShape DEF StepShape

LEMMA StepCapa ==
    ASSUME ConstantsAssumption, TypeInv, TeardownInv, FinalizersInv, ClaimInv, CapaInv,
           [Next]_vars
    PROVE  CapaInv'
  <1>1. /\ CapaStaysGuarded'
        /\ {lb', sg'} # {NoId} => {lb, sg} # {NoId} \/ Held
        /\ \A c \in CapaConditions :
            obj'.conditions[c] = "Deleted" => obj'.deleting /\ ~CapaHas(c)'
    <2>1. CASE AnyCapaStep
      BY <2>1, CapaStepMoves, CapaStepKeepsCapa
    <2>2. CASE ~AnyCapaStep
      BY <2>2, OthersLeaveCapa, OthersKeepCapaGuarded, DeletingStays
         DEF CapaInv, CapaReportsInv, SameCapaConditions, CapaHas
    <2> QED
      BY <2>1, <2>2
  <1>2. {lb', sg'} # {NoId} => Held'
    BY <1>1, StepClaim DEF CapaInv, ClaimInv, Held
  <1>3. CapaSeenInv'
    <2>1. /\ cache.deleting =>
                obj.deleting /\ ("capa" \in obj.finalizers => "capa" \in cache.finalizers)
          /\ pc # "idle" /\ base.deleting =>
                obj.deleting /\ ("capa" \in obj.finalizers => "capa" \in base.finalizers)
      BY DEF TeardownInv, CapaInv, CapaSeenInv
    <2> QED
      BY <2>1, CopiesMove, CapaComesBefore DEF CapaSeenInv
  <1> QED
    BY <1>1, <1>2, <1>3, CopiedCapaConditions DEF CapaInv, CapaReportsInv

LEMMA InitCapa ==
    ASSUME ConstantsAssumption, Init
    PROVE  FinalizersInv /\ ClaimInv /\ CapaInv
  BY DEF Init, NewCluster, CapaConditions, Conditions, FinalizersInv, ClaimInv, CapaInv,
         CapaStaysGuarded, CapaSeenInv, CapaReportsInv

\* CAPA's finalizer stays as long as CAPA has a load balancer or security
\* groups in the VPC, however stale the object the operator patches from: what
\* the operator has not claimed CAPA has no network to use, and what it has
\* claimed it patches without touching the finalizers.
THEOREM CapaIsGuarded == Spec => []CapaStaysGuarded
  <1>. DEFINE IInv == TypeInv /\ TeardownInv /\ FinalizersInv /\ ClaimInv /\ CapaInv
  <1>1. Init => IInv
    BY InitType, InitTeardown, InitCapa, ConstantsAssumption
  <1>2. IInv /\ [Next]_vars => IInv'
    BY StepType, StepTeardown, StepFinalizers, StepClaim, StepCapa, ConstantsAssumption
  <1>3. IInv => CapaStaysGuarded
    BY DEF CapaInv
  <1> QED
    BY <1>1, <1>2, <1>3, PTL DEF Spec

-----------------------------------------------------------------------------
(* One VPC, as long as nothing fails.                                      *)

\* Every VPC there is belongs to an object being deleted, is recorded, or is
\* about to be recorded by the running reconcile, which no write of anybody
\* else can make fail; and a reconcile that finds no ID finds no VPC.
OnlyVpc == \A v, w \in VpcIds : vpc[v] # "none" /\ vpc[w] # "none" => v = w

Accounted(v) ==
    \/ obj.deleting
    \/ obj.vpcId = v
    \/ pc # "idle" /\ ~base.deleting /\ work.vpcId = v

OneVpcInv ==
    /\ obj.exists \/ obj.deleting
    /\ faults = 0 =>
        /\ OnlyVpc
        /\ \A v \in VpcIds : vpc[v] # "none" => Accounted(v)
        /\ pc = "vpc" /\ work.vpcId = NoId => \A v \in VpcIds : vpc[v] = "none"

\* Faults are only ever added to.
LEMMA FaultsGrow ==
    ASSUME ConstantsAssumption, TypeInv, [Next]_vars, faults' = 0
    PROVE  faults = 0 /\ ~Fault
  <1>1. faults \in Nat /\ ~Fault /\ (NoFault => faults = 0)
    BY DEF TypeInv, TypeOK, ConstantsAssumption, Fault, NoFault
  <1>2. CASE StageStep
    BY <1>1, <1>2
       DEF StageStep, GetVpc, CreateVpc, VpcCallFails, ReconcileSubnets, SubnetsCallFails,
           ReconcileRouteTables, RouteTablesCallFails, WaitForSecurityGroups,
           ReconcileVpcEndpoint, VpcEndpointCallFails, SkipVpcEndpoint, DeleteVpcEndpoint,
           DeleteVpcEndpointFails, WaitForCapa, DeleteRouteTables, DeleteRouteTablesFails,
           DeleteSubnets, DeleteSubnetsFails, DeleteVpc, DeleteVpcFails
  <1>3. CASE \/ ReconcileNotFound \/ ReconcileSkips \/ ReconcileWithoutIdentity \/ Reconcile
             \/ PatchConditions \/ PatchObject
             \/ SyncCache \/ Crash \/ UserDeletes \/ UserChangesVpcMode
    BY <1>1, <1>3 DEF ReconcileNotFound, ReconcileSkips, ReconcileWithoutIdentity, Reconcile,
                      PatchConditions, PatchObject, SyncCache, Crash, UserDeletes,
                      UserChangesVpcMode, NoFault
  <1>4. CASE Ec2
    BY <1>1, <1>4 DEF Ec2, VpcBecomesAvailable, EndpointSettles, SubnetBecomesAvailable,
                      RouteTableAssociates, operatorVars, NoFault
  <1>5. CASE AnyCapaStep
    BY <1>1, <1>5
       DEF AnyCapaStep, CapaSteps, CapaAddsFinalizer, CapaRemovesFinalizer,
           CapaCreatesSecurityGroups, CapaCreatesLoadBalancer, CapaReportsReady,
           CapaReportsFailure, CapaStartsDeletion, CapaFinishesDeletion,
           CapaFailsDeletion, NoFault
  <1>6. CASE UNCHANGED vars
    BY <1>1, <1>6 DEF vars, NoFault
  <1> QED
    BY <1>2, <1>3, <1>4, <1>5, <1>6
       DEF Next, OperatorSteps, StageStep, AnyCapaStep, Finished

LEMMA ExistsOrDeleting ==
    ASSUME ConstantsAssumption, TypeInv, [Next]_vars, obj.exists \/ obj.deleting
    PROVE  obj'.exists \/ obj'.deleting
  <1>1. CASE StageShape \/ Reconcile \/ Crash \/ SyncCache
                \/ UNCHANGED <<obj, cache, base, work, pc>>
    BY <1>1 DEF StageShape, Reconcile, Crash, SyncCache
  <1>2. CASE PatchConditions \/ PatchObject
    BY <1>2, PatchShape DEF ConditionsPatched, ObjectPatched
  <1>3. CASE OthersWrite
    BY <1>3, SettleCluster DEF OthersWrite, NewObj
  <1> QED
    BY <1>1, <1>2, <1>3, NextShape DEF StepShape

\* The VPC made by a step without a fault is on its way into the spec.
LEMMA CreateAccounted ==
    ASSUME ConstantsAssumption, TypeInv, GuardInv, OneVpcInv, CreateVpc,
           faults = 0, ~Fault
    PROVE  /\ OnlyVpc'
           /\ \A v \in VpcIds : vpc'[v] # "none" => Accounted(v)'
           /\ pc' = "patchConditions"
  <1>1. /\ pc = "vpc" /\ \A v \in VpcIds : vpc[v] = "none"
        /\ vpc \in [VpcIds -> VpcStates] /\ work \in Cluster
    BY DEF CreateVpc, OneVpcInv, TypeInv, TypeOK
  <1>2. ~base.deleting
    BY <1>1 DEF GuardInv, WorkInv, NormalStages
  <1>3. PICK v \in VpcIds : /\ vpc' = [vpc EXCEPT ![v] = "pending"]
                            /\ AfterVpc(v, "pending")
    BY DEF CreateVpc
  <1>4. Mark([work EXCEPT !.vpcId = v], "VpcReady", "False").vpcId = v
    BY <1>1 DEF Mark, Cluster
  <1>5. pc' = "patchConditions" /\ work'.vpcId = v /\ base' = base
    BY <1>3, <1>4 DEF AfterVpc, Return
  <1>6. \A w \in VpcIds : vpc'[w] # "none" => w = v
    BY <1>1, <1>3
  <1> QED
    BY <1>2, <1>5, <1>6 DEF OnlyVpc, Accounted

LEMMA StepAccounted ==
    ASSUME ConstantsAssumption, ~CacheLags, TypeInv, DnsInv, TeardownInv, GuardInv,
           OneVpcInv, [Next]_vars, faults = 0, ~Fault, ~CreateVpc
    PROVE  /\ \A v \in VpcIds : vpc[v] # "none" => Accounted(v)'
           /\ pc' = "vpc" /\ work'.vpcId = NoId => \A v \in VpcIds : vpc[v] = "none"
  <1>1. /\ \A v \in VpcIds : vpc[v] # "none" => Accounted(v) /\ v # NoId
        /\ obj.deleting => obj'.deleting
        /\ obj.vpcId # NoId => obj'.vpcId = obj.vpcId
        /\ pc = "vpc" /\ work.vpcId = NoId => \A v \in VpcIds : vpc[v] = "none"
    BY DeletingStays, StepGuard DEF OneVpcInv, ConstantsAssumption
  <1>2. CASE StageStep /\ StageShape /\ pc \in NormalStages \cup DeleteStages
    <2>1. /\ pc # "idle" /\ pc' # "idle" /\ UNCHANGED <<obj, base>>
          /\ work'.vpcId = work.vpcId \/ (pc = "vpc" /\ work.vpcId = NoId)
      BY <1>2 DEF StageShape, SameIdentity, NormalStages, DeleteStages
    <2> QED
      BY <1>1, <1>2, <2>1, SubnetsEntry DEF Accounted
  <1>3. CASE Reconcile
    <2>1. /\ cache = obj /\ UNCHANGED obj /\ pc = "idle"
          /\ pc' = "vpc" => ~obj.deleting
          /\ work'.vpcId = obj.vpcId
      BY <1>3, SubnetIdsKept DEF GuardInv, Reconcile, FirstStage, TypeInv, TypeOK
    <2> QED
      BY <1>1, <2>1 DEF Accounted
  <1>4. CASE PatchConditions
    BY <1>1, <1>4, PatchShape DEF ConditionsPatched, Accounted
  <1>5. CASE PatchObject
    <2>1. pc' = "idle" /\ base.vpcId = obj.vpcId
      BY <1>5 DEF PatchObject, EndReconcile, GuardInv, WorkInv
    <2>2. ASSUME ~obj.deleting, work.vpcId # obj.vpcId
          PROVE  obj'.vpcId = work.vpcId
      <3>1. obj.exists /\ ~Forbidden(MergePatch(obj))
        BY <2>2 DEF OneVpcInv, Forbidden
      <3>2. ApiWrite(Settle(MergePatch(obj)))
        BY <1>5, <3>1 DEF PatchObject
      <3> QED
        BY <2>1, <2>2, <3>2, PatchCluster, SettleCluster DEF ApiWrite, TypeInv
    <2> QED
      BY <1>1, <2>1, <2>2 DEF Accounted
  <1>6. CASE OthersWrite \/ SyncCache \/ UNCHANGED <<obj, cache, base, work, pc>>
    <2>1. UNCHANGED <<pc, base, work>>
      BY <1>6 DEF OthersWrite, SyncCache
    <2> QED
      BY <1>1, <2>1 DEF Accounted
  <1>7. ~Crash
    BY DEF Crash
  <1> QED
    BY <1>2, <1>3, <1>4, <1>5, <1>6, <1>7, NextShape DEF StepShape

LEMMA StepOneVpc ==
    ASSUME ConstantsAssumption, ~CacheLags, TypeInv, DnsInv, TeardownInv, GuardInv,
           OneVpcInv, [Next]_vars
    PROVE  OneVpcInv'
  <1>1. obj'.exists \/ obj'.deleting
    BY ExistsOrDeleting DEF OneVpcInv
  <1>2. ASSUME faults' = 0
        PROVE  /\ OnlyVpc'
               /\ \A v \in VpcIds : vpc'[v] # "none" => Accounted(v)'
               /\ pc' = "vpc" /\ work'.vpcId = NoId => \A v \in VpcIds : vpc'[v] = "none"
    <2>1. faults = 0 /\ ~Fault
      BY <1>2, FaultsGrow
    <2>2. CASE CreateVpc
      BY <2>1, <2>2, CreateAccounted
    <2>3. CASE ~CreateVpc
      <3>1. \A v \in VpcIds : vpc'[v] # "none" => vpc[v] # "none"
        BY <2>3, NextVpcMoves DEF VpcMoves, DnsInv, ConstantsAssumption
      <3> QED
        BY <2>1, <2>3, <3>1, StepAccounted DEF OneVpcInv, OnlyVpc
    <2> QED
      BY <2>2, <2>3
  <1> QED
    BY <1>1, <1>2 DEF OneVpcInv

\* Without a fault there is never a second VPC: whatever CAPA and the user
\* write in between, the VPC a reconcile creates gets into the spec, or the
\* object is being deleted and no reconcile will create one again.
THEOREM OneVpcUnlessFaults ==
    ASSUME ~CacheLags
    PROVE  Spec => []OneVpcWithoutFaults
  <1>. DEFINE IInv == TypeInv /\ DnsInv /\ TeardownInv /\ GuardInv /\ OneVpcInv
  <1>1. Init => IInv
    BY InitType, InitDns, InitTeardown, InitGuard, ConstantsAssumption
       DEF Init, NewCluster, OneVpcInv, OnlyVpc
  <1>2. IInv /\ [Next]_vars => IInv'
    BY StepType, StepDns, StepTeardown, StepGuard, StepOneVpc, ConstantsAssumption
  <1>3. IInv => OneVpcWithoutFaults
    <2>. DEFINE Made == {v \in VpcIds : vpc[v] # "none"}
    <2>1. ASSUME OneVpcInv, faults = 0
          PROVE  Cardinality(Made) <= 1
      <3>1. \A v, w \in Made : v = w
        BY <2>1 DEF OneVpcInv, OnlyVpc
      <3>. HIDE DEF Made
      <3>2. CASE Made = {}
        BY <3>2, FS_EmptySet
      <3>3. CASE Made # {}
        <4>1. PICK v : Made = {v}
          BY <3>1, <3>3
        <4>2. Cardinality({v}) = 1
          BY FS_Singleton
        <4> QED
          BY <4>1, <4>2
      <3> QED
        BY <3>2, <3>3
    <2> QED
      BY <2>1 DEF OneVpcWithoutFaults
  <1> QED
    BY <1>1, <1>2, <1>3, PTL DEF Spec

-----------------------------------------------------------------------------
(* What is reported ready is there.                                        *)

\* What a condition of the operator says of VPC v when it is True.
Backing(c, v) ==
    /\ v # NoId
    /\ c = "VpcReady" => vpc[v] = "available"
    /\ c = "SubnetsReady" => AllSubnets(v, "available")
    /\ c \in {"SubnetsReady", "RouteTablesReady"} => AllRouteTables(v, "associated")
    /\ c = "VpcEndpointReady" => UserManagedEndpoint \/ endpoint[v] = "available"

RecordedBacking(c) == Backing(c, obj.vpcId)

Backed(o) ==
    \A c \in OperatorConditions : o.conditions[c] = "True" => RecordedBacking(c)

\* The copy a reconcile writes to is as true as the object, of the VPC that is
\* recorded: one that was only just created is not ready in any way.
ReadyInv ==
    ~obj.deleting =>
        /\ Backed(obj)
        /\ pc # "idle" => Backed(work)
        /\ pc \in NormalStages => work.vpcId = obj.vpcId

LEMMA BackingStays ==
    ASSUME ConstantsAssumption, TypeInv, TeardownInv, [Next]_vars, ~obj.deleting,
           NEW c, NEW v \in Ids, Backing(c, v)
    PROVE  Backing(c, v)'
  <1>1. v \in VpcIds /\ pc \notin DeleteStages
    BY DEF Backing, Ids, TeardownInv
  <1>2. vpc[v] = "available" => vpc'[v] = "available"
    BY <1>1, NextVpcMoves DEF VpcMoves, DeleteStages
  <1>3. endpoint[v] = "available" => endpoint'[v] = "available"
    BY <1>1, KeepsEndpoint
  <1>4. \A s \in Slots :
            /\ routeTable[v][s] = "associated" => routeTable'[v][s] = "associated"
            /\ subnet[v][s] = "available" => subnet'[v][s] = "available"
    BY <1>1, KeepsSubnetsAndTables DEF RemovalStages, DeleteStages
  <1> QED
    BY <1>2, <1>3, <1>4 DEF Backing, AllSubnets, AllRouteTables

\* A condition a normal stage makes True is so: it looks at what EC2 answers.
LEMMA StageBacked ==
    ASSUME ConstantsAssumption, TypeInv, TeardownInv, StageStep, ~obj.deleting,
           NEW c \in OperatorConditions, work'.conditions[c] = "True",
           NEW v \in Ids, v = work.vpcId
    PROVE  work.conditions[c] = "True" \/ Backing(c, v)'
  <1>. DEFINE Old(w) == w.conditions[c] = "True" => work.conditions[c] = "True"
              Only(w, d) == w.conditions[c] = "True" => c = d \/ work.conditions[c] = "True"
  <1>1. /\ work \in Cluster /\ work.vpcId \in Ids /\ c \in Conditions
        /\ pc \notin DeleteStages /\ [Next]_vars
        /\ pc \in {"subnets", "routeTables", "endpoint"} => work.vpcId # NoId
    <2>1. pc \notin DeleteStages
      BY DEF TeardownInv
    <2> QED
      BY <2>1 DEF TypeInv, TypeOK, StageHasVpc, Cluster, Conditions, Next, OperatorSteps, StageStep
  <1>2. \A d \in OperatorConditions : \A value :
            /\ Only(Mark(work, d, value), d)
            /\ value # "True" => Old(Mark(work, d, value))
    BY <1>1 DEF Mark, Cluster
  <1>3. \A d \in OperatorConditions : \A w, value :
            /\ Only(Mark([work EXCEPT !.vpcId = w], d, value), d)
            /\ value # "True" => Old(Mark([work EXCEPT !.vpcId = w], d, value))
    BY <1>1 DEF Mark, Cluster
  <1>4. \A d \in OperatorConditions : \A w, value :
            /\ Only(Mark(RecordSubnets(work, w), d, value), d)
            /\ value # "True" => Old(Mark(RecordSubnets(work, w), d, value))
    BY <1>1 DEF Mark, RecordSubnets, Cluster
  <1>5. /\ "VpcReady" \in OperatorConditions /\ "SubnetsReady" \in OperatorConditions
        /\ "RouteTablesReady" \in OperatorConditions
        /\ "VpcEndpointReady" \in OperatorConditions
    BY DEF OperatorConditions
  <1>. HIDE DEF Old, Only
  <1>6. Old(work') => work.conditions[c] = "True"
    BY DEF Old
  <1>7. \A d : Only(work', d) => c = d \/ work.conditions[c] = "True"
    BY DEF Only
  <1>8. Old(work)
    BY DEF Old
  <1>9. CASE GetVpc
    <2>1. CASE vpc[work.vpcId] = "available"
      <3>1. Only(work', "VpcReady") /\ UNCHANGED vpc
        BY <1>3, <1>5, <1>9, <2>1 DEF GetVpc, AfterVpc, Proceed, cloudVars, Only
      <3>2. Backing("VpcReady", v)'
        BY <1>9, <2>1, <3>1 DEF GetVpc, Backing
      <3> QED
        BY <1>7, <3>1, <3>2
    <2>2. CASE vpc[work.vpcId] # "available"
      <3>1. Old(work')
        BY <1>3, <1>5, <1>9, <2>2 DEF GetVpc, AfterVpc, Return, Old
      <3> QED
        BY <1>6, <3>1
    <2> QED
      BY <2>1, <2>2
  <1>10. CASE CreateVpc \/ VpcCallFails
    <2>1. \A w : AfterVpc(w, "pending") => Old(work')
      BY <1>3, <1>5 DEF AfterVpc, Return, Old
    <2>2. Old(work')
      BY <1>8, <1>10, <2>1 DEF CreateVpc, VpcCallFails, Return, Old
    <2> QED
      BY <1>6, <2>2
  <1>11. CASE ReconcileSubnets
    <2>1. CASE SubnetsReadyValue(work.vpcId) = "True"
      <3>1. Only(work', "SubnetsReady")
        BY <1>4, <1>5, <1>11 DEF ReconcileSubnets, Proceed, Return, Only
      <3>2. Backing("SubnetsReady", v)
        BY <1>1, <1>11, <2>1 DEF ReconcileSubnets, SubnetsReadyValue, Backing
      <3> QED
        BY <1>1, <1>7, <3>1, <3>2, BackingStays
    <2>2. CASE SubnetsReadyValue(work.vpcId) # "True"
      <3>1. Old(work')
        BY <1>4, <1>5, <1>11, <2>2 DEF ReconcileSubnets, Proceed, Return, Old
      <3> QED
        BY <1>6, <3>1
    <2> QED
      BY <2>1, <2>2
  <1>12. CASE ReconcileRouteTables
    <2>1. /\ Only(work', "RouteTablesReady")
          /\ Old(work') \/ \A s \in Slots : routeTable'[work.vpcId][s] = "associated"
      BY <1>2, <1>5, <1>12 DEF ReconcileRouteTables, Proceed, Return, Only, Old
    <2>2. work.vpcId # NoId
      BY <1>1, <1>12 DEF ReconcileRouteTables
    <2> QED
      BY <1>6, <1>7, <2>1, <2>2 DEF Backing, AllRouteTables
  <1>13. CASE ReconcileVpcEndpoint
    <2>1. PICK state \in EndpointStates :
            /\ \/ UserManagedEndpoint
               \/ /\ endpoint[work.vpcId] # "none"
                  /\ state = endpoint[work.vpcId] /\ UNCHANGED endpoint
               \/ endpoint' = [endpoint EXCEPT ![work.vpcId] = state]
            /\ IF state = "available"
               THEN Return(Mark(work, "VpcEndpointReady", "True"), FALSE)
               ELSE Return(Mark(work, "VpcEndpointReady", "False"), TRUE)
      BY <1>13 DEF ReconcileVpcEndpoint
    <2>2. Only(work', "VpcEndpointReady") /\ (Old(work') \/ state = "available")
      BY <1>2, <1>5, <2>1 DEF Return, Only, Old
    <2>3. work.vpcId \in VpcIds /\ work.vpcId # NoId /\ endpoint \in [VpcIds -> EndpointStates]
      BY <1>1, <1>13 DEF ReconcileVpcEndpoint, TypeInv, TypeOK, Ids
    <2>4. state = "available" => Backing("VpcEndpointReady", v)'
      BY <2>1, <2>3 DEF Backing
    <2> QED
      BY <1>6, <1>7, <2>2, <2>4
  <1>14. CASE SubnetsCallFails \/ RouteTablesCallFails \/ WaitForSecurityGroups
                \/ VpcEndpointCallFails
    <2>1. Old(work')
      BY <1>2, <1>5, <1>8, <1>14
         DEF SubnetsCallFails, RouteTablesCallFails, WaitForSecurityGroups,
             VpcEndpointCallFails, Return, Old
    <2> QED
      BY <1>6, <2>1
  <1> QED
    BY <1>1, <1>9, <1>10, <1>11, <1>12, <1>13, <1>14
       DEF StageStep, DeleteStages, SkipVpcEndpoint, DeleteVpcEndpoint, DeleteVpcEndpointFails,
           WaitForCapa, DeleteRouteTables, DeleteRouteTablesFails, DeleteSubnets,
           DeleteSubnetsFails, DeleteVpc, DeleteVpcFails

\* A normal stage hands the VPC it was given on, or ends the reconcile.
LEMMA StageKeepsVpcId ==
    ASSUME ConstantsAssumption, TypeInv, StageStep,
           pc' \in NormalStages, pc \notin DeleteStages
    PROVE  pc \in NormalStages /\ work'.vpcId = work.vpcId
  <1>1. pc = "vpc" => pc' = "subnets" \/ pc' = "patchConditions"
    BY DEF StageStep, GetVpc, CreateVpc, VpcCallFails, AfterVpc, Proceed, Return,
           ReconcileSubnets, SubnetsCallFails,
           ReconcileRouteTables, RouteTablesCallFails, WaitForSecurityGroups,
           ReconcileVpcEndpoint, VpcEndpointCallFails, SkipVpcEndpoint, DeleteVpcEndpoint,
           DeleteVpcEndpointFails, WaitForCapa, DeleteRouteTables, DeleteRouteTablesFails,
           DeleteSubnets, DeleteSubnetsFails, DeleteVpc, DeleteVpcFails
  <1> QED
    BY <1>1, SubnetsEntry, StageStepShape
       DEF StageShape, SameIdentity, NormalStages, DeleteStages

LEMMA StepReady ==
    ASSUME ConstantsAssumption, ~CacheLags, TypeInv, DnsInv, TeardownInv, GuardInv,
           ReadyInv, [Next]_vars
    PROVE  ReadyInv'
  <1>1. SUFFICES ASSUME ~obj'.deleting
                 PROVE  /\ Backed(obj)'
                        /\ pc' # "idle" => Backed(work)'
                        /\ pc' \in NormalStages => work'.vpcId = obj'.vpcId
    BY DEF ReadyInv
  <1>2. /\ ~obj.deleting /\ pc \notin DeleteStages
        /\ Backed(obj) /\ (pc # "idle" => Backed(work))
        /\ pc \in NormalStages => work.vpcId = obj.vpcId
    BY <1>1, DeletingStays DEF ReadyInv, TeardownInv
  <1>3. obj.vpcId \in Ids /\ (obj.vpcId # NoId => obj'.vpcId = obj.vpcId)
    BY StepGuard DEF TypeInv, TypeOK, Cluster
  <1>4. \A c \in OperatorConditions : RecordedBacking(c) => RecordedBacking(c)'
    <2>1. \A c, v : v \in Ids /\ Backing(c, v) => Backing(c, v)'
      BY <1>2, BackingStays
    <2>2. SUFFICES ASSUME NEW c \in OperatorConditions, NEW v, v = obj.vpcId,
                          RecordedBacking(c)
                   PROVE  RecordedBacking(c)'
      OBVIOUS
    <2>3. Backing(c, v)' /\ obj'.vpcId = v
      BY <1>3, <2>1, <2>2 DEF RecordedBacking, Backing
    <2> QED
      BY <2>3 DEF RecordedBacking, Backing
  <1>5. /\ \A c \in OperatorConditions : obj.conditions[c] = "True" => RecordedBacking(c)'
        /\ pc # "idle" =>
            \A c \in OperatorConditions : work.conditions[c] = "True" => RecordedBacking(c)'
    BY <1>2, <1>4 DEF Backed
  <1>6. CASE StageStep /\ StageShape /\ pc \in NormalStages \cup DeleteStages
    <2>1. UNCHANGED obj /\ pc # "idle" /\ work.vpcId = obj.vpcId
      BY <1>2, <1>6 DEF StageShape, NormalStages
    <2>2. ASSUME NEW c \in OperatorConditions, work'.conditions[c] = "True"
          PROVE  RecordedBacking(c)'
      <3>1. \A v : v = work.vpcId => work.conditions[c] = "True" \/ Backing(c, v)'
        BY <1>2, <1>3, <1>6, <2>1, <2>2, StageBacked
      <3>2. SUFFICES ASSUME NEW v, v = obj.vpcId, Backing(c, v)'
                     PROVE  RecordedBacking(c)'
        BY <1>5, <2>1, <3>1
      <3> QED
        BY <2>1, <3>2 DEF RecordedBacking, Backing
    <2>3. pc' \in NormalStages => work'.vpcId = obj'.vpcId
      BY <1>2, <1>6, <2>1, StageKeepsVpcId
    <2> QED
      BY <1>5, <2>1, <2>2, <2>3 DEF Backed
  <1>7. CASE Reconcile
    <2>1. /\ UNCHANGED obj /\ work'.conditions = obj.conditions /\ work'.vpcId = obj.vpcId
      BY <1>7, SubnetIdsKept DEF Reconcile, AddFinalizer, GuardInv, TypeInv, TypeOK, Cluster
    <2> QED
      BY <1>5, <2>1 DEF Backed
  <1>8. CASE PatchConditions
    <2>1. /\ pc # "idle" /\ pc' = "patchObject" /\ UNCHANGED work
          /\ UNCHANGED obj \/ obj' = WithConditions(obj)
      BY <1>8, PatchShape DEF ConditionsPatched, NewObj
    <2>2. \A c \in OperatorConditions :
            WithConditions(obj).conditions[c] \in {obj.conditions[c], work.conditions[c]}
      BY DEF WithConditions, OperatorConditions, Conditions, TypeInv, TypeOK, Cluster
    <2> QED
      BY <1>5, <2>1, <2>2 DEF Backed, NormalStages
  <1>9. CASE PatchObject
    <2>1. pc' = "idle" /\ (UNCHANGED obj \/ obj' = Settle(MergePatch(obj)))
      BY <1>9, PatchShape DEF ObjectPatched, NewObj
    <2>2. Settle(MergePatch(obj)).conditions = obj.conditions
      BY DEF MergePatch, Settle, TypeInv, TypeOK, Cluster
    <2> QED
      BY <1>5, <2>1, <2>2 DEF Backed, NormalStages
  <1>10. CASE OthersWrite
    <2>1. PICK o \in Cluster : /\ obj' = Settle(o) /\ o.vpcId = obj.vpcId
                               /\ SameOperatorConditions(o)
      BY <1>10 DEF OthersWrite, NewObj
    <2>2. /\ obj'.vpcId = obj.vpcId /\ UNCHANGED <<pc, work>>
          /\ \A c \in OperatorConditions : obj'.conditions[c] = obj.conditions[c]
      BY <1>10, <2>1 DEF Settle, Cluster, SameOperatorConditions, OthersWrite
    <2> QED
      BY <1>2, <1>5, <2>2 DEF Backed
  <1>11. CASE Crash \/ SyncCache \/ UNCHANGED <<obj, cache, base, work, pc>>
    BY <1>2, <1>5, <1>11 DEF Crash, EndReconcile, SyncCache, Backed, NormalStages
  <1> QED
    BY <1>6, <1>7, <1>8, <1>9, <1>10, <1>11, NextShape DEF StepShape

\* A cluster nobody deletes is as ready as it says: a stage sets a condition
\* to True only of what EC2 has answered, and between that answer and the patch,
\* and ever after, nothing takes the resource away.
THEOREM ReadyMeansReady ==
    ASSUME ~CacheLags
    PROVE  Spec => []ReadyIsBacked
  <1>. DEFINE IInv == TypeInv /\ DnsInv /\ TeardownInv /\ GuardInv /\ ReadyInv
  <1>1. Init => IInv
    <2>1. ASSUME Init
          PROVE  ReadyInv
      BY <2>1 DEF Init, NewCluster, OperatorConditions, Conditions, NormalStages,
                  ReadyInv, Backed
    <2> QED
      BY <2>1, InitType, InitDns, InitTeardown, InitGuard, ConstantsAssumption
  <1>2. IInv /\ [Next]_vars => IInv'
    BY StepType, StepDns, StepTeardown, StepGuard, StepReady, ConstantsAssumption
  <1>3. IInv => ReadyIsBacked
    <2>1. ASSUME ReadyInv, ~obj.deleting
          PROVE  \A c \in OperatorConditions :
                    obj.conditions[c] = "True" => Backing(c, obj.vpcId)
      BY <2>1 DEF ReadyInv, Backed, RecordedBacking
    <2> QED
      BY <2>1 DEF ReadyIsBacked, Backing, OperatorConditions
  <1> QED
    BY <1>1, <1>2, <1>3, PTL DEF Spec

-----------------------------------------------------------------------------
(* CAPA goes first.                                                        *)

\* Security groups hold the deletion back in every copy the operator may delete
\* from; they are the last CAPA deletes, so a stage that takes something away
\* runs only when nothing of CAPA is left.
HeldBackInv ==
    /\ lb # NoId => sg # NoId
    /\ sg # NoId =>
        /\ obj.conditions["ClusterSecurityGroupsReady"] \in Holding
        /\ cache.deleting => cache.conditions["ClusterSecurityGroupsReady"] \in Holding
        /\ pc # "idle" /\ base.deleting =>
                base.conditions["ClusterSecurityGroupsReady"] \in Holding
    /\ pc \in RemovalStages => lb = NoId /\ sg = NoId

\* The removal begins when the copy says that CAPA is done.
LEMMA RemovalEntry ==
    ASSUME ConstantsAssumption, TypeInv, [Next]_vars, pc' \in RemovalStages
    PROVE  pc \in RemovalStages \/ (pc = "waitForCapa" /\ CapaIsDone)
  <1>1. CASE StageStep
    BY <1>1
       DEF StageStep, GetVpc, CreateVpc, VpcCallFails, AfterVpc, Proceed, Return,
           ReconcileSubnets, SubnetsCallFails, ReconcileRouteTables, RouteTablesCallFails,
           WaitForSecurityGroups, ReconcileVpcEndpoint, VpcEndpointCallFails, SkipVpcEndpoint,
           DeleteVpcEndpoint, DeleteVpcEndpointFails, WaitForCapa, DeleteRouteTables,
           DeleteRouteTablesFails, DeleteSubnets, DeleteSubnetsFails, DeleteVpc,
           DeleteVpcFails, RemovalStages
  <1>2. CASE Reconcile \/ PatchConditions \/ PatchObject \/ Crash
    BY <1>2 DEF Reconcile, FirstStage, PatchConditions, PatchObject, Crash, EndReconcile,
                RemovalStages
  <1>3. CASE OthersWrite \/ SyncCache \/ UNCHANGED <<obj, cache, base, work, pc>>
    BY <1>3 DEF OthersWrite, SyncCache
  <1> QED
    BY <1>1, <1>2, <1>3, NextShape DEF StepShape

\* A copy of an object being deleted that lets the operator go on is right.
LEMMA CapaIsGone ==
    ASSUME TypeInv, TeardownInv, FinalizersInv, CapaInv, HeldBackInv,
           pc = "waitForCapa", CapaIsDone
    PROVE  lb = NoId /\ sg = NoId
  <1>1. base.deleting /\ obj.deleting
    BY DEF TeardownInv, DeleteStages
  <1>2. CASE "capa" \notin work.finalizers
    <2>1. "capa" \notin base.finalizers
      BY <1>1, <1>2 DEF FinalizersInv
    <2>2. "capa" \notin obj.finalizers
      BY <1>1, <2>1 DEF CapaInv, CapaSeenInv
    <2> QED
      BY <2>2 DEF CapaInv, CapaStaysGuarded
  <1>3. CASE "capa" \in work.finalizers
    <2>1. work.conditions["ClusterSecurityGroupsReady"] \notin Holding
      BY <1>3 DEF CapaIsDone, HeldBackBy, Holding
    <2>2. base.conditions["ClusterSecurityGroupsReady"] \notin Holding
      BY <2>1 DEF CapaInv, CapaReportsInv, CapaConditions
    <2> QED
      BY <1>1, <2>2 DEF HeldBackInv
  <1> QED
    BY <1>2, <1>3

LEMMA StepHeldBack ==
    ASSUME ConstantsAssumption, ~CapaRelapses, TypeInv, TeardownInv, FinalizersInv,
           CapaInv, HeldBackInv, [Next]_vars
    PROVE  HeldBackInv'
  <1>1. /\ lb' # NoId => sg' # NoId
        /\ sg' # NoId => obj'.conditions["ClusterSecurityGroupsReady"] \in Holding
        /\ obj.deleting => (sg' # NoId => sg # NoId) /\ (lb' # NoId => lb # NoId)
    <2>1. CASE AnyCapaStep
      <3>1. /\ lb # NoId => sg # NoId
            /\ sg # NoId => obj.conditions["ClusterSecurityGroupsReady"] \in Holding
            /\ obj.conditions["LoadBalancerReady"] = "Deleted" => lb = NoId
        BY DEF HeldBackInv, CapaInv, CapaReportsInv, CapaHas, CapaConditions
      <3>2. CapaConditions = {"LoadBalancerReady", "ClusterSecurityGroupsReady"}
        BY DEF CapaConditions
      <3> QED
        BY <2>1, <3>1, <3>2, CapaStepMoves DEF CapaMoves, CapaMarks, SameCapaConditions
    <2>2. CASE ~AnyCapaStep
      BY <2>2, OthersLeaveCapa DEF HeldBackInv, SameCapaConditions, CapaConditions
    <2> QED
      BY <2>1, <2>2
  <1>2. sg' # NoId =>
            /\ cache'.deleting => cache'.conditions["ClusterSecurityGroupsReady"] \in Holding
            /\ pc' # "idle" /\ base'.deleting =>
                    base'.conditions["ClusterSecurityGroupsReady"] \in Holding
    <2>1. (cache.deleting => obj.deleting) /\ (pc # "idle" /\ base.deleting => obj.deleting)
      BY DEF TeardownInv
    <2> QED
      BY <1>1, <2>1, CopiesMove DEF HeldBackInv
  <1>3. pc' \in RemovalStages => lb' = NoId /\ sg' = NoId
    <2>1. ASSUME pc' \in RemovalStages
          PROVE  lb = NoId /\ sg = NoId /\ obj.deleting
      <3>1. pc \in RemovalStages \/ (pc = "waitForCapa" /\ CapaIsDone)
        BY <2>1, RemovalEntry
      <3>2. lb = NoId /\ sg = NoId
        BY <3>1, CapaIsGone DEF HeldBackInv
      <3>3. obj.deleting
        BY <3>1 DEF TeardownInv, RemovalStages, DeleteStages
      <3> QED
        BY <3>2, <3>3
    <2> QED
      BY <1>1, <2>1
  <1> QED
    BY <1>1, <1>2, <1>3 DEF HeldBackInv

\* If CAPA never reports a resource it made as not ready, route tables, subnets
\* and VPC are left alone until CAPA has deleted its security groups and, before
\* them, its load balancer: also by a reconcile that works on a stale object.
THEOREM CapaLeavesFirst ==
    ASSUME ~CapaRelapses
    PROVE  Spec => CapaGoesFirst
  <1>. DEFINE IInv == /\ TypeInv /\ TeardownInv /\ FinalizersInv /\ ClaimInv /\ CapaInv
                      /\ HeldBackInv
              Kept == \A v \in VpcIds : v \in {lb, sg} =>
                        /\ vpc[v] = "available" => vpc'[v] = "available"
                        /\ \A s \in Slots :
                            /\ subnet[v][s] = "available" => subnet'[v][s] = "available"
                            /\ routeTable[v][s] = "associated"
                                    => routeTable'[v][s] = "associated"
  <1>1. Init => IInv
    <2>1. Init => HeldBackInv
      BY DEF Init, HeldBackInv, RemovalStages
    <2> QED
      BY <2>1, InitType, InitTeardown, InitCapa, ConstantsAssumption
  <1>2. IInv /\ [Next]_vars => IInv'
    BY StepType, StepTeardown, StepFinalizers, StepClaim, StepCapa, StepHeldBack,
       ConstantsAssumption
  <1>3. IInv /\ [Next]_vars => [Kept]_vars
    <2>1. SUFFICES ASSUME IInv, [Next]_vars, NEW v \in VpcIds, v \in {lb, sg}
                   PROVE  /\ vpc[v] = "available" => vpc'[v] = "available"
                          /\ \A s \in Slots :
                              /\ subnet[v][s] = "available" => subnet'[v][s] = "available"
                              /\ routeTable[v][s] = "associated"
                                      => routeTable'[v][s] = "associated"
      OBVIOUS
    <2>2. pc \notin RemovalStages
      BY <2>1, ConstantsAssumption DEF ConstantsAssumption, HeldBackInv
    <2>3. vpc[v] = "available" => vpc'[v] = "available"
      BY <2>1, <2>2, NextVpcMoves DEF VpcMoves, RemovalStages
    <2> QED
      BY <2>1, <2>2, <2>3, KeepsSubnetsAndTables, ConstantsAssumption
  <1> QED
    BY <1>1, <1>2, <1>3, PTL DEF Spec, CapaGoesFirst

-----------------------------------------------------------------------------
(* A deletion leaves nothing behind.                                       *)

\* The later stages of a normal reconcile work in a VPC that is there, and a
\* VPC that is gone has nothing in it.
EmptyInv ==
    /\ pc \in {"subnets", "routeTables", "endpoint"} => vpc[work.vpcId] = "available"
    /\ \A v \in VpcIds : vpc[v] = "gone" => ~HasDependencies(v)

\* How a reconcile comes to make something in a VPC.
LEMMA BuildEntry ==
    ASSUME ConstantsAssumption, TypeInv, [Next]_vars,
           pc' \in {"subnets", "routeTables", "endpoint"}
    PROVE  /\ work'.vpcId = work.vpcId
           /\ \/ pc \in {"subnets", "routeTables", "endpoint"}
              \/ pc = "vpc" /\ vpc[work.vpcId] = "available"
  <1>1. CASE StageStep /\ StageShape
    <2>1. CASE GetVpc
      <3>1. work.vpcId # NoId
        BY <2>1 DEF GetVpc
      <3> QED
        BY <1>1, <2>1, <3>1 DEF GetVpc, AfterVpc, Return, StageShape, SameIdentity
    <2>2. ~CreateVpc /\ ~VpcCallFails
      BY DEF CreateVpc, VpcCallFails, AfterVpc, Proceed, Return
    <2>3. CASE ReconcileSubnets \/ ReconcileRouteTables
      BY <1>1, <2>3 DEF ReconcileSubnets, ReconcileRouteTables, StageShape, SameIdentity
    <2>4. /\ ~SubnetsCallFails /\ ~RouteTablesCallFails /\ ~WaitForSecurityGroups
          /\ ~ReconcileVpcEndpoint /\ ~VpcEndpointCallFails
      BY DEF SubnetsCallFails, RouteTablesCallFails, WaitForSecurityGroups,
             ReconcileVpcEndpoint, VpcEndpointCallFails, Return
    <2>5. CASE pc \in DeleteStages
      BY <1>1, <2>5 DEF StageShape, DeleteStages
    <2>6. \/ GetVpc \/ ReconcileSubnets \/ ReconcileRouteTables
          \/ pc \in DeleteStages
      BY <1>1, <2>2, <2>4
         DEF StageStep, SkipVpcEndpoint, DeleteVpcEndpoint, DeleteVpcEndpointFails,
             WaitForCapa, DeleteRouteTables, DeleteRouteTablesFails, DeleteSubnets,
             DeleteSubnetsFails, DeleteVpc, DeleteVpcFails, DeleteStages
    <2> QED
      BY <2>1, <2>3, <2>5, <2>6
  <1>2. CASE Reconcile
    BY <1>2 DEF Reconcile, FirstStage
  <1>3. CASE PatchConditions \/ PatchObject \/ Crash
    BY <1>3 DEF PatchConditions, PatchObject, Crash, EndReconcile
  <1>4. CASE OthersWrite \/ SyncCache \/ UNCHANGED <<obj, cache, base, work, pc>>
    BY <1>4 DEF OthersWrite, SyncCache
  <1> QED
    BY <1>1, <1>2, <1>3, <1>4, NextShape DEF StepShape

LEMMA SubnetsAppear ==
    ASSUME ConstantsAssumption, TypeInv, [Next]_vars, NEW v \in VpcIds, NEW s \in Slots,
           subnet[v][s] = "none", subnet'[v][s] # "none"
    PROVE  pc = "subnets" /\ v = work.vpcId
  <1>1. subnet \in [VpcIds -> [Slots -> SubnetStates]]
    BY DEF TypeInv, TypeOK
  <1>2. CASE ReconcileSubnets \/ SubnetsCallFails
    <2>1. pc = "subnets" /\ \E S : subnet' = SetSlots(subnet, work.vpcId, S, "pending")
      BY <1>2 DEF ReconcileSubnets, SubnetsCallFails
    <2> QED
      BY <1>1, <2>1 DEF SetSlots
  <1>3. CASE DeleteSubnets \/ DeleteSubnetsFails
    <2>1. UNCHANGED subnet \/ \E S : subnet' = WithoutSubnets(S)
      BY <1>3 DEF DeleteSubnets, DeleteSubnetsFails
    <2> QED
      BY <1>1, <2>1 DEF WithoutSubnets
  <1>4. ~(\E w \in VpcIds, t \in Slots : SubnetBecomesAvailable(w, t))
    BY <1>1 DEF SubnetBecomesAvailable
  <1>5. UNCHANGED subnet \/ ReconcileSubnets \/ SubnetsCallFails
            \/ DeleteSubnets \/ DeleteSubnetsFails
    <2>1. CASE pc \in DeleteStages
      BY <1>4, <2>1, OtherTableSteps
         DEF Ec2, VpcBecomesAvailable, EndpointSettles, RouteTableAssociates
    <2>2. CASE pc \notin DeleteStages
      BY <1>4, <2>2, NormalMoves
         DEF ReconcileRouteTables, RouteTablesCallFails, RouteTableAssociates,
             RemovalStages, DeleteStages
    <2> QED
      BY <2>1, <2>2
  <1> QED
    BY <1>2, <1>3, <1>5

LEMMA EndpointAppears ==
    ASSUME TypeInv, [Next]_vars, NEW v \in VpcIds,
           endpoint[v] = "none", endpoint'[v] # "none"
    PROVE  pc = "endpoint" /\ v = work.vpcId
  <1>1. endpoint \in [VpcIds -> EndpointStates]
    BY DEF TypeInv, TypeOK
  <1>2. CASE ReconcileVpcEndpoint \/ VpcEndpointCallFails
    BY <1>1, <1>2 DEF ReconcileVpcEndpoint, VpcEndpointCallFails
  <1>3. CASE DeleteVpcEndpoint \/ DeleteVpcEndpointFails
    BY <1>1, <1>3 DEF DeleteVpcEndpoint, DeleteVpcEndpointFails, StartEndpointDeletion
  <1>4. CASE Ec2
    BY <1>1, <1>4 DEF Ec2, VpcBecomesAvailable, EndpointSettles,
                      SubnetBecomesAvailable, RouteTableAssociates
  <1>5. \/ UNCHANGED endpoint \/ Ec2
        \/ ReconcileVpcEndpoint \/ VpcEndpointCallFails
        \/ DeleteVpcEndpoint \/ DeleteVpcEndpointFails
    <2>1. CASE StageStep
      BY <2>1
         DEF StageStep, GetVpc, CreateVpc, VpcCallFails, ReconcileSubnets, SubnetsCallFails,
             ReconcileRouteTables, RouteTablesCallFails, WaitForSecurityGroups,
             SkipVpcEndpoint, WaitForCapa, DeleteRouteTables, DeleteRouteTablesFails,
             DeleteSubnets, DeleteSubnetsFails, DeleteVpc, DeleteVpcFails, cloudVars
    <2>2. CASE \/ ReconcileNotFound \/ ReconcileSkips \/ ReconcileWithoutIdentity \/ Reconcile
               \/ PatchConditions \/ PatchObject
               \/ SyncCache \/ Crash \/ UserDeletes \/ UserChangesVpcMode
      BY <2>2
         DEF ReconcileNotFound, ReconcileSkips, ReconcileWithoutIdentity, Reconcile,
             PatchConditions, PatchObject, SyncCache, Crash, UserDeletes, UserChangesVpcMode,
             cloudVars
    <2>3. CASE AnyCapaStep
      BY <2>3, CapaStepWrites DEF CapaWrite, CapaWrites, cloudVars
    <2>4. CASE UNCHANGED vars
      BY <2>4 DEF vars, cloudVars
    <2> QED
      BY <2>1, <2>2, <2>3, <2>4
         DEF Next, OperatorSteps, StageStep, AnyCapaStep, Finished
  <1> QED
    BY <1>2, <1>3, <1>4, <1>5

\* CAPA makes something only in a recorded network that is available.
LEMMA CapaAppears ==
    ASSUME ConstantsAssumption, [Next]_vars, NEW v \in VpcIds,
           v \notin {lb, sg}, v \in {lb', sg'}
    PROVE  vpc[v] = "available"
  <1>1. CASE AnyCapaStep
    <2>1. v # NoId
      BY DEF ConstantsAssumption
    <2>2. CASE CapaCreatesSecurityGroups \/ CapaCreatesLoadBalancer
      BY <2>2 DEF CapaCreatesSecurityGroups, CapaCreatesLoadBalancer, NetworkRecorded
    <2>3. CASE CapaAddsFinalizer \/ CapaRemovesFinalizer
      BY <2>3 DEF CapaAddsFinalizer, CapaRemovesFinalizer
    <2>4. CASE \E c \in CapaConditions :
                    \/ CapaReportsReady(c) \/ CapaReportsFailure(c)
                    \/ CapaStartsDeletion(c) \/ CapaFinishesDeletion(c)
                    \/ CapaFailsDeletion(c)
      BY <2>1, <2>4 DEF CapaReportsReady, CapaReportsFailure, CapaStartsDeletion,
                        CapaFinishesDeletion, CapaFailsDeletion
    <2> QED
      BY <1>1, <2>2, <2>3, <2>4 DEF AnyCapaStep, CapaSteps
  <1>2. CASE StageStep
    BY <1>2
       DEF StageStep, GetVpc, CreateVpc, VpcCallFails,
           ReconcileSubnets, SubnetsCallFails, ReconcileRouteTables, RouteTablesCallFails,
           WaitForSecurityGroups, ReconcileVpcEndpoint, VpcEndpointCallFails,
           SkipVpcEndpoint, DeleteVpcEndpoint, DeleteVpcEndpointFails, WaitForCapa,
           DeleteRouteTables, DeleteRouteTablesFails, DeleteSubnets, DeleteSubnetsFails,
           DeleteVpc, DeleteVpcFails, capaVars
  <1>3. CASE \/ ReconcileNotFound \/ ReconcileSkips \/ ReconcileWithoutIdentity \/ Reconcile
             \/ PatchConditions \/ PatchObject
             \/ SyncCache \/ Crash \/ UserDeletes \/ UserChangesVpcMode \/ UNCHANGED vars
    BY <1>3 DEF ReconcileNotFound, ReconcileSkips, ReconcileWithoutIdentity, Reconcile,
                PatchConditions, PatchObject, SyncCache, Crash, UserDeletes,
                UserChangesVpcMode, vars, capaVars
  <1>4. CASE Ec2
    BY <1>4 DEF Ec2, VpcBecomesAvailable, EndpointSettles, SubnetBecomesAvailable,
                RouteTableAssociates, capaVars
  <1> QED
    BY <1>1, <1>2, <1>3, <1>4
       DEF Next, OperatorSteps, StageStep, AnyCapaStep, Finished

\* EC2 deletes a VPC only when nothing is left inside it.
LEMMA GoneEmpty ==
    ASSUME TypeInv, [Next]_vars, NEW v \in VpcIds, vpc[v] # "gone", vpc'[v] = "gone"
    PROVE  ~HasDependencies(v)'
  <1>1. pc = "deleteVpc" /\ v = work.vpcId
    BY NextVpcMoves DEF VpcMoves
  <1>2. CASE DeleteVpc \/ DeleteVpcFails
    <2>1. ~HasDependencies(v) /\ UNCHANGED <<subnet, routeTable, endpoint, lb, sg>>
      BY <1>1, <1>2 DEF DeleteVpc, DeleteVpcFails, capaVars
    <2> QED
      BY <2>1 DEF HasDependencies
  <1>3. CASE UNCHANGED vpc
    BY <1>3
  <1>4. CASE Ec2
    BY <1>4 DEF Ec2, VpcBecomesAvailable, EndpointSettles, SubnetBecomesAvailable,
                RouteTableAssociates, TypeInv, TypeOK
  <1>5. UNCHANGED vpc \/ Ec2 \/ DeleteVpc \/ DeleteVpcFails
    <2>1. CASE StageStep
      BY <1>1, <2>1
         DEF StageStep, GetVpc, CreateVpc, VpcCallFails, ReconcileSubnets, SubnetsCallFails,
             ReconcileRouteTables, RouteTablesCallFails, WaitForSecurityGroups,
             ReconcileVpcEndpoint, VpcEndpointCallFails, SkipVpcEndpoint,
             DeleteVpcEndpoint, DeleteVpcEndpointFails, WaitForCapa, DeleteRouteTables,
             DeleteRouteTablesFails, DeleteSubnets, DeleteSubnetsFails
    <2>2. CASE AnyCapaStep
      BY <2>2, CapaStepWrites DEF CapaWrite, CapaWrites, cloudVars
    <2>3. CASE \/ ReconcileNotFound \/ ReconcileSkips \/ ReconcileWithoutIdentity \/ Reconcile
               \/ PatchConditions \/ PatchObject
               \/ SyncCache \/ Crash \/ UserDeletes \/ UserChangesVpcMode \/ UNCHANGED vars
      BY <2>3 DEF ReconcileNotFound, ReconcileSkips, ReconcileWithoutIdentity, Reconcile,
                  PatchConditions, PatchObject, SyncCache, Crash, UserDeletes,
                  UserChangesVpcMode, vars, cloudVars
    <2> QED
      BY <2>1, <2>2, <2>3 DEF Next, OperatorSteps, StageStep, AnyCapaStep, Finished
  <1> QED
    BY <1>2, <1>3, <1>4, <1>5

LEMMA StepEmpty ==
    ASSUME ConstantsAssumption, TypeInv, EmptyInv, [Next]_vars
    PROVE  EmptyInv'
  <1>1. ASSUME pc' \in {"subnets", "routeTables", "endpoint"}
        PROVE  vpc'[work'.vpcId] = "available"
    <2>1. work'.vpcId = work.vpcId /\ vpc[work.vpcId] = "available" /\ pc # "deleteVpc"
      BY <1>1, BuildEntry DEF EmptyInv
    <2>2. work'.vpcId \in VpcIds
      BY <1>1, StepType DEF TypeInv, TypeOK, StageHasVpc, Cluster, Ids
    <2> QED
      BY <2>1, <2>2, NextVpcMoves DEF VpcMoves
  <1>2. ASSUME NEW v \in VpcIds, vpc'[v] = "gone"
        PROVE  ~HasDependencies(v)'
    <2>1. CASE vpc[v] # "gone"
      BY <1>2, <2>1, GoneEmpty
    <2>2. CASE vpc[v] = "gone"
      <3>1. ~HasDependencies(v)
        BY <2>2 DEF EmptyInv
      <3>2. pc \in {"subnets", "routeTables", "endpoint"} => v # work.vpcId
        BY <2>2 DEF EmptyInv
      <3>3. \A s \in Slots : subnet'[v][s] = "none" /\ routeTable'[v][s] = "none"
        BY <3>1, <3>2, SubnetsAppear, TablesAppear DEF HasDependencies
      <3>4. endpoint'[v] = "none" /\ v \notin {lb', sg'}
        BY <2>2, <3>1, <3>2, EndpointAppears, CapaAppears DEF HasDependencies
      <3> QED
        BY <3>3, <3>4 DEF HasDependencies
    <2> QED
      BY <2>1, <2>2
  <1> QED
    BY <1>1, <1>2 DEF EmptyInv

LEMMA InitEmpty == ASSUME Init PROVE EmptyInv
  BY DEF Init, EmptyInv

\* A VPC that was deleted stays empty, however stale the object a reconcile
\* works on: what is built is built in a VPC the same reconcile has seen
\* available, and one reconcile runs at a time.
THEOREM DeletedVpcStaysEmpty ==
    Spec => [](\A v \in VpcIds : vpc[v] = "gone" => ~HasDependencies(v))
  <1>. DEFINE Empty == \A v \in VpcIds : vpc[v] = "gone" => ~HasDependencies(v)
  <1>1. Init => TypeInv /\ EmptyInv
    BY InitType, InitEmpty, ConstantsAssumption
  <1>2. TypeInv /\ EmptyInv /\ [Next]_vars => (TypeInv /\ EmptyInv)'
    BY StepType, StepEmpty, ConstantsAssumption
  <1>3. EmptyInv => Empty
    BY DEF EmptyInv
  <1> QED
    BY <1>1, <1>2, <1>3, PTL DEF Spec

\* A cluster that is gone leaves nothing of its network behind: the recorded
\* VPC is deleted, and with it every subnet, route table and endpoint, and what
\* CAPA had in it. (What DeletionCompletes promises when it ends with a cluster
\* that is gone.)
THEOREM NothingOutlivesTheCluster ==
    ASSUME ~CacheLags
    PROVE  Spec => [](~obj.exists /\ obj.vpcId # NoId
                      => vpc[obj.vpcId] = "gone" /\ ~HasDependencies(obj.vpcId))
  <1>. DEFINE IInv == TypeInv /\ DnsInv /\ TeardownInv /\ GuardInv /\ EmptyInv
              Left == ~obj.exists /\ obj.vpcId # NoId
                        => vpc[obj.vpcId] = "gone" /\ ~HasDependencies(obj.vpcId)
  <1>1. Init => IInv
    BY InitType, InitDns, InitTeardown, InitGuard, InitEmpty, ConstantsAssumption
  <1>2. IInv /\ [Next]_vars => IInv'
    BY StepType, StepDns, StepTeardown, StepGuard, StepEmpty, ConstantsAssumption
  <1>3. IInv => Left
    <2>1. ASSUME IInv, ~obj.exists, obj.vpcId # NoId
          PROVE  vpc[obj.vpcId] = "gone" /\ ~HasDependencies(obj.vpcId)
      <3>1. obj.vpcId \in VpcIds /\ vpc[obj.vpcId] \in VpcStates
        BY <2>1 DEF TypeInv, TypeOK, Cluster, Ids
      <3>2. vpc[obj.vpcId] # "none"
        BY <2>1 DEF DnsInv
      <3>3. ~VpcLives(obj.vpcId)
        BY <2>1 DEF GuardInv, FinalizerGuardsVpc
      <3> QED
        BY <2>1, <3>1, <3>2, <3>3 DEF VpcLives, VpcStates, EmptyInv
    <2> QED
      BY <2>1
  <1> QED
    BY <1>1, <1>2, <1>3, PTL DEF Spec

-----------------------------------------------------------------------------
(* A cluster that is ready stays ready.                                    *)

AllTrue(o) == \A c \in Conditions : o.conditions[c] = "True"

\* What CAPA reports ready it has, until the cluster is deleted.
CapaReadyInv ==
    ~obj.deleting =>
        \A c \in CapaConditions : obj.conditions[c] = "True" => CapaHas(c)

\* Nothing fails any more, and the running reconcile has read, and come to,
\* nothing else than that everything is ready.
ReadyStaysInv ==
    \/ obj.deleting
    \/ /\ faults = MaxFaults
       /\ AllTrue(obj)
       /\ pc # "idle" => AllTrue(base) /\ AllTrue(work)

LEMMA StepCapaReady ==
    ASSUME ConstantsAssumption, TypeInv, CapaInv, CapaReadyInv, [Next]_vars
    PROVE  CapaReadyInv'
  <1>1. SUFFICES ASSUME ~obj'.deleting, NEW c \in CapaConditions,
                        obj'.conditions[c] = "True"
                 PROVE  CapaHas(c)'
    BY DEF CapaReadyInv
  <1>2. ~obj.deleting
    BY <1>1, DeletingStays
  <1>3. /\ CapaConditions = {"LoadBalancerReady", "ClusterSecurityGroupsReady"}
        /\ obj.conditions[c] = "True" => CapaHas(c)
    BY <1>2 DEF CapaConditions, CapaReadyInv
  <1>4. CASE AnyCapaStep
    <2>1. CASE CapaCreatesSecurityGroups \/ CapaCreatesLoadBalancer
      <3>1. /\ NetworkRecorded /\ CapaOwns
            /\ \/ CapaCreatesSecurityGroups /\ sg' = obj.vpcId /\ UNCHANGED lb
               \/ CapaCreatesLoadBalancer /\ lb' = obj.vpcId /\ UNCHANGED sg
        BY <2>1 DEF CapaCreatesSecurityGroups, CapaCreatesLoadBalancer
      <3>2. /\ CapaCreatesSecurityGroups =>
                    obj'.conditions["LoadBalancerReady"] = obj.conditions["LoadBalancerReady"]
            /\ CapaCreatesLoadBalancer =>
                    obj'.conditions["ClusterSecurityGroupsReady"]
                        = obj.conditions["ClusterSecurityGroupsReady"]
        BY <1>3, <3>1, CapaMarkWrites
           DEF CapaCreatesSecurityGroups, CapaCreatesLoadBalancer, CapaMarks, ConditionValues
      <3> QED
        BY <1>1, <1>3, <3>1, <3>2 DEF NetworkRecorded, CapaHas
    <2>2. CASE CapaAddsFinalizer
      <3>1. SameCapaConditions /\ UNCHANGED <<lb, sg>>
        BY <2>2, CapaFinalizerWrites DEF CapaAddsFinalizer, TypeInv, TypeOK, Cluster, Finalizers
      <3> QED
        BY <1>1, <1>3, <3>1 DEF SameCapaConditions, CapaHas
    <2>3. ASSUME NEW d \in CapaConditions, CapaReportsReady(d) \/ CapaReportsFailure(d)
          PROVE  CapaHas(c)'
      <3>1. /\ CapaHas(d) /\ UNCHANGED <<lb, sg>>
            /\ \E value \in ConditionValues : CapaOwns /\ CapaWrites(Mark(obj, d, value))
        BY <2>3 DEF CapaReportsReady, CapaReportsFailure, ConditionValues
      <3>2. c # d => obj'.conditions[c] = obj.conditions[c]
        BY <3>1, CapaMarkWrites DEF CapaMarks
      <3> QED
        BY <1>1, <1>3, <3>1, <3>2 DEF CapaHas
    <2>4. /\ ~CapaRemovesFinalizer
          /\ \A d \in CapaConditions :
                ~CapaStartsDeletion(d) /\ ~CapaFinishesDeletion(d) /\ ~CapaFailsDeletion(d)
      BY <1>2 DEF CapaRemovesFinalizer, CapaStartsDeletion, CapaFinishesDeletion,
                  CapaFailsDeletion, CapaDeletes
    <2> QED
      BY <1>4, <2>1, <2>2, <2>3, <2>4 DEF AnyCapaStep, CapaSteps
  <1>5. CASE ~AnyCapaStep
    BY <1>1, <1>3, <1>5, OthersLeaveCapa DEF SameCapaConditions, CapaHas
  <1> QED
    BY <1>4, <1>5

\* Marking a condition True that is, and everything else a stage does to a copy
\* that is ready, leaves it ready.
LEMMA StaysTrue ==
    ASSUME NEW o \in Cluster, AllTrue(o)
    PROVE  /\ \A c : AllTrue(Mark(o, c, "True"))
           /\ \A v, c : AllTrue(Mark([o EXCEPT !.vpcId = v], c, "True"))
           /\ \A v, c : AllTrue(Mark(RecordSubnets(o, v), c, "True"))
           /\ AllTrue(AddFinalizer(o))
           /\ AllTrue(Settle(o))
  BY DEF AllTrue, Mark, RecordSubnets, AddFinalizer, Settle, Cluster

\* A reconcile of a ready cluster finds everything ready.
LEMMA StageStaysTrue ==
    ASSUME ConstantsAssumption, TypeInv, TeardownInv, ReadyInv, StageStep,
           ~obj.deleting, ~Fault, AllTrue(obj), AllTrue(work)
    PROVE  AllTrue(work') /\ NoFault
  <1>. DEFINE v == obj.vpcId
  <1>1. /\ work \in Cluster /\ pc \notin DeleteStages
        /\ pc \in NormalStages => work.vpcId = v
    BY DEF TypeInv, TypeOK, TeardownInv, ReadyInv
  <1>2. /\ v # NoId /\ vpc[v] = "available"
        /\ AllSubnets(v, "available") /\ AllRouteTables(v, "associated")
        /\ UserManagedEndpoint \/ endpoint[v] = "available"
    <2>1. \A c \in OperatorConditions : Backing(c, obj.vpcId)
      BY DEF ReadyInv, Backed, RecordedBacking, AllTrue, Conditions
    <2> QED
      BY <2>1 DEF Backing, OperatorConditions
  <1>3. /\ \A c : AllTrue(Mark(work, c, "True"))
        /\ \A w, c : AllTrue(Mark([work EXCEPT !.vpcId = w], c, "True"))
        /\ \A w, c : AllTrue(Mark(RecordSubnets(work, w), c, "True"))
    BY <1>1, StaysTrue
  <1>4. CASE GetVpc
    BY <1>1, <1>2, <1>3, <1>4 DEF GetVpc, AfterVpc, Proceed, Return, NormalStages
  <1>5. ~CreateVpc /\ ~VpcCallFails
    BY <1>1, <1>2 DEF CreateVpc, VpcCallFails, NormalStages
  <1>6. CASE ReconcileSubnets
    <2>1. SubnetsReadyValue(work.vpcId) = "True" /\ AllSubnets(work.vpcId, "available")
      BY <1>1, <1>2, <1>6 DEF ReconcileSubnets, SubnetsReadyValue, NormalStages
    <2> QED
      BY <1>3, <1>6, <2>1 DEF ReconcileSubnets, Proceed
  <1>7. CASE ReconcileRouteTables
    <2>1. PICK state \in {"associating", "associated"} :
            LET after == SetSlots(routeTable, work.vpcId, WithoutRouteTable(work.vpcId), state)
            IN  IF \A s \in Slots : after[work.vpcId][s] = "associated"
                THEN Proceed("endpoint", Mark(work, "RouteTablesReady", "True"))
                ELSE Return(Mark(work, "RouteTablesReady", "False"), TRUE)
      BY <1>7 DEF ReconcileRouteTables
    <2>2. work.vpcId = v /\ v \in VpcIds /\ NoFault
      BY <1>1, <1>2, <1>7 DEF ReconcileRouteTables, NormalStages, TypeInv, TypeOK, Cluster, Ids
    <2>3. WithoutRouteTable(v) = {}
      BY <1>2 DEF WithoutRouteTable, AllRouteTables
    <2>4. \A s \in Slots : SetSlots(routeTable, v, {}, state)[v][s] = "associated"
      BY <1>2, <2>2 DEF SetSlots, AllRouteTables, TypeInv, TypeOK
    <2> QED
      BY <1>3, <2>1, <2>2, <2>3, <2>4 DEF Proceed
  <1>8. CASE ReconcileVpcEndpoint
    <2>1. PICK state \in EndpointStates :
            /\ \/ UserManagedEndpoint /\ state = "available"
               \/ /\ ~UserManagedEndpoint /\ endpoint[work.vpcId] # "none"
                  /\ state = endpoint[work.vpcId]
               \/ ~UserManagedEndpoint /\ endpoint[work.vpcId] = "none"
            /\ IF state = "available"
               THEN Return(Mark(work, "VpcEndpointReady", "True"), FALSE)
               ELSE Return(Mark(work, "VpcEndpointReady", "False"), TRUE)
      BY <1>8 DEF ReconcileVpcEndpoint
    <2>2. work.vpcId = v /\ NoFault
      BY <1>1, <1>8 DEF ReconcileVpcEndpoint, NormalStages
    <2> QED
      BY <1>2, <1>3, <2>1, <2>2 DEF Return
  <1>9. ~WaitForSecurityGroups
    BY DEF WaitForSecurityGroups, SecurityGroupsReady, AllTrue, Conditions, CapaConditions
  <1>10. ~SubnetsCallFails /\ ~RouteTablesCallFails /\ ~VpcEndpointCallFails
    BY DEF SubnetsCallFails, RouteTablesCallFails, VpcEndpointCallFails
  <1> QED
    BY <1>1, <1>4, <1>5, <1>6, <1>7, <1>8, <1>9, <1>10
       DEF StageStep, DeleteStages, SkipVpcEndpoint, DeleteVpcEndpoint,
           DeleteVpcEndpointFails, WaitForCapa, DeleteRouteTables, DeleteRouteTablesFails,
           DeleteSubnets, DeleteSubnetsFails, DeleteVpc, DeleteVpcFails

LEMMA StepReadyStays ==
    ASSUME ConstantsAssumption, ~CacheLags, TypeInv, TeardownInv, GuardInv, ReadyInv,
           CapaInv, CapaReadyInv, ReadyStaysInv, [Next]_vars
    PROVE  ReadyStaysInv'
  <1>1. CASE obj.deleting \/ obj'.deleting
    BY <1>1, DeletingStays DEF ReadyStaysInv
  <1>2. CASE ~obj.deleting /\ ~obj'.deleting
    <2>1. /\ AllTrue(obj) /\ (pc # "idle" => AllTrue(base) /\ AllTrue(work))
          /\ ~Fault /\ (NoFault => faults' = MaxFaults)
          /\ cache = obj /\ obj \in Cluster /\ work \in Cluster
      BY <1>2 DEF ReadyStaysInv, Fault, NoFault, GuardInv, TypeInv, TypeOK, ConstantsAssumption
    <2>2. SUFFICES /\ NoFault /\ AllTrue(obj')
                   /\ pc' # "idle" => AllTrue(base') /\ AllTrue(work')
      BY <2>1 DEF ReadyStaysInv, AllTrue
    <2>3. CASE StageStep
      <3>1. StageShape /\ pc # "idle"
        BY <2>3, StageStepShape DEF NormalStages, DeleteStages
      <3>2. AllTrue(work') /\ NoFault
        BY <1>2, <2>1, <2>3, <3>1, StageStaysTrue
      <3> QED
        BY <2>1, <3>1, <3>2 DEF StageShape
    <2>4. CASE Reconcile
      <3>1. /\ base' = obj /\ UNCHANGED obj /\ work' = AddFinalizer(obj) /\ NoFault
        BY <1>2, <2>1, <2>4 DEF Reconcile
      <3> QED
        BY <2>1, <3>1, StaysTrue
    <2>5. CASE ReconcileNotFound \/ ReconcileSkips
      BY <2>1, <2>5 DEF ReconcileNotFound, ReconcileSkips, NoFault
    <2>6. CASE PatchConditions
      <3>1. /\ pc # "idle" /\ UNCHANGED <<base, work>>
            /\ UNCHANGED obj \/ obj' = WithConditions(obj)
        BY <2>6, PatchShape DEF ConditionsPatched, NewObj
      <3>2. NoFault
        BY <2>1, <2>6 DEF PatchConditions
      <3>3. AllTrue(WithConditions(obj))
        BY <2>1, <3>1 DEF WithConditions, AllTrue, Cluster
      <3> QED
        BY <2>1, <3>1, <3>2, <3>3
    <2>7. CASE PatchObject
      <3>1. /\ pc' = "idle" /\ (UNCHANGED obj \/ obj' = Settle(MergePatch(obj)))
        BY <2>7, PatchShape DEF ObjectPatched, NewObj
      <3>2. NoFault
        BY <2>1, <2>7 DEF PatchObject
      <3>3. Settle(MergePatch(obj)).conditions = obj.conditions
        BY <2>1 DEF MergePatch, Settle, Cluster
      <3> QED
        BY <2>1, <3>1, <3>2, <3>3 DEF AllTrue
    <2>8. CASE SyncCache \/ Ec2 \/ UNCHANGED vars
      BY <2>1, <2>8
         DEF SyncCache, Ec2, VpcBecomesAvailable, EndpointSettles, SubnetBecomesAvailable,
             RouteTableAssociates, operatorVars, vars, NoFault
    <2>9. CASE UserDeletes \/ UserChangesVpcMode
      <3>1. /\ UNCHANGED <<pc, base, work, faults>>
            /\ obj' \in {Settle([obj EXCEPT !.deleting = TRUE]),
                         Settle([obj EXCEPT !.private = ~@])}
        BY <2>9 DEF UserDeletes, UserChangesVpcMode, ApiWrite
      <3>2. obj'.conditions = obj.conditions
        BY <2>1, <3>1 DEF Settle, Cluster
      <3> QED
        BY <2>1, <3>1, <3>2 DEF NoFault, AllTrue
    <2>10. CASE AnyCapaStep
      <3>1. /\ UNCHANGED <<pc, base, work>>
            /\ \A c \in OperatorConditions : obj'.conditions[c] = obj.conditions[c]
        <4>1. PICK o \in Cluster : NewObj(Settle(o)) /\ SameOperatorConditions(o)
          BY <2>10, CapaWriteShape DEF OthersWrite
        <4>2. Settle(o).conditions = o.conditions
          BY DEF Settle, Cluster
        <4> QED
          BY <2>10, <4>1, <4>2, CapaWriteShape DEF OthersWrite, NewObj, SameOperatorConditions
      <3>2. \A c \in CapaConditions : obj.conditions[c] = "True" /\ CapaHas(c)
        BY <1>2, <2>1 DEF AllTrue, Conditions, CapaReadyInv
      <3>3. /\ \A c \in CapaConditions :
                  /\ ~CapaReportsReady(c) /\ ~CapaReportsFailure(c)
                  /\ ~CapaStartsDeletion(c) /\ ~CapaFinishesDeletion(c)
                  /\ ~CapaFailsDeletion(c)
            /\ ~CapaRemovesFinalizer /\ ~CapaCreatesLoadBalancer
            /\ ~CapaCreatesSecurityGroups
        BY <1>2, <2>1, <3>2
           DEF CapaReportsReady, CapaReportsFailure, CapaStartsDeletion, CapaFinishesDeletion,
               CapaFailsDeletion, CapaDeletes, CapaRemovesFinalizer, CapaCreatesLoadBalancer,
               CapaCreatesSecurityGroups, CapaConditions, CapaHas
      <3>4. CapaAddsFinalizer
        BY <2>10, <3>3 DEF AnyCapaStep, CapaSteps
      <3>5. SameCapaConditions /\ UNCHANGED faults
        BY <3>4, CapaFinalizerWrites DEF CapaAddsFinalizer, TypeInv, TypeOK, Cluster, Finalizers
      <3> QED
        BY <2>1, <3>1, <3>5 DEF NoFault, SameCapaConditions, AllTrue, Conditions
    <2>11. ~Crash /\ ~ReconcileWithoutIdentity
      BY <2>1 DEF Crash, ReconcileWithoutIdentity
    <2> QED
      BY <2>3, <2>4, <2>5, <2>6, <2>7, <2>8, <2>9, <2>10, <2>11
         DEF Next, OperatorSteps, StageStep, AnyCapaStep, Finished
  <1> QED
    BY <1>1, <1>2

\* A cluster that is ready, once nothing fails any more, stays ready until the
\* user deletes it: no reconcile of it, however often the annotation comes and
\* goes, takes a condition back. (What BecomesReady promises once the cluster
\* is ready.)
THEOREM ReadyClusterStaysReady ==
    ASSUME ~CacheLags
    PROVE  Spec => [](pc = "idle" /\ faults = MaxFaults /\ Ready => [](obj.deleting \/ Ready))
  <1>. DEFINE IInv == /\ TypeInv /\ DnsInv /\ TeardownInv /\ GuardInv /\ ReadyInv
                      /\ FinalizersInv /\ ClaimInv /\ CapaInv /\ CapaReadyInv
              P == pc = "idle" /\ faults = MaxFaults /\ Ready
              Q == obj.deleting \/ Ready
  <1>1. Init => IInv
    <2>1. ASSUME Init
          PROVE  /\ ReadyInv /\ CapaReadyInv /\ FinalizersInv /\ ClaimInv
      BY <2>1 DEF Init, NewCluster, OperatorConditions, CapaConditions, Conditions, NormalStages,
                  ReadyInv, Backed, CapaReadyInv, FinalizersInv, ClaimInv
    <2> QED
      BY <2>1, InitType, InitDns, InitTeardown, InitGuard, InitCapa, ConstantsAssumption
  <1>2. IInv /\ [Next]_vars => IInv'
    BY StepType, StepDns, StepTeardown, StepGuard, StepReady, StepFinalizers, StepClaim,
       StepCapa, StepCapaReady, ConstantsAssumption
  <1>3. P => ReadyStaysInv
    BY DEF Ready, ReadyStaysInv, AllTrue
  <1>4. IInv /\ ReadyStaysInv /\ [Next]_vars => ReadyStaysInv'
    BY StepReadyStays, ConstantsAssumption
  <1>5. ReadyStaysInv => Q
    BY DEF Ready, ReadyStaysInv, AllTrue
  <1>. HIDE DEF IInv, P, Q
  <1>6. Spec => [](P => []Q)
    BY <1>1, <1>2, <1>3, <1>4, <1>5, PTL DEF Spec
  <1> QED
    BY <1>6 DEF P, Q

-----------------------------------------------------------------------------
(* What cannot be deleted stays so.                                        *)

\* The running reconcile is a deletion that knows no more subnets than the
\* object does, and it skips an endpoint that is marked deleted.
UndeletableInv ==
    /\ obj.deleting /\ Undeletable
    /\ pc # "idle" => /\ base.deleting
                      /\ base.subnetId = obj.subnetId /\ work.subnetId = obj.subnetId
                      /\ EndpointDeleted(obj) => EndpointDeleted(work)

\* No stage of a deletion takes back that the endpoint is marked deleted.
LEMMA StageKeepsMark ==
    ASSUME TypeInv, StageStep, pc \in DeleteStages, EndpointDeleted(work)
    PROVE  EndpointDeleted(work') /\ UNCHANGED endpoint
  <1>1. work \in Cluster /\ "VpcEndpointReady" \in Conditions
    BY WorkMarks DEF OperatorConditions, Conditions
  <1>2. /\ \A c \in Conditions \ {"VpcEndpointReady"} : \A value :
                /\ EndpointDeleted(Mark(work, c, value))
                /\ EndpointDeleted(RemoveFinalizer(Mark(work, c, value)))
        /\ EndpointDeleted(RemoveFinalizer(work))
    BY <1>1 DEF EndpointDeleted, Mark, RemoveFinalizer, Cluster
  <1>3. {"VpcReady", "SubnetsReady", "RouteTablesReady"} \subseteq
            Conditions \ {"VpcEndpointReady"}
    BY DEF Conditions, OperatorConditions
  <1>4. /\ SkipVpcEndpoint \/ WaitForCapa \/ DeleteRouteTables \/ DeleteRouteTablesFails
                \/ DeleteSubnets \/ DeleteSubnetsFails \/ DeleteVpc \/ DeleteVpcFails
    BY DEF StageStep, GetVpc, CreateVpc, VpcCallFails, ReconcileSubnets, SubnetsCallFails,
           ReconcileRouteTables, RouteTablesCallFails, WaitForSecurityGroups,
           ReconcileVpcEndpoint, VpcEndpointCallFails, DeleteVpcEndpoint,
           DeleteVpcEndpointFails, DeleteStages
  <1>5. CASE SkipVpcEndpoint \/ WaitForCapa
    BY <1>5 DEF SkipVpcEndpoint, WaitForCapa, Proceed, Return, cloudVars
  <1>6. CASE DeleteRouteTables \/ DeleteRouteTablesFails \/ DeleteSubnets \/ DeleteSubnetsFails
    BY <1>2, <1>3, <1>6
       DEF DeleteRouteTables, DeleteRouteTablesFails, DeleteSubnets, DeleteSubnetsFails,
           Proceed, Return
  <1>7. CASE DeleteVpc \/ DeleteVpcFails
    BY <1>2, <1>3, <1>7 DEF DeleteVpc, DeleteVpcFails, Return
  <1> QED
    BY <1>4, <1>5, <1>6, <1>7

\* An endpoint that nobody deletes stays.
LEMMA OthersKeepEndpoint ==
    ASSUME TypeInv, [Next]_vars, ~StageStep, NEW v \in VpcIds,
           endpoint[v] \in {"pending", "available"}
    PROVE  endpoint'[v] \in {"pending", "available"}
  <1>1. endpoint \in [VpcIds -> EndpointStates]
    BY DEF TypeInv, TypeOK
  <1>2. CASE \/ ReconcileNotFound \/ ReconcileSkips \/ ReconcileWithoutIdentity \/ Reconcile
             \/ PatchConditions \/ PatchObject
             \/ SyncCache \/ Crash \/ UserDeletes \/ UserChangesVpcMode
    BY <1>2
       DEF ReconcileNotFound, ReconcileSkips, ReconcileWithoutIdentity, Reconcile,
           PatchConditions, PatchObject, SyncCache, Crash, UserDeletes, UserChangesVpcMode,
           cloudVars
  <1>3. CASE Ec2
    BY <1>1, <1>3 DEF Ec2, VpcBecomesAvailable, EndpointSettles,
                      SubnetBecomesAvailable, RouteTableAssociates
  <1>4. CASE AnyCapaStep
    BY <1>4, CapaStepWrites DEF CapaWrite, CapaWrites, cloudVars
  <1>5. CASE UNCHANGED vars
    BY <1>5 DEF vars, cloudVars
  <1> QED
    BY <1>2, <1>3, <1>4, <1>5
       DEF Next, OperatorSteps, StageStep, AnyCapaStep, Finished

\* What the object says, and the running reconcile knows, stays the same.
LEMMA UndeletableCopies ==
    ASSUME ConstantsAssumption, ~CacheLags, TypeInv, GuardInv, UndeletableInv, [Next]_vars
    PROVE  /\ obj'.vpcId = obj.vpcId /\ obj'.subnetId = obj.subnetId
           /\ EndpointDeleted(obj) => EndpointDeleted(obj')
           /\ pc' # "idle" => /\ base'.deleting
                              /\ base'.subnetId = obj'.subnetId
                              /\ work'.subnetId = obj'.subnetId
                              /\ EndpointDeleted(obj') => EndpointDeleted(work')
  <1>1. /\ obj \in Cluster /\ work \in Cluster /\ cache = obj /\ obj.deleting
        /\ pc # "idle" => /\ base.deleting /\ pc \notin NormalStages
                          /\ base.vpcId = obj.vpcId /\ work.vpcId = obj.vpcId
                          /\ base.subnetId = obj.subnetId /\ work.subnetId = obj.subnetId
                          /\ EndpointDeleted(obj) => EndpointDeleted(work)
    BY DEF TypeInv, TypeOK, GuardInv, WorkInv, NormalWork, DeletingWork, UndeletableInv
  <1>2. CASE StageStep
    <2>1. StageShape /\ pc \in DeleteStages /\ pc # "idle"
      BY <1>1, <1>2, StageStepShape DEF DeleteStages, NormalStages
    <2>2. work'.subnetId = work.subnetId
      BY <1>2, <2>1, StageSubnetIds DEF DeleteStages
    <2> QED
      BY <1>1, <1>2, <2>1, <2>2, StageKeepsMark DEF StageShape
  <1>3. CASE Reconcile
    BY <1>1, <1>3 DEF Reconcile
  <1>4. CASE PatchConditions
    <2>1. /\ WithConditions(obj).vpcId = obj.vpcId
          /\ WithConditions(obj).subnetId = obj.subnetId
          /\ EndpointDeleted(WithConditions(obj)) <=>
                IF "VpcEndpointReady" \in ChangedConditions
                THEN EndpointDeleted(work) ELSE EndpointDeleted(obj)
      BY <1>1 DEF WithConditions, EndpointDeleted, Cluster, Conditions, OperatorConditions
    <2>2. ConditionsPatched
      BY <1>4, PatchShape
    <2> QED
      BY <1>1, <2>1, <2>2 DEF ConditionsPatched, NewObj
  <1>5. CASE PatchObject
    <2>1. ObjectPatched
      BY <1>5, PatchShape
    <2>2. /\ Settle(MergePatch(obj)).vpcId = obj.vpcId
          /\ Settle(MergePatch(obj)).subnetId = obj.subnetId
          /\ Settle(MergePatch(obj)).conditions = obj.conditions
      BY <1>1, <2>1 DEF ObjectPatched, MergePatch, Settle, Cluster
    <2> QED
      BY <1>1, <2>1, <2>2 DEF ObjectPatched, NewObj, EndpointDeleted
  <1>6. CASE OthersWrite
    <2>1. PICK o \in Cluster :
            /\ NewObj(Settle(o))
            /\ o.vpcId = obj.vpcId /\ o.subnetId = obj.subnetId
            /\ SameOperatorConditions(o)
      BY <1>6 DEF OthersWrite
    <2>2. /\ obj'.vpcId = o.vpcId /\ obj'.subnetId = o.subnetId
          /\ obj'.conditions = o.conditions
      BY <2>1 DEF NewObj, Settle, Cluster
    <2>3. EndpointDeleted(obj') <=> EndpointDeleted(obj)
      BY <2>1, <2>2 DEF SameOperatorConditions, OperatorConditions, EndpointDeleted
    <2> QED
      BY <1>1, <1>6, <2>1, <2>2, <2>3 DEF OthersWrite
  <1>7. CASE Crash \/ SyncCache \/ UNCHANGED <<obj, cache, base, work, pc>>
    BY <1>1, <1>7 DEF Crash, EndReconcile, SyncCache
  <1> QED
    BY <1>2, <1>3, <1>4, <1>5, <1>6, <1>7, NextShape DEF StepShape

LEMMA StepUndeletable ==
    ASSUME ConstantsAssumption, ~CacheLags, TypeInv, GuardInv, UndeletableInv, [Next]_vars
    PROVE  UndeletableInv'
  <1>. DEFINE v == obj.vpcId
  <1>1. v \in Ids /\ obj'.vpcId = v /\ obj'.subnetId = obj.subnetId
    BY UndeletableCopies DEF TypeInv, TypeOK, Cluster
  <1>2. obj'.deleting
    BY DeletingStays DEF UndeletableInv
  <1>3. Undeletable'
    <2>1. CASE v = NoId
      BY <1>1, <2>1 DEF UndeletableInv, Undeletable
    <2>2. ASSUME v # NoId, NEW s \in Slots, subnet[v][s] # "none", obj.subnetId[s] # v
          PROVE  Undeletable'
      <3>1. v \in VpcIds
        BY <1>1, <2>2 DEF Ids
      <3>2. pc = "deleteSubnets" => work.subnetId = obj.subnetId
        BY DEF UndeletableInv
      <3>3. subnet'[v][s] # "none"
        BY <2>2, <3>1, <3>2, SubnetsVanish
      <3> QED
        BY <1>1, <2>2, <3>3 DEF Undeletable, Slots
    <2>3. ASSUME v # NoId, endpoint[v] \in {"pending", "available"}, EndpointDeleted(obj)
          PROVE  Undeletable'
      <3>1. v \in VpcIds
        BY <1>1, <2>3 DEF Ids
      <3>2. CASE StageStep
        <4>1. pc \in DeleteStages /\ EndpointDeleted(work)
          BY <2>3, <3>2, StageStepShape
             DEF UndeletableInv, GuardInv, WorkInv, NormalStages, DeleteStages
        <4> QED
          BY <1>1, <2>3, <3>2, <4>1, StageKeepsMark, UndeletableCopies DEF Undeletable
      <3>3. CASE ~StageStep
        BY <1>1, <2>3, <3>1, <3>3, OthersKeepEndpoint, UndeletableCopies DEF Undeletable
      <3> QED
        BY <3>2, <3>3
    <2> QED
      BY <2>1, <2>2, <2>3 DEF UndeletableInv, Undeletable
  <1> QED
    BY <1>2, <1>3, UndeletableCopies DEF UndeletableInv

\* The exceptions of DeletionCompletes are final: a deletion that has no VPC
\* ID, does not know a subnet of its VPC or has marked an endpoint deleted that
\* is there never comes to delete it, however often it is tried again.
THEOREM UndeletableStays ==
    ASSUME ~CacheLags
    PROVE  Spec => [](pc = "idle" /\ obj.deleting /\ Undeletable => []Undeletable)
  <1>. DEFINE IInv == TypeInv /\ DnsInv /\ TeardownInv /\ GuardInv
              P == pc = "idle" /\ obj.deleting /\ Undeletable
  <1>1. Init => IInv
    BY InitType, InitDns, InitTeardown, InitGuard, ConstantsAssumption
  <1>2. IInv /\ [Next]_vars => IInv'
    BY StepType, StepDns, StepTeardown, StepGuard, ConstantsAssumption
  <1>3. P => UndeletableInv
    BY DEF UndeletableInv
  <1>4. IInv /\ UndeletableInv /\ [Next]_vars => UndeletableInv'
    BY StepUndeletable, ConstantsAssumption
  <1>5. UndeletableInv => Undeletable
    BY DEF UndeletableInv
  <1>. HIDE DEF IInv, P
  <1>6. Spec => [](P => []Undeletable)
    BY <1>1, <1>2, <1>3, <1>4, <1>5, PTL DEF Spec
  <1> QED
    BY <1>6 DEF P
=============================================================================
