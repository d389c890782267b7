--------------------- MODULE AWSClusterController_proofs ---------------------
(***************************************************************************)
(* Proofs about AWSClusterController for every number of subnets, VPC IDs  *)
(* and faults.                                                             *)
(***************************************************************************)
EXTENDS AWSClusterController, TLAPS

\* The stages after the first work in a VPC.
StageHasVpc ==
    pc \in {"subnets", "routeTables", "endpoint"} => work.vpcId # NoId

TypeInv == TypeOK /\ StageHasVpc

-----------------------------------------------------------------------------
(* What the operators on the object preserve.                              *)

\* A cluster stays a cluster with its flags, its VPC ID or its finalizers
\* changed.
LEMMA ClusterFields ==
    ASSUME NEW o \in Cluster
    PROVE  /\ \A b \in BOOLEAN : [o EXCEPT !.exists = b] \in Cluster
           /\ \A b \in BOOLEAN : [o EXCEPT !.deleting = b] \in Cluster
           /\ [o EXCEPT !.private = ~@] \in Cluster
           /\ \A v \in Ids : [o EXCEPT !.vpcId = v] \in Cluster
           /\ \A f \in SUBSET Finalizers : [o EXCEPT !.finalizers = f] \in Cluster
           /\ \A f \in [Slots -> Ids] : [o EXCEPT !.subnetId = f] \in Cluster
           /\ \A f \in [Conditions -> ConditionValues] :
                [o EXCEPT !.conditions = f] \in Cluster
  BY DEF Cluster

\* Mark sets one condition and nothing else.
LEMMA MarkCluster ==
    ASSUME NEW o \in Cluster, NEW c \in Conditions, NEW value \in ConditionValues
    PROVE  /\ Mark(o, c, value) \in Cluster
           /\ Mark(o, c, value).deleting = o.deleting
           /\ Mark(o, c, value).vpcId = o.vpcId
           /\ Mark(o, c, value).finalizers = o.finalizers
  BY DEF Mark, Cluster

\* Settle only ever clears the flag that the object exists.
LEMMA SettleCluster ==
    ASSUME NEW o \in Cluster
    PROVE  /\ Settle(o) \in Cluster
           /\ Settle(o).deleting = o.deleting
           /\ Settle(o).vpcId = o.vpcId
           /\ Settle(o).finalizers = o.finalizers
           /\ Settle(o).exists <=> o.exists /\ ~(o.deleting /\ o.finalizers = {})
  BY DEF Settle, Cluster

\* The empty copies of the object.
LEMMA BlankCluster ==
    ASSUME ConstantsAssumption
    PROVE  /\ NewCluster \in Cluster /\ Blank \in Cluster
           /\ NewCluster.vpcId = NoId /\ Blank.vpcId = NoId
           /\ ~NewCluster.deleting /\ ~Blank.deleting
  <1>1. /\ NewCluster.finalizers \in SUBSET Finalizers
        /\ NewCluster.vpcId \in Ids
        /\ NewCluster.subnetId \in [Slots -> Ids]
        /\ NewCluster.conditions \in [Conditions -> ConditionValues]
    BY DEF NewCluster, Ids, ConditionValues
  <1>2. NewCluster \in Cluster
    BY <1>1 DEF NewCluster, Cluster
  <1>3. Blank \in Cluster
    BY <1>2, ClusterFields DEF Blank
  <1> QED
    BY <1>2, <1>3 DEF NewCluster, Blank

\* SetSlots stays inside its function set.
LEMMA SetSlotsType ==
    ASSUME NEW States, NEW f \in [VpcIds -> [Slots -> States]], NEW v \in VpcIds,
           NEW S, NEW state \in States
    PROVE  SetSlots(f, v, S, state) \in [VpcIds -> [Slots -> States]]
  BY DEF SetSlots

\* The two requests of the patch helper.
LEMMA PatchCluster ==
    ASSUME TypeOK
    PROVE  /\ WithConditions(obj) \in Cluster
           /\ WithConditions(obj).deleting = obj.deleting
           /\ WithConditions(obj).vpcId = obj.vpcId
           /\ WithConditions(obj).finalizers = obj.finalizers
           /\ WithConditions(obj).exists = obj.exists
           /\ MergePatch(obj) \in Cluster
           /\ MergePatch(obj).deleting = obj.deleting
           /\ MergePatch(obj).exists = obj.exists
           /\ MergePatch(obj).vpcId =
                IF work.vpcId # base.vpcId THEN work.vpcId ELSE obj.vpcId
           /\ MergePatch(obj).finalizers =
                IF work.finalizers # base.finalizers THEN work.finalizers
                                                     ELSE obj.finalizers
  <1>1. obj \in Cluster /\ work \in Cluster /\ base \in Cluster
    BY DEF TypeOK
  <1>2. [c \in Conditions |-> IF c \in ChangedConditions
                              THEN work.conditions[c] ELSE obj.conditions[c]]
            \in [Conditions -> ConditionValues]
    BY <1>1 DEF Cluster
  <1>3. /\ WithConditions(obj) \in Cluster
        /\ WithConditions(obj).deleting = obj.deleting
        /\ WithConditions(obj).vpcId = obj.vpcId
        /\ WithConditions(obj).finalizers = obj.finalizers
        /\ WithConditions(obj).exists = obj.exists
    BY <1>1, <1>2, ClusterFields DEF WithConditions, Cluster
  <1> QED
    BY <1>1, <1>3 DEF MergePatch, Cluster

-----------------------------------------------------------------------------
(* Type correctness.                                                       *)

\* The two halves of TypeOK.
TypedCloud ==
    /\ vpc \in [VpcIds -> VpcStates]
    /\ dns \subseteq VpcIds
    /\ subnet \in [VpcIds -> [Slots -> SubnetStates]]
    /\ routeTable \in [VpcIds -> [Slots -> RouteTableStates]]
    /\ endpoint \in [VpcIds -> EndpointStates]
    /\ lb \in Ids /\ sg \in Ids

TypedObjects ==
    /\ obj \in Cluster /\ cache \in Cluster /\ base \in Cluster /\ work \in Cluster
    /\ queued \in BOOLEAN
    /\ pc \in Stages
    /\ StageHasVpc

LEMMA NextTypeHalves ==
    ASSUME TypedCloud', TypedObjects', faults' \in 0..MaxFaults
    PROVE  TypeInv'
  BY DEF TypeInv, TypeOK, TypedCloud, TypedObjects, StageHasVpc

LEMMA FaultType ==
    ASSUME ConstantsAssumption, TypeInv, NoFault \/ Fault
    PROVE  faults' \in 0..MaxFaults
  BY DEF ConstantsAssumption, TypeInv, TypeOK, NoFault, Fault

LEMMA CloudType ==
    ASSUME TypeInv, UNCHANGED <<cloudVars, capaVars>>
    PROVE  TypedCloud'
  BY DEF TypeInv, TypeOK, TypedCloud, cloudVars, capaVars

\* How a stage hands its copy of the object on.
LEMMA ProceedType ==
    ASSUME TypeInv, NEW w \in Cluster, NEW stage \in Stages, Proceed(stage, w),
           stage \in {"subnets", "routeTables", "endpoint"} => w.vpcId # NoId
    PROVE  TypedObjects'
  BY DEF TypeInv, TypeOK, TypedObjects, Proceed, StageHasVpc

LEMMA ReturnType ==
    ASSUME TypeInv, NEW w \in Cluster, NEW again \in BOOLEAN, Return(w, again)
    PROVE  TypedObjects'
  BY DEF TypeInv, TypeOK, TypedObjects, Return, Stages, StageHasVpc

LEMMA WriteType ==
    ASSUME TypeInv, NEW o \in Cluster, ApiWrite(o)
    PROVE  obj' \in Cluster /\ cache' \in Cluster /\ queued' \in BOOLEAN
  BY DEF TypeInv, TypeOK, ApiWrite

LEMMA WorkMarks ==
    ASSUME TypeInv
    PROVE  /\ work \in Cluster /\ work.vpcId \in Ids
           /\ \A c \in OperatorConditions,
                 value \in {"True", "False", "Deleting", "Deleted"} :
                /\ Mark(work, c, value) \in Cluster
                /\ Mark(work, c, value).vpcId = work.vpcId
                /\ Mark(work, c, value).deleting = work.deleting
                /\ Mark(work, c, value).finalizers = work.finalizers
  <1>1. work \in Cluster /\ work.vpcId \in Ids
    BY DEF TypeInv, TypeOK, Cluster
  <1>2. /\ OperatorConditions \subseteq Conditions
        /\ {"True", "False", "Deleting", "Deleted"} \subseteq ConditionValues
    BY DEF Conditions, ConditionValues
  <1> QED
    BY <1>1, <1>2, MarkCluster

LEMMA StartType ==
    ASSUME ConstantsAssumption, TypeInv,
           \/ ReconcileNotFound \/ ReconcileSkips
           \/ ReconcileWithoutIdentity \/ Reconcile
    PROVE  TypeInv'
  <1>1. TypedCloud'
    BY CloudType DEF ReconcileNotFound, ReconcileSkips, ReconcileWithoutIdentity,
                     Reconcile, cloudVars, capaVars
  <1>2. faults' \in 0..MaxFaults
    BY FaultType DEF ReconcileNotFound, ReconcileSkips, ReconcileWithoutIdentity,
                     Reconcile
  <1>3. TypedObjects'
    <2> USE DEF TypeInv, TypeOK, TypedObjects, StageHasVpc
    <2>1. CASE ReconcileNotFound \/ ReconcileSkips \/ ReconcileWithoutIdentity
      BY <2>1 DEF ReconcileNotFound, ReconcileSkips, ReconcileWithoutIdentity
    <2>2. CASE Reconcile
      <3>1. cache.finalizers \cup {"operator"} \in SUBSET Finalizers
        BY DEF Cluster, Finalizers
      <3>2. AddFinalizer(cache) \in Cluster
        BY <3>1, ClusterFields DEF AddFinalizer
      <3>3. FirstStage(cache) \in {"vpc", "deleteEndpoint"}
        BY DEF FirstStage
      <3> QED
        BY <2>2, <3>2, <3>3 DEF Reconcile, Stages, NormalStages, DeleteStages
    <2> QED
      BY <2>1, <2>2
  <1> QED
    BY <1>1, <1>2, <1>3, NextTypeHalves

LEMMA VpcStageType ==
    ASSUME ConstantsAssumption, TypeInv, GetVpc \/ CreateVpc \/ VpcCallFails
    PROVE  TypeInv'
  <1>1. ASSUME NEW v \in VpcIds, NEW state, AfterVpc(v, state)
        PROVE  TypedObjects'
    <2>. DEFINE w == [work EXCEPT !.vpcId = v]
    <2>1. w \in Cluster /\ w.vpcId = v
      BY WorkMarks, ClusterFields DEF Ids, Cluster
    <2>2. \A value \in {"True", "False"} :
            Mark(w, "VpcReady", value) \in Cluster /\ Mark(w, "VpcReady", value).vpcId = v
      <3>1. /\ "VpcReady" \in Conditions
            /\ \A value \in {"True", "False"} : value \in ConditionValues
        BY DEF Conditions, OperatorConditions, ConditionValues
      <3>. HIDE DEF w
      <3> QED
        BY <2>1, <3>1, MarkCluster
    <2>3. CASE Proceed("subnets", Mark(w, "VpcReady", "True"))
      BY <2>2, <2>3, ProceedType DEF Stages, NormalStages, ConstantsAssumption
    <2>4. CASE Return(Mark(w, "VpcReady", "False"), TRUE)
      BY <2>2, <2>4, ReturnType
    <2> QED
      BY <1>1, <2>3, <2>4 DEF AfterVpc
  <1>2. TypedObjects'
    <2>1. CASE GetVpc
      BY <1>1, <2>1, WorkMarks DEF GetVpc, Ids
    <2>2. CASE CreateVpc
      <3>1. \/ \E v \in VpcIds : AfterVpc(v, "pending")
            \/ Return(work, TRUE)
        BY <2>2 DEF CreateVpc
      <3> QED
        BY <1>1, <3>1, WorkMarks, ReturnType
    <2>3. CASE VpcCallFails
      BY <2>3, WorkMarks, ReturnType DEF VpcCallFails
    <2> QED
      BY <2>1, <2>2, <2>3
  <1>3. TypedCloud'
    <2>1. CASE GetVpc \/ VpcCallFails
      BY <2>1, CloudType DEF GetVpc, VpcCallFails, cloudVars, capaVars
    <2>2. CASE CreateVpc
      BY <2>2 DEF CreateVpc, EnsureAttributes, TypeInv, TypeOK, TypedCloud,
                  VpcStates, capaVars
    <2> QED
      BY <2>1, <2>2
  <1>4. faults' \in 0..MaxFaults
    BY FaultType DEF GetVpc, CreateVpc, VpcCallFails
  <1> QED
    BY <1>2, <1>3, <1>4, NextTypeHalves

LEMMA SubnetStageType ==
    ASSUME ConstantsAssumption, TypeInv, ReconcileSubnets \/ SubnetsCallFails
    PROVE  TypeInv'
  <1>. DEFINE v == work.vpcId
  <1>1. v \in VpcIds
    BY WorkMarks DEF TypeInv, StageHasVpc, ReconcileSubnets, SubnetsCallFails, Ids
  <1>2. TypedObjects'
    <2>. DEFINE w == Mark(RecordSubnets(work, v), "SubnetsReady", SubnetsReadyValue(v))
    <2>1. RecordSubnets(work, v) \in Cluster /\ RecordSubnets(work, v).vpcId = v
      BY <1>1, WorkMarks DEF RecordSubnets, Ids, Cluster
    <2>2. SubnetsReadyValue(v) \in ConditionValues /\ "SubnetsReady" \in Conditions
      BY DEF SubnetsReadyValue, ConditionValues, Conditions, OperatorConditions
    <2>3. w \in Cluster /\ w.vpcId = v
      BY <2>1, <2>2, MarkCluster
    <2>4. CASE Proceed("routeTables", w)
      BY <1>1, <2>3, <2>4, ProceedType DEF Stages, NormalStages, ConstantsAssumption
    <2>5. CASE Return(w, TRUE) \/ Return(work, TRUE)
      BY <2>3, <2>5, WorkMarks, ReturnType
    <2> QED
      BY <2>4, <2>5 DEF ReconcileSubnets, SubnetsCallFails
  <1>3. subnet' \in [VpcIds -> [Slots -> SubnetStates]]
    <2>1. PICK S : subnet' = SetSlots(subnet, v, S, "pending")
      BY DEF ReconcileSubnets, SubnetsCallFails
    <2>2. subnet \in [VpcIds -> [Slots -> SubnetStates]] /\ "pending" \in SubnetStates
      BY DEF TypeInv, TypeOK, SubnetStates
    <2> QED
      BY <1>1, <2>1, <2>2, SetSlotsType
  <1>4. TypedCloud'
    BY <1>3 DEF ReconcileSubnets, SubnetsCallFails, TypeInv, TypeOK, TypedCloud, capaVars
  <1>5. faults' \in 0..MaxFaults
    BY FaultType DEF ReconcileSubnets, SubnetsCallFails
  <1> QED
    BY <1>2, <1>4, <1>5, NextTypeHalves

LEMMA RouteTableStageType ==
    ASSUME ConstantsAssumption, TypeInv, ReconcileRouteTables \/ RouteTablesCallFails
    PROVE  TypeInv'
  <1>. DEFINE v == work.vpcId
              Tables == [VpcIds -> [Slots -> RouteTableStates]]
  <1>1. v \in VpcIds
    BY WorkMarks DEF TypeInv, StageHasVpc, ReconcileRouteTables, RouteTablesCallFails, Ids
  <1>2. TypedObjects'
    <2>1. CASE Proceed("endpoint", Mark(work, "RouteTablesReady", "True"))
      BY <1>1, <2>1, WorkMarks, ProceedType
         DEF Stages, NormalStages, ConstantsAssumption, OperatorConditions
    <2>2. CASE Return(Mark(work, "RouteTablesReady", "False"), TRUE) \/ Return(work, TRUE)
      BY <2>2, WorkMarks, ReturnType DEF OperatorConditions
    <2> QED
      BY <2>1, <2>2 DEF ReconcileRouteTables, RouteTablesCallFails
  <1>3. \A S : \A f \in Tables, state \in RouteTableStates :
            SetSlots(f, v, S, state) \in Tables
    BY <1>1, SetSlotsType
  <1>4. routeTable' \in Tables
    <2>1. routeTable \in Tables
      BY DEF TypeInv, TypeOK
    <2>2. \A state \in {"none", "unassociated", "associating", "associated"} :
            state \in RouteTableStates
      BY DEF RouteTableStates
    <2>3. CASE ReconcileRouteTables
      <3>1. PICK state \in {"associating", "associated"} :
              routeTable' = SetSlots(routeTable, v, WithoutRouteTable(v), state)
        BY <2>3 DEF ReconcileRouteTables
      <3>2. state \in RouteTableStates
        BY <2>2
      <3> QED
        BY <1>3, <2>1, <3>1, <3>2
    <2>4. CASE RouteTablesCallFails
      <3>. DEFINE clean == SetSlots(routeTable, v, Unassociated(v), "none")
      <3>1. clean \in Tables
        BY <1>3, <2>1, <2>2
      <3>2. CASE \E S \in SUBSET Unassociated(v) : routeTable' = SetSlots(routeTable, v, S, "none")
        <4>1. "none" \in RouteTableStates
          BY <2>2
        <4>2. PICK S : routeTable' = SetSlots(routeTable, v, S, "none")
          BY <3>2
        <4> QED
          BY <1>3, <2>1, <4>1, <4>2
      <3>3. ASSUME NEW k \in WithoutRouteTable(v), NEW state \in {"none", "unassociated"},
                   NEW made \in {"associating", "associated"},
                   routeTable' =
                     SetSlots(SetSlots(clean, v, Before(WithoutRouteTable(v), k), made),
                              v, {k}, state)
            PROVE  routeTable' \in Tables
        <4>. HIDE DEF clean
        <4>1. SetSlots(clean, v, Before(WithoutRouteTable(v), k), made) \in Tables
          BY <1>3, <2>2, <3>1
        <4> QED
          BY <1>3, <2>2, <3>3, <4>1
      <3> QED
        BY <2>4, <3>2, <3>3 DEF RouteTablesCallFails
    <2> QED
      BY <2>3, <2>4
  <1>5. TypedCloud'
    BY <1>4 DEF ReconcileRouteTables, RouteTablesCallFails, TypeInv, TypeOK, TypedCloud, capaVars
  <1>6. faults' \in 0..MaxFaults
    BY FaultType DEF ReconcileRouteTables, RouteTablesCallFails
  <1> QED
    BY <1>2, <1>5, <1>6, NextTypeHalves

LEMMA EndpointStageType ==
    ASSUME ConstantsAssumption, TypeInv,
           WaitForSecurityGroups \/ ReconcileVpcEndpoint \/ VpcEndpointCallFails
    PROVE  TypeInv'
  <1>1. TypedObjects'
    <2>1. \/ Return(work, TRUE)
          \/ Return(Mark(work, "VpcEndpointReady", "True"), FALSE)
          \/ Return(Mark(work, "VpcEndpointReady", "False"), TRUE)
      BY DEF WaitForSecurityGroups, ReconcileVpcEndpoint, VpcEndpointCallFails
    <2> QED
      BY <2>1, WorkMarks, ReturnType DEF OperatorConditions
  <1>2. TypedCloud'
    <2>1. CASE WaitForSecurityGroups
      BY <2>1, CloudType DEF WaitForSecurityGroups, cloudVars, capaVars
    <2>2. CASE ReconcileVpcEndpoint \/ VpcEndpointCallFails
      <3>1. endpoint' \in [VpcIds -> EndpointStates]
        BY <2>2 DEF ReconcileVpcEndpoint, VpcEndpointCallFails, TypeInv, TypeOK,
                    EndpointStates
      <3> QED
        BY <2>2, <3>1 DEF ReconcileVpcEndpoint, VpcEndpointCallFails, TypeInv, TypeOK,
                          TypedCloud, capaVars
    <2> QED
      BY <2>1, <2>2
  <1>3. faults' \in 0..MaxFaults
    BY FaultType DEF WaitForSecurityGroups, ReconcileVpcEndpoint, VpcEndpointCallFails
  <1> QED
    BY <1>1, <1>2, <1>3, NextTypeHalves

LEMMA DeleteEndpointType ==
    ASSUME ConstantsAssumption, TypeInv,
           SkipVpcEndpoint \/ DeleteVpcEndpoint \/ DeleteVpcEndpointFails \/ WaitForCapa
    PROVE  TypeInv'
  <1>1. TypedObjects'
    <2>1. \/ Return(work, TRUE)
          \/ \E stage \in {"waitForCapa", "deleteRouteTables"} :
                Proceed(stage, work) \/ Proceed(stage, MarkEndpointDeleted)
      BY DEF SkipVpcEndpoint, DeleteVpcEndpoint, DeleteVpcEndpointFails, WaitForCapa
    <2>2. MarkEndpointDeleted \in Cluster
      BY WorkMarks DEF MarkEndpointDeleted, OperatorConditions
    <2>3. {"waitForCapa", "deleteRouteTables"} \subseteq Stages
      BY DEF Stages, DeleteStages
    <2> QED
      BY <2>1, <2>2, <2>3, WorkMarks, ProceedType, ReturnType
  <1>2. TypedCloud'
    <2>1. CASE SkipVpcEndpoint \/ WaitForCapa
      BY <2>1, CloudType DEF SkipVpcEndpoint, WaitForCapa, cloudVars, capaVars
    <2>2. CASE DeleteVpcEndpoint \/ DeleteVpcEndpointFails
      <3>1. endpoint' = endpoint \/ StartEndpointDeletion(work.vpcId)
        BY <2>2 DEF DeleteVpcEndpoint, DeleteVpcEndpointFails
      <3>2. endpoint' \in [VpcIds -> EndpointStates]
        BY <3>1 DEF StartEndpointDeletion, TypeInv, TypeOK, EndpointStates
      <3> QED
        BY <2>2, <3>2 DEF DeleteVpcEndpoint, DeleteVpcEndpointFails, TypeInv, TypeOK,
                          TypedCloud, capaVars
    <2> QED
      BY <2>1, <2>2
  <1>3. faults' \in 0..MaxFaults
    BY FaultType DEF SkipVpcEndpoint, DeleteVpcEndpoint, DeleteVpcEndpointFails, WaitForCapa
  <1> QED
    BY <1>1, <1>2, <1>3, NextTypeHalves

LEMMA DeleteRouteTablesType ==
    ASSUME ConstantsAssumption, TypeInv, DeleteRouteTables \/ DeleteRouteTablesFails
    PROVE  TypeInv'
  <1>. DEFINE Tables == [VpcIds -> [Slots -> RouteTableStates]]
  <1>1. TypedObjects'
    <2>1. \/ Return(Mark(work, "RouteTablesReady", "Deleting"), TRUE)
          \/ Proceed("deleteSubnets", work)
          \/ Proceed("deleteSubnets", Mark(work, "RouteTablesReady", "Deleted"))
      BY DEF DeleteRouteTables, DeleteRouteTablesFails
    <2>2. "deleteSubnets" \in Stages
      BY DEF Stages, DeleteStages
    <2> QED
      BY <2>1, <2>2, WorkMarks, ProceedType, ReturnType DEF OperatorConditions
  <1>2. routeTable' \in Tables
    <2>1. /\ routeTable \in Tables
          /\ "none" \in RouteTableStates /\ "unassociated" \in RouteTableStates
      BY DEF TypeInv, TypeOK, RouteTableStates
    <2>2. CASE routeTable' = routeTable
      BY <2>1, <2>2
    <2>3. CASE work.vpcId # NoId
      <3>1. work.vpcId \in VpcIds
        BY <2>3, WorkMarks DEF Ids
      <3>2. \A S : SetSlots(routeTable, work.vpcId, S, "none") \in Tables
        BY <2>1, <3>1, SetSlotsType
      <3>3. \/ \E S : routeTable' = SetSlots(routeTable, work.vpcId, S, "none")
            \/ \E S, T : routeTable' =
                    SetSlots(SetSlots(routeTable, work.vpcId, S, "none"),
                             work.vpcId, T, "unassociated")
        BY <2>3 DEF DeleteRouteTables, DeleteRouteTablesFails
      <3>4. \A f \in Tables : \A T : SetSlots(f, work.vpcId, T, "unassociated") \in Tables
        BY <2>1, <3>1, SetSlotsType
      <3> QED
        <4>. HIDE DEF Tables
        <4> QED
          BY <3>2, <3>3, <3>4
    <2> QED
      BY <2>2, <2>3 DEF DeleteRouteTables, DeleteRouteTablesFails
  <1>3. TypedCloud'
    BY <1>2 DEF DeleteRouteTables, DeleteRouteTablesFails, TypeInv, TypeOK, TypedCloud, capaVars
  <1>4. faults' \in 0..MaxFaults
    BY FaultType DEF DeleteRouteTables, DeleteRouteTablesFails
  <1> QED
    BY <1>1, <1>3, <1>4, NextTypeHalves

LEMMA DeleteSubnetsType ==
    ASSUME ConstantsAssumption, TypeInv, DeleteSubnets \/ DeleteSubnetsFails
    PROVE  TypeInv'
  <1>1. TypedObjects'
    <2>1. \/ Return(Mark(work, "SubnetsReady", "Deleting"), TRUE)
          \/ Proceed("deleteVpc", work)
          \/ Proceed("deleteVpc", Mark(work, "SubnetsReady", "Deleted"))
      BY DEF DeleteSubnets, DeleteSubnetsFails
    <2>2. "deleteVpc" \in Stages
      BY DEF Stages, DeleteStages
    <2> QED
      BY <2>1, <2>2, WorkMarks, ProceedType, ReturnType DEF OperatorConditions
  <1>2. subnet' \in [VpcIds -> [Slots -> SubnetStates]]
    <2>1. subnet \in [VpcIds -> [Slots -> SubnetStates]] /\ "none" \in SubnetStates
      BY DEF TypeInv, TypeOK, SubnetStates
    <2>2. subnet' = subnet \/ \E S : subnet' = WithoutSubnets(S)
      BY DEF DeleteSubnets, DeleteSubnetsFails
    <2> QED
      BY <2>1, <2>2 DEF WithoutSubnets
  <1>3. TypedCloud'
    BY <1>2 DEF DeleteSubnets, DeleteSubnetsFails, TypeInv, TypeOK, TypedCloud, capaVars
  <1>4. faults' \in 0..MaxFaults
    BY FaultType DEF DeleteSubnets, DeleteSubnetsFails
  <1> QED
    BY <1>1, <1>3, <1>4, NextTypeHalves

\* Dropping the finalizer from a marked copy.
LEMMA RemoveFinalizerCluster ==
    ASSUME NEW o \in Cluster
    PROVE  /\ RemoveFinalizer(o) \in Cluster
           /\ RemoveFinalizer(o).deleting = o.deleting
           /\ RemoveFinalizer(o).vpcId = o.vpcId
           /\ RemoveFinalizer(o).finalizers = o.finalizers \ {"operator"}
  BY DEF RemoveFinalizer, Cluster

LEMMA DeleteVpcType ==
    ASSUME ConstantsAssumption, TypeInv, DeleteVpc \/ DeleteVpcFails
    PROVE  TypeInv'
  <1>1. TypedObjects'
    <2>1. \/ Return(Mark(work, "VpcReady", "Deleting"), TRUE)
          \/ Return(RemoveFinalizer(work), FALSE)
          \/ Return(RemoveFinalizer(Mark(work, "VpcReady", "Deleted")), FALSE)
      BY DEF DeleteVpc, DeleteVpcFails
    <2> QED
      BY <2>1, WorkMarks, RemoveFinalizerCluster, ReturnType DEF OperatorConditions
  <1>2. vpc' \in [VpcIds -> VpcStates]
    BY DEF DeleteVpc, DeleteVpcFails, VpcIsGone, cloudVars, TypeInv, TypeOK, VpcStates
  <1>3. TypedCloud'
    BY <1>2 DEF DeleteVpc, DeleteVpcFails, TypeInv, TypeOK, TypedCloud, capaVars
  <1>4. faults' \in 0..MaxFaults
    BY FaultType DEF DeleteVpc, DeleteVpcFails
  <1> QED
    BY <1>1, <1>3, <1>4, NextTypeHalves

LEMMA PatchType ==
    ASSUME ConstantsAssumption, TypeInv, PatchConditions \/ PatchObject
    PROVE  TypeInv'
  <1>1. TypedCloud'
    BY CloudType DEF PatchConditions, PatchObject
  <1>2. faults' \in 0..MaxFaults
    BY FaultType DEF PatchConditions, PatchObject
  <1>3. obj' \in Cluster /\ cache' \in Cluster /\ queued' \in BOOLEAN
    <2>1. WithConditions(obj) \in Cluster /\ Settle(MergePatch(obj)) \in Cluster
      BY PatchCluster, SettleCluster DEF TypeInv
    <2>2. CASE ApiWrite(WithConditions(obj)) \/ ApiWrite(Settle(MergePatch(obj)))
      BY <2>1, <2>2, WriteType
    <2>3. CASE UNCHANGED <<obj, cache>> /\ queued' \in BOOLEAN
      BY <2>3 DEF TypeInv, TypeOK
    <2> QED
      BY <2>2, <2>3 DEF PatchConditions, PatchObject, TypeInv, TypeOK
  <1>4. base' \in Cluster /\ work' \in Cluster /\ pc' \in {"patchObject", "idle"}
    BY BlankCluster DEF PatchConditions, PatchObject, EndReconcile, TypeInv, TypeOK
  <1>5. TypedObjects'
    BY <1>3, <1>4 DEF TypedObjects, StageHasVpc, Stages
  <1> QED
    BY <1>1, <1>2, <1>5, NextTypeHalves

LEMMA ProcessType ==
    ASSUME ConstantsAssumption, TypeInv,
           Crash \/ SyncCache \/ UserDeletes \/ UserChangesVpcMode
    PROVE  TypeInv'
  <1>1. TypedCloud'
    BY CloudType DEF Crash, SyncCache, UserDeletes, UserChangesVpcMode
  <1>2. faults' \in 0..MaxFaults
    BY FaultType DEF Crash, SyncCache, UserDeletes, UserChangesVpcMode, TypeInv, TypeOK
  <1>3. TypedObjects'
    <2>1. CASE Crash
      BY <2>1, BlankCluster
         DEF Crash, EndReconcile, TypeInv, TypeOK, TypedObjects, StageHasVpc, Stages
    <2>2. CASE SyncCache
      BY <2>2 DEF SyncCache, TypeInv, TypeOK, TypedObjects, StageHasVpc
    <2>3. CASE UserDeletes
      <3>1. Settle([obj EXCEPT !.deleting = TRUE]) \in Cluster
        BY ClusterFields, SettleCluster DEF TypeInv, TypeOK
      <3>2. obj' \in Cluster /\ cache' \in Cluster /\ queued' \in BOOLEAN
        BY <2>3, <3>1, WriteType DEF UserDeletes
      <3> QED
        BY <2>3, <3>2 DEF UserDeletes, TypeInv, TypeOK, TypedObjects, StageHasVpc
    <2>4. CASE UserChangesVpcMode
      <3>1. Settle([obj EXCEPT !.private = ~@]) \in Cluster
        BY ClusterFields, SettleCluster DEF TypeInv, TypeOK
      <3>2. obj' \in Cluster /\ cache' \in Cluster /\ queued' \in BOOLEAN
        BY <2>4, <3>1, WriteType DEF UserChangesVpcMode
      <3> QED
        BY <2>4, <3>2 DEF UserChangesVpcMode, TypeInv, TypeOK, TypedObjects, StageHasVpc
    <2> QED
      BY <2>1, <2>2, <2>3, <2>4
  <1> QED
    BY <1>1, <1>2, <1>3, NextTypeHalves

LEMMA Ec2Type ==
    ASSUME TypeInv, Ec2
    PROVE  TypeInv'
  <1>1. TypedCloud'
    <2>1. CASE \E v \in VpcIds : VpcBecomesAvailable(v)
      BY <2>1 DEF VpcBecomesAvailable, TypeInv, TypeOK, TypedCloud, VpcStates, capaVars
    <2>2. CASE \E v \in VpcIds : EndpointSettles(v)
      BY <2>2 DEF EndpointSettles, TypeInv, TypeOK, TypedCloud, EndpointStates, capaVars
    <2>3. CASE \E v \in VpcIds, s \in Slots : SubnetBecomesAvailable(v, s)
      BY <2>3 DEF SubnetBecomesAvailable, TypeInv, TypeOK, TypedCloud, SubnetStates, capaVars
    <2>4. CASE \E v \in VpcIds, s \in Slots : RouteTableAssociates(v, s)
      BY <2>4 DEF RouteTableAssociates, TypeInv, TypeOK, TypedCloud, RouteTableStates, capaVars
    <2> QED
      BY <2>1, <2>2, <2>3, <2>4 DEF Ec2
  <1>2. UNCHANGED operatorVars
    BY DEF Ec2, VpcBecomesAvailable, EndpointSettles, SubnetBecomesAvailable,
           RouteTableAssociates
  <1> QED
    BY <1>1, <1>2, NextTypeHalves
       DEF operatorVars, TypeInv, TypeOK, TypedObjects, StageHasVpc

\* What CAPA may do to the object: mark a condition of its own, or add or
\* remove its own finalizer.
CapaWrite ==
    \/ \E c \in CapaConditions, value \in ConditionValues : CapaWrites(Mark(obj, c, value))
    \/ CapaWrites([obj EXCEPT !.finalizers = @ \cup {"capa"}])
    \/ CapaWrites([obj EXCEPT !.finalizers = @ \ {"capa"}])

AnyCapaStep ==
    CapaSteps \/ \E c \in CapaConditions : CapaReportsFailure(c) \/ CapaFailsDeletion(c)

LEMMA CapaStepWrites ==
    ASSUME AnyCapaStep
    PROVE  CapaWrite
  <1>1. /\ \A value \in {"True", "False", "Deleting", "Deleted", "DeletingFailed"} :
            value \in ConditionValues
        /\ "LoadBalancerReady" \in CapaConditions
        /\ "ClusterSecurityGroupsReady" \in CapaConditions
    BY DEF ConditionValues, CapaConditions
  <1>2. CASE CapaAddsFinalizer \/ CapaRemovesFinalizer
    BY <1>2 DEF CapaAddsFinalizer, CapaRemovesFinalizer, CapaWrite
  <1>3. CASE CapaCreatesSecurityGroups \/ CapaCreatesLoadBalancer
    BY <1>1, <1>3 DEF CapaCreatesSecurityGroups, CapaCreatesLoadBalancer, CapaWrite
  <1>4. CASE \E c \in CapaConditions :
                CapaReportsReady(c) \/ CapaReportsFailure(c) \/ CapaStartsDeletion(c)
    BY <1>1, <1>4 DEF CapaReportsReady, CapaReportsFailure, CapaStartsDeletion, CapaWrite
  <1>5. CASE \E c \in CapaConditions : CapaFinishesDeletion(c) \/ CapaFailsDeletion(c)
    BY <1>1, <1>5 DEF CapaFinishesDeletion, CapaFailsDeletion, CapaWrite
  <1> QED
    BY <1>2, <1>3, <1>4, <1>5 DEF AnyCapaStep, CapaSteps

LEMMA CapaType ==
    ASSUME ConstantsAssumption, TypeInv, AnyCapaStep
    PROVE  TypeInv'
  <1>1. PICK o \in Cluster : CapaWrites(o)
    <2>1. /\ obj \in Cluster /\ obj.finalizers \cup {"capa"} \in SUBSET Finalizers
          /\ obj.finalizers \ {"capa"} \in SUBSET Finalizers
          /\ CapaConditions \subseteq Conditions
      BY DEF TypeInv, TypeOK, Cluster, Finalizers, Conditions
    <2> QED
      BY <2>1, CapaStepWrites, MarkCluster, ClusterFields DEF CapaWrite
  <1>2. obj' \in Cluster /\ cache' \in Cluster /\ queued' \in BOOLEAN
    BY <1>1, SettleCluster, WriteType DEF CapaWrites
  <1>3. TypedObjects'
    BY <1>1, <1>2 DEF CapaWrites, TypeInv, TypeOK, TypedObjects, StageHasVpc
  <1>4. lb' \in Ids /\ sg' \in Ids
    BY DEF AnyCapaStep, CapaSteps, CapaAddsFinalizer, CapaRemovesFinalizer,
           CapaCreatesSecurityGroups, CapaCreatesLoadBalancer, CapaReportsReady,
           CapaReportsFailure, CapaStartsDeletion, CapaFinishesDeletion,
           CapaFailsDeletion, TypeInv, TypeOK, Cluster, Ids
  <1>5. TypedCloud'
    BY <1>1, <1>4 DEF CapaWrites, cloudVars, TypeInv, TypeOK, TypedCloud
  <1>6. faults' \in 0..MaxFaults
    BY FaultType
       DEF AnyCapaStep, CapaSteps, CapaAddsFinalizer, CapaRemovesFinalizer,
           CapaCreatesSecurityGroups, CapaCreatesLoadBalancer, CapaReportsReady,
           CapaReportsFailure, CapaStartsDeletion, CapaFinishesDeletion,
           CapaFailsDeletion, NoFault
  <1> QED
    BY <1>3, <1>5, <1>6, NextTypeHalves

LEMMA InitType ==
    ASSUME ConstantsAssumption, Init
    PROVE  TypeInv
  BY BlankCluster
     DEF Init, ConstantsAssumption, TypeInv, TypeOK, StageHasVpc, Ids, VpcStates,
         SubnetStates, RouteTableStates, EndpointStates, Stages

\* Every step of the system keeps every variable in its type, and no stage
\* that works inside a VPC is entered without a VPC ID.
LEMMA StepType ==
    ASSUME ConstantsAssumption, TypeInv, [Next]_vars
    PROVE  TypeInv'
  <1>1. CASE OperatorSteps
    BY <1>1, StartType, VpcStageType, SubnetStageType, RouteTableStageType,
       EndpointStageType, DeleteEndpointType, DeleteRouteTablesType,
       DeleteSubnetsType, DeleteVpcType, PatchType
       DEF OperatorSteps
  <1>2. CASE SyncCache \/ Crash \/ UserDeletes \/ UserChangesVpcMode
    BY <1>2, ProcessType
  <1>3. CASE Ec2
    BY <1>3, Ec2Type
  <1>4. CASE AnyCapaStep
    BY <1>4, CapaType
  <1>5. CASE UNCHANGED vars
    BY <1>5 DEF vars, cloudVars, capaVars, TypeInv, TypeOK, StageHasVpc
  <1> QED
    BY <1>1, <1>2, <1>3, <1>4, <1>5 DEF Next, AnyCapaStep, Finished

\* Type correctness, for every number of VPC IDs, subnets and faults.
THEOREM TypeCorrect == Spec => []TypeOK
  <1>1. Init => TypeInv
    BY InitType, ConstantsAssumption
  <1>2. TypeInv /\ [Next]_vars => TypeInv'
    BY StepType, ConstantsAssumption
  <1>3. TypeInv => TypeOK
    BY DEF TypeInv
  <1> QED
    BY <1>1, <1>2, <1>3, PTL DEF Spec
=============================================================================
