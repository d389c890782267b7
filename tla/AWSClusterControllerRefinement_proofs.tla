--------------- MODULE AWSClusterControllerRefinement_proofs ---------------
(***************************************************************************)
(* Proofs that the reconciler implements NetworkLifecycle, and treats the  *)
(* route tables of every VPC as RouteTableSlots allows, for every number   *)
(* of subnets, VPC IDs and faults.                                         *)
(***************************************************************************)
EXTENDS AWSClusterControllerRefinement, AWSClusterController_safety_proofs

\* A VPC ID that a reconcile found out itself names a VPC that lives: it
\* created that VPC, and only a deleting reconcile ends one.
FreshInv ==
    pc # "idle" /\ work.vpcId # base.vpcId => VpcLives(work.vpcId)

\* The VPC lives after the step.
LivesOn(v) == vpc'[v] \in {"pending", "available"}

\* What NetworkLifecycle sees of the state.
Alive   == obj.vpcId # NoId /\ VpcLives(obj.vpcId)
Guarded == obj.exists /\ "operator" \in obj.finalizers

LifecycleInv == TypeInv /\ DnsInv /\ TeardownInv /\ GuardInv /\ FreshInv

-----------------------------------------------------------------------------
(* A new VPC ID in the copy names a living VPC.                            *)

LEMMA CreatedVpcLives ==
    ASSUME TypeInv, StageStep, pc = "vpc", work.vpcId = NoId
    PROVE  work'.vpcId = NoId \/ LivesOn(work'.vpcId)
  <1>1. CreateVpc \/ VpcCallFails
    BY DEF StageStep, GetVpc, ReconcileSubnets, SubnetsCallFails,
           ReconcileRouteTables, RouteTablesCallFails, WaitForSecurityGroups,
           ReconcileVpcEndpoint, VpcEndpointCallFails, SkipVpcEndpoint,
           DeleteVpcEndpoint, DeleteVpcEndpointFails, WaitForCapa,
           DeleteRouteTables, DeleteRouteTablesFails, DeleteSubnets,
           DeleteSubnetsFails, DeleteVpc, DeleteVpcFails
  <1>2. CASE VpcCallFails
    BY <1>2 DEF VpcCallFails, Return
  <1>3. CASE CreateVpc
    <2>1. PICK v \in VpcIds :
            /\ vpc' = [vpc EXCEPT ![v] = "pending"]
            /\ AfterVpc(v, "pending") \/ Return(work, TRUE)
      BY <1>3 DEF CreateVpc
    <2>2. vpc'[v] = "pending"
      BY <2>1 DEF TypeInv, TypeOK
    <2>3. CASE AfterVpc(v, "pending")
      <3>1. work' = Mark([work EXCEPT !.vpcId = v], "VpcReady", "False")
        BY <2>3 DEF AfterVpc, Return
      <3>2. work'.vpcId = v
        BY <3>1 DEF Mark, TypeInv, TypeOK, Cluster
      <3> QED
        BY <2>2, <3>2 DEF LivesOn
    <2>4. CASE Return(work, TRUE)
      BY <2>4 DEF Return
    <2> QED
      BY <2>1, <2>3, <2>4
  <1> QED
    BY <1>1, <1>2, <1>3

\* Only a reconcile that deletes has got to deleteVpc.
LEMMA VpcKeepsLiving ==
    ASSUME TypeInv, [Next]_vars, pc # "deleteVpc", NEW v \in VpcIds, VpcLives(v)
    PROVE  LivesOn(v)
  BY NextVpcMoves DEF VpcMoves, VpcLives, LivesOn

LEMMA StepFresh ==
    ASSUME ConstantsAssumption, ~CacheLags, TypeInv, TeardownInv, GuardInv, FreshInv,
           [Next]_vars
    PROVE  FreshInv'
  <1>1. cache = obj /\ WorkInv
    BY DEF GuardInv
  <1>2. ASSUME pc # "idle", work.vpcId # base.vpcId
        PROVE  /\ pc # "deleteVpc"
               /\ work.vpcId \in VpcIds
               /\ LivesOn(work.vpcId)
    <2>1. NormalWork /\ pc # "deleteVpc"
      BY <1>1, <1>2 DEF WorkInv, NormalWork, DeletingWork, TeardownInv, DeleteStages
    <2>2. work.vpcId \in VpcIds
      BY <1>2, <2>1, WorkMarks DEF NormalWork, Ids
    <2> QED
      BY <1>2, <2>1, <2>2, VpcKeepsLiving DEF FreshInv
  <1>3. CASE StageStep /\ StageShape /\ pc \in NormalStages \cup DeleteStages
    <2>1. UNCHANGED base /\ pc # "idle"
      BY <1>3 DEF StageShape, NormalStages, DeleteStages
    <2>2. CASE work'.vpcId = work.vpcId
      BY <1>2, <2>1, <2>2 DEF FreshInv, VpcLives, LivesOn
    <2>3. CASE work'.vpcId # work.vpcId
      <3>1. pc = "vpc" /\ work.vpcId = NoId
        BY <1>3, <2>3 DEF StageShape, SameIdentity
      <3>2. LivesOn(work'.vpcId)
        BY <1>3, <2>3, <3>1, CreatedVpcLives
      <3> QED
        BY <3>2 DEF FreshInv, VpcLives, LivesOn
    <2> QED
      BY <2>2, <2>3
  <1>4. CASE Reconcile
    <2>1. AddFinalizer(cache).vpcId = cache.vpcId
      BY DEF AddFinalizer, TypeInv, TypeOK, Cluster
    <2> QED
      BY <1>4, <2>1 DEF Reconcile, FreshInv
  <1>5. CASE PatchObject \/ Crash
    BY <1>5, PatchShape DEF ObjectPatched, Crash, EndReconcile, FreshInv
  <1>6. CASE \/ PatchConditions \/ OthersWrite
             \/ UNCHANGED <<obj, cache, base, work, pc>>
    <2>1. UNCHANGED <<base, work>> /\ (pc' # "idle" => pc # "idle")
      BY <1>6, PatchShape DEF ConditionsPatched, OthersWrite
    <2> QED
      BY <1>2, <2>1 DEF FreshInv, VpcLives, LivesOn
  <1>7. ~SyncCache
    BY <1>1 DEF SyncCache
  <1> QED
    BY <1>3, <1>4, <1>5, <1>6, <1>7, NextShape DEF StepShape

-----------------------------------------------------------------------------
(* Every step is a step or a stutter of NetworkLifecycle.                  *)

\* The VPC the object names dies in deleteVpc only, and does not come back.
LEMMA AliveMoves ==
    ASSUME TypeInv, DnsInv, [Next]_vars, obj'.vpcId = obj.vpcId
    PROVE  /\ Alive' => Alive
           /\ Alive /\ ~Alive' => pc = "deleteVpc"
  <1>1. VpcMoves /\ vpc \in [VpcIds -> VpcStates] /\ dns \subseteq VpcIds
    BY NextVpcMoves DEF TypeInv, TypeOK
  <1>2. obj.vpcId # NoId => obj.vpcId \in VpcIds /\ vpc[obj.vpcId] # "none"
    BY <1>1 DEF DnsInv
  <1> QED
    BY <1>1, <1>2 DEF Alive, VpcLives, VpcMoves, VpcStates

\* A step of the implementation that changes nothing NetworkLifecycle sees.
LEMMA Stutter ==
    ASSUME obj'.vpcId = obj.vpcId, obj'.deleting = obj.deleting,
           Alive' <=> Alive, Guarded' <=> Guarded
    PROVE  UNCHANGED Lifecycle!vars
  BY DEF Lifecycle!vars, Alive, Guarded

LEMMA ObjectKept ==
    ASSUME ConstantsAssumption, LifecycleInv, [Next]_vars, obj' = obj
    PROVE  [Lifecycle!Next]_(Lifecycle!vars)
  <1>1. Guarded' <=> Guarded
    BY DEF Guarded
  <1>2. CASE Alive' <=> Alive
    BY <1>1, <1>2, Stutter
  <1>3. CASE ~(Alive' <=> Alive)
    <2>1. Alive /\ ~Alive' /\ pc = "deleteVpc"
      BY <1>3, AliveMoves DEF LifecycleInv
    <2>2. obj.deleting
      BY <2>1 DEF LifecycleInv, TeardownInv, DeleteStages
    <2>3. Guarded
      BY <2>1 DEF LifecycleInv, GuardInv, FinalizerGuardsVpc, Alive, Guarded
    <2>4. Lifecycle!Release
      BY <1>1, <2>1, <2>2, <2>3 DEF Lifecycle!Release, Alive, Guarded
    <2> QED
      BY <2>4 DEF Lifecycle!Next
  <1> QED
    BY <1>2, <1>3

LEMMA OthersStep ==
    ASSUME ConstantsAssumption, LifecycleInv, [Next]_vars, OthersWrite
    PROVE  [Lifecycle!Next]_(Lifecycle!vars)
  <1>1. PICK o \in Cluster :
            /\ NewObj(Settle(o))
            /\ o.exists = obj.exists /\ o.vpcId = obj.vpcId
            /\ obj.deleting => o.deleting
            /\ "operator" \in o.finalizers <=> "operator" \in obj.finalizers
    BY DEF OthersWrite
  <1>2. /\ obj' = Settle(o) /\ obj'.vpcId = obj.vpcId
        /\ obj'.deleting = o.deleting /\ obj'.finalizers = o.finalizers
        /\ obj'.exists <=> o.exists /\ ~(o.deleting /\ o.finalizers = {})
    BY <1>1, SettleCluster DEF NewObj
  <1>3. Guarded' <=> Guarded
    BY <1>1, <1>2 DEF Guarded
  <1>4. Alive' <=> Alive
    BY <1>2 DEF OthersWrite, Alive, VpcLives
  <1>5. CASE obj'.deleting = obj.deleting
    BY <1>2, <1>3, <1>4, <1>5, Stutter
  <1>6. CASE obj'.deleting # obj.deleting
    <2>1. obj.deleting \in BOOLEAN /\ o.deleting \in BOOLEAN
      BY DEF LifecycleInv, TypeInv, TypeOK, Cluster
    <2>2. ~obj.deleting /\ obj'.deleting = TRUE
      BY <1>1, <1>2, <1>6, <2>1
    <2>3. Lifecycle!RequestDeletion
      BY <1>2, <1>3, <1>4, <2>2 DEF Lifecycle!RequestDeletion, Alive, Guarded
    <2> QED
      BY <2>3 DEF Lifecycle!Next
  <1> QED
    BY <1>5, <1>6

LEMMA ConditionsStep ==
    ASSUME ConstantsAssumption, LifecycleInv, [Next]_vars, PatchConditions
    PROVE  [Lifecycle!Next]_(Lifecycle!vars)
  <1>1. /\ pc = "patchConditions"
        /\ obj'.vpcId = obj.vpcId /\ obj'.deleting = obj.deleting
        /\ obj'.exists = obj.exists /\ obj'.finalizers = obj.finalizers
    BY PatchShape DEF ConditionsPatched, LifecycleInv
  <1>2. Alive' <=> Alive
    BY <1>1, AliveMoves DEF LifecycleInv
  <1>3. Guarded' <=> Guarded
    BY <1>1 DEF Guarded
  <1> QED
    BY <1>1, <1>2, <1>3, Stutter

LEMMA ObjectStep ==
    ASSUME ConstantsAssumption, LifecycleInv, [Next]_vars, PatchObject
    PROVE  [Lifecycle!Next]_(Lifecycle!vars)
  <1>1. ObjectPatched /\ pc = "patchObject"
    BY PatchShape DEF ObjectPatched, LifecycleInv
  <1>2. CASE UNCHANGED <<obj, cache>>
    BY <1>2, ObjectKept
  <1>3. CASE ~(UNCHANGED <<obj, cache>>)
    <2>1. /\ obj'.vpcId = IF work.vpcId # base.vpcId THEN work.vpcId ELSE obj.vpcId
          /\ obj'.finalizers = IF work.finalizers # base.finalizers
                               THEN work.finalizers ELSE obj.finalizers
          /\ obj'.exists <=> ~(obj'.deleting /\ obj'.finalizers = {})
          /\ obj.exists /\ obj'.deleting = obj.deleting
      BY <1>1, <1>3, PatchCluster DEF ObjectPatched, LifecycleInv, TypeInv
    <2>2. obj.deleting => obj'.finalizers \subseteq obj.finalizers
      BY <1>1, <1>3 DEF ObjectPatched, Forbidden
    <2>3. /\ base.vpcId = obj.vpcId
          /\ "operator" \in base.finalizers <=> "operator" \in obj.finalizers
          /\ NormalWork \/ DeletingWork
      BY <1>1 DEF LifecycleInv, GuardInv, WorkInv
    <2>4. obj'.vpcId = obj.vpcId => (Alive' <=> Alive)
      BY <1>1, AliveMoves DEF LifecycleInv
    <2>5. CASE NormalWork
      <3>1. "operator" \in obj'.finalizers /\ obj'.exists
        BY <2>1, <2>3, <2>5 DEF NormalWork
      <3>2. Guarded \/ ~obj.deleting
        BY <2>1, <2>2, <3>1 DEF Guarded
      <3>3. CASE obj'.vpcId = obj.vpcId
        <4>1. CASE Guarded
          BY <2>1, <2>4, <3>1, <3>3, <4>1, Stutter DEF Guarded
        <4>2. CASE ~Guarded
          <5>1. Lifecycle!Guard
            BY <2>1, <2>4, <3>1, <3>2, <3>3, <4>2 DEF Lifecycle!Guard, Alive, Guarded
          <5> QED
            BY <5>1 DEF Lifecycle!Next
        <4> QED
          BY <4>1, <4>2
      <3>4. CASE obj'.vpcId # obj.vpcId
        <4>1. /\ obj'.vpcId = work.vpcId /\ work.vpcId # base.vpcId
              /\ obj.vpcId = NoId
          BY <2>1, <2>3, <2>5, <3>4 DEF NormalWork
        <4>2. work.vpcId \in VpcIds
          BY <2>3, <4>1, WorkMarks DEF LifecycleInv, Ids
        <4>3. LivesOn(work.vpcId)
          BY <1>1, <4>1, <4>2, VpcKeepsLiving DEF LifecycleInv, FreshInv
        <4>4. Alive'
          BY <3>4, <4>1, <4>3 DEF Alive, VpcLives, LivesOn
        <4>5. Lifecycle!Acquire
          BY <2>1, <3>1, <3>2, <4>1, <4>2, <4>4 DEF Lifecycle!Acquire, Alive, Guarded
        <4> QED
          BY <4>5 DEF Lifecycle!Next
      <3> QED
        BY <3>3, <3>4
    <2>6. CASE DeletingWork
      <3>1. obj'.vpcId = obj.vpcId /\ work.vpcId = obj.vpcId /\ (Alive' <=> Alive)
        BY <2>1, <2>3, <2>4, <2>6 DEF DeletingWork
      <3>2. CASE work.finalizers = base.finalizers
        <4>1. Guarded' <=> Guarded
          BY <2>1, <3>2 DEF Guarded
        <4> QED
          BY <2>1, <3>1, <4>1, Stutter
      <3>3. CASE work.finalizers # base.finalizers
        <4>1. /\ work.finalizers = base.finalizers \ {"operator"}
              /\ work.vpcId # NoId => vpc[work.vpcId] = "gone"
              /\ base.deleting
          BY <2>6, <3>3 DEF DeletingWork
        <4>2. "operator" \in base.finalizers
          BY <3>3, <4>1
        <4>3. Guarded /\ ~Guarded'
          BY <2>1, <2>3, <3>3, <4>1, <4>2 DEF Guarded
        <4>4. obj.deleting
          BY <4>1 DEF LifecycleInv, TeardownInv
        <4>5. ~Alive
          BY <3>1, <4>1 DEF Alive, VpcLives
        <4>6. Lifecycle!Finish
          BY <2>1, <3>1, <4>3, <4>4, <4>5 DEF Lifecycle!Finish, Alive, Guarded
        <4> QED
          BY <4>6 DEF Lifecycle!Next
      <3> QED
        BY <3>2, <3>3
    <2> QED
      BY <2>3, <2>5, <2>6
  <1> QED
    BY <1>2, <1>3

LEMMA StepLifecycle ==
    ASSUME ConstantsAssumption, LifecycleInv, [Next]_vars
    PROVE  [Lifecycle!Next]_(Lifecycle!vars)
  <1>1. CASE StageShape \/ Reconcile \/ Crash \/ SyncCache
                \/ UNCHANGED <<obj, cache, base, work, pc>>
    <2>1. obj' = obj
      BY <1>1 DEF StageShape, Reconcile, Crash, SyncCache
    <2> QED
      BY <2>1, ObjectKept
  <1> QED
    BY <1>1, ConditionsStep, ObjectStep, OthersStep, NextShape
       DEF StepShape, LifecycleInv

LEMMA InitLifecycle ==
    ASSUME ConstantsAssumption, Init
    PROVE  LifecycleInv /\ Lifecycle!Init
  <1>1. FreshInv
    BY DEF Init, FreshInv
  <1>2. Lifecycle!Init
    BY DEF Init, Lifecycle!Init, NewCluster
  <1> QED
    BY <1>1, <1>2, InitType, InitDns, InitTeardown, InitGuard DEF LifecycleInv

LEMMA StepLifecycleInv ==
    ASSUME ConstantsAssumption, ~CacheLags, LifecycleInv, [Next]_vars
    PROVE  LifecycleInv'
  BY StepType, StepDns, StepTeardown, StepGuard, StepFresh DEF LifecycleInv

\* With the cache up to date, the object and its VPC live through the steps of
\* NetworkLifecycle, whatever the user, CAPA, EC2, failed calls and crashes
\* do in between.
THEOREM NetworkLifecycleIsImplemented ==
    ASSUME ~CacheLags
    PROVE  Spec => ImplementsNetworkLifecycle
  <1>1. Init => LifecycleInv /\ Lifecycle!Init
    BY InitLifecycle, ConstantsAssumption
  <1>2. LifecycleInv /\ [Next]_vars => LifecycleInv'
    BY StepLifecycleInv, ConstantsAssumption
  <1>3. LifecycleInv /\ [Next]_vars => [Lifecycle!Next]_(Lifecycle!vars)
    BY StepLifecycle, ConstantsAssumption
  <1> QED
    BY <1>1, <1>2, <1>3, PTL DEF Spec, ImplementsNetworkLifecycle, Lifecycle!Spec
-----------------------------------------------------------------------------
(* The route tables of every VPC.                                          *)

\* At most one table of a VPC waits for its association: what an attempt that
\* failed has left is cleared away by the next.
OneLeftover(f) ==
    \A v \in VpcIds : \A s, t \in Slots :
        f[v][s] = "unassociated" /\ f[v][t] = "unassociated" => s = t

LeftoverInv == ~obj.deleting => OneLeftover(routeTable)

LEMMA KeepsOneLeftover ==
    ASSUME ConstantsAssumption, TypeInv, pc \notin DeleteStages, [Next]_vars,
           OneLeftover(routeTable)
    PROVE  OneLeftover(routeTable')
  <1>1. routeTable \in [VpcIds -> [Slots -> RouteTableStates]]
    BY DEF TypeInv, TypeOK
  <1>2. CASE ReconcileRouteTables
    BY <1>1, <1>2 DEF ReconcileRouteTables, SetSlots, WithoutRouteTable, OneLeftover
  <1>3. CASE RouteTablesCallFails
    <2>. DEFINE clean == SetSlots(routeTable, work.vpcId, Unassociated(work.vpcId), "none")
                Tables0 == [VpcIds -> [Slots -> RouteTableStates]]
    <2>1. work.vpcId \in VpcIds
      BY <1>3, WorkMarks DEF TypeInv, StageHasVpc, RouteTablesCallFails, Ids
    <2>2. \A S : OneLeftover(SetSlots(routeTable, work.vpcId, S, "none"))
      BY <1>1, <2>1 DEF SetSlots, OneLeftover
    <2>3. /\ clean \in Tables0 /\ OneLeftover(clean)
          /\ \A s \in Slots : clean[work.vpcId][s] # "unassociated"
      <3>1. clean \in Tables0
        BY <1>1, <2>1, SetSlotsType DEF RouteTableStates
      <3>2. \A s \in Slots : clean[work.vpcId][s] # "unassociated"
        BY <1>1, <2>1 DEF SetSlots, Unassociated
      <3> QED
        BY <2>2, <3>1, <3>2
    <2>4. ASSUME NEW k \in Slots,
                 NEW state \in {"none", "unassociated"},
                 NEW made \in {"associating", "associated"},
                 routeTable' =
                   SetSlots(SetSlots(clean, work.vpcId,
                                     Before(WithoutRouteTable(work.vpcId), k), made),
                            work.vpcId, {k}, state)
          PROVE  OneLeftover(routeTable')
      <3>. DEFINE between == SetSlots(clean, work.vpcId,
                                      Before(WithoutRouteTable(work.vpcId), k), made)
      <3>1. /\ between \in Tables0 /\ OneLeftover(between)
            /\ \A s \in Slots : between[work.vpcId][s] # "unassociated"
        <4>. HIDE DEF clean
        <4> QED
          BY <2>1, <2>3, SetSlotsType DEF SetSlots, RouteTableStates, OneLeftover
      <3>2. routeTable' = SetSlots(between, work.vpcId, {k}, state)
        BY <2>4
      <3>. HIDE DEF between
      <3> QED
        BY <2>1, <3>1, <3>2 DEF SetSlots, OneLeftover
    <2> QED
      BY <1>3, <2>2, <2>4 DEF RouteTablesCallFails, WithoutRouteTable
  <1>4. ASSUME NEW w \in VpcIds, NEW t \in Slots, RouteTableAssociates(w, t)
        PROVE  OneLeftover(routeTable')
    BY <1>1, <1>4 DEF RouteTableAssociates, OneLeftover
  <1>5. CASE UNCHANGED routeTable
    BY <1>5 DEF OneLeftover
  <1> QED
    BY <1>2, <1>3, <1>4, <1>5, NormalMoves
       DEF ReconcileSubnets, SubnetsCallFails, SubnetBecomesAvailable,
           RemovalStages, DeleteStages

\* No step touches tables and deletion timestamp at once.
LEMMA TablesOrDeletion ==
    ASSUME ConstantsAssumption, TypeInv, [Next]_vars
    PROVE  UNCHANGED routeTable \/ obj'.deleting = obj.deleting
  <1>1. CASE StageShape \/ Reconcile \/ Crash \/ SyncCache
                \/ UNCHANGED <<obj, cache, base, work, pc>>
    BY <1>1 DEF StageShape, Reconcile, Crash, SyncCache
  <1>2. CASE PatchConditions \/ PatchObject
    BY <1>2 DEF PatchConditions, PatchObject, cloudVars
  <1>3. CASE OthersWrite
    BY <1>3, NextShape DEF OthersWrite
  <1> QED
    BY <1>1, <1>2, <1>3, NextShape DEF StepShape

LEMMA StepLeftover ==
    ASSUME ConstantsAssumption, TypeInv, TeardownInv, LeftoverInv, [Next]_vars
    PROVE  LeftoverInv'
  BY DeletingStays, KeepsOneLeftover DEF TeardownInv, LeftoverInv, OneLeftover

LEMMA StepTables ==
    ASSUME ConstantsAssumption, TypeInv, TeardownInv, LeftoverInv, [Next]_vars
    PROVE  \A v \in VpcIds : [Tables(v)!Next]_(Tables(v)!vars)
  <1>. SUFFICES ASSUME NEW v \in VpcIds
                PROVE  [Tables(v)!Next]_(Tables(v)!vars)
    OBVIOUS
  <1>1. /\ routeTable[v] \in [Slots -> RouteTableStates]
        /\ routeTable'[v] \in [Slots -> RouteTableStates]
        /\ obj.deleting \in BOOLEAN /\ obj'.deleting \in BOOLEAN
    BY StepType DEF TypeInv, TypeOK, Cluster
  <1>2. RouteTableStates = Tables(v)!States
    BY DEF RouteTableStates, Tables!States
  <1>3. CASE UNCHANGED routeTable
    BY <1>1, <1>3, DeletingStays DEF Tables!Next, Tables!RequestDeletion, Tables!vars
  <1>4. CASE obj'.deleting = obj.deleting /\ obj.deleting
    BY <1>1, <1>2, <1>4 DEF Tables!Next, Tables!Teardown
  <1>5. CASE obj'.deleting = obj.deleting /\ ~obj.deleting
    <2>1. pc \notin DeleteStages
      BY <1>5 DEF TeardownInv
    <2>2. Tables(v)!KeepsServing
      BY <2>1, KeepsSubnetsAndTables
         DEF Tables!KeepsServing, Tables!Serving, RemovalStages, DeleteStages
    <2>3. OneLeftover(routeTable')
      BY <1>5, <2>1, KeepsOneLeftover DEF LeftoverInv
    <2> QED
      BY <1>1, <1>2, <1>5, <2>2, <2>3
         DEF Tables!Next, Tables!Work, Tables!AtMostOneLeftover, OneLeftover
  <1> QED
    BY <1>3, <1>4, <1>5, TablesOrDeletion

LEMMA InitTables ==
    ASSUME ConstantsAssumption, Init
    PROVE  LeftoverInv /\ \A v \in VpcIds : Tables(v)!Init
  BY DEF Init, LeftoverInv, OneLeftover, Tables!Init, NewCluster

\* Whatever fails, and however stale the object a reconcile works on, its
\* stages take the tables of every VPC through steps of RouteTableSlots: one
\* attempt is cleared away before the next, and nothing serving goes before
\* the cluster does.
THEOREM RouteTableSlotsAreImplemented == Spec => ImplementsRouteTableSlots
  <1>. DEFINE SlotsInv == TypeInv /\ TeardownInv /\ LeftoverInv
              Step == \A v \in VpcIds : [Tables(v)!Next]_(Tables(v)!vars)
              Start == \A v \in VpcIds : Tables(v)!Init
  <1>1. Init => SlotsInv /\ Start
    BY InitType, InitTeardown, InitTables, ConstantsAssumption
  <1>2. SlotsInv /\ [Next]_vars => SlotsInv'
    BY StepType, StepTeardown, StepLeftover, ConstantsAssumption
  <1>3. SlotsInv /\ [Next]_vars => [Step]_vars
    BY StepTables, ConstantsAssumption
  <1>4. Spec => Start /\ [][Step]_vars
    <2>. HIDE DEF SlotsInv, Step, Start
    <2> QED
      BY <1>1, <1>2, <1>3, PTL DEF Spec
  <1> QED
    BY <1>4 DEF ImplementsRouteTableSlots
=============================================================================
