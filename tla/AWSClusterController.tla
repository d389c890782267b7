------------------------ MODULE AWSClusterController ------------------------
(***************************************************************************)
(* The reconciler of controllers/awscluster_controller.go working on ONE   *)
(* AWSCluster object, together with everything that moves at the same time *)
(* as it: the Kubernetes API server that merges its patches, the informer  *)
(* cache it reads from, the EC2 resources it creates and deletes through   *)
(* pkg/aws, the CAPA controller that shares the object with it, the user   *)
(* who deletes the cluster, and the crashes and failed calls in between.   *)
(*                                                                         *)
(* One action is one stage of a reconcile call: what the operator does     *)
(* with one kind of resource, with every EC2 request of it, and the        *)
(* conditions it sets on its copy of the object.  The copy reaches the API *)
(* server only at the end, in the two requests of the patch helper, so     *)
(* between any two stages the user, CAPA, EC2 or a crash may come first.   *)
(***************************************************************************)
EXTENDS Naturals, FiniteSets

CONSTANTS
    VpcIds,               \* the VPC IDs EC2 can hand out (the account's quota)
    NoId,                 \* the empty string in an ID field
    NumSubnets,           \* subnets the AWSCluster asks for
    UserManagedEndpoint,  \* annotation aws-vpc-endpoint-mode: UserManaged
    CapaRelapses,         \* may CAPA report a resource it made as not ready?
    CacheLags,            \* may the informer cache trail the API server?
    ModeChanges,          \* may the user change the annotation aws-vpc-mode?
    MaxFaults             \* bound on failed calls and crashes

ASSUME ConstantsAssumption ==
    /\ NoId \notin VpcIds
    /\ NumSubnets \in Nat \ {0}
    /\ UserManagedEndpoint \in BOOLEAN
    /\ CapaRelapses \in BOOLEAN
    /\ CacheLags \in BOOLEAN
    /\ ModeChanges \in BOOLEAN
    /\ MaxFaults \in Nat

VARIABLES
    vpc,          \* EC2: VPC ID -> its state
    dns,          \* EC2: the VPCs with both DNS attributes enabled
    subnet,       \* EC2: VPC ID -> slot of the spec -> state of its subnet
    routeTable,   \* EC2: VPC ID -> slot -> state of the table made for it
    endpoint,     \* EC2: VPC ID -> state of its S3 gateway endpoint
    lb, sg,       \* EC2: the VPC CAPA's load balancer / security groups are in
    obj,          \* API server: the AWSCluster
    cache,        \* operator: the AWSCluster as its informer last saw it
    queued,       \* operator: is a reconcile request waiting in the queue?
    pc,           \* operator: the next stage of the running reconcile
    base,         \* operator: the object as the patch helper first saw it
    work,         \* operator: the copy of the object the stages write to
    faults        \* how many faults the environment has used up

cloudVars == <<vpc, dns, subnet, routeTable, endpoint>>
capaVars  == <<lb, sg>>
vars == <<cloudVars, capaVars, obj, cache, queued, pc, base, work, faults>>

-----------------------------------------------------------------------------
(* The AWSCluster object.                                                  *)

Slots == 1..NumSubnets

\* A subnet ID is written as the VPC the subnet was created in: the slot
\* says which of its subnets it is.
Ids == VpcIds \cup {NoId}

Finalizers == {"operator", "capa"}

OperatorConditions ==
    {"VpcReady", "SubnetsReady", "RouteTablesReady", "VpcEndpointReady"}
CapaConditions == {"LoadBalancerReady", "ClusterSecurityGroupsReady"}
Conditions == OperatorConditions \cup CapaConditions

\* "False" is the status False with any reason but the three named ones.
ConditionValues ==
    {"Unset", "True", "False", "Deleting", "DeletingFailed", "Deleted"}

Cluster ==
    [exists     : BOOLEAN,
     deleting   : BOOLEAN,
     private    : BOOLEAN,     \* the annotation aws-vpc-mode is "private"
     finalizers : SUBSET Finalizers,
     vpcId      : Ids,
     subnetId   : [Slots -> Ids],
     conditions : [Conditions -> ConditionValues]]

NewCluster ==
    [exists     |-> TRUE,
     deleting   |-> FALSE,
     private    |-> TRUE,
     finalizers |-> {},
     vpcId      |-> NoId,
     subnetId   |-> [s \in Slots |-> NoId],
     conditions |-> [c \in Conditions |-> "Unset"]]

\* What base and work hold while no reconcile runs.
Blank == [NewCluster EXCEPT !.exists = FALSE]

Mark(o, c, value) == [o EXCEPT !.conditions[c] = value]

\* The API server keeps a deleted object until its last finalizer is gone.
Settle(o) == [o EXCEPT !.exists = o.exists /\ ~(o.deleting /\ o.finalizers = {})]

-----------------------------------------------------------------------------
(* States of the EC2 resources, and the stages of a reconcile.             *)

VpcStates        == {"none", "pending", "available", "gone"}
SubnetStates     == {"none", "pending", "available"}
RouteTableStates == {"none", "unassociated", "associating", "associated"}
EndpointStates   == {"none", "pending", "available", "deleting"}

NormalStages == {"vpc", "subnets", "routeTables", "endpoint"}
DeleteStages == {"deleteEndpoint", "waitForCapa", "deleteRouteTables",
                 "deleteSubnets", "deleteVpc"}
Stages == {"idle", "patchConditions", "patchObject"} \cup NormalStages
            \cup DeleteStages

VpcLives(v) == vpc[v] \in {"pending", "available"}

\* EC2 refuses to delete a VPC while anything is left inside it.
HasDependencies(v) ==
    \/ \E s \in Slots : subnet[v][s] # "none" \/ routeTable[v][s] # "none"
    \/ endpoint[v] # "none"
    \/ v \in {lb, sg}

Init ==
    /\ vpc = [v \in VpcIds |-> "none"]
    /\ dns = {}
    /\ subnet = [v \in VpcIds |-> [s \in Slots |-> "none"]]
    /\ routeTable = [v \in VpcIds |-> [s \in Slots |-> "none"]]
    /\ endpoint = [v \in VpcIds |-> "none"]
    /\ lb = NoId /\ sg = NoId
    /\ obj = NewCluster
    /\ cache = NewCluster
    /\ queued = TRUE
    /\ pc = "idle"
    /\ base = Blank /\ work = Blank
    /\ faults = 0

-----------------------------------------------------------------------------
(* How a stage ends, and what may go wrong in it.                          *)

NoFault == UNCHANGED faults
Fault   == faults < MaxFaults /\ faults' = faults + 1

Proceed(stage, w) ==
    /\ pc' = stage
    /\ work' = w
    /\ UNCHANGED <<obj, cache, queued, base>>

\* Return from reconcileNormal or reconcileDelete to the deferred patch.  An
\* error and a RequeueAfter both put the request back into the queue.
Return(w, requeue) ==
    /\ pc' = "patchConditions"
    /\ work' = w
    /\ queued' = (queued \/ requeue)
    /\ UNCHANGED <<obj, cache, base>>

\* Mutant: the watch drops events that change only an annotation.
ApiWriteWithPredicate(o) ==
    /\ obj' = o
    /\ IF CacheLags
       THEN UNCHANGED <<cache, queued>>
       ELSE /\ cache' = o
            /\ queued' = (queued \/ (o # obj /\ o.private = obj.private))

\* A write to the API server.  Its watch event refreshes the cache and queues
\* a request: at once, or, when the cache lags, in a later SyncCache.
ApiWrite(o) ==
    /\ obj' = o
    /\ IF CacheLags
       THEN UNCHANGED <<cache, queued>>
       ELSE cache' = o /\ queued' = (queued \/ o # obj)

-----------------------------------------------------------------------------
(* Reconcile: read the object, take the patch helper's snapshot, dispatch. *)

\* Mutant: the ID goes with the finalizer that guards it.
RemoveFinalizerAndId(o) ==
    [o EXCEPT !.finalizers = @ \ {"operator"}, !.vpcId = NoId]

AddFinalizer(o)    == [o EXCEPT !.finalizers = @ \cup {"operator"}]
RemoveFinalizer(o) == [o EXCEPT !.finalizers = @ \ {"operator"}]

ReconcileNotFound ==
    /\ pc = "idle" /\ queued /\ ~cache.exists
    /\ queued' = FALSE
    /\ NoFault
    /\ UNCHANGED <<cloudVars, capaVars, obj, cache, pc, base, work>>

\* Mutant: a skipped cluster is let go of.
ReconcileSkipsForGood ==
    /\ pc = "idle" /\ queued /\ cache.exists /\ ~cache.private
    /\ queued' = FALSE
    /\ obj' = Settle(RemoveFinalizer(obj)) /\ cache' = obj'
    /\ NoFault
    /\ UNCHANGED <<cloudVars, capaVars, pc, base, work>>

\* A cluster without aws-vpc-mode: private is not reconciled, not even one
\* that has the operator's finalizer.
ReconcileSkips ==
    /\ pc = "idle" /\ queued /\ cache.exists /\ ~cache.private
    /\ queued' = FALSE
    /\ NoFault
    /\ UNCHANGED <<cloudVars, capaVars, obj, cache, pc, base, work>>

\* Reading the AWSClusterRoleIdentity fails: the request is retried, and the
\* patch is not deferred yet.
ReconcileWithoutIdentity ==
    /\ pc = "idle" /\ queued /\ cache.exists /\ cache.private
    /\ Fault
    /\ UNCHANGED <<cloudVars, capaVars, obj, cache, queued, pc, base, work>>

\* Mutant: a VPC that is not ready is torn down to be built again.
FirstStageRebuilds(o) ==
    IF o.deleting \/ o.conditions["VpcReady"] = "False"
    THEN "deleteEndpoint" ELSE "vpc"

FirstStage(o) == IF o.deleting THEN "deleteEndpoint" ELSE "vpc"

Reconcile ==
    /\ pc = "idle" /\ queued /\ cache.exists /\ cache.private
    /\ queued' = FALSE
    /\ base' = cache
    /\ pc' = FirstStage(cache)
    /\ work' = IF cache.deleting THEN cache ELSE AddFinalizer(cache)
    /\ NoFault
    /\ UNCHANGED <<cloudVars, capaVars, obj, cache>>

-----------------------------------------------------------------------------
(* reconcileNormal, VPC.                                                   *)

\* Mutants: the ID is kept only once the VPC is available; a pending VPC is
\* not looked at again.
AfterVpcLate(v, state) ==
    \/ /\ state = "available"
       /\ Proceed("subnets", Mark([work EXCEPT !.vpcId = v], "VpcReady", "True"))
    \/ state = "pending" /\ Return(Mark(work, "VpcReady", "False"), TRUE)

AfterVpcForgotten(v, state) ==
    LET w == [work EXCEPT !.vpcId = v] IN
    \/ state = "available" /\ Proceed("subnets", Mark(w, "VpcReady", "True"))
    \/ state = "pending" /\ Return(Mark(w, "VpcReady", "False"), FALSE)

\* What reconcileNormal does with the VPC ID and state it is given.
\* EC2 knows two states; for any other one the code fails, which at this level
\* is what it does for a pending VPC: VpcReady is False, and it comes back.
AfterVpc(v, state) ==
    LET w == [work EXCEPT !.vpcId = v] IN
    \/ state = "available" /\ Proceed("subnets", Mark(w, "VpcReady", "True"))
    \/ state = "pending" /\ Return(Mark(w, "VpcReady", "False"), TRUE)

GetVpc ==
    /\ pc = "vpc" /\ work.vpcId # NoId
    /\ AfterVpc(work.vpcId, vpc[work.vpcId])
    /\ NoFault
    /\ UNCHANGED <<cloudVars, capaVars>>

\* Mutant: only one of the two attributes is modified.
EnsureOneAttribute(v) == UNCHANGED dns

\* ensureAttributes turns both DNS attributes of a new VPC on.
EnsureAttributes(v) == dns' = dns \cup {v}

CreateVpc ==
    /\ pc = "vpc" /\ work.vpcId = NoId
    /\ \E v \in VpcIds :
        /\ vpc[v] = "none"
        /\ vpc' = [vpc EXCEPT ![v] = "pending"]
        /\ \/ EnsureAttributes(v) /\ NoFault /\ AfterVpc(v, "pending")
           \* the VPC is there, but a later call fails and its ID is dropped
           \/ UNCHANGED dns /\ Fault /\ Return(work, TRUE)
    /\ UNCHANGED <<subnet, routeTable, endpoint, capaVars>>

VpcCallFails ==
    /\ pc = "vpc"
    /\ \/ Fault
       \/ work.vpcId = NoId /\ (\A v \in VpcIds : vpc[v] # "none") /\ NoFault
    /\ Return(work, TRUE)
    /\ UNCHANGED <<cloudVars, capaVars>>

-----------------------------------------------------------------------------
(* reconcileNormal, subnets.                                               *)

SetSlots(f, v, S, state) ==
    [f EXCEPT ![v] = [s \in Slots |-> IF s \in S THEN state ELSE f[v][s]]]

\* The slots before k: subnets are handled in the order of the spec.
Before(S, k) == {s \in S : s < k}

MissingSubnets(v) == {s \in Slots : subnet[v][s] = "none"}

AllSubnets(v, state)     == \A s \in Slots : subnet[v][s] = state
AllRouteTables(v, state) == \A s \in Slots : routeTable[v][s] = state

\* Mutant: one ID instead of one per subnet.
RecordSubnet(w, v) == [w EXCEPT !.subnetId = v]

\* The IDs of all subnets of v, written into the spec after the stage.
RecordSubnets(w, v) == [w EXCEPT !.subnetId = [s \in Slots |-> v]]

\* Mutant: the route tables are not looked at.
SubnetsAvailableValue(v) == IF AllSubnets(v, "available") THEN "True" ELSE "False"

SubnetsReadyValue(v) ==
    IF AllSubnets(v, "available") /\ AllRouteTables(v, "associated")
    THEN "True" ELSE "False"

\* Readiness is judged by what Get found before anything was created.
ReconcileSubnets ==
    /\ pc = "subnets"
    /\ LET v == work.vpcId
           w == Mark(RecordSubnets(work, v), "SubnetsReady", SubnetsReadyValue(v))
       IN  /\ subnet' = SetSlots(subnet, v, MissingSubnets(v), "pending")
           /\ IF AllSubnets(v, "available")
              THEN Proceed("routeTables", w)
              ELSE Return(w, TRUE)
    /\ NoFault
    /\ UNCHANGED <<vpc, dns, routeTable, endpoint, capaVars>>

\* An error in the middle: the subnets created so far exist, their IDs are
\* not returned to reconcileNormal.
SubnetsCallFails ==
    /\ pc = "subnets"
    /\ Fault
    /\ \E k \in 1..(NumSubnets + 1) :
        subnet' = SetSlots(subnet, work.vpcId,
                           Before(MissingSubnets(work.vpcId), k), "pending")
    /\ Return(work, TRUE)
    /\ UNCHANGED <<vpc, dns, routeTable, endpoint, capaVars>>

-----------------------------------------------------------------------------
(* reconcileNormal, route tables.                                          *)

Unassociated(v) == {s \in Slots : routeTable[v][s] = "unassociated"}

\* Mutant: an association that is not complete does not count.
NotAssociated(v) == {s \in Slots : routeTable[v][s] # "associated"}

\* The subnets of the spec no route table is associated with.
WithoutRouteTable(v) ==
    {s \in Slots : routeTable[v][s] \in {"none", "unassociated"}}

\* Leftover tables are deleted, then a table is created and associated for
\* every subnet that has none.  EC2 answers with the association's state.
ReconcileRouteTables ==
    /\ pc = "routeTables"
    /\ \E state \in {"associating", "associated"} :
        LET v    == work.vpcId
            after == SetSlots(routeTable, v, WithoutRouteTable(v), state)
            ready == \A s \in Slots : after[v][s] = "associated"
        IN  /\ routeTable' = after
            /\ IF ready
               THEN Proceed("endpoint", Mark(work, "RouteTablesReady", "True"))
               ELSE Return(Mark(work, "RouteTablesReady", "False"), TRUE)
    /\ NoFault
    /\ UNCHANGED <<vpc, dns, subnet, endpoint, capaVars>>

\* Fails while leftovers are deleted, or after the tables before subnet k
\* were made, or with the table for k created and not associated.
RouteTablesCallFails ==
    /\ pc = "routeTables"
    /\ Fault
    /\ LET v == work.vpcId
           clean == SetSlots(routeTable, v, Unassociated(v), "none")
       IN  \/ \E S \in SUBSET Unassociated(v) :
                routeTable' = SetSlots(routeTable, v, S, "none")
           \/ \E k \in WithoutRouteTable(v), state \in {"none", "unassociated"},
                 made \in {"associating", "associated"} :
                routeTable' =
                  SetSlots(SetSlots(clean, v, Before(WithoutRouteTable(v), k), made),
                           v, {k}, state)
    /\ Return(work, TRUE)
    /\ UNCHANGED <<vpc, dns, subnet, endpoint, capaVars>>

-----------------------------------------------------------------------------
(* reconcileNormal, VPC endpoint.                                          *)

SecurityGroupsReady == work.conditions["ClusterSecurityGroupsReady"] = "True"

WaitForSecurityGroups ==
    /\ pc = "endpoint" /\ ~SecurityGroupsReady
    /\ Return(Mark(work, "VpcEndpointReady", "False"), TRUE)
    /\ NoFault
    /\ UNCHANGED <<cloudVars, capaVars>>

\* A user managed endpoint counts as available; an existing one is updated;
\* a missing one is created.
ReconcileVpcEndpoint ==
    /\ pc = "endpoint" /\ SecurityGroupsReady
    /\ \E state \in EndpointStates :
        /\ \/ UserManagedEndpoint /\ state = "available" /\ UNCHANGED endpoint
           \/ /\ ~UserManagedEndpoint /\ endpoint[work.vpcId] # "none"
              /\ state = endpoint[work.vpcId] /\ UNCHANGED endpoint
           \/ /\ ~UserManagedEndpoint /\ endpoint[work.vpcId] = "none"
              /\ state \in {"pending", "available"}
              /\ endpoint' = [endpoint EXCEPT ![work.vpcId] = state]
        /\ IF state = "available"
           THEN Return(Mark(work, "VpcEndpointReady", "True"), FALSE)
           ELSE Return(Mark(work, "VpcEndpointReady", "False"), TRUE)
    /\ NoFault
    /\ UNCHANGED <<vpc, dns, subnet, routeTable, capaVars>>

\* Reading the CAPI Cluster fails (no condition), a lookup or a request fails
\* (VpcEndpointReady is marked), or the answer to the creation is lost.
VpcEndpointCallFails ==
    /\ pc = "endpoint"
    /\ Fault
    /\ \/ Return(work, TRUE) /\ UNCHANGED endpoint
       \/ /\ SecurityGroupsReady
          /\ Return(Mark(work, "VpcEndpointReady", "False"), TRUE)
          /\ \/ UNCHANGED endpoint
             \/ /\ ~UserManagedEndpoint /\ endpoint[work.vpcId] = "none"
                /\ endpoint' = [endpoint EXCEPT ![work.vpcId] = "pending"]
    /\ UNCHANGED <<vpc, dns, subnet, routeTable, capaVars>>

-----------------------------------------------------------------------------
(* reconcileDelete.                                                        *)

EndpointDeleted(o) == o.conditions["VpcEndpointReady"] = "Deleted"

MarkEndpointDeleted == Mark(work, "VpcEndpointReady", "Deleted")

SkipVpcEndpoint ==
    /\ pc = "deleteEndpoint" /\ EndpointDeleted(work)
    /\ Proceed("waitForCapa", work)
    /\ NoFault
    /\ UNCHANGED <<cloudVars, capaVars>>

\* Deleting a missing endpoint, or one already being deleted, succeeds.
StartEndpointDeletion(v) ==
    endpoint' = [endpoint EXCEPT ![v] = IF @ = "none" THEN "none" ELSE "deleting"]

\* DeleteVpcEndpoints answers with the endpoints it could not delete: the
\* operator ignores that list, so an unsuccessful deletion looks like any.
DeleteVpcEndpoint ==
    /\ pc = "deleteEndpoint" /\ ~EndpointDeleted(work)
    /\ \/ UserManagedEndpoint /\ UNCHANGED endpoint /\ NoFault
       \/ /\ ~UserManagedEndpoint /\ work.vpcId # NoId
          /\ \/ StartEndpointDeletion(work.vpcId) /\ NoFault
             \/ endpoint[work.vpcId] # "none" /\ UNCHANGED endpoint /\ Fault
    /\ Proceed("waitForCapa", MarkEndpointDeleted)
    /\ UNCHANGED <<vpc, dns, subnet, routeTable, capaVars>>

\* The request is refused without a VPC ID, or fails before or after EC2 acts.
DeleteVpcEndpointFails ==
    /\ pc = "deleteEndpoint" /\ ~EndpointDeleted(work) /\ ~UserManagedEndpoint
    /\ \/ work.vpcId = NoId /\ UNCHANGED endpoint /\ NoFault
       \/ /\ work.vpcId # NoId /\ Fault
          /\ UNCHANGED endpoint \/ StartEndpointDeletion(work.vpcId)
    /\ Return(work, TRUE)
    /\ UNCHANGED <<vpc, dns, subnet, routeTable, capaVars>>

\* Mutant: a deletion in progress is taken for a finished one.
HeldBackUntilDeletion(c) == work.conditions[c] \in {"True", "DeletingFailed"}

\* A condition of CAPA that still holds the deletion back: the resource is
\* ready, being deleted, or failed to be deleted.
HeldBackBy(c) == work.conditions[c] \in {"True", "Deleting", "DeletingFailed"}

\* Mutant: only the load balancer is waited for.
CapaDeletedLoadBalancer ==
    "capa" \notin work.finalizers \/ ~HeldBackBy("LoadBalancerReady")

CapaIsDone ==
    \/ "capa" \notin work.finalizers
    \/ ~HeldBackBy("LoadBalancerReady") /\ ~HeldBackBy("ClusterSecurityGroupsReady")

\* Mutant: the route tables are left for EC2 to delete with the VPC.
WaitForCapaThenSubnets ==
    /\ pc = "waitForCapa"
    /\ IF CapaIsDone THEN Proceed("deleteSubnets", work) ELSE Return(work, TRUE)
    /\ NoFault
    /\ UNCHANGED <<cloudVars, capaVars>>

WaitForCapa ==
    /\ pc = "waitForCapa"
    /\ IF CapaIsDone THEN Proceed("deleteRouteTables", work) ELSE Return(work, TRUE)
    /\ NoFault
    /\ UNCHANGED <<cloudVars, capaVars>>

DeleteRouteTables ==
    /\ pc = "deleteRouteTables"
    /\ IF work.vpcId = NoId
       THEN Proceed("deleteSubnets", work) /\ UNCHANGED routeTable
       ELSE /\ routeTable' = SetSlots(routeTable, work.vpcId, Slots, "none")
            /\ Proceed("deleteSubnets", Mark(work, "RouteTablesReady", "Deleted"))
    /\ NoFault
    /\ UNCHANGED <<vpc, dns, subnet, endpoint, capaVars>>

\* Fails on any table: EC2 lists them in no particular order.  The table it
\* fails on may have lost its association already.
DeleteRouteTablesFails ==
    /\ pc = "deleteRouteTables" /\ work.vpcId # NoId
    /\ Fault
    /\ LET v == work.vpcId IN
        \E S \in SUBSET Slots :
            LET after == SetSlots(routeTable, v, S, "none") IN
            \/ routeTable' = after
            \/ \E s \in Slots : /\ after[v][s] # "none"
                                /\ routeTable' = SetSlots(after, v, {s}, "unassociated")
    /\ Return(Mark(work, "RouteTablesReady", "Deleting"), TRUE)
    /\ UNCHANGED <<vpc, dns, subnet, endpoint, capaVars>>

\* Only the subnets whose IDs are in the spec are deleted.
Recorded == {s \in Slots : work.subnetId[s] # NoId}

\* Mutant: a subnet that is not found is an error.
BlockedOrMissing ==
    {s \in Recorded : \/ work.subnetId[s] = lb
                      \/ subnet[work.subnetId[s]][s] = "none"}

\* EC2 does not delete a subnet a load balancer is attached to.
Blocked == {s \in Recorded : /\ work.subnetId[s] = lb
                             /\ subnet[lb][s] # "none"}

WithoutSubnets(S) ==
    [v \in VpcIds |-> [s \in Slots |->
        IF s \in S /\ work.subnetId[s] = v THEN "none" ELSE subnet[v][s]]]

\* A subnet that is not found counts as deleted.
DeleteSubnets ==
    /\ pc = "deleteSubnets"
    /\ IF Recorded = {}
       THEN Proceed("deleteVpc", work) /\ UNCHANGED subnet
       ELSE /\ Blocked = {}
            /\ subnet' = WithoutSubnets(Recorded)
            /\ Proceed("deleteVpc", Mark(work, "SubnetsReady", "Deleted"))
    /\ NoFault
    /\ UNCHANGED <<vpc, dns, routeTable, endpoint, capaVars>>

\* The first subnet that cannot be deleted ends the loop.
DeleteSubnetsFails ==
    /\ pc = "deleteSubnets"
    /\ \E k \in Slots \cup {NumSubnets + 1} :
        /\ Recorded # {} /\ Before(Blocked, k) = {}
        /\ \/ k \in Blocked /\ NoFault
           \/ Fault
        /\ subnet' = WithoutSubnets(Before(Recorded, k))
    /\ Return(Mark(work, "SubnetsReady", "Deleting"), TRUE)
    /\ UNCHANGED <<vpc, dns, routeTable, endpoint, capaVars>>

VpcIsGone(v) == vpc' = [vpc EXCEPT ![v] = "gone"]

\* A VPC that is not found counts as deleted.  The finalizer goes last.
DeleteVpc ==
    /\ pc = "deleteVpc"
    /\ IF work.vpcId = NoId
       THEN Return(RemoveFinalizer(work), FALSE) /\ UNCHANGED vpc
       ELSE /\ ~HasDependencies(work.vpcId)
            /\ VpcIsGone(work.vpcId)
            /\ Return(RemoveFinalizer(Mark(work, "VpcReady", "Deleted")), FALSE)
    /\ NoFault
    /\ UNCHANGED <<dns, subnet, routeTable, endpoint, capaVars>>

\* Mutant: the error is logged and the finalizer removed all the same.
DeleteVpcFailsSilently ==
    /\ pc = "deleteVpc" /\ work.vpcId # NoId
    /\ \/ HasDependencies(work.vpcId) /\ NoFault
       \/ Fault
    /\ Return(RemoveFinalizer(Mark(work, "VpcReady", "Deleting")), FALSE)
    /\ UNCHANGED <<cloudVars, capaVars>>

DeleteVpcFails ==
    /\ pc = "deleteVpc" /\ work.vpcId # NoId
    /\ \/ HasDependencies(work.vpcId) /\ NoFault /\ UNCHANGED vpc
       \/ Fault /\ UNCHANGED vpc
       \* deleted, but the answer is lost
       \/ ~HasDependencies(work.vpcId) /\ Fault /\ VpcIsGone(work.vpcId)
    /\ Return(Mark(work, "VpcReady", "Deleting"), TRUE)
    /\ UNCHANGED <<dns, subnet, routeTable, endpoint, capaVars>>

-----------------------------------------------------------------------------
(* The deferred patch: conditions first, then metadata and spec.           *)

OwnedConditions == {"VpcReady", "SubnetsReady"}

ChangedConditions == {c \in Conditions : work.conditions[c] # base.conditions[c]}

\* A condition somebody else changed meanwhile, unless it is owned.
ConditionsConflict ==
    \E c \in ChangedConditions \ OwnedConditions :
        obj.conditions[c] \notin {base.conditions[c], work.conditions[c]}

WithConditions(o) ==
    [o EXCEPT !.conditions =
        [c \in Conditions |-> IF c \in ChangedConditions
                              THEN work.conditions[c] ELSE o.conditions[c]]]

\* Mutant: the list of finalizers is written whether it changed or not.
ReplacePatch(o) ==
    [o EXCEPT
        !.finalizers = work.finalizers,
        !.vpcId      = IF work.vpcId # base.vpcId THEN work.vpcId ELSE @,
        !.subnetId   = IF work.subnetId # base.subnetId THEN work.subnetId ELSE @]

\* A JSON merge patch: a field that differs between the snapshot and the copy
\* replaces the one in the API server, lists as a whole; nothing is compared
\* with the version the snapshot was taken of.
MergePatch(o) ==
    [o EXCEPT
        !.finalizers = IF work.finalizers # base.finalizers THEN work.finalizers ELSE @,
        !.vpcId      = IF work.vpcId # base.vpcId THEN work.vpcId ELSE @,
        !.subnetId   = IF work.subnetId # base.subnetId THEN work.subnetId ELSE @]

\* The API server accepts no new finalizer on an object being deleted.
Forbidden(o) == obj.deleting /\ ~(o.finalizers \subseteq obj.finalizers)

PatchConditions ==
    /\ pc = "patchConditions"
    /\ pc' = "patchObject"
    /\ \/ obj.exists /\ ~ConditionsConflict /\ NoFault /\ ApiWrite(WithConditions(obj))
       \/ /\ \/ ~obj.exists /\ NoFault
             \/ ConditionsConflict /\ NoFault
             \/ ChangedConditions # {} /\ Fault
          /\ queued' = TRUE
          /\ UNCHANGED <<obj, cache>>
    /\ UNCHANGED <<cloudVars, capaVars, base, work>>

EndReconcile ==
    /\ pc' = "idle"
    /\ base' = Blank /\ work' = Blank

\* A missing object is an error only if it was not being deleted.
PatchObject ==
    /\ pc = "patchObject"
    /\ LET patched == MergePatch(obj) IN
        \/ obj.exists /\ ~Forbidden(patched) /\ NoFault /\ ApiWrite(Settle(patched))
        \/ /\ \/ obj.exists /\ Forbidden(patched) /\ NoFault
              \/ patched # obj /\ Fault
           /\ queued' = TRUE
           /\ UNCHANGED <<obj, cache>>
        \/ /\ ~obj.exists /\ NoFault
           /\ queued' = (queued \/ ~work.deleting)
           /\ UNCHANGED <<obj, cache>>
    /\ EndReconcile
    /\ UNCHANGED <<cloudVars, capaVars>>

-----------------------------------------------------------------------------
(* The environment: the process and its cache, the user, EC2 and CAPA.     *)

\* The process dies with everything in memory; the next one lists afresh.
Crash ==
    /\ pc # "idle"
    /\ Fault
    /\ EndReconcile
    /\ cache' = obj /\ queued' = TRUE
    /\ UNCHANGED <<cloudVars, capaVars, obj>>

SyncCache ==
    /\ cache # obj
    /\ cache' = obj /\ queued' = TRUE
    /\ UNCHANGED <<cloudVars, capaVars, obj, pc, base, work, faults>>

UserDeletes ==
    /\ obj.exists /\ ~obj.deleting
    /\ ApiWrite(Settle([obj EXCEPT !.deleting = TRUE]))
    /\ UNCHANGED <<cloudVars, capaVars, pc, base, work, faults>>

UserChangesVpcMode ==
    /\ ModeChanges /\ obj.exists
    /\ ApiWrite(Settle([obj EXCEPT !.private = ~@]))
    /\ UNCHANGED <<cloudVars, capaVars, pc, base, work, faults>>

operatorVars == <<obj, cache, queued, pc, base, work, faults>>

VpcBecomesAvailable(v) ==
    /\ vpc[v] = "pending"
    /\ vpc' = [vpc EXCEPT ![v] = "available"]
    /\ UNCHANGED <<dns, subnet, routeTable, endpoint, capaVars, operatorVars>>

SubnetBecomesAvailable(v, s) ==
    /\ subnet[v][s] = "pending"
    /\ subnet' = [subnet EXCEPT ![v][s] = "available"]
    /\ UNCHANGED <<vpc, dns, routeTable, endpoint, capaVars, operatorVars>>

RouteTableAssociates(v, s) ==
    /\ routeTable[v][s] = "associating"
    /\ routeTable' = [routeTable EXCEPT ![v][s] = "associated"]
    /\ UNCHANGED <<vpc, dns, subnet, endpoint, capaVars, operatorVars>>

EndpointSettles(v) ==
    /\ endpoint[v] \in {"pending", "deleting"}
    /\ endpoint' = [endpoint EXCEPT
                      ![v] = IF @ = "pending" THEN "available" ELSE "none"]
    /\ UNCHANGED <<vpc, dns, subnet, routeTable, capaVars, operatorVars>>

Ec2 ==
    \E v \in VpcIds :
        \/ VpcBecomesAvailable(v)
        \/ EndpointSettles(v)
        \/ \E s \in Slots : SubnetBecomesAvailable(v, s) \/ RouteTableAssociates(v, s)

(* CAPA, as far as the operator depends on it: it guards its resources with *)
(* a finalizer of its own, reports them in two conditions, and deletes the  *)
(* load balancer before the security groups.                                *)

CapaWrites(o) ==
    /\ ApiWrite(Settle(o))
    /\ UNCHANGED <<cloudVars, pc, base, work>>

CapaOwns == obj.exists /\ "capa" \in obj.finalizers

CapaAddsFinalizer ==
    /\ obj.exists /\ ~obj.deleting /\ "capa" \notin obj.finalizers
    /\ CapaWrites([obj EXCEPT !.finalizers = @ \cup {"capa"}])
    /\ UNCHANGED <<lb, sg, faults>>

\* CAPA can use a network whose VPC and subnets are recorded in the spec.
NetworkRecorded ==
    /\ obj.vpcId # NoId /\ vpc[obj.vpcId] = "available"
    /\ \A s \in Slots : obj.subnetId[s] = obj.vpcId /\ subnet[obj.vpcId][s] = "available"

CapaCreatesSecurityGroups ==
    /\ CapaOwns /\ ~obj.deleting /\ NetworkRecorded /\ sg = NoId
    /\ sg' = obj.vpcId
    /\ CapaWrites(Mark(obj, "ClusterSecurityGroupsReady", "True"))
    /\ UNCHANGED <<lb, faults>>

CapaCreatesLoadBalancer ==
    /\ CapaOwns /\ ~obj.deleting /\ NetworkRecorded /\ sg # NoId /\ lb = NoId
    /\ lb' = obj.vpcId
    /\ \E value \in {"True", "False"} :
        CapaWrites(Mark(obj, "LoadBalancerReady", value))
    /\ UNCHANGED <<sg, faults>>

CapaHas(c) == IF c = "LoadBalancerReady" THEN lb # NoId ELSE sg # NoId

\* The load balancer gets its DNS name, or a failed reconcile succeeds.
CapaReportsReady(c) ==
    /\ CapaOwns /\ ~obj.deleting /\ CapaHas(c) /\ obj.conditions[c] # "True"
    /\ CapaWrites(Mark(obj, c, "True"))
    /\ UNCHANGED <<lb, sg, faults>>

\* A reconcile of CAPA fails on a resource that is there.
CapaReportsFailure(c) ==
    /\ CapaRelapses
    /\ CapaOwns /\ ~obj.deleting /\ CapaHas(c) /\ obj.conditions[c] = "True"
    /\ Fault
    /\ CapaWrites(Mark(obj, c, "False"))
    /\ UNCHANGED <<lb, sg>>

\* The condition of the resource CAPA has to delete next.
CapaDeletes(c) ==
    /\ CapaOwns /\ obj.deleting /\ obj.conditions[c] # "Deleted"
    /\ c = "ClusterSecurityGroupsReady" =>
            obj.conditions["LoadBalancerReady"] = "Deleted"

CapaStartsDeletion(c) ==
    /\ CapaDeletes(c) /\ obj.conditions[c] # "Deleting"
    /\ CapaWrites(Mark(obj, c, "Deleting"))
    /\ UNCHANGED <<lb, sg, faults>>

CapaFinishesDeletion(c) ==
    /\ CapaDeletes(c) /\ obj.conditions[c] = "Deleting"
    /\ IF c = "LoadBalancerReady" THEN lb' = NoId /\ UNCHANGED sg
                                  ELSE sg' = NoId /\ UNCHANGED lb
    /\ CapaWrites(Mark(obj, c, "Deleted"))
    /\ NoFault

CapaFailsDeletion(c) ==
    /\ CapaDeletes(c) /\ obj.conditions[c] = "Deleting"
    /\ Fault
    /\ CapaWrites(Mark(obj, c, "DeletingFailed"))
    /\ UNCHANGED <<lb, sg>>

CapaRemovesFinalizer ==
    /\ CapaOwns /\ obj.deleting
    /\ \A c \in CapaConditions : obj.conditions[c] = "Deleted"
    /\ CapaWrites([obj EXCEPT !.finalizers = @ \ {"capa"}])
    /\ UNCHANGED <<lb, sg, faults>>

CapaSteps ==
    \/ CapaAddsFinalizer
    \/ CapaCreatesSecurityGroups \/ CapaCreatesLoadBalancer
    \/ \E c \in CapaConditions :
        CapaReportsReady(c) \/ CapaStartsDeletion(c) \/ CapaFinishesDeletion(c)
    \/ CapaRemovesFinalizer

-----------------------------------------------------------------------------
(* The system.                                                             *)

OperatorSteps ==
    \/ ReconcileNotFound \/ ReconcileSkips \/ ReconcileWithoutIdentity \/ Reconcile
    \/ GetVpc \/ CreateVpc \/ VpcCallFails
    \/ ReconcileSubnets \/ SubnetsCallFails
    \/ ReconcileRouteTables \/ RouteTablesCallFails
    \/ WaitForSecurityGroups \/ ReconcileVpcEndpoint \/ VpcEndpointCallFails
    \/ SkipVpcEndpoint \/ DeleteVpcEndpoint \/ DeleteVpcEndpointFails
    \/ WaitForCapa
    \/ DeleteRouteTables \/ DeleteRouteTablesFails
    \/ DeleteSubnets \/ DeleteSubnetsFails
    \/ DeleteVpc \/ DeleteVpcFails
    \/ PatchConditions \/ PatchObject

\* The object is gone and the operator has seen it: nothing more will happen.
Finished ==
    /\ ~obj.exists /\ pc = "idle" /\ ~queued
    /\ UNCHANGED vars

Next ==
    \/ OperatorSteps
    \/ SyncCache \/ Crash
    \/ UserDeletes \/ UserChangesVpcMode
    \/ Ec2
    \/ CapaSteps
    \/ \E c \in CapaConditions : CapaReportsFailure(c) \/ CapaFailsDeletion(c)
    \/ Finished

Spec == Init /\ [][Next]_vars

\* The work queue serves a queued request and a started reconcile goes on;
\* watch events arrive; EC2 and CAPA finish what they start.  Nobody has to
\* delete the cluster, and no fault has to happen.
Fairness ==
    /\ WF_vars(OperatorSteps)
    /\ WF_vars(SyncCache)
    /\ \A v \in VpcIds :
        /\ WF_vars(VpcBecomesAvailable(v)) /\ WF_vars(EndpointSettles(v))
        /\ \A s \in Slots : /\ WF_vars(SubnetBecomesAvailable(v, s))
                            /\ WF_vars(RouteTableAssociates(v, s))
    /\ WF_vars(CapaSteps)

FairSpec == Spec /\ Fairness

-----------------------------------------------------------------------------
(* Properties.                                                             *)

TypeOK ==
    /\ vpc \in [VpcIds -> VpcStates]
    /\ dns \subseteq VpcIds
    /\ subnet \in [VpcIds -> [Slots -> SubnetStates]]
    /\ routeTable \in [VpcIds -> [Slots -> RouteTableStates]]
    /\ endpoint \in [VpcIds -> EndpointStates]
    /\ lb \in Ids /\ sg \in Ids
    /\ obj \in Cluster /\ cache \in Cluster /\ base \in Cluster /\ work \in Cluster
    /\ queued \in BOOLEAN
    /\ pc \in Stages
    /\ faults \in 0..MaxFaults

\* A VPC whose ID the API server has recorded is guarded by the operator's
\* finalizer: the object cannot vanish, whoever patches it, before
\* reconcileDelete has deleted the VPC.
FinalizerGuardsVpc ==
    obj.vpcId # NoId /\ VpcLives(obj.vpcId)
        => obj.exists /\ "operator" \in obj.finalizers

\* CAPA's finalizer survives the operator's merge patches, which replace the
\* list of finalizers as a whole, as long as CAPA has something in the VPC.
CapaStaysGuarded ==
    {lb, sg} # {NoId} => obj.exists /\ "capa" \in obj.finalizers

\* A VPC that made it into the spec has both DNS attributes: no later
\* reconcile checks them, so a half configured VPC must never be recorded.
RecordedVpcHasDns ==
    obj.vpcId # NoId => obj.vpcId \in dns

\* Without a failed call or a crash the operator never makes a second VPC,
\* even if the user deletes the cluster or CAPA patches it in between.
OneVpcWithoutFaults ==
    faults = 0 => Cardinality({v \in VpcIds : vpc[v] # "none"}) <= 1

\* A route table exists only next to its subnet: subnets are created before
\* their tables and deleted after them, whatever fails on the way.
NoStrandedRouteTable ==
    \A v \in VpcIds, s \in Slots :
        routeTable[v][s] # "none" => subnet[v][s] # "none"

\* As long as nobody deletes the cluster, a condition that is True describes
\* resources that are there, in the VPC the spec names.
ReadyIsBacked ==
    LET v == obj.vpcId
        true(c) == obj.conditions[c] = "True"
    IN  ~obj.deleting =>
        /\ true("VpcReady") => v # NoId /\ vpc[v] = "available"
        /\ true("SubnetsReady") =>
              v # NoId /\ AllSubnets(v, "available") /\ AllRouteTables(v, "associated")
        /\ true("RouteTablesReady") => v # NoId /\ AllRouteTables(v, "associated")
        /\ true("VpcEndpointReady") =>
              v # NoId /\ (UserManagedEndpoint \/ endpoint[v] = "available")

\* Nothing a running cluster uses is deleted before the user deletes the
\* cluster, however stale the object the operator works on.
OnlyTeardownDeletes ==
    [][~obj.deleting =>
        \A v \in VpcIds :
            /\ VpcLives(v) => vpc'[v] # "gone"
            /\ endpoint[v] # "none" => endpoint'[v] \notin {"none", "deleting"}
            /\ \A s \in Slots :
                /\ subnet[v][s] # "none" => subnet'[v][s] # "none"
                /\ routeTable[v][s] \in {"associating", "associated"}
                        => routeTable'[v][s] \in {"associating", "associated"}]_vars

\* The recorded VPC ID is never replaced or dropped.
VpcIdStable ==
    [][obj.vpcId # NoId => obj'.vpcId = obj.vpcId]_vars

\* Route tables, subnets and the VPC are left alone until CAPA has deleted
\* its load balancer and its security groups from that VPC.
CapaGoesFirst ==
    [][\A v \in VpcIds : v \in {lb, sg} =>
        /\ vpc[v] = "available" => vpc'[v] = "available"
        /\ \A s \in Slots :
            /\ subnet[v][s] = "available" => subnet'[v][s] = "available"
            /\ routeTable[v][s] = "associated" => routeTable'[v][s] = "associated"]_vars

Ready == \A c \in Conditions : obj.conditions[c] = "True"

\* A cluster nobody deletes becomes ready in every condition, and stays so,
\* unless the user keeps or puts it out of the operator's hands.
BecomesReady == <>(obj.deleting \/ []Ready) \/ []<>~obj.private

\* What reconcileDelete cannot get rid of: it has no VPC ID to delete the
\* endpoint of, there is a subnet it does not know, or it has marked an
\* endpoint deleted that is still there.
Undeletable ==
    \/ obj.vpcId = NoId /\ ~UserManagedEndpoint
    \/ /\ obj.vpcId # NoId
       /\ \/ \E s \in Slots : /\ subnet[obj.vpcId][s] # "none"
                              /\ obj.subnetId[s] # obj.vpcId
          \/ endpoint[obj.vpcId] \in {"pending", "available"} /\ EndpointDeleted(obj)

\* A cluster the user deletes disappears, unless it stays undeletable.  One
\* whose annotation is taken away is left alone, with the operator's finalizer
\* on it, and goes on when the annotation is back.
DeletionCompletes ==
    <>obj.deleting => <>~obj.exists \/ <>[]Undeletable \/ []<>~obj.private

-----------------------------------------------------------------------------
(* What the repository says and the code does not keep: see the README.    *)

\* "Only one VPC per cluster name is supported." (pkg/aws/vpc/client_get.go)
AtMostOneVpc == Cardinality({v \in VpcIds : VpcLives(v)}) <= 1
=============================================================================
