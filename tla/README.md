# aws-vpc-operator in TLA+

The operator reconciles the network part of a cluster-api `AWSCluster`: one VPC
with its DNS attributes, its subnets, one route table per subnet and an S3
gateway endpoint. It shares the object with CAPA (the AWS infrastructure
provider of cluster-api), which creates load balancer and security groups in
that VPC. What makes it hard is not any single EC2 request but the order in
which requests, patches, crashes and the work of the other controller meet.
This directory models that, checks it with TLC on small instances and proves the
central safety properties with TLAPS for all sizes.

Run a check with `tlc -config MCAWSClusterController_safety.cfg
MCAWSClusterController`, a proof with `tlapm AWSClusterController_proofs.tla`, and
likewise for the other modules.

## Inventory

| Part | State it keeps | Operations | Speaks to |
|---|---|---|---|
| `controllers/awscluster_controller.go`, `conditions.go` | nothing between two calls; within one: the object as read, the patch helper's snapshot of it | `Reconcile`, `reconcileNormal`, `reconcileDelete`, deferred `Patch` | API server through a caching client; the four reconcilers below; CAPA through conditions and finalizers |
| `pkg/aws/vpc` | none (EC2 keeps the VPC) | `Reconcile` (create or get), `ReconcileDelete`, `ensureAttributes` | EC2 |
| `pkg/aws/subnets` | none | `Reconcile` (get, create missing, update tags), `ReconcileDelete`, `GetEndpointSubnets` | EC2, tags |
| `pkg/aws/routetables` | none | `Reconcile` (list, clean up, create and associate, tag), `ReconcileDelete` (disassociate, delete all) | EC2, tags |
| `pkg/aws/vpcendpoint` | none | `Reconcile` (get, create, update), `ReconcileDelete` | EC2 |
| `pkg/aws/tags` | none | `Build`, `Diff`, `Create` | EC2 |
| `pkg/aws/assumerole`, `resource.go` | none | credentials for a request | STS |
| `pkg/errors` | none | classes of AWS and Kubernetes errors | |
| `main.go` | work queue, informer cache (controller-runtime) | one worker, requeue, restart | API server |
| API server, informer, patch helper, EC2, CAPA, user | the object; the cached copy; the resources; load balancer and security groups | | environment of the above |

What is hard to test in this code, and why it decides what is modelled:

- **Results are kept only at the end.** A reconcile creates resources first and
  writes their IDs, its finalizer and its conditions in a deferred patch. A crash,
  a failed call or a refused patch in between loses them.
- **Stale reads.** The object comes from an informer cache and is patched without
  a resource version, so a reconcile may act on, and overwrite, an older state.
- **Two requests per patch.** Conditions go first (a three-way merge), then
  metadata and spec (a JSON merge patch, which replaces lists as a whole,
  including the list of finalizers that CAPA edits too).
- **Partial failures.** VPC, subnets, route tables are created in several
  requests; each may fail, or succeed with its answer lost.
- **Another controller.** Deletion must wait for CAPA, which is visible only
  through two conditions and a finalizer.
- **Asynchronous resources.** Everything EC2 creates is pending first; only a
  requeue brings the operator back to it.

Correctness, part by part:

- AWSCluster reconciler: recorded resources are guarded by the finalizer until
  they are gone; nothing is deleted without a user's deletion; CAPA goes first;
  a True condition speaks of resources that exist; a cluster becomes ready, and a
  deleted one disappears.
- VPC: at most one per cluster; a recorded one is completely configured; its ID
  never changes.
- Subnets and route tables: no table without its subnet; teardown in order;
  repeated teardown does no harm; half-made tables are cleaned up.
- VPC endpoint: marked deleted only when it is; created once; updated to exactly
  the wanted route tables.
- Tags: what a user adds arrives and stays, the operator's own tags heal, nobody's
  tags are removed, and updating them comes to an end.

`PROJECT.json` lists every component with its status and every hazard at its
line, with the properties that would notice it going wrong.

## Modules

| Module | Contents |
|---|---|
| `AWSClusterController` | the system: operator, API server, cache, EC2, CAPA, user, faults, one stage of a reconcile per action; its properties |
| `RouteTables` | the route table stage and its deletion, one EC2 request per action, while others edit the same VPC |
| `VpcEndpoint` | the endpoint stage and its deletion, likewise |
| `SubnetTags` | the tags of a subnet between spec and EC2, through one reconcile after the other |
| `NotReadyBackoff` | conditions, their ages, requeue delays and watch events while subnets and route tables are not ready |
| `NetworkLifecycle` | abstract: what the operator promises about the VPC of a cluster |
| `RouteTableSlots` | abstract: what the network may expect of the tables of its subnets |
| `AWSClusterControllerRefinement` | `AWSClusterController` implements both abstract specifications |
| `AWSClusterController_proofs`, `AWSClusterController_safety_proofs` | operators and types; inductive invariants and safety theorems |
| `AWSClusterControllerRefinement_proofs` | it does, for every number of subnets and VPC IDs |
| `RouteTables_proofs`, `RouteTables_contract_proofs` | types and what the operator takes away; one table per subnet and the refinement of `RouteTableSlots` |
| `VpcEndpoint_proofs`, `SubnetTags_proofs`, `NotReadyBackoff_proofs` | the theorems about these modules |
| `MC...` | the instances for TLC; a `.cfg` for each run |

`AWSClusterController` composes the parts: its stages are the parts with all of their
requests at once. `RouteTables`, `VpcEndpoint`, `SubnetTags` and `NotReadyBackoff` look at one
part from close by, with the data and the interleavings the composition leaves out. For the
route tables the two levels are tied together: both implement `RouteTableSlots`, so what the
stage of the composition does to the tables is what the requests are shown to do.

### AWSClusterController

State and code:

| Variable | In the program |
|---|---|
| `vpc`, `dns`, `subnet`, `routeTable`, `endpoint` | EC2: state of each VPC, whether both DNS attributes are set, state of the subnet and table of each slot of the spec, state of the S3 endpoint |
| `lb`, `sg` | the VPC CAPA's load balancer and security groups live in |
| `obj` | the AWSCluster in the API server: existence, deletion timestamp, finalizers, `spec.network.vpc.id`, subnet IDs, six conditions |
| `cache` | the same in the operator's informer cache |
| `queued` | the key is in the work queue (an error, `Requeue`, `RequeueAfter` or a watch event put it there) |
| `pc` | the next stage of the running reconcile, `idle` between calls |
| `base`, `work` | the patch helper's snapshot, and the object that `Reconcile` changes in memory |
| `faults` | how many failed calls and crashes have happened, at most `MaxFaults` |

A reconcile is a walk of `pc`: `Reconcile` (read cache, snapshot, add the
finalizer) then either `vpc`, `subnets`, `routeTables`, `endpoint` or
`deleteEndpoint`, `waitForCapa`, `deleteRouteTables`, `deleteSubnets`,
`deleteVpc`, then `patchConditions` and `patchObject`. Every stage is one action
with all of its EC2 requests and all changes to the in-memory object, and has a
twin `...Fails` for the error path: with everything a failure may leave behind in
EC2 and with the condition the code sets before it returns. `Return` is the early
return into the deferred patch; `Proceed` goes on to the next stage. Between any
two actions the cache may move, the user may delete, CAPA may write, EC2 resources
may settle, and the process may die.

Abstractions, with the reason each is sound for the properties:

- *A stage is atomic.* EC2 moves the operator's resources only forward (pending to
  available), CAPA creates and deletes nothing a stage writes, and there is one
  worker per object. A change of an EC2 state in the middle of a stage is the same
  as that change before or after it.
- *A subnet ID is the VPC it lies in*; the slot says which subnet. Route tables,
  one per subnet, are found by the subnet they are associated with.
- *EC2 is strongly consistent* and answers CreateVpc with `pending`.
- *The VPC of a recorded ID does not vanish by itself* (nobody deletes it behind
  the operator's back); a failed GetVpc is a fault.
- *`VpcIds` is the quota*: with all IDs used, CreateVpc fails.
- *The AWSCluster starts without a VPC ID*: one given by the user is not an initial state.
  Tags, CIDRs and zones are left out here; requeue delays are any length.
- *The `vpc-mode` annotation* is "private" at first. With `ModeChanges` the user takes it away
  and puts it back at any time, and `ReconcileSkips` is the early return for such a cluster.
- *Forbidden*: the API server accepts no new finalizer on an object with a deletion
  timestamp; a patch that would add one fails as a whole.
- *NotFound in the deferred patch* ends the call without a requeue when the object
  was being deleted, otherwise it is an error.

CAPA, EC2, user, API server, informer and patch helper are not in `src/`; they are
modelled from how the code uses them and marked external in `PROJECT.json`. CAPA
puts a finalizer on the object before it creates anything, uses the network only
once VPC and subnets are recorded and available, and deletes the load balancer
before the security groups, reporting each in its condition. Its condition may
also go from True to False with the resource still there when
`CapaRelapses` is set: a CAPA reconcile that fails marks it so.

Properties, and what would break them:

| Property | Says |
|---|---|
| `TypeOK` | types |
| `FinalizerGuardsVpc` | a recorded, living VPC implies an existing object with the operator's finalizer |
| `CapaStaysGuarded` | the operator's patch of the finalizer list never removes CAPA's while CAPA has something in the VPC |
| `RecordedVpcHasDns` | an ID reaches the spec only after `ensureAttributes` |
| `OneVpcWithoutFaults` | without a fault there is never a second VPC |
| `NoStrandedRouteTable` | tables live only beside their subnets, through all partial failures |
| `ReadyIsBacked` | a True condition is backed by EC2 and the spec. It leaves the subnet IDs out: conditions are patched before the spec, so `SubnetsReady` can be True while the second request is lost |
| `OnlyTeardownDeletes` | nothing a cluster uses is deleted before the user deletes the cluster, however stale the copy |
| `VpcIdStable` | a recorded VPC ID is never replaced |
| `CapaGoesFirst` | tables, subnets and VPC stay while CAPA is in the VPC |
| `ImplementsNetworkLifecycle` | all steps together are steps of `NetworkLifecycle` |
| `ImplementsRouteTableSlots` | the stages treat the tables of every VPC as `RouteTableSlots` allows |
| `BecomesReady` | a cluster nobody deletes, and whose annotation stays, becomes and stays ready |
| `DeletionCompletes` | a deleted cluster disappears, or stays in one of the three states named by `Undeletable`, or is kept out of the operator's hands |
| `AtMostOneVpc` | what the repository says; violated |

`Undeletable` is not a wish: it lists the states in which the code cannot
finish. No recorded VPC (`vpcendpoint/reconciler_delete.go:38` refuses the empty ID that the
later steps of `reconcileDelete` allow); a subnet in the VPC that was created but not
recorded; an endpoint marked deleted that is still there (`DeleteVpcEndpoints` reports a
failure in the list of its answer, and that list is dropped). One fault reaches each of
them, a user who deletes early the first without any, and `DeletionCompletes` says that
there are no others. The exception for `~obj.private` is the annotation: a cluster it is
taken from is not looked at any more and keeps the finalizer for as long.

### SubnetTags

`AWSClusterController` leaves tags out; this module models nothing but them, for one
subnet: the subnets of a cluster share only the patch, which replaces their list as a
whole. A tag map is a function from keys to values, `NoTag` for an absent key.

| Variable | In the program |
|---|---|
| `cluster`, `cache` | the subnet's tags in `spec.network.subnets` and `spec.additionalTags`, in the API server and in the informer |
| `exists`, `ec2` | EC2: the subnet and its tags |
| `pc` | `idle`, before `DescribeSubnets` (`get`), before the request that follows (`reconcile`), before the deferred `patch` |
| `obj`, `seen`, `found`, `result` | the object as read, what `DescribeSubnets` returned, and the tags the subnet has in the object at the end |

What the operator wants (`SubnetTagsOf`) depends on the kind of the key: role and
ownership are always the operator's value (`FixedKeys`), load balancer tags are it unless
the spec says otherwise (`RoleKeys`), the name also gives way to the AdditionalTags
(`NameKeys`), and for `OtherKeys` the operator has no value. `RecordedTags` is the heart of
the module: the reconciler returns the status with the wanted tags and then, for every
subnet, the status read before the update, and the caller keeps the last. The user edits
both maps and somebody else the tags on EC2, between any two steps; `Abandon` is a failed
call before or after its effect, a failed patch, or the death of the process. EC2 is taken
to ignore the empty tags with which `tags.Create` starts its request. The other subnets of
the list are present in one way: a change in one of them makes the patch send the whole list,
with this subnet's result in it, and `PatchCluster` may do so at any time.

| Property | Says |
|---|---|
| `TypeOK` | types; no tags without a subnet |
| `OperatorKeepsKeys` | no step of the operator removes a key on EC2 |
| `KeysSettle` | spec and EC2 end up with the same keys, the operator's among them |
| `FixedTagsHeal` | role and ownership tags get their value back and keep it |
| `AddedKeyArrives` | a key the user added reaches EC2 and stays in both, although the spec loses it for one reconcile |
| `SettlesOrSwaps` | the operator comes to an end of updating, or the same two values of a tag change places between spec and EC2 for ever |
| `TagsSettle` | the operator comes to an end of updating; violated |

Two consequences are worth knowing and are no properties: a tag removed from the spec
comes back from EC2, and a change of the AdditionalTags is ignored for keys that the spec
has recorded (lemma `RecordedTagsAreWanted`).

### RouteTables

The stage `ReconcileRouteTables` of the core in close-up: one EC2 request per action, and
between two of them anybody may create, delete, associate and disassociate tables of the
same VPC (at most `MaxEdits` times), a call may fail or the process die (`MaxFaults`).

| Variable | In the program |
|---|---|
| `live`, `used`, `name`, `assoc` | EC2: the tables of the VPC, the IDs given out, the subnet a table's tags name, and per subnet (and gateway) the table associated explicitly |
| `deleting`, `teardown` | the deletion timestamp; whether the running call is `ReconcileDelete` |
| `seen`, `todo`, `tagging`, `creating`, `ready` | what `List` returned, and the loops made of it: leftovers (or all tables) to delete, tables to tag again, subnets without a table, the result so far |
| `target`, `found` | the table being deleted and the associations to remove first, or the table made last |
| `outcome` | how the last reconcile ended: an error, a result that is ready or not, or the deletion |

`Get` and `TakeListed` are the two ways to a table's associations: `Delete` reads the table
again, `DeleteAll` uses what it has listed. `Disassociate` and `DeleteTable` follow for both.
A 404 is ignored by the clients; EC2 may answer 400 for what is gone as well (`NotFound`
takes either branch). Left out: routes (the code makes none), the association state "failed"
(the code only waits for such a table, as it does for "associating"), and the zone: the
subnets are taken to be in different zones, so a table's name tag tells the subnet. The
controller allows several in one zone, whose tables then have the same tags. The stage goes by
associations and by whether a table is tagged at all; it compares names only to tag again.

| Property | Says |
|---|---|
| `OneTablePerSubnet` | failed calls and crashes never make a second table for a subnet |
| `ReadyMeansServed` | a ready result means every subnet has a table of its own, associated |
| `UntaggedTablesKept` | a table with no tags of the operator, and every association of it, survives every reconcile of a living cluster |
| `SeenAssociationsKept` | a reconcile removes no association that it has listed |
| `ImplementsRouteTableSlots` | request by request, steps of `RouteTableSlots` |
| `TablesSettle`, `TablesGo` | after the last edit every subnet gets its table and no leftover stays; deletion leaves the main table alone |

### VpcEndpoint

The endpoint stage and its deletion, one request per action, with others editing tables and
endpoint in between. `ListTables` is the controller's listing of route tables
(`awscluster_controller.go:559`), `Get`, `Create`, `Modify`, `UpdateTags` are `Reconcile`,
`GetForDeletion` and `Delete` are `ReconcileDelete`. The lists are sets: they are sorted only
to be searched. What `cloneAndSort` really returns stays: n empty strings before n elements,
modelled by one element `Empty`, which EC2 would refuse. Subnets are left out of the request,
since a gateway endpoint has none.

| Variable | In the program |
|---|---|
| `tables`, `endpoint`, `served` | EC2: the tables of the VPC, the state of the endpoint, and the tables it serves |
| `deleting` | the deletion timestamp |
| `pc`, `wanted`, `current`, `seen` | the next request; the tables as `List` returned them, and what `Get` returned |
| `outcome` | how the last reconcile ended; `deleted` is the sticky Deleted condition |
| `missed` | what has become of the endpoint that the operator read, without its notice: another one has taken its place (an ID in hand is then of no use), or EC2 `kept` it |

`Delete` has three outcomes, and the code takes all for success, because `client_delete.go:70`
discards the answer: the endpoint is on its way out; the ID is of one that is gone, and is only
listed as unsuccessful; or EC2 does not delete the endpoint (one of the `MaxFaults` faults) and
lists it likewise. The third is the last of the states of `Undeletable` in the core.

| Property | Says |
|---|---|
| `NoNeedlessModify` | the empty strings cancel out: no ModifyVpcEndpoint unless somebody edited something |
| `EndpointCovers` | the endpoint comes to serve all tables, whatever was edited and failed, or is left as serving none |
| `EndpointGoes` | deletion ends, with no endpoint, or with one that was `missed` |

### NotReadyBackoff

Time, in minutes, while subnets and route tables are not ready. `Backoff` is the choice of
severity and delay (`awscluster_controller.go:383` and its twin for tables), `Set` is the
conditions package, which keeps the transition time of an unchanged condition, and `event` is
the watch event by which the operator's own patch brings it back: the controller has no
predicate, so every changed condition starts a reconcile at once. `Tick` lets a minute pass
when nothing is due. `Cap` and `MaxBusy` bound the counters above the values the properties
compare them with, and `Never` is later than any delay. The patch that records a route table ID
always changes a condition too, so its event needs no variable. EC2 lists subnets in a
fixed order; the tables come out of a Go map, in any order.

| Property | Says |
|---|---|
| `NoticedInTime` | a quarter of an hour after EC2 is ready, at the latest, both conditions are True |
| `WaitsInBetween` | the operator's own patches do not keep it running, unless several tables are not ready |
| `InitiallyRetriesMoreOften` | a comment of the code; violated |

### The abstract specifications

`NetworkLifecycle` is five actions on four variables: guard, acquire, request deletion,
release, finish. The refinement maps them to the object in the API server and to the VPC it
names; EC2, CAPA, caches, snapshots and all other resources disappear.

`RouteTableSlots` gives each subnet a slot, which holds nothing, a table not associated yet,
or one that serves. While a cluster lives a serving slot keeps serving and at most one
attempt waits to be cleared away; on the way out anything goes. `RouteTables` implements it
(`slot` is computed from tags and associations) until somebody edits the VPC, and
`AWSClusterController` implements it for every VPC, with and without a recorded ID. So the one
action `ReconcileRouteTables` of the composition, and what its failure may leave behind, are
steps of the same machine as the requests.

## Runs

| Run | Instance | Shows |
|---|---|---|
| `safety` | 2 VPC IDs, 2 subnets, 2 faults | all safety properties of the composition and both refinements; 2 subnets so that a loop can fail in its middle, 2 faults so that a retry can fail too |
| `lag` | 2 VPC IDs, 1 subnet, the cache trails, no fault | what holds even for stale reads: CAPA's finalizer, no early deletion, CAPA first |
| `liveness` | 1 subnet, 1 fault, CAPA may relapse, fair | becoming ready, and disappearing |
| `user_managed` | the same, a user managed endpoint, and the annotation comes and goes | deletion also with no VPC recorded (the endpoint stage is the only one that refuses the empty ID), and across skipped reconciles |
| `tags_keys` | one key of each kind, 2 edits anywhere, 1 fault, a stale cache | the properties of `SubnetTags` but the last; two edits so that both ends, or one end twice, can change within a reconcile |
| `route_tables` | 2 subnets, a foreign subnet, a gateway, 2 edits, 1 fault | the properties of `RouteTables`; two edits so that a table can be made and associated, or given away and taken back, within one reconcile |
| `endpoint` | 3 tables, 3 edits, 2 faults | the properties of `VpcEndpoint`; three edits so that the endpoint can be replaced, before and during the deletion, and its tables changed |
| `backoff` | 2 subnets, any timing | the properties of `NotReadyBackoff`; two tables are needed for a message that alternates |
| `crash_leak`, `capa_relapse`, `tags_flip_flop`, `backoff_first_retry` | the smallest instance that shows it | the disagreements below |

Bounds. Two VPC IDs are the smallest number that shows a second VPC; a third shows
nothing new because the operator never looks at a VPC it has no ID of. `faults`
bounds failed calls, crashes and CAPA failures together: without a bound every
property of progress fails trivially, and two of them cover a failure and a failure
of its repair. The VPC IDs are symmetric in the safety and lag runs; the liveness runs use no
symmetry. Faults are off in `lag` because every loss of a patch is also a lag that never ends
before the next reconcile, and the combination only multiplies states. In the other modules
the edits of the environment are the only other counter; the safety properties of
`RouteTables` and `VpcEndpoint` are proved for any number of them.

Fairness. `WF(OperatorSteps)`: controller-runtime serves a queued request and a
running call goes on or ends with an error. `WF(SyncCache)`: watch events arrive.
Weak fairness of every EC2 transition and of CAPA's own progress: both systems
finish what they started. The user need not delete, no fault need happen, and CAPA's
failures are not fair. In the close-ups a reconcile starts again and again: errors and results
that are not ready are retried, a patch that changes the object queues it by a watch
event, and the informer's periodic resync does it without one. Edits and faults are bounded
and not fair; the liveness properties speak of the time after them. `NotReadyBackoff` has
no fairness: its properties bound times and are invariants.

Stopping is legitimate only in the two `Finished` (the object is gone and the queue is empty;
the endpoint is marked deleted), so deadlock is checked in every run.

## Disagreements

Each is the counterexample of a `violation` run, of a property that quotes the
repository.

1. `crash_leak` - `vpc/client_get.go:54` allows one VPC per cluster, but the ID of a
   new VPC is kept in memory until the deferred patch, and CreateVpc does not look
   for an existing one: one failed `ensureAttributes`, failed patch or crash makes
   a second VPC. A request served from a cache that has not seen the last patch does
   the same without any fault, and overwrites the first ID.
2. `capa_relapse` - `reconcileDelete` waits for security groups only while their
   condition is True, Deleting or DeletingFailed; False for another reason counts as
   deleted. The same does not happen with a load balancer whose condition is still
   False: it is waited for through the security groups' condition.
3. `tags_flip_flop` - `subnets/reconciler_normal.go:83` updates the subnet with its new
   tags, but line 139 appends the statuses read before the update, and the spec gets the
   old tags. Change the value of a recorded tag and the next reconcile writes the old value
   to EC2 and the new one to the spec, and so on. Every exchange patches the object, so the
   watch starts the next one at once. A failed patch ends it by accident: the spec then
   keeps the new value and EC2 has it. Without one it never ends (theorem `ExchangeNeverEnds`).
4. `backoff_first_retry` - `awscluster_controller.go:381` says "initially retry more often",
   but the branches that ask for one and five minutes need the severity Info, which only they
   set: the first delay is a quarter of an hour, and so are all others.

Other places where the code does less than one would expect are written into the
properties as exceptions, so that a run shows there is nothing else:

- `DeletionCompletes`: the three states of `Undeletable`, above.
- `EndpointCovers`: an endpoint that serves no table stays so. `cloneAndSort` of the empty list
  has no empty string, so the difference asks EC2 to add one, which it refuses, every time.
- `EndpointGoes`: an endpoint that EC2 kept in spite of `DeleteVpcEndpoints`, and one that somebody
  makes after the operator has looked, stay, and the operator has marked the endpoint deleted.
- `UntaggedTablesKept` speaks of tables without tags: a user's table that a cluster subnet uses
  gets the operator's tags, and goes as a leftover once the subnet no longer uses it.
- `SeenAssociationsKept` speaks of associations that were listed: one made between List and
  the second reading of a leftover table is removed with it.
- `WaitsInBetween`: with several tables not ready the condition names one at random; each change
  of the name is a patch, and each patch a reconcile, whatever delay was asked for.

## Theorems

All hold for every value of the constants, from each module's `ConstantsAssumption` (for
`SubnetTags`: `ValuesAssumption`, the absent tag is no value, and `BoundsAssumption`).

`AWSClusterController`, from an ID that is not the empty one, at least one subnet,
Boolean switches, a natural number of faults:

- `TypeCorrect`: `Spec => []TypeOK`. `TypeOK` alone is not inductive: the stages after
  the first index EC2 by `work.vpcId`. `TypeInv` adds `StageHasVpc`, that these stages
  run only with a VPC ID.
- `RecordedVpcIsConfigured`: `Spec => []RecordedVpcHasDns`. The property speaks of the
  object, but an ID travels cache, snapshot, copy, patch, so `DnsInv` says it of all
  four. It needs nothing about lag or faults.
- `TeardownDeletesOnly`: `Spec => OnlyTeardownDeletes`, with lag. `TeardownInv`: a copy
  has a deletion timestamp only if the object has one, a delete stage runs only on such
  a copy, and only then an endpoint is being deleted; the rest is a case analysis of the
  normal stages and their failures (`KeepsSubnetsAndTables`).
- `FinalizerGuards` and `VpcIdIsStable`: `FinalizerGuardsVpc` and `VpcIdStable`, when the
  cache does not lag (with lag both fail, and so do `NoStrandedRouteTable`,
  `OneVpcWithoutFaults` and `ReadyIsBacked`, by a second VPC).
  `GuardInv` relates the snapshot to the object while a reconcile runs: same VPC ID, same
  view of the operator's finalizer; a normal reconcile adds the finalizer and at most
  fills in a missing ID, a deleting one drops the finalizer only with the VPC gone.
- `NoRouteTableIsStranded` (no lag). `SubnetIdsInv`: the subnet IDs of every copy lie in the VPC
  it names; `OrderInv`: the stages that delete subnets run when the tables of the VPC are gone,
  the one that makes tables when every subnet is there.
- `OneVpcUnlessFaults` (no lag). `OneVpcInv` accounts for every VPC: recorded, in the hands of a
  reconcile whose patch cannot be refused, or of an object being deleted, for which none is made.
- `ReadyMeansReady` (no lag). `ReadyInv`: the copy a reconcile writes to is as true as the object,
  of the VPC that is recorded before the patch; nothing a condition speaks of goes away while
  nobody deletes the cluster.
- `CapaIsGuarded`, with lag. Why replacing a list is harmless: a patch touches the finalizers only
  if its snapshot lacked the operator's, or to remove that one at the very end. `ClaimInv` and
  `Held`: what CAPA builds on was recorded by a patch that added the operator's finalizer, and both
  cache and snapshot are at least that new; `CapaSeenInv`: a copy of an object being deleted has
  CAPA's finalizer if the object still has, since nobody gets one any more.
- `CapaLeavesFirst`: `CapaGoesFirst`, with lag, if CAPA does not relapse. `HeldBackInv`: while there
  are security groups, their condition holds the deletion back in every copy it may start from, and
  there is no load balancer without security groups.
- `DeletedVpcStaysEmpty`, with lag: nothing is made in a VPC that is gone. `EmptyInv`: the stages
  that build run in a VPC that is available, because the reconcile they belong to has just asked
  for it, and a VPC goes only in a delete stage, never in the same reconcile.
- `NothingOutlivesTheCluster` (no lag): when the object is gone the recorded VPC is deleted and
  empty. From `GuardInv` (no object, no living VPC), `DnsInv` and `EmptyInv`. A VPC that was never
  recorded is the leak of `crash_leak`: no theorem speaks of it.
- `ReadyClusterStaysReady` (no lag): from a state between two reconciles in which every condition is
  True and nothing fails any more, they stay so until the user deletes. `ReadyStaysInv`: snapshot and
  copy of the running reconcile are as ready as the object; by `ReadyInv` each stage finds in EC2
  what its condition says, and by `CapaReadyInv` (what CAPA reports ready it has) no step of CAPA
  takes a condition back. It uses the invariants of types, teardown, guard, claims, CAPA, readiness.
- `UndeletableStays` (no lag): the three exceptions of `DeletionCompletes` are final.
  `UndeletableInv`: the running reconcile is a deletion whose snapshot and copy know no more subnets
  than the object, and skip an endpoint that the object marks deleted.
- `NetworkLifecycleIsImplemented`: `Spec => ImplementsNetworkLifecycle`, when the cache does
  not lag. Every step is simulated by one abstract step or none. Besides the invariants above it
  needs `FreshInv`: an ID that is about to be recorded names a VPC that lives.
- `RouteTableSlotsAreImplemented` of the composition, with lag: from `TeardownInv` and
  `LeftoverInv`, that at most one table of a VPC waits to be associated.

The step lemmas share one classification of steps, `StepShape`: what a stage, a patch,
another writer, a crash do to the four copies of the object; each invariant is then
checked against seven shapes instead of forty actions.

`RouteTables`:

- `TypeCorrect`, `UntaggedTablesAreKept`, `SeenAssociationsAreKept`, from `TypeInv` (types, and which
  parts of memory are in use at which stage) and `PlanInv`: what a reconcile means to delete are
  tagged tables that served no subnet when listed.
- `HasOneTablePerSubnet`, `ReadyIsServed`, `RouteTableSlotsAreImplemented`, from `UneditedInv`, about
  a VPC nobody has edited: a tagged table serves the subnet it names or none, and no two name the
  same (`OwnedInv`); the running reconcile knows all subnets without a table, and all leftovers
  that name one of them (`RunInv`); a ready result speaks of EC2, and at rest there is at most
  one leftover (`ResultInv`). They are inductive only together: that there is one table per
  subnet follows from leftovers being cleared before the next table is made, which is a fact
  about what the reconcile has seen.
- `SettledTablesStay` and `EmptiedVpcStaysEmpty`: after the last edit, tables that serve every subnet
  (`ServedInv`: what a running reconcile still plans, it plans against such tables, and is
  harmless) and a VPC emptied by a deletion (`EmptiedInv`) stay so, through failures and crashes.

`VpcEndpoint`:

- `TypeCorrect`, and `ModifiesOnlyAfterEdits` (`NoNeedlessModify`).
- `CoverageStays`: an endpoint that serves every table, with no other one in the hands of the
  running reconcile, goes on to until the cluster is deleted; `BareEndpointStaysBare`: one left
  without a table is never given one, whatever the tables are.
- `DeletedEndpointIsGone`: when `ReconcileDelete` reports the endpoint deleted it is gone or going,
  or EC2 kept it, which takes a fault, or somebody else made another, which takes an edit. By
  `MarkedInv` (only a deletion ends so) and `MissedInv` (who is behind `missed`).
  `DeletedEndpointStaysGone`: if it was gone or going and edits are over, it stays so; the operator
  may lose its mark and look again, but makes none (`GoneInv`).

`SubnetTags`:

- `TypeCorrect`: `Spec => []TypeOK`, with no tags on a subnet that does not exist.
- `TagsAreKept`: `Spec => OperatorKeepsKeys`. It needs `FoundIsExisting` (while the reconcile
  holds an answer of `DescribeSubnets`, the subnet exists exactly if it was found), or
  CreateSubnet could start an existing subnet afresh.
- `SettledSubnetIsLeftAlone` and `UpdateExchangesTags`: for recorded tags
  (`RecordedTagsAreWanted`: they are exactly what the next reconcile asks for) a reconcile does
  nothing when EC2 agrees, and exchanges spec and EC2 when their values differ. The second is
  why the run `tags_flip_flop` never ends, for all keys and values.
- `ExchangeNeverEnds` says so of whole behaviours (no lag, no further edit or failure): from
  `Exchanging(t, u)` spec and EC2 hold `t` and `u`, or `u` and `t`, at the end of every reconcile.
- `AddedKeyIsKept`, `SettledKeysStay`, `FixedTagsStay`, `AgreeingTagsRest`: a key the user added is on EC2
  or in the spec in every state; keys that have settled, the operator's own tags, and tags that
  agree stay. Each has an invariant that follows the keys through cache, copy and answer.

`NotReadyBackoff`: `TypeCorrect`, `IsNoticedInTime` and `RunsAtMostThreeTimes`. `NoticedInTime` is made inductive by
counting: as long as a condition is behind EC2, a call is scheduled that comes before the
quarter of an hour is over (`NotNoticedYet`). The case that needs care is the reconcile that reads
the subnets' tables before the last association and its own tables after: it turns one condition
True and not the other, and only its patch brings it back (`RouteTablesTrue`, `MarkedTrue`).

`RunsAtMostThreeTimes` is `WaitsInBetween`: `RunsInv` says, for each number of runs since the
environment's last step, which conditions already repeat what EC2 will be read to say. Without
subnets the first run settles the condition and the second changes nothing; with subnets and no
tables the first run makes them; with tables the first settles RouteTablesReady, the second
SubnetsReady, and the third changes nothing, so its patch makes no event. That a table is named at
random does no harm with one table that is not ready, because then there is only one name.

Every safety invariant and action property of the passing runs is a theorem, and so are the three
refinements. Only model-checked are the liveness properties (`BecomesReady`,
`DeletionCompletes`, `TablesSettle`, `TablesGo`, `EndpointCovers`, `EndpointGoes`, `KeysSettle`, `FixedTagsHeal`,
`AddedKeyArrives`, `SettlesOrSwaps`), which with fairness and ENABLED are out of the prover's reach.
Most of them say that something is reached and then stays so. That it stays is proved, by the theorems
named `...Stay`, `...Stays`, `...StaysReady`, `AddedKeyIsKept`, `AgreeingTagsRest`, `ExchangeNeverEnds`, from
a state that the runs reach, and what a deletion that ends leaves behind by
`NothingOutlivesTheCluster`; that such a state is reached is left to TLC. `ExchangeNeverEnds` speaks of
behaviours without lag and failures, where the run allows both.

## Not modelled, and the plan

Next: that `AWSClusterController`'s endpoint stage and `VpcEndpoint` implement one abstract
endpoint, as the two levels of the route tables do; and the safety invariants with a lagging
cache, in the weaker form that allows for a second VPC.

Not modelled in the parts that are:

- a VPC ID given by the user, and VPC and subnet CIDRs (they are passed on unchecked);
- tags of VPC and endpoint, and the empty tags at the start of every `tags.Create` request: what
  EC2 makes of them cannot be told from the code;
- `subnets.Update` with a route table ID, which nothing calls, and the list of subnets of a
  gateway endpoint, which EC2 does not take;
- states of a VPC other than pending and available, which EC2 does not have: the code then sets
  VpcReady to False and returns an error, in this model what `AfterVpc` does for pending.

Not modelled at all: `assumerole`, error classification (`pkg/errors`) beyond what a 404 or a
refusal leads to, flags, leader election (one replica), metrics, logging, manifests and the
chart; they keep no state the properties speak of.
