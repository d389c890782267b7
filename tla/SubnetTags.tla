----------------------------- MODULE SubnetTags -----------------------------
(***************************************************************************)
(* The tags of one subnet of an AWSCluster: how the subnet stage of a      *)
(* reconcile (controllers/awscluster_controller.go, pkg/aws/subnets,       *)
(* pkg/aws/tags) carries them from the spec to EC2 and from EC2 back into  *)
(* the spec, while the user and others edit both ends.                     *)
(*                                                                         *)
(* The subnet is found by its CIDR block, so one that exists is found.     *)
(* The other stages of the reconcile are in AWSClusterController.          *)
(***************************************************************************)
EXTENDS Naturals

CONSTANTS
    FixedKeys,   \* role and ownership: tags Build sets last, over any other
    RoleKeys,    \* load balancer tags: over AdditionalTags, under the subnet's
    NameKeys,    \* the name: generated when nobody gives one
    OtherKeys,   \* keys the operator has no value for
    Values,      \* values that users give to tags
    Own,         \* the value that the operator gives to a key
    NoTag,       \* the tag is absent
    CacheLags,   \* may a reconcile read an old AWSCluster?
    MaxEdits,    \* bound: edits by the user and by others on EC2
    MaxFaults    \* bound: failed calls and deaths of the process

Keys == FixedKeys \cup RoleKeys \cup NameKeys \cup OtherKeys

ASSUME KeysAssumption ==
    /\ FixedKeys \cap (RoleKeys \cup NameKeys \cup OtherKeys) = {}
    /\ RoleKeys \cap (NameKeys \cup OtherKeys) = {}
    /\ NameKeys \cap OtherKeys = {}

ASSUME ValuesAssumption == NoTag \notin Values \cup {Own}

ASSUME BoundsAssumption ==
    MaxEdits \in Nat /\ MaxFaults \in Nat /\ CacheLags \in BOOLEAN

TagMap == [Keys -> Values \cup {Own, NoTag}]

Untagged == [k \in Keys |-> NoTag]

VARIABLES
    cluster,   \* API server: subnet tags and AdditionalTags of the AWSCluster
    cache,     \* the informer's copy of cluster
    exists,    \* EC2: has the subnet been created?
    ec2,       \* EC2: the tags of the subnet
    pc,        \* where the reconcile is
    obj,       \* the reconcile's copy of the AWSCluster
    seen,      \* the tags DescribeSubnets returned
    found,     \* did DescribeSubnets return the subnet?
    result,    \* the subnet's tags after the reconcile, to be patched
    edits,     \* edits left
    faults     \* faults left

reconcileVars == <<pc, obj, seen, found, result>>
vars == <<cluster, cache, exists, ec2, reconcileVars, edits, faults>>

Stages == {"idle", "get", "reconcile", "patch"}

Init ==
    /\ cluster = [tags |-> Untagged, additional |-> Untagged]
    /\ cache = cluster
    /\ exists = FALSE
    /\ ec2 = Untagged
    /\ pc = "idle"
    /\ obj = cluster
    /\ seen = Untagged
    /\ found = FALSE
    /\ result = Untagged
    /\ edits = MaxEdits
    /\ faults = MaxFaults

-----------------------------------------------------------------------------
(* Tags as maps.                                                           *)

\* The tags of `over`, and those of `under` that `over` does not have.
Over(over, under) ==
    [k \in Keys |-> IF over[k] # NoTag THEN over[k] ELSE under[k]]

OwnTags(S) == [k \in Keys |-> IF k \in S THEN Own ELSE NoTag]

\* Mutant: the tags of the spec are set after the role and ownership tags.
SpecOverFixedTags(c) ==
    Over(c.tags,
         Over(OwnTags(FixedKeys \cup RoleKeys),
              Over(c.additional, OwnTags(NameKeys))))

\* getSubnetTags and Build: later assignments win.
SubnetTagsOf(c) ==
    Over(OwnTags(FixedKeys),
         Over(c.tags,
              Over(OwnTags(RoleKeys), Over(c.additional, OwnTags(NameKeys)))))

\* The keys of t1 that t2 lacks or has with another value.
Diff(t1, t2) == {k \in Keys : t1[k] # NoTag /\ t1[k] # t2[k]}

-----------------------------------------------------------------------------
(* The subnet stage of a reconcile.                                        *)

\* The work queue serves the object; the VPC stage is done.
Begin ==
    /\ pc = "idle"
    /\ obj' = IF CacheLags THEN cache ELSE cluster
    /\ pc' = "get"
    /\ UNCHANGED <<cluster, cache, exists, ec2, seen, found, result, edits, faults>>

\* Mutant: any subnet with the CIDR block is taken, also one of another VPC.
GetSubnetsOfAnyVpc ==
    /\ pc = "get"
    /\ seen' = ec2
    /\ found' = TRUE
    /\ pc' = "reconcile"
    /\ UNCHANGED <<cluster, cache, exists, ec2, obj, result, edits, faults>>

\* client.Get.
GetSubnets ==
    /\ pc = "get"
    /\ seen' = ec2
    /\ found' = exists
    /\ pc' = "reconcile"
    /\ UNCHANGED <<cluster, cache, exists, ec2, obj, result, edits, faults>>

\* The subnet is created with its tags, and EC2's answer goes into the spec.
CreateSubnet ==
    /\ pc = "reconcile" /\ ~found
    /\ exists' = TRUE
    /\ ec2' = SubnetTagsOf(obj)
    /\ result' = ec2'
    /\ pc' = "patch"
    /\ UNCHANGED <<cluster, cache, obj, seen, found, edits, faults>>

\* The tags that the spec ends up with for a subnet that was found. The
\* status with the wanted tags is followed by the one DescribeSubnets returned
\* before the update, and the last status of a subnet wins.
RecordedTags(wanted, before) == before

\* Mutant: the tags are replaced.
ReplaceTags ==
    /\ pc = "reconcile" /\ found
    /\ LET wanted == SubnetTagsOf(obj) IN
       /\ Diff(wanted, seen) # {}
       /\ ec2' = wanted
       /\ result' = RecordedTags(wanted, seen)
    /\ pc' = "patch"
    /\ UNCHANGED <<cluster, cache, exists, obj, seen, found, edits, faults>>

\* CreateTags sends all wanted tags; it adds and overwrites, and removes none.
UpdateSubnet ==
    /\ pc = "reconcile" /\ found
    /\ LET wanted == SubnetTagsOf(obj) IN
       /\ Diff(wanted, seen) # {}
       /\ ec2' = Over(wanted, ec2)
       /\ result' = RecordedTags(wanted, seen)
    /\ pc' = "patch"
    /\ UNCHANGED <<cluster, cache, exists, obj, seen, found, edits, faults>>

NothingToUpdate ==
    /\ pc = "reconcile" /\ found
    /\ LET wanted == SubnetTagsOf(obj) IN
       /\ Diff(wanted, seen) = {}
       /\ result' = RecordedTags(wanted, seen)
    /\ pc' = "patch"
    /\ UNCHANGED <<cluster, cache, exists, ec2, obj, seen, found, edits, faults>>

\* Mutant: only the status is patched.
PatchStatus ==
    /\ pc = "patch"
    /\ pc' = "idle"
    /\ UNCHANGED <<cluster, cache, exists, ec2, obj, seen, found, result, edits, faults>>

\* The deferred patch: a merge patch without a resource version that replaces
\* the list of subnets when the reconcile changed it, here or in another subnet
\* of the list, and is silent otherwise.
PatchCluster ==
    /\ pc = "patch"
    /\ \/ cluster' = [cluster EXCEPT !.tags = result]
       \/ result = obj.tags /\ cluster' = cluster
    /\ pc' = "idle"
    /\ UNCHANGED <<cache, exists, ec2, obj, seen, found, result, edits, faults>>

\* A call fails, before or after EC2 acted on it, the patch fails, or the
\* process dies: the spec stays as it is, and so does what EC2 has done.
Abandon ==
    /\ pc # "idle"
    /\ faults > 0
    /\ faults' = faults - 1
    /\ pc' = "idle"
    /\ UNCHANGED <<cluster, cache, exists, ec2, obj, seen, found, result, edits>>

-----------------------------------------------------------------------------
(* The world around the operator.                                          *)

CacheSync ==
    /\ cache # cluster
    /\ cache' = cluster
    /\ UNCHANGED <<cluster, exists, ec2, reconcileVars, edits, faults>>

Edit(t, k, v) == t[k] # v /\ edits > 0 /\ edits' = edits - 1

UserEditsSubnetTags(k, v) ==
    /\ Edit(cluster.tags, k, v)
    /\ cluster' = [cluster EXCEPT !.tags[k] = v]
    /\ UNCHANGED <<cache, exists, ec2, reconcileVars, faults>>

UserEditsAdditionalTags(k, v) ==
    /\ Edit(cluster.additional, k, v)
    /\ cluster' = [cluster EXCEPT !.additional[k] = v]
    /\ UNCHANGED <<cache, exists, ec2, reconcileVars, faults>>

SomebodyEditsEC2(k, v) ==
    /\ exists
    /\ Edit(ec2, k, v)
    /\ ec2' = [ec2 EXCEPT ![k] = v]
    /\ UNCHANGED <<cluster, cache, exists, reconcileVars, faults>>

-----------------------------------------------------------------------------
Operator ==
    \/ Begin \/ GetSubnets
    \/ CreateSubnet \/ UpdateSubnet \/ NothingToUpdate
    \/ PatchCluster

Next ==
    \/ Operator
    \/ Abandon
    \/ CacheSync
    \/ \E k \in Keys, v \in Values \cup {NoTag} :
        \/ UserEditsSubnetTags(k, v)
        \/ UserEditsAdditionalTags(k, v)
        \/ SomebodyEditsEC2(k, v)

\* The work queue serves the object again after every patch and at every
\* resync of the informer; the cache catches up.
Spec ==
    /\ Init /\ [][Next]_vars
    /\ WF_vars(Operator) /\ WF_vars(CacheSync)

-----------------------------------------------------------------------------
(* Properties.                                                             *)

\* Every variable holds a value of its kind, and nothing is tagged on a subnet
\* that does not exist.
TypeOK ==
    /\ cluster \in [tags : TagMap, additional : TagMap]
    /\ cache \in [tags : TagMap, additional : TagMap]
    /\ obj \in [tags : TagMap, additional : TagMap]
    /\ exists \in BOOLEAN /\ found \in BOOLEAN
    /\ ec2 \in TagMap /\ seen \in TagMap /\ result \in TagMap
    /\ pc \in Stages
    /\ edits \in 0..MaxEdits /\ faults \in 0..MaxFaults
    /\ found => exists
    /\ ~exists => ec2 = Untagged

Present(t) == {k \in Keys : t[k] # NoTag}

\* The operator takes no tag away: none of its steps removes a key from the
\* subnet on EC2, one it does not know of included. (It calls CreateTags alone,
\* and creates a subnet only when there is none: pkg/aws/subnets.)
OperatorKeepsKeys == [][Operator => Present(ec2) \subseteq Present(ec2')]_vars

\* The keys settle: once edits and faults are over, the spec and EC2 end up
\* with the same keys, and with every key that the operator gives to a subnet.
\* (The statuses of pkg/aws/subnets/reconciler_normal.go written back by
\* awscluster_controller.go:340.)
KeysSettle ==
    <>[](/\ exists
         /\ Present(cluster.tags) = Present(ec2)
         /\ FixedKeys \cup RoleKeys \cup NameKeys \subseteq Present(ec2))

\* The role and ownership tags heal: whatever the user asks for and whoever
\* changes them on EC2, they get their value back and keep it. (Build sets them
\* after the tags of the spec, where a changed value comes back by itself.)
FixedTagsHeal == <>[](\A k \in FixedKeys : ec2[k] = Own)

\* A tag that the user adds arrives: a key of the subnet's tags or of the
\* AdditionalTags that is there when the edits are over and the operator is
\* between reconciles reaches EC2 and the spec, and stays in both. (The spec
\* loses the key for one reconcile, which writes back the tags of before.)
AddedKeyArrives ==
    \A k \in Keys :
        [](/\ edits = 0 /\ pc = "idle" /\ cache = cluster
           /\ \/ cluster.tags[k] # NoTag
              \/ cluster.additional[k] # NoTag
           => <>[](ec2[k] # NoTag /\ cluster.tags[k] # NoTag))

\* A tag other than the role and ownership tags, with one value in the spec
\* and another one on EC2.
ValuesDiffer ==
    \E k \in Keys \ FixedKeys :
        /\ cluster.tags[k] # NoTag /\ ec2[k] # NoTag
        /\ cluster.tags[k] # ec2[k]

\* Once edits and faults are over, the operator comes to an end of updating EC2
\* and the spec, unless there is a tag whose two values they exchange for ever:
\* nothing else, no missing key and no tag of its own, keeps it going.
SettlesOrSwaps ==
    <>[][UNCHANGED <<ec2, cluster>>]_vars \/ []<>ValuesDiffer

-----------------------------------------------------------------------------
(* What the repository says and the code does not keep: see the README.    *)

\* The tags settle: once edits and faults are over, the operator comes to an
\* end of updating EC2 and the spec. ("Update existing subnet with new tags",
\* pkg/aws/subnets/reconciler_normal.go:83.)
TagsSettle == <>[][UNCHANGED <<ec2, cluster>>]_vars
=============================================================================
