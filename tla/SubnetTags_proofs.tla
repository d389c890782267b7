------------------------- MODULE SubnetTags_proofs -------------------------
(***************************************************************************)
(* Theorems about SubnetTags: its types, that the operator takes no tag    *)
(* away, what one reconcile does to tags that are recorded already         *)
(* (nothing when EC2 agrees with the spec, an exchange when it does not),  *)
(* and what stays so, reconcile after reconcile: keys that have settled,   *)
(* a key the user added, tags that agree, and the exchange.                *)
(***************************************************************************)
EXTENDS SubnetTags, TLAPS

ObjectType == [tags : TagMap, additional : TagMap]

\* What is found exists, and what exists between DescribeSubnets and the calls
\* that follow it was found: subnets are created by the reconcile alone.
FoundIsExisting == pc = "reconcile" => found = exists

IInv == TypeOK /\ FoundIsExisting

-----------------------------------------------------------------------------
(* Tag maps.                                                               *)

LEMMA OverType ==
    ASSUME NEW s \in TagMap, NEW t \in TagMap
    PROVE  Over(s, t) \in TagMap
BY DEF Over, TagMap

LEMMA OwnTagsType == \A S : OwnTags(S) \in TagMap
BY DEF OwnTags, TagMap

LEMMA SubnetTagsType ==
    ASSUME NEW c \in ObjectType
    PROVE  SubnetTagsOf(c) \in TagMap
<1>1. c.tags \in TagMap /\ c.additional \in TagMap
  BY DEF ObjectType
<1>2. Over(c.additional, OwnTags(NameKeys)) \in TagMap
  BY <1>1, OverType, OwnTagsType
<1>3. Over(OwnTags(RoleKeys), Over(c.additional, OwnTags(NameKeys))) \in TagMap
  BY <1>2, OverType, OwnTagsType
<1>4. Over(c.tags, Over(OwnTags(RoleKeys),
                        Over(c.additional, OwnTags(NameKeys)))) \in TagMap
  BY <1>1, <1>3, OverType
<1> QED
  BY <1>4, OverType, OwnTagsType DEF SubnetTagsOf

\* CreateTags keeps what is there.
LEMMA OverKeepsKeys ==
    ASSUME NEW s \in TagMap, NEW t \in TagMap
    PROVE  Present(t) \subseteq Present(Over(s, t))
BY DEF Present, Over, TagMap

-----------------------------------------------------------------------------
(* Types.                                                                  *)

LEMMA UntaggedType == Untagged \in TagMap
BY DEF Untagged, TagMap

LEMMA InitIInv == Init => IInv
<1> SUFFICES ASSUME Init PROVE IInv
  OBVIOUS
<1>1. cluster \in ObjectType /\ cache \in ObjectType /\ obj \in ObjectType
  BY UntaggedType DEF Init, ObjectType
<1>2. ec2 \in TagMap /\ seen \in TagMap /\ result \in TagMap
  BY UntaggedType DEF Init
<1>3. edits \in 0..MaxEdits /\ faults \in 0..MaxFaults
  BY BoundsAssumption DEF Init
<1>4. pc = "idle" /\ exists = FALSE /\ found = FALSE /\ ec2 = Untagged
  BY DEF Init
<1>5. TypeOK
  BY <1>1, <1>2, <1>3, <1>4 DEF TypeOK, ObjectType, Stages
<1> QED
  BY <1>4, <1>5 DEF IInv, FoundIsExisting

LEMMA EditedType ==
    ASSUME NEW t \in TagMap, NEW k \in Keys, NEW v \in Values \cup {NoTag}
    PROVE  [t EXCEPT ![k] = v] \in TagMap
BY DEF TagMap

LEMMA StepIInv == IInv /\ [Next]_vars => IInv'
<1> SUFFICES ASSUME IInv, [Next]_vars PROVE IInv'
  OBVIOUS
<1> USE BoundsAssumption DEF IInv, TypeOK, FoundIsExisting, Stages
<1>1. CASE Begin
  BY <1>1 DEF Begin
<1>2. CASE GetSubnets
  BY <1>2 DEF GetSubnets
<1>3. CASE CreateSubnet
  <2>1. SubnetTagsOf(obj) \in TagMap
    BY SubnetTagsType DEF ObjectType
  <2> QED
    BY <1>3, <2>1 DEF CreateSubnet
<1>4. CASE UpdateSubnet
  <2>1. Over(SubnetTagsOf(obj), ec2) \in TagMap
    BY SubnetTagsType, OverType DEF ObjectType
  <2>2. exists
    BY <1>4 DEF UpdateSubnet
  <2> QED
    BY <1>4, <2>1, <2>2 DEF UpdateSubnet, RecordedTags
<1>5. CASE NothingToUpdate
  BY <1>5 DEF NothingToUpdate, RecordedTags
<1>6. CASE PatchCluster
  <2>1. [cluster EXCEPT !.tags = result] \in ObjectType
    BY DEF ObjectType
  <2> QED
    BY <1>6, <2>1 DEF PatchCluster, ObjectType
<1>7. CASE Abandon
  BY <1>7 DEF Abandon
<1>8. CASE CacheSync
  BY <1>8 DEF CacheSync, reconcileVars
<1>9. ASSUME NEW k \in Keys, NEW v \in Values \cup {NoTag},
             UserEditsSubnetTags(k, v)
      PROVE  IInv'
  <2>1. [cluster EXCEPT !.tags[k] = v] \in ObjectType
    <3>1. [cluster.tags EXCEPT ![k] = v] \in TagMap
      BY EditedType
    <3> QED
      BY <3>1 DEF ObjectType
  <2> QED
    BY <1>9, <2>1 DEF UserEditsSubnetTags, Edit, reconcileVars, ObjectType
<1>10. ASSUME NEW k \in Keys, NEW v \in Values \cup {NoTag},
              UserEditsAdditionalTags(k, v)
       PROVE  IInv'
  <2>1. [cluster EXCEPT !.additional[k] = v] \in ObjectType
    <3>1. [cluster.additional EXCEPT ![k] = v] \in TagMap
      BY EditedType
    <3> QED
      BY <3>1 DEF ObjectType
  <2> QED
    BY <1>10, <2>1 DEF UserEditsAdditionalTags, Edit, reconcileVars, ObjectType
<1>11. ASSUME NEW k \in Keys, NEW v \in Values \cup {NoTag},
              SomebodyEditsEC2(k, v)
       PROVE  IInv'
  <2>1. [ec2 EXCEPT ![k] = v] \in TagMap
    BY EditedType
  <2>2. exists /\ ec2' \in TagMap /\ edits' \in 0..MaxEdits
    BY <1>11, <2>1 DEF SomebodyEditsEC2, Edit
  <2>3. UNCHANGED <<cluster, cache, exists, obj, seen, found, result, pc, faults>>
    BY <1>11 DEF SomebodyEditsEC2, reconcileVars
  <2> QED
    BY <2>2, <2>3
<1>12. CASE UNCHANGED vars
  BY <1>12 DEF vars, reconcileVars
<1> QED
  BY <1>1, <1>2, <1>3, <1>4, <1>5, <1>6, <1>7, <1>8, <1>9, <1>10, <1>11, <1>12
     DEF Next, Operator

LEMMA Inductive == Spec => []IInv
BY InitIInv, StepIInv, PTL DEF Spec

\* Every variable keeps a value of its kind, and a subnet that does not exist
\* has no tags, for every choice of keys, values and bounds.
THEOREM TypeCorrect == Spec => []TypeOK
BY Inductive, PTL DEF IInv

-----------------------------------------------------------------------------
(* Keys.                                                                   *)

LEMMA StepKeepsKeys ==
    IInv /\ [Next]_vars
        => [Operator => Present(ec2) \subseteq Present(ec2')]_vars
<1> SUFFICES ASSUME IInv, Operator
             PROVE  Present(ec2) \subseteq Present(ec2')
  OBVIOUS
<1>1. CASE CreateSubnet
  <2>1. ec2 = Untagged
    BY <1>1 DEF CreateSubnet, IInv, TypeOK, FoundIsExisting
  <2> QED
    BY <2>1 DEF Present, Untagged
<1>2. CASE UpdateSubnet
  <2>1. SubnetTagsOf(obj) \in TagMap /\ ec2 \in TagMap
    BY SubnetTagsType DEF ObjectType, IInv, TypeOK
  <2>2. ec2' = Over(SubnetTagsOf(obj), ec2)
    BY <1>2 DEF UpdateSubnet
  <2> QED
    BY <2>1, <2>2, OverKeepsKeys
<1>3. CASE ec2' = ec2
  BY <1>3
<1> QED
  BY <1>1, <1>2, <1>3
     DEF Operator, Begin, GetSubnets, NothingToUpdate, PatchCluster

\* No step of the operator removes a tag from the subnet on EC2, whatever the
\* keys, and whoever put it there.
THEOREM TagsAreKept == Spec => OperatorKeepsKeys
BY Inductive, StepKeepsKeys, PTL DEF Spec, OperatorKeepsKeys

-----------------------------------------------------------------------------
(* What a reconcile does to tags that the spec has recorded.               *)

\* t was recorded from EC2 after a reconcile: it has the operator's tags, and
\* every key of the AdditionalTags.
Recorded(t, additional) ==
    /\ \A k \in FixedKeys : t[k] = Own
    /\ RoleKeys \cup NameKeys \subseteq Present(t)
    /\ Present(additional) \subseteq Present(t)

\* Tags that were recorded are what the next reconcile asks for: the values of
\* the AdditionalTags are not looked at again. (getSubnetTags sets the tags of
\* the spec over them.)
LEMMA RecordedTagsAreWanted ==
    ASSUME NEW t \in TagMap, NEW a \in TagMap, Recorded(t, a)
    PROVE  SubnetTagsOf([tags |-> t, additional |-> a]) = t
<1> DEFINE wanted == SubnetTagsOf([tags |-> t, additional |-> a])
<1>1. wanted \in TagMap
  BY SubnetTagsType DEF ObjectType
<1>2. ASSUME NEW k \in Keys PROVE wanted[k] = t[k]
  <2>1. CASE k \in FixedKeys
    BY <2>1, ValuesAssumption
       DEF SubnetTagsOf, Over, OwnTags, Recorded
  <2>2. CASE k \notin FixedKeys /\ t[k] # NoTag
    BY <2>2 DEF SubnetTagsOf, Over, OwnTags
  <2>3. CASE k \notin FixedKeys /\ t[k] = NoTag
    <3>1. k \notin RoleKeys /\ k \notin NameKeys /\ a[k] = NoTag
      BY <2>3 DEF Recorded, Present
    <3> QED
      BY <2>3, <3>1 DEF SubnetTagsOf, Over, OwnTags
  <2> QED
    BY <2>1, <2>2, <2>3
<1> QED
  BY <1>1, <1>2 DEF TagMap

\* A subnet whose recorded tags EC2 agrees with is left alone: a reconcile that
\* starts there sends no tags and has nothing to patch.
THEOREM SettledSubnetIsLeftAlone ==
    ASSUME obj \in ObjectType, Recorded(obj.tags, obj.additional),
           seen = obj.tags
    PROVE  /\ ~UpdateSubnet
           /\ NothingToUpdate => result' = obj.tags /\ ec2' = ec2
<1>1. SubnetTagsOf(obj) = obj.tags
  <2>1. obj = [tags |-> obj.tags, additional |-> obj.additional]
    BY DEF ObjectType
  <2>2. obj.tags \in TagMap /\ obj.additional \in TagMap
    BY DEF ObjectType
  <2>3. SubnetTagsOf([tags |-> obj.tags, additional |-> obj.additional])
          = obj.tags
    BY <2>2, RecordedTagsAreWanted
  <2> QED
    BY <2>1, <2>3
<1>2. Diff(SubnetTagsOf(obj), seen) = {}
  BY <1>1 DEF Diff
<1> QED
  BY <1>2 DEF UpdateSubnet, NothingToUpdate, RecordedTags

\* A changed value is never settled: when the recorded tags of the spec and
\* those of EC2 have the same keys, an update writes the spec's tags to EC2 and
\* records EC2's tags in the spec. The next reconcile finds the two exchanged,
\* which is the same situation again. (The statuses read before the update are
\* appended after the updated ones, pkg/aws/subnets/reconciler_normal.go:139.)
THEOREM UpdateExchangesTags ==
    ASSUME obj \in ObjectType, Recorded(obj.tags, obj.additional),
           seen \in TagMap, ec2 = seen, Present(seen) = Present(obj.tags),
           UpdateSubnet
    PROVE  ec2' = obj.tags /\ result' = seen
<1>1. SubnetTagsOf(obj) = obj.tags
  <2>1. obj = [tags |-> obj.tags, additional |-> obj.additional]
    BY DEF ObjectType
  <2>2. obj.tags \in TagMap /\ obj.additional \in TagMap
    BY DEF ObjectType
  <2>3. SubnetTagsOf([tags |-> obj.tags, additional |-> obj.additional])
          = obj.tags
    BY <2>2, RecordedTagsAreWanted
  <2> QED
    BY <2>1, <2>3
<1>2. ec2' = Over(obj.tags, seen)
  BY <1>1 DEF UpdateSubnet
<1>3. obj.tags \in TagMap
  BY DEF ObjectType
<1>4. ASSUME NEW k \in Keys
      PROVE  Over(obj.tags, seen)[k] = obj.tags[k]
  <2>1. obj.tags[k] = NoTag => seen[k] = NoTag
    BY <1>4 DEF Present
  <2> QED
    BY <2>1 DEF Over
<1>5. Over(obj.tags, seen) = obj.tags
  BY <1>3, <1>4, OverType DEF TagMap
<1> QED
  BY <1>2, <1>5 DEF UpdateSubnet, RecordedTags

-----------------------------------------------------------------------------
(* What stays, once it is so: the half of the liveness properties that is  *)
(* about "for ever".  Edits are over; reconciles with old copies, failed   *)
(* calls and deaths go on.                                                 *)

\* The keys that an AWSCluster asks for by itself.
AskedBy(c) == Present(c.tags) \cup Present(c.additional)

LEMMA WantedKeys ==
    ASSUME NEW c \in ObjectType
    PROVE  Present(SubnetTagsOf(c))
             = FixedKeys \cup RoleKeys \cup NameKeys \cup AskedBy(c)
BY ValuesAssumption
   DEF Present, SubnetTagsOf, Over, OwnTags, AskedBy, ObjectType, Keys

LEMMA OverKeys ==
    ASSUME NEW s \in TagMap, NEW t \in TagMap
    PROVE  Present(Over(s, t)) = Present(s) \cup Present(t)
BY DEF Present, Over, TagMap

\* Key k is on EC2, or in every copy of the AWSCluster that a reconcile may
\* still write to EC2.
KeyIsHeld(k) ==
    /\ edits = 0
    /\ pc = "reconcile" => Present(seen) \subseteq Present(ec2)
    /\ \/ k \in Present(ec2)
       \/ /\ k \in AskedBy(cluster) /\ k \in AskedBy(cache)
          /\ pc \in {"get", "reconcile"} => k \in AskedBy(obj)
          /\ pc # "patch"

\* When edits are over, none is made.
LEMMA NoMoreEdits ==
    ASSUME TypeOK, edits = 0, [Next]_vars
    PROVE  /\ edits' = 0
           /\ Operator \/ Abandon \/ CacheSync \/ UNCHANGED vars
BY DEF TypeOK, Next, Operator, Begin, GetSubnets, CreateSubnet, UpdateSubnet,
       NothingToUpdate, PatchCluster, Abandon, CacheSync, vars,
       UserEditsSubnetTags, UserEditsAdditionalTags, SomebodyEditsEC2, Edit

\* What the calls of a reconcile do to the keys on EC2.
LEMMA UpdatedKeys ==
    ASSUME IInv, UpdateSubnet
    PROVE  /\ Present(ec2') = Present(SubnetTagsOf(obj)) \cup Present(ec2)
           /\ result' = seen
<1>1. SubnetTagsOf(obj) \in TagMap /\ ec2 \in TagMap
  BY SubnetTagsType DEF ObjectType, IInv, TypeOK
<1> QED
  BY <1>1, OverKeys DEF UpdateSubnet, RecordedTags

LEMMA NothingMissing ==
    ASSUME IInv, NothingToUpdate
    PROVE  /\ Present(SubnetTagsOf(obj)) \subseteq Present(seen)
           /\ result' = seen /\ ec2' = ec2
<1>1. Diff(SubnetTagsOf(obj), seen) = {}
  BY DEF NothingToUpdate
<1> QED
  BY <1>1 DEF NothingToUpdate, RecordedTags, Diff, Present

LEMMA StepKeyIsHeld ==
    ASSUME NEW k \in Keys, IInv, KeyIsHeld(k), [Next]_vars
    PROVE  KeyIsHeld(k)'
<1>1. /\ edits' = 0
      /\ Operator \/ Abandon \/ CacheSync \/ UNCHANGED vars
  BY NoMoreEdits DEF IInv, KeyIsHeld
<1>2. CASE Begin
  BY <1>1, <1>2 DEF Begin, KeyIsHeld, Present, AskedBy
<1>3. CASE GetSubnets
  BY <1>1, <1>3 DEF GetSubnets, KeyIsHeld, Present, AskedBy
<1>4. CASE CreateSubnet
  <2>1. k \notin Present(ec2)
    BY <1>4 DEF CreateSubnet, IInv, TypeOK, FoundIsExisting, Untagged, Present
  <2>2. k \in AskedBy(obj) /\ obj \in ObjectType
    BY <1>4, <2>1 DEF CreateSubnet, KeyIsHeld, IInv, TypeOK, ObjectType
  <2>3. k \in Present(ec2')
    BY <1>4, <2>2, WantedKeys DEF CreateSubnet
  <2> QED
    BY <1>1, <1>4, <2>3 DEF CreateSubnet, KeyIsHeld, Present
<1>5. CASE UpdateSubnet
  <2>1. k \in Present(ec2) \/ k \in AskedBy(obj)
    BY <1>5 DEF UpdateSubnet, KeyIsHeld
  <2>2. k \in Present(ec2')
    BY <1>5, <2>1, UpdatedKeys, WantedKeys DEF IInv, TypeOK, ObjectType
  <2> QED
    BY <1>1, <1>5, <2>2 DEF UpdateSubnet, KeyIsHeld, Present
<1>6. CASE NothingToUpdate
  <2>1. k \in Present(ec2) \/ k \in AskedBy(obj)
    BY <1>6 DEF NothingToUpdate, KeyIsHeld
  <2>2. Present(seen) \subseteq Present(ec2)
    BY <1>6 DEF NothingToUpdate, KeyIsHeld
  <2>3. k \in Present(ec2)
    BY <1>6, <2>1, <2>2, NothingMissing, WantedKeys DEF IInv, TypeOK, ObjectType
  <2> QED
    BY <1>1, <1>6, <2>3 DEF NothingToUpdate, KeyIsHeld, Present
<1>7. CASE PatchCluster
  <2>1. k \in Present(ec2)
    BY <1>7 DEF PatchCluster, KeyIsHeld
  <2> QED
    BY <1>1, <1>7, <2>1 DEF PatchCluster, KeyIsHeld, Present
<1>8. CASE Abandon
  BY <1>1, <1>8 DEF Abandon, KeyIsHeld, Present, AskedBy
<1>9. CASE CacheSync
  BY <1>1, <1>9 DEF CacheSync, reconcileVars, KeyIsHeld, Present, AskedBy
<1>10. CASE UNCHANGED vars
  BY <1>10 DEF vars, reconcileVars, KeyIsHeld, Present, AskedBy
<1> QED
  BY <1>1, <1>2, <1>3, <1>4, <1>5, <1>6, <1>7, <1>8, <1>9, <1>10 DEF Operator

\* A tag that the user added is never lost: from when the edits are over, the
\* operator is between reconciles and its cache is up to date, the key is on
\* EC2 or in the spec, in every state. The spec does lose it, for one
\* reconcile, but only when EC2 has it. (The half of AddedKeyArrives that
\* does not need fairness.)
THEOREM AddedKeyIsKept ==
    ASSUME NEW k \in Keys
    PROVE  Spec => [](/\ edits = 0 /\ pc = "idle" /\ cache = cluster
                      /\ k \in AskedBy(cluster)
                      => [](k \in Present(ec2) \/ k \in AskedBy(cluster)))
<1> DEFINE Added == /\ edits = 0 /\ pc = "idle" /\ cache = cluster
                    /\ k \in AskedBy(cluster)
           Kept == k \in Present(ec2) \/ k \in AskedBy(cluster)
<1>1. Added => KeyIsHeld(k)
  BY DEF KeyIsHeld
<1>2. KeyIsHeld(k) => Kept
  BY DEF KeyIsHeld
<1>3. IInv /\ KeyIsHeld(k) /\ [Next]_vars => KeyIsHeld(k)'
  BY StepKeyIsHeld
<1> HIDE DEF Added, Kept
<1>4. Spec => [](Added => []Kept)
  BY <1>1, <1>2, <1>3, Inductive, PTL DEF Spec
<1> QED
  BY <1>4 DEF Added, Kept

\* K is the set of keys of the subnet, everywhere, and nobody asks for others.
KeysSettled(K) ==
    /\ exists /\ edits = 0
    /\ FixedKeys \cup RoleKeys \cup NameKeys \subseteq K
    /\ Present(ec2) = K /\ Present(cluster.tags) = K
    /\ AskedBy(cluster) \subseteq K /\ AskedBy(cache) \subseteq K
    /\ pc # "idle" => AskedBy(obj) \subseteq K
    /\ pc = "reconcile" => found /\ Present(seen) = K
    /\ pc = "patch" => Present(result) = K

LEMMA StepKeysSettled ==
    ASSUME NEW K \in SUBSET Keys, IInv, KeysSettled(K), [Next]_vars
    PROVE  KeysSettled(K)'
<1>1. /\ edits' = 0
      /\ Operator \/ Abandon \/ CacheSync \/ UNCHANGED vars
  BY NoMoreEdits DEF IInv, KeysSettled
<1>2. pc = "reconcile" => Present(SubnetTagsOf(obj)) \subseteq K
  BY WantedKeys DEF KeysSettled, IInv, TypeOK, ObjectType
<1>3. CASE Begin
  BY <1>1, <1>3 DEF Begin, KeysSettled, Present, AskedBy
<1>4. CASE GetSubnets
  BY <1>1, <1>4 DEF GetSubnets, KeysSettled, Present, AskedBy
<1>5. CASE CreateSubnet
  BY <1>5 DEF CreateSubnet, KeysSettled
<1>6. CASE UpdateSubnet
  <2>1. pc = "reconcile" /\ pc' = "patch"
        /\ UNCHANGED <<cluster, cache, exists, obj>>
    BY <1>6 DEF UpdateSubnet
  <2>2. Present(ec2') = K /\ Present(result') = K
    BY <1>2, <1>6, <2>1, UpdatedKeys DEF KeysSettled
  <2>3. Present(ec2)' = K /\ Present(result)' = K
    BY <2>2 DEF Present
  <2> QED
    BY <1>1, <2>1, <2>3 DEF KeysSettled, AskedBy, Present
<1>7. CASE NothingToUpdate
  <2>1. result' = seen
    BY <1>7, NothingMissing
  <2> QED
    BY <1>1, <1>7, <2>1 DEF NothingToUpdate, KeysSettled, Present, AskedBy
<1>8. CASE PatchCluster
  <2>1. cluster'.additional = cluster.additional
        /\ (cluster'.tags = cluster.tags \/ cluster'.tags = result)
    BY <1>8 DEF PatchCluster, IInv, TypeOK
  <2>2. pc = "patch" /\ pc' = "idle" /\ UNCHANGED <<cache, exists, ec2>>
    BY <1>8 DEF PatchCluster
  <2>3. Present(cluster'.tags) = K /\ Present(cluster'.additional) \subseteq K
    BY <2>1, <2>2 DEF KeysSettled, AskedBy
  <2>4. Present(cluster.tags)' = K /\ AskedBy(cluster)' \subseteq K
    BY <2>3 DEF Present, AskedBy
  <2> QED
    BY <1>1, <2>2, <2>4 DEF KeysSettled, AskedBy, Present
<1>9. CASE Abandon
  BY <1>1, <1>9 DEF Abandon, KeysSettled, Present, AskedBy
<1>10. CASE CacheSync
  BY <1>1, <1>10 DEF CacheSync, reconcileVars, KeysSettled, Present, AskedBy
<1>11. CASE UNCHANGED vars
  BY <1>11 DEF vars, reconcileVars, KeysSettled, Present, AskedBy
<1> QED
  BY <1>1, <1>3, <1>4, <1>5, <1>6, <1>7, <1>8, <1>9, <1>10, <1>11 DEF Operator

\* Keys that have settled stay: from when spec and EC2 have the same keys, the
\* operator's among them, and no copy asks for another one, they keep them, in
\* every state, although the values of tags may still change places and
\* reconciles fail. (The half of KeysSettle that does not need fairness.)
THEOREM SettledKeysStay ==
    ASSUME NEW K \in SUBSET Keys
    PROVE  Spec => [](KeysSettled(K)
                      => [](/\ Present(cluster.tags) = K /\ Present(ec2) = K
                            /\ FixedKeys \cup RoleKeys \cup NameKeys \subseteq K))
<1> DEFINE Same == /\ Present(cluster.tags) = K /\ Present(ec2) = K
                   /\ FixedKeys \cup RoleKeys \cup NameKeys \subseteq K
<1>1. KeysSettled(K) => Same
  BY DEF KeysSettled
<1>2. IInv /\ KeysSettled(K) /\ [Next]_vars => KeysSettled(K)'
  BY StepKeysSettled
<1> HIDE DEF Same
<1>3. Spec => [](KeysSettled(K) => []Same)
  BY <1>1, <1>2, Inductive, PTL DEF Spec
<1> QED
  BY <1>3 DEF Same

\* Spec and EC2 agree, in values too, and so does all that a reconcile holds.
AtRest ==
    /\ exists /\ edits = 0
    /\ Recorded(ec2, cluster.additional)
    /\ cluster.tags = ec2 /\ cache = cluster
    /\ pc # "idle" => obj = cluster
    /\ pc = "reconcile" => found /\ seen = ec2
    /\ pc = "patch" => result = ec2

LEMMA StepAtRest ==
    ASSUME IInv, AtRest, [Next]_vars
    PROVE  AtRest' /\ UNCHANGED <<ec2, cluster>>
<1>1. /\ edits' = 0
      /\ Operator \/ Abandon \/ CacheSync \/ UNCHANGED vars
  BY NoMoreEdits DEF IInv, AtRest
<1>2. CASE Begin \/ GetSubnets
  BY <1>1, <1>2 DEF Begin, GetSubnets, AtRest, Recorded, Present
<1>3. CASE CreateSubnet \/ CacheSync
  BY <1>3 DEF CreateSubnet, CacheSync, AtRest
<1>4. CASE UpdateSubnet \/ NothingToUpdate
  <2>1. pc = "reconcile" /\ obj = cluster /\ seen = ec2
    BY <1>4 DEF UpdateSubnet, NothingToUpdate, AtRest
  <2>2. obj \in ObjectType /\ Recorded(obj.tags, obj.additional) /\ seen = obj.tags
    BY <2>1 DEF AtRest, IInv, TypeOK, ObjectType
  <2>3. NothingToUpdate /\ result' = ec2
    BY <1>4, <2>1, <2>2, SettledSubnetIsLeftAlone
  <2> QED
    BY <1>1, <2>1, <2>3 DEF NothingToUpdate, AtRest, Recorded, Present
<1>5. CASE PatchCluster
  <2>1. pc = "patch" /\ result = cluster.tags
    BY <1>5 DEF PatchCluster, AtRest
  <2>2. cluster' = cluster
    BY <1>5, <2>1 DEF PatchCluster, IInv, TypeOK
  <2> QED
    BY <1>1, <1>5, <2>1, <2>2 DEF PatchCluster, AtRest, Recorded, Present
<1>6. CASE Abandon
  BY <1>1, <1>6 DEF Abandon, AtRest, Recorded, Present
<1>7. CASE UNCHANGED vars
  BY <1>7 DEF vars, reconcileVars, AtRest, Recorded, Present
<1> QED
  BY <1>1, <1>2, <1>3, <1>4, <1>5, <1>6, <1>7 DEF Operator

\* Tags that have come to rest stay so: from a state in which spec, cache and
\* EC2 have the same tags the operator never updates EC2 or the spec again, as
\* long as nobody edits either. (What SettlesOrSwaps leaves to TLC is that such
\* a state is reached unless two values change places.)
THEOREM AgreeingTagsRest == Spec => [](AtRest => [][UNCHANGED <<ec2, cluster>>]_vars)
<1>1. IInv /\ AtRest /\ [Next]_vars => AtRest' /\ UNCHANGED <<ec2, cluster>>
  BY StepAtRest
<1> QED
  BY <1>1, Inductive, PTL DEF Spec

\* The role and ownership tags are on EC2 as they should be, and edits over.
FixedTagsThere ==
    /\ exists /\ edits = 0
    /\ \A k \in FixedKeys : ec2[k] = Own

LEMMA StepFixedTags ==
    ASSUME IInv, FixedTagsThere, [Next]_vars
    PROVE  FixedTagsThere'
<1>1. /\ edits' = 0
      /\ Operator \/ Abandon \/ CacheSync \/ UNCHANGED vars
  BY NoMoreEdits DEF IInv, FixedTagsThere
<1>2. CASE UpdateSubnet
  <2>1. \A k \in FixedKeys : SubnetTagsOf(obj)[k] = Own
    BY ValuesAssumption DEF SubnetTagsOf, Over, OwnTags, Keys
  <2> QED
    BY <1>1, <1>2, <2>1, ValuesAssumption DEF UpdateSubnet, Over, FixedTagsThere, Keys
<1>3. CASE CreateSubnet
  BY <1>3 DEF CreateSubnet, IInv, FoundIsExisting, FixedTagsThere
<1>4. CASE UNCHANGED <<ec2, exists>>
  BY <1>1, <1>4 DEF FixedTagsThere
<1> QED
  BY <1>1, <1>2, <1>3, <1>4
     DEF Operator, Begin, GetSubnets, NothingToUpdate, PatchCluster, Abandon,
         CacheSync, vars

\* Role and ownership tags that are there stay, whatever the spec asks for, in
\* whichever copy of it: only an edit on EC2 changes them. (The half of
\* FixedTagsHeal that does not need fairness.)
THEOREM FixedTagsStay ==
    Spec => [](FixedTagsThere => [](\A k \in FixedKeys : ec2[k] = Own))
<1> DEFINE There == \A k \in FixedKeys : ec2[k] = Own
<1>1. IInv /\ FixedTagsThere /\ [Next]_vars => FixedTagsThere'
  BY StepFixedTags
<1>2. FixedTagsThere => There
  BY DEF FixedTagsThere
<1> HIDE DEF There
<1>3. Spec => [](FixedTagsThere => []There)
  BY <1>1, <1>2, Inductive, PTL DEF Spec
<1> QED
  BY <1>3 DEF There

-----------------------------------------------------------------------------
(* What goes on for ever: the counterpart of TagsSettle, which the code    *)
(* does not keep.                                                          *)

\* The spec has recorded one of the tags t and u, EC2 has the other, and the
\* running reconcile is on its way to exchange them.
Exchanging(t, u) ==
    /\ exists /\ edits = 0 /\ faults = 0
    /\ Recorded(t, cluster.additional) /\ Recorded(u, cluster.additional)
    /\ pc # "idle" => obj = cluster
    /\ pc = "reconcile" => found /\ seen = ec2
    /\ IF pc = "patch"
       THEN \/ cluster.tags = t /\ ec2 = t /\ result = u
            \/ cluster.tags = u /\ ec2 = u /\ result = t
       ELSE \/ cluster.tags = t /\ ec2 = u
            \/ cluster.tags = u /\ ec2 = t

LEMMA StepExchanging ==
    ASSUME ~CacheLags, NEW t \in TagMap, NEW u \in TagMap,
           t # u, Present(t) = Present(u),
           IInv, Exchanging(t, u), [Next]_vars
    PROVE  Exchanging(t, u)'
<1>1. /\ edits' = 0
      /\ Operator \/ Abandon \/ CacheSync \/ UNCHANGED vars
  BY NoMoreEdits DEF IInv, Exchanging
<1>2. CASE Begin
  BY <1>1, <1>2 DEF Begin, Exchanging, Recorded, Present
<1>3. CASE GetSubnets
  BY <1>1, <1>3 DEF GetSubnets, Exchanging, Recorded, Present
<1>4. CASE UpdateSubnet
  <2>1. pc = "reconcile" /\ pc' = "patch" /\ obj = cluster /\ seen = ec2
    BY <1>4 DEF UpdateSubnet, Exchanging
  <2>2. /\ obj \in ObjectType /\ Recorded(obj.tags, obj.additional)
        /\ seen \in TagMap /\ Present(seen) = Present(obj.tags)
    BY <2>1 DEF Exchanging, IInv, TypeOK, ObjectType
  <2>3. ec2' = cluster.tags /\ result' = ec2
    BY <1>4, <2>1, <2>2, UpdateExchangesTags
  <2>4. UNCHANGED <<cluster, cache, exists, obj, seen, found, edits, faults>>
    BY <1>4 DEF UpdateSubnet
  <2> QED
    BY <2>1, <2>3, <2>4 DEF Exchanging, Recorded, Present
<1>5. ~NothingToUpdate
  <2> SUFFICES ASSUME NothingToUpdate PROVE FALSE
    OBVIOUS
  <2>1. pc = "reconcile" /\ obj = cluster /\ seen = ec2
    BY DEF NothingToUpdate, Exchanging
  <2>2. obj = [tags |-> obj.tags, additional |-> obj.additional]
        /\ obj.tags \in TagMap /\ obj.additional \in TagMap
        /\ Recorded(obj.tags, obj.additional)
    BY <2>1 DEF Exchanging, IInv, TypeOK
  <2>3. SubnetTagsOf(obj) = obj.tags
    BY <2>2, RecordedTagsAreWanted
  <2>4. Diff(obj.tags, seen) = {}
    BY <2>3 DEF NothingToUpdate
  <2>5. \/ obj.tags = t /\ seen = u
        \/ obj.tags = u /\ seen = t
    BY <2>1 DEF Exchanging
  <2>6. PICK k \in Keys : t[k] # u[k]
    BY DEF TagMap
  <2>7. t[k] # NoTag /\ u[k] # NoTag
    BY <2>6 DEF Present
  <2> QED
    BY <2>4, <2>5, <2>6, <2>7 DEF Diff
<1>6. CASE PatchCluster
  <2>1. pc = "patch" /\ pc' = "idle" /\ obj = cluster
        /\ UNCHANGED <<exists, ec2, faults>>
    BY <1>6 DEF PatchCluster, Exchanging
  <2>2. cluster'.tags = result /\ cluster'.additional = cluster.additional
    BY <1>6, <2>1 DEF PatchCluster, IInv, TypeOK
  <2> QED
    BY <1>1, <2>1, <2>2 DEF Exchanging, Recorded, Present
<1>7. CASE CacheSync
  BY <1>1, <1>7 DEF CacheSync, reconcileVars, Exchanging, Recorded, Present
<1>8. CASE UNCHANGED vars
  BY <1>8 DEF vars, reconcileVars, Exchanging, Recorded, Present
<1>9. ~CreateSubnet /\ ~Abandon
  BY DEF CreateSubnet, Abandon, Exchanging
<1> QED
  BY <1>1, <1>2, <1>3, <1>4, <1>5, <1>6, <1>7, <1>8, <1>9 DEF Operator

\* Two values of a tag change places for ever: when spec and EC2 have the same
\* keys and different values, and from then on nobody edits anything and nothing
\* fails, they disagree in every state between two reconciles, each having what
\* the other had. No number of reconciles ends it, and no choice of keys and
\* values. (pkg/aws/subnets/reconciler_normal.go:139.)
THEOREM ExchangeNeverEnds ==
    ASSUME ~CacheLags, NEW t \in TagMap, NEW u \in TagMap,
           t # u, Present(t) = Present(u)
    PROVE  Spec => [](Exchanging(t, u)
                      => [](pc = "idle" => \/ cluster.tags = t /\ ec2 = u
                                           \/ cluster.tags = u /\ ec2 = t))
<1> DEFINE Disagree == pc = "idle" => \/ cluster.tags = t /\ ec2 = u
                                      \/ cluster.tags = u /\ ec2 = t
<1>1. IInv /\ Exchanging(t, u) /\ [Next]_vars => Exchanging(t, u)'
  BY StepExchanging
<1>2. Exchanging(t, u) => Disagree
  BY DEF Exchanging
<1> HIDE DEF Disagree
<1>3. Spec => [](Exchanging(t, u) => []Disagree)
  BY <1>1, <1>2, Inductive, PTL DEF Spec
<1> QED
  BY <1>3 DEF Disagree
=============================================================================
