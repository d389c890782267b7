----------------------------- MODULE RouteTables -----------------------------
(***************************************************************************)
(* pkg/aws/routetables, one EC2 request at a time: the reconciler that     *)
(* gives every subnet of the AWSCluster a route table of its own, and      *)
(* DeleteAll, which empties the VPC of route tables when the cluster goes. *)
(*                                                                         *)
(* Both decide on what one DescribeRouteTables request returned, and then  *)
(* send a request per table.  Between any two of them the user may create, *)
(* associate, disassociate and delete tables of the same VPC, a call may   *)
(* fail, and the process may die; the next reconcile starts from a new     *)
(* listing.                                                                *)
(***************************************************************************)
EXTENDS Naturals, FiniteSets

CONSTANTS
    NumSubnets,   \* subnets of the AWSCluster
    MaxEdits,     \* bound on the user's edits of the VPC
    MaxFaults,    \* bound on failed calls and crashes
    None          \* no route table

ASSUME ConstantsAssumption ==
    /\ NumSubnets \in Nat \ {0}
    /\ MaxEdits \in Nat /\ MaxFaults \in Nat
    /\ None \notin Nat

-----------------------------------------------------------------------------
(* Where a route table can be associated, and the route table IDs.         *)

Desired == 1..NumSubnets        \* the subnets in the AWSCluster
Foreign == NumSubnets + 1       \* a subnet that is not
Gateway == NumSubnets + 2       \* an internet gateway
Subnets == Desired \cup {Foreign}
Places  == Subnets \cup {Gateway}

\* The VPC's main table, the IDs EC2 gives to the operator's tables, and
\* those it gives to the user's.
Main        == 0
LastOwn     == NumSubnets + MaxEdits + MaxFaults
OwnTables   == 1..LastOwn
UserTables  == (LastOwn + 1)..(LastOwn + MaxEdits)
Tables      == {Main} \cup OwnTables \cup UserTables

\* The tags of the operator on a table, "<cluster>-rt-private-<zone>" with the
\* role and cluster tags, told apart by the subnet they name: the subnets are in
\* different zones here. Those of one zone have tables with the same tags.
Unnamed == 0
Names   == {Unnamed} \cup Desired

\* edit tells an association the user made again from the one before it.
Association ==
    [table : Tables \cup {None},
     state : {"associating", "associated"},
     edit  : 0..MaxEdits]

Disassociated == [table |-> None, state |-> "associated", edit |-> 0]

VARIABLES
    live,       \* EC2: the route tables that exist
    used,       \* EC2: the route table IDs given out so far
    name,       \* EC2: table -> the subnet its tags name
    assoc,      \* EC2: place -> its explicit association
    deleting,   \* the AWSCluster has a deletion timestamp
    pc,         \* operator: the next request of the running reconcile
    teardown,   \* operator: is it DeleteAll that runs?
    seen,       \* operator: the associations as List returned them
    todo,       \* operator: the tables still to delete
    target,     \* operator: the table being deleted, or made
    found,      \* operator: associations of target still to remove
    tagging,    \* operator: subnets whose table needs new tags
    creating,   \* operator: subnets that need a table
    ready,      \* operator: were all associations seen "associated"?
    outcome,    \* operator: how the last reconcile ended
    edits, faults

ec2Vars == <<live, used, name, assoc>>
plan    == <<todo, tagging, creating, ready>>
memory  == <<teardown, seen, todo, target, found, tagging, creating, ready>>
vars    == <<ec2Vars, deleting, pc, memory, outcome, edits, faults>>

Stages   == {"idle", "delete", "disassociate", "update", "associate"}
Outcomes == {"none", "error", "ready", "notReady", "deleted"}

Nothing == [p \in Places |-> Disassociated]

Init ==
    /\ live = {Main} /\ used = {Main}
    /\ name = [t \in Tables |-> Unnamed]
    /\ assoc = Nothing
    /\ deleting = FALSE
    /\ pc = "idle"
    /\ teardown = FALSE
    /\ seen = Nothing
    /\ todo = {} /\ target = None /\ found = {}
    /\ tagging = {} /\ creating = {} /\ ready = TRUE
    /\ outcome = "none"
    /\ edits = 0 /\ faults = 0

-----------------------------------------------------------------------------
(* Helpers.                                                                *)

AssociatedPlaces(t) == {p \in Places : assoc[p].table = t}

\* Mutant: an association that is not complete does not count.
WithoutReadySubnet(t) ==
    \A p \in AssociatedPlaces(t) \cap Subnets : assoc[p].state = "associating"

\* Associations to anything but a subnet do not keep a table.
WithoutSubnet(t) == AssociatedPlaces(t) \cap Subnets = {}

\* Mutant: any table without a subnet is taken for a leftover.
AnyUnused == {t \in live : WithoutSubnet(t)}

\* The tags say the operator made it.
Leftovers == {t \in live : WithoutSubnet(t) /\ name[t] # Unnamed}

\* The desired subnets whose table does not name them.
Misnamed ==
    {s \in Desired : assoc[s].table # None /\ name[assoc[s].table] # s}

\* Mutant: one association that is ready is enough.
SomeAssociated ==
    \E s \in Desired : assoc[s].table # None /\ assoc[s].state = "associated"

\* Every subnet association of every table of a desired subnet.
AllAssociated ==
    \A s \in Desired, p \in Subnets :
        assoc[s].table # None /\ assoc[p].table = assoc[s].table
            => assoc[p].state = "associated"

AssociationIds(a, t) ==
    {[place |-> p, edit |-> a[p].edit] : p \in {q \in Places : a[q].table = t}}

\* Mutant: the index of the subnet is one too large.
NextAfterFirstOf(S) == (CHOOSE s \in S : \A other \in S : s <= other) + 1

FirstOf(S) == CHOOSE s \in S : \A other \in S : s <= other

\* The reconcile returns; what it held in memory is gone.
End(result) ==
    /\ pc' = "idle"
    /\ outcome' = result
    /\ teardown' = FALSE
    /\ seen' = Nothing
    /\ todo' = {} /\ target' = None /\ found' = {}
    /\ tagging' = {} /\ creating' = {} /\ ready' = TRUE

\* EC2 says that something does not exist.  The clients go on if its HTTP
\* status is 404, and give up otherwise.
NotFound(next) ==
    /\ UNCHANGED ec2Vars
    /\ next \/ End("error")

NextTable ==
    /\ pc' = "delete"
    /\ target' = None
    /\ UNCHANGED <<teardown, seen, plan, found, outcome>>

-----------------------------------------------------------------------------
(* Both start with List.                                                   *)

Plan(delete, tag, create, allReady) ==
    /\ todo' = delete /\ tagging' = tag /\ creating' = create /\ ready' = allReady

\* Mutants: leftovers are not looked for; a subnet has a table if the tags of
\* one name it.
PlanWithoutLeftovers ==
    Plan({}, Misnamed, {s \in Desired : assoc[s].table = None}, AllAssociated)

PlanByTags ==
    Plan(Leftovers, Misnamed, {s \in Desired : \A t \in live : name[t] # s},
         AllAssociated)

\* What Reconcile decides to do, from the tables listed.
PlanReconcile ==
    Plan(Leftovers, Misnamed, {s \in Desired : assoc[s].table = None}, AllAssociated)

\* What DeleteAll decides to do.
PlanDeletion == Plan(live, {}, {}, TRUE)

List ==
    /\ pc = "idle"
    /\ pc' = "delete"
    /\ teardown' = deleting
    /\ seen' = assoc
    /\ IF deleting THEN PlanDeletion ELSE PlanReconcile
    /\ outcome' = "none"
    /\ UNCHANGED <<ec2Vars, deleting, target, found, edits, faults>>

-----------------------------------------------------------------------------
(* Deleting one table: Delete reads its associations again, DeleteAll uses *)
(* those that List returned.                                               *)

Get(t) ==
    /\ pc = "delete" /\ ~teardown /\ t \in todo
    /\ IF t \in live
       THEN /\ pc' = "disassociate"
            /\ target' = t
            /\ found' = AssociationIds(assoc, t)
            /\ todo' = todo \ {t}
            /\ UNCHANGED <<teardown, seen, tagging, creating, ready, outcome>>
       ELSE End("error")
    /\ UNCHANGED <<ec2Vars, deleting, edits, faults>>

TakeListed(t) ==
    /\ pc = "delete" /\ teardown /\ t \in todo
    /\ pc' = "disassociate"
    /\ target' = t
    /\ found' = AssociationIds(seen, t)
    /\ todo' = todo \ {t}
    /\ UNCHANGED <<ec2Vars, deleting, teardown, seen, tagging, creating, ready,
                   outcome, edits, faults>>

\* Subnets first, then everything else.
Disassociate(a) ==
    /\ pc = "disassociate" /\ a \in found
    /\ a.place = Gateway => found = {a}
    /\ LET next == /\ found' = found \ {a}
                   /\ UNCHANGED <<pc, teardown, seen, plan, target, outcome>>
       IN  IF assoc[a.place].table = target /\ assoc[a.place].edit = a.edit
           THEN /\ assoc' = [assoc EXCEPT ![a.place] = Disassociated]
                /\ UNCHANGED <<live, used, name>>
                /\ next
           ELSE NotFound(next)
    /\ UNCHANGED <<deleting, edits, faults>>

\* Mutant: the main table is not skipped, and EC2 refuses to delete it.
DeleteMain ==
    /\ pc = "disassociate" /\ found = {} /\ target = Main
    /\ End("error")
    /\ UNCHANGED <<ec2Vars, deleting, edits, faults>>

SkipMain ==
    /\ pc = "disassociate" /\ found = {} /\ target = Main
    /\ NextTable
    /\ UNCHANGED <<ec2Vars, deleting, edits, faults>>

\* EC2 keeps a table that has been associated meanwhile.
DeleteTable ==
    /\ pc = "disassociate" /\ found = {} /\ target # Main
    /\ IF target \notin live
       THEN NotFound(NextTable)
       ELSE IF AssociatedPlaces(target) # {}
       THEN UNCHANGED ec2Vars /\ End("error")
       ELSE /\ live' = live \ {target}
            /\ UNCHANGED <<used, name, assoc>>
            /\ NextTable
    /\ UNCHANGED <<deleting, edits, faults>>

AfterDeletion ==
    /\ pc = "delete" /\ todo = {}
    /\ IF teardown
       THEN End("deleted")
       ELSE /\ pc' = "update"
            /\ UNCHANGED <<memory, outcome>>
    /\ UNCHANGED <<ec2Vars, deleting, edits, faults>>

-----------------------------------------------------------------------------
(* Tags of the tables of desired subnets, then the missing tables.         *)

\* The table may be anybody's: what counts is that the subnet uses it.
UpdateTags(s) ==
    /\ pc = "update" /\ s \in tagging
    /\ LET t == seen[s].table IN
        IF t \in live
        THEN /\ name' = [name EXCEPT ![t] = s]
             /\ tagging' = tagging \ {s}
             /\ UNCHANGED <<pc, teardown, seen, todo, target, found, creating,
                            ready, outcome>>
        ELSE UNCHANGED name /\ End("error")
    /\ UNCHANGED <<live, used, assoc, deleting, edits, faults>>

CreateTable ==
    /\ pc = "update" /\ tagging = {} /\ creating # {}
    /\ \E t \in OwnTables \ used :
        /\ \A other \in OwnTables \ used : t <= other
        /\ live' = live \cup {t} /\ used' = used \cup {t}
        /\ name' = [name EXCEPT ![t] = FirstOf(creating)]
        /\ target' = t
    /\ pc' = "associate"
    /\ UNCHANGED <<assoc, deleting, teardown, seen, plan, found, outcome,
                   edits, faults>>

\* EC2 refuses a subnet that has got a table meanwhile, and a table that is
\* gone.  The answer holds the association's state.
AssociateTable ==
    /\ pc = "associate"
    /\ LET s == FirstOf(creating) IN
        IF target \in live /\ assoc[s].table = None
        THEN \E state \in {"associating", "associated"} :
                /\ assoc' = [assoc EXCEPT
                        ![s] = [table |-> target, state |-> state, edit |-> 0]]
                /\ ready' = (ready /\ state = "associated")
                /\ creating' = creating \ {s}
                /\ target' = None
                /\ pc' = "update"
                /\ UNCHANGED <<teardown, seen, todo, found, tagging, outcome>>
        ELSE UNCHANGED assoc /\ End("error")
    /\ UNCHANGED <<live, used, name, deleting, edits, faults>>

Finish ==
    /\ pc = "update" /\ tagging = {} /\ creating = {}
    /\ End(IF ready THEN "ready" ELSE "notReady")
    /\ UNCHANGED <<ec2Vars, deleting, edits, faults>>

-----------------------------------------------------------------------------
(* The environment.                                                        *)

\* A request fails, its answer is lost, or the process dies: either way the
\* requests sent so far have had their effect.
CallFails ==
    /\ faults < MaxFaults /\ faults' = faults + 1
    /\ End("error")
    /\ UNCHANGED <<ec2Vars, deleting, edits>>

Associates(p) ==
    /\ assoc[p].state = "associating"
    /\ assoc' = [assoc EXCEPT ![p].state = "associated"]
    /\ UNCHANGED <<live, used, name, deleting, pc, memory, outcome, edits, faults>>

RequestDeletion ==
    /\ ~deleting /\ deleting' = TRUE
    /\ UNCHANGED <<ec2Vars, pc, memory, outcome, edits, faults>>

Edit ==
    /\ edits < MaxEdits /\ edits' = edits + 1
    /\ UNCHANGED <<deleting, pc, memory, outcome, faults>>

UserCreates ==
    /\ Edit
    /\ \E t \in UserTables \ used :
        /\ \A other \in UserTables \ used : t <= other
        /\ live' = live \cup {t} /\ used' = used \cup {t}
    /\ UNCHANGED <<name, assoc>>

UserAssociates(p, t) ==
    /\ Edit
    /\ assoc[p].table = None /\ t \in live
    /\ assoc' = [assoc EXCEPT
            ![p] = [table |-> t, state |-> "associated", edit |-> edits + 1]]
    /\ UNCHANGED <<live, used, name>>

UserDisassociates(p) ==
    /\ Edit
    /\ assoc[p].table # None
    /\ assoc' = [assoc EXCEPT ![p] = Disassociated]
    /\ UNCHANGED <<live, used, name>>

UserDeletes(t) ==
    /\ Edit
    /\ t \in live \ {Main} /\ AssociatedPlaces(t) = {}
    /\ live' = live \ {t}
    /\ UNCHANGED <<used, name, assoc>>

-----------------------------------------------------------------------------
(* The system.                                                             *)

OperatorSteps ==
    \/ List
    \/ \E t \in todo : Get(t) \/ TakeListed(t)
    \/ \E a \in found : Disassociate(a)
    \/ SkipMain \/ DeleteTable \/ AfterDeletion
    \/ \E s \in tagging : UpdateTags(s)
    \/ CreateTable \/ AssociateTable
    \/ Finish

UserSteps ==
    \/ UserCreates
    \/ \E p \in Places : UserDisassociates(p) \/ \E t \in live : UserAssociates(p, t)
    \/ \E t \in live : UserDeletes(t)

Next ==
    \/ OperatorSteps
    \/ CallFails
    \/ \E p \in Places : Associates(p)
    \/ RequestDeletion
    \/ UserSteps

Spec == Init /\ [][Next]_vars

\* The controller reconciles again after every result, at the latest when the
\* requeue time it asked for is over; EC2 finishes an association.
Fairness ==
    /\ WF_vars(OperatorSteps)
    /\ \A p \in Places : WF_vars(Associates(p))

FairSpec == Spec /\ Fairness

-----------------------------------------------------------------------------
(* Properties.                                                             *)

TypeOK ==
    /\ live \subseteq used /\ used \subseteq Tables
    /\ name \in [Tables -> Names]
    /\ assoc \in [Places -> Association] /\ seen \in [Places -> Association]
    /\ deleting \in BOOLEAN /\ teardown \in BOOLEAN /\ ready \in BOOLEAN
    /\ pc \in Stages
    /\ todo \subseteq Tables
    /\ target \in Tables \cup {None}
    /\ found \subseteq [place : Places, edit : 0..MaxEdits]
    /\ tagging \subseteq Desired /\ creating \subseteq Desired
    /\ outcome \in Outcomes
    /\ edits \in 0..MaxEdits /\ faults \in 0..MaxFaults

\* However often calls fail and the process dies, the operator never has two
\* tables for one subnet: a table whose association failed is found by its
\* tags and deleted before another one is made.
OneTablePerSubnet ==
    edits = 0 =>
        \A s \in Desired : Cardinality({t \in live : name[t] = s}) <= 1

\* A result without a table that is not ready means that every subnet is
\* served by a table of its own, as long as nobody edits the VPC.
ReadyMeansServed ==
    outcome = "ready" /\ edits = 0 /\ ~deleting =>
        \A s \in Desired :
            /\ assoc[s].table # None /\ assoc[s].state = "associated"
            /\ \A other \in Desired \ {s} : assoc[other].table # assoc[s].table

\* While the cluster is not being deleted, the operator leaves alone every
\* table that has none of its tags, and every association of such a table.
UntaggedTablesKept ==
    [][~deleting /\ edits' = edits =>
        /\ \A t \in live : name[t] = Unnamed => t \in live'
        /\ \A p \in Places :
            assoc[p].table # None /\ name[assoc[p].table] = Unnamed
                => assoc'[p].table = assoc[p].table]_vars

SlotState(s) ==
    IF assoc[s].table # None THEN assoc[s].state
    ELSE IF \E t \in live : name[t] = s THEN "unassociated" ELSE "none"

Contract == INSTANCE RouteTableSlots WITH
    Slots <- Desired,
    slot  <- [s \in Desired |-> SlotState(s)]

\* Request by request, with calls failing and the process dying in between,
\* the operator does to the subnets' tables what RouteTableSlots allows, as
\* long as nobody edits the VPC.
ImplementsRouteTableSlots ==
    /\ Contract!Init
    /\ [][edits' = 0 => [Contract!Next]_(Contract!vars)]_vars

\* An association that a reconcile has listed is one it keeps: what it takes
\* away is at most an association made after its List, by a user who gave a
\* leftover table to a subnet before Delete read the table again.
SeenAssociationsKept ==
    [][pc # "idle" /\ ~teardown /\ edits' = edits =>
        \A s \in Subnets :
            assoc[s].table # None /\ assoc[s].edit = seen[s].edit
              /\ assoc[s].table = seen[s].table
                => assoc'[s].table = assoc[s].table]_vars

Settled ==
    /\ \A s \in Desired : /\ assoc[s].table # None
                          /\ assoc[s].state = "associated"
    /\ \A t \in live \ {Main} : name[t] # Unnamed => ~WithoutSubnet(t)
    /\ outcome # "error"

\* Whatever the user did to the tables and whatever failed, the subnets of a
\* cluster nobody deletes end up with tables, and no table is left over.
TablesSettle == <>(deleting \/ []Settled)

\* Deletion ends with the main table alone in the VPC.
TablesGo == <>deleting => <>[](live = {Main})
=============================================================================
