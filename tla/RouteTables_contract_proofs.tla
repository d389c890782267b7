---------------------- MODULE RouteTables_contract_proofs ----------------------
(***************************************************************************)
(* Proofs about RouteTables as long as nobody edits the VPC: one table per *)
(* subnet, what a result says, and that the requests implement             *)
(* RouteTableSlots, for every number of subnets and faults.                *)
(***************************************************************************)
EXTENDS RouteTables_proofs, FiniteSetTheorems

\* Tables and associations: the operator's tags on a table name the only
\* subnet it serves, and no two tables name the same.
OwnedInv ==
    /\ name[Main] = Unnamed
    /\ \A t, u \in live : name[t] = name[u] /\ name[t] # Unnamed => t = u
    /\ \A p \in Places :
        LET t == assoc[p].table IN
            t # None => p \in Desired /\ t \in live /\ name[t] = p

\* A reconcile on its way: it has nothing to tag and nothing to disassociate.
WayInv ==
    /\ tagging = {} /\ found = {}
    /\ \A t \in todo : AssociatedPlaces(t) = {}
    /\ pc = "disassociate" => AssociatedPlaces(target) = {}
    /\ pc = "delete" => target = None
    /\ pc = "update" => target = None
    /\ pc \in {"update", "associate"} => todo = {}
    /\ pc = "associate" => name[target] = FirstOf(creating)

\* What it knows of the subnets: exactly those in creating have no table, and
\* a leftover table that names one of these is still to be deleted, or is the
\* one just made.
KnowsInv ==
    /\ \A s \in Desired : s \in creating <=> assoc[s].table = None
    /\ \A t \in live : name[t] \in creating => t \in todo \cup {target}
    /\ ready => \A s \in Desired \ creating : assoc[s].state = "associated"

IdleInv == pc = "idle" => target = None /\ found = {}

RunInv ==
    /\ IdleInv
    /\ pc \in {"update", "associate"} => ~teardown
    /\ pc # "idle" => outcome = "none"
    /\ pc # "idle" /\ ~teardown => WayInv /\ KnowsInv

\* What is left when a reconcile has ended.
ResultInv ==
    ~deleting =>
        /\ outcome = "ready" =>
            \A s \in Desired : assoc[s].table # None /\ assoc[s].state = "associated"
        /\ \A s, u \in Desired :
            SlotState(s) = "unassociated" /\ SlotState(u) = "unassociated" => s = u

UneditedInv == edits = 0 => OwnedInv /\ RunInv /\ ResultInv

IInv == TypeInv /\ PlanInv /\ UneditedInv

\* The parts that speak of a VPC nobody has edited, and a step in such a VPC.
Parts == OwnedInv /\ RunInv /\ ResultInv

Calm ==
    /\ ConstantsAssumption
    /\ TypedEc2 /\ TypedMemory /\ TypedBounds
    /\ PlanInv
    /\ Parts

-----------------------------------------------------------------------------
(* Steps that change nothing in EC2.                                       *)

LEMMA SameEc2 ==
    ASSUME Calm, UNCHANGED ec2Vars
    PROVE  /\ OwnedInv'
           /\ \A s \in Desired : SlotState(s)' = SlotState(s)
           /\ \A t : AssociatedPlaces(t)' = AssociatedPlaces(t)
  BY DEF Calm, Parts, OwnedInv, SlotState, AssociatedPlaces, ec2Vars

\* A reconcile that ends without the result "ready".
LEMMA EndKeeps ==
    ASSUME Calm, NEW result, result # "ready", End(result),
           UNCHANGED <<ec2Vars, deleting>>
    PROVE  Parts'
  <1>1. OwnedInv'
    BY SameEc2
  <1>2. RunInv'
    BY DEF End, RunInv, IdleInv
  <1>3. ResultInv'
    BY SameEc2 DEF Calm, Parts, ResultInv, End, ec2Vars
  <1> QED
    BY <1>1, <1>2, <1>3 DEF Parts

\* A step of a running reconcile that changes nothing in EC2.
LEMMA GoOnKeeps ==
    ASSUME Calm, UNCHANGED <<ec2Vars, deleting, outcome>>, pc # "idle", RunInv'
    PROVE  Parts'
  <1>1. OwnedInv'
    BY SameEc2
  <1>2. ResultInv'
    BY SameEc2 DEF Calm, Parts, ResultInv, RunInv, ec2Vars
  <1> QED
    BY <1>1, <1>2 DEF Parts

\* What a step that goes on to the next table leaves: a table less, or none.
LEMMA NextTableKeeps ==
    ASSUME Calm, UNCHANGED <<name, assoc, deleting>>, pc = "disassociate", NextTable,
           \/ live' = live
           \/ live' = live \ {target} /\ AssociatedPlaces(target) = {},
           ~teardown => target \notin live' \/ name[target] \notin creating
    PROVE  Parts'
  <1>1. /\ pc' = "delete" /\ target' = None /\ outcome' = "none" /\ outcome = "none"
        /\ UNCHANGED <<teardown, todo, tagging, creating, ready, found>>
        /\ live' \subseteq live
    BY DEF NextTable, plan, Calm, Parts, RunInv
  <1>2. ASSUME ~teardown
        PROVE  WayInv' /\ KnowsInv'
    <2>1. WayInv /\ KnowsInv
      BY <1>2 DEF Calm, Parts, RunInv
    <2>2. WayInv'
      BY <1>1, <2>1 DEF WayInv, AssociatedPlaces
    <2>3. KnowsInv'
      BY <1>1, <1>2, <2>1 DEF KnowsInv
    <2> QED
      BY <2>2, <2>3
  <1>3. RunInv'
    BY <1>1, <1>2 DEF RunInv, IdleInv
  <1>4. OwnedInv'
    BY <1>1 DEF Calm, Parts, OwnedInv, AssociatedPlaces
  <1>5. ASSUME NEW s \in Desired, SlotState(s)' = "unassociated"
        PROVE  SlotState(s) = "unassociated"
    BY <1>1, <1>5 DEF SlotState
  <1>6. ResultInv'
    BY <1>1, <1>5 DEF Calm, Parts, ResultInv
  <1> QED
    BY <1>3, <1>4, <1>6 DEF Parts

\* List: the leftovers are the tables that name a subnet without a table.
LEMMA ListKeeps ==
    ASSUME Calm, List
    PROVE  Parts'
  <1>1. /\ pc = "idle" /\ pc' = "delete" /\ outcome' = "none" /\ teardown' = deleting
        /\ UNCHANGED <<ec2Vars, deleting, target, found>>
    BY DEF List
  <1>2. ASSUME ~deleting
        PROVE  WayInv' /\ KnowsInv'
    <2>1. /\ todo' = Leftovers /\ tagging' = Misnamed
          /\ creating' = {s \in Desired : assoc[s].table = None}
          /\ ready' = AllAssociated
      BY <1>2 DEF List, PlanReconcile, Plan
    <2>2. OwnedInv /\ UNCHANGED <<live, name, assoc>> /\ live \subseteq Tables
      BY <1>1 DEF Calm, Parts, ec2Vars, TypedEc2
    <2>3. Misnamed = {}
      BY <2>2, PlacesAndTables DEF Calm, Misnamed, OwnedInv
    <2>4. \A t \in Leftovers : AssociatedPlaces(t) = {}
      BY <2>2, PlacesAndTables
      DEF Calm, Leftovers, WithoutSubnet, AssociatedPlaces, OwnedInv, Subnets, Places
    <2>5. ASSUME NEW t \in live, NEW s \in Desired, name[t] = s, assoc[s].table = None
          PROVE  t \in Leftovers
      <3>1. name[t] # Unnamed /\ t # None
        BY <2>2, <2>5, PlacesAndTables DEF Calm
      <3>2. AssociatedPlaces(t) = {}
        BY <2>2, <2>5, <3>1 DEF OwnedInv, AssociatedPlaces
      <3> QED
        BY <3>1, <3>2 DEF Leftovers, WithoutSubnet
    <2>6. target = None /\ found = {}
      BY <1>1 DEF Calm, Parts, RunInv, IdleInv
    <2>7. ready' => \A s \in Desired \ creating' : assoc[s].state = "associated"
      BY <2>1, PlacesAndTables DEF Calm, AllAssociated
    <2>8. WayInv'
      BY <1>1, <2>1, <2>3, <2>4, <2>6, SameEc2 DEF WayInv
    <2>9. KnowsInv'
      BY <2>1, <2>2, <2>5, <2>7 DEF KnowsInv
    <2> QED
      BY <2>8, <2>9
  <1>3. RunInv'
    BY <1>1, <1>2 DEF RunInv, IdleInv
  <1>4. ResultInv'
    BY <1>1, SameEc2 DEF Calm, Parts, ResultInv, ec2Vars
  <1>5. OwnedInv'
    BY <1>1, SameEc2
  <1> QED
    BY <1>3, <1>4, <1>5 DEF Parts

-----------------------------------------------------------------------------
(* Deleting tables.                                                        *)

LEMMA GetKeeps ==
    ASSUME Calm, NEW t \in todo, Get(t)
    PROVE  Parts'
  <1>1. CASE t \in live
    <2>1. /\ pc = "delete" /\ ~teardown /\ pc' = "disassociate"
          /\ target' = t /\ found' = AssociationIds(assoc, t) /\ todo' = todo \ {t}
          /\ UNCHANGED <<teardown, tagging, creating, ready, outcome, ec2Vars, deleting>>
      BY <1>1 DEF Get
    <2>2. WayInv /\ KnowsInv /\ outcome = "none" /\ UNCHANGED <<live, name, assoc>>
      BY <2>1 DEF Calm, Parts, RunInv, ec2Vars
    <2>3. AssociatedPlaces(t) = {}
      BY <2>2 DEF WayInv
    <2>4. found' = {}
      BY <2>1, <2>3 DEF AssociationIds, AssociatedPlaces
    <2>5. WayInv'
      BY <2>1, <2>2, <2>3, <2>4, SameEc2 DEF WayInv
    <2>6. KnowsInv'
      <3>1. \A u \in live : name[u] \in creating => u \in todo \cup {None}
        BY <2>1, <2>2 DEF WayInv, KnowsInv
      <3>2. None \notin live
        BY PlacesAndTables DEF Calm, TypedEc2
      <3> QED
        BY <2>1, <2>2, <3>1, <3>2 DEF KnowsInv
    <2>7. RunInv'
      BY <2>1, <2>2, <2>5, <2>6 DEF RunInv, IdleInv
    <2> QED
      BY <2>1, <2>7, GoOnKeeps
  <1>2. CASE t \notin live
    BY <1>2, EndKeeps DEF Get
  <1> QED
    BY <1>1, <1>2

LEMMA TakeListedKeeps ==
    ASSUME Calm, NEW t \in todo, TakeListed(t)
    PROVE  Parts'
  <1>1. /\ pc = "delete" /\ pc' = "disassociate" /\ teardown
        /\ UNCHANGED <<teardown, outcome, ec2Vars, deleting>>
    BY DEF TakeListed
  <1>2. RunInv'
    BY <1>1 DEF Calm, Parts, RunInv, IdleInv
  <1> QED
    BY <1>1, <1>2, GoOnKeeps

\* Only DeleteAll finds something to disassociate.
LEMMA DisassociateKeeps ==
    ASSUME Calm, NEW a \in found, Disassociate(a)
    PROVE  Parts'
  <1>1. pc = "disassociate" /\ teardown /\ deleting /\ deleting' = deleting
    BY DEF Disassociate, Calm, Parts, RunInv, WayInv, PlanInv
  <1>2. /\ UNCHANGED <<live, name>>
        /\ \A p \in Places : assoc'[p] = assoc[p] \/ assoc'[p] = Disassociated
    BY DEF Disassociate, NotFound, ec2Vars, Calm, TypedEc2
  <1>3. OwnedInv'
    BY <1>2 DEF Calm, Parts, OwnedInv, Disassociated
  <1>4. \/ /\ pc' = pc /\ teardown' = teardown /\ outcome' = outcome
        \/ End("error")
    BY DEF Disassociate, NotFound
  <1>5. RunInv'
    BY <1>1, <1>4 DEF Calm, Parts, RunInv, IdleInv, End
  <1>6. ResultInv'
    BY <1>1 DEF ResultInv
  <1> QED
    BY <1>3, <1>5, <1>6 DEF Parts

LEMMA SkipMainKeeps ==
    ASSUME Calm, SkipMain
    PROVE  Parts'
  <1>1. name[Main] \notin creating
    BY PlacesAndTables DEF Calm, Parts, OwnedInv, TypedMemory
  <1>2. pc = "disassociate" /\ target = Main /\ NextTable /\ UNCHANGED <<ec2Vars, deleting>>
    BY DEF SkipMain
  <1> QED
    BY <1>1, <1>2, NextTableKeeps DEF ec2Vars

LEMMA DeleteTableKeeps ==
    ASSUME Calm, DeleteTable
    PROVE  Parts'
  <1>1. pc = "disassociate" /\ UNCHANGED deleting
    BY DEF DeleteTable
  <1>2. CASE UNCHANGED ec2Vars /\ End("error")
    BY <1>1, <1>2, EndKeeps
  <1>3. CASE target \notin live /\ UNCHANGED ec2Vars /\ NextTable
    BY <1>1, <1>3, NextTableKeeps DEF ec2Vars
  <1>4. CASE /\ AssociatedPlaces(target) = {} /\ live' = live \ {target}
             /\ UNCHANGED <<name, assoc>> /\ NextTable
    BY <1>1, <1>4, NextTableKeeps
  <1> QED
    BY <1>2, <1>3, <1>4 DEF DeleteTable, NotFound

LEMMA AfterDeletionKeeps ==
    ASSUME Calm, AfterDeletion
    PROVE  Parts'
  <1>1. CASE teardown
    BY <1>1, EndKeeps DEF AfterDeletion
  <1>2. CASE ~teardown
    <2>1. /\ pc = "delete" /\ todo = {} /\ pc' = "update"
          /\ UNCHANGED <<ec2Vars, deleting, teardown, todo, target, found, tagging,
                          creating, ready, outcome>>
      BY <1>2 DEF AfterDeletion, memory
    <2>2. WayInv /\ KnowsInv /\ outcome = "none" /\ UNCHANGED <<live, name, assoc>>
      BY <1>2, <2>1 DEF Calm, Parts, RunInv, ec2Vars
    <2>3. WayInv'
      BY <2>1, <2>2 DEF WayInv
    <2>4. KnowsInv'
      BY <2>1, <2>2 DEF KnowsInv
    <2>5. RunInv'
      BY <1>2, <2>1, <2>2, <2>3, <2>4 DEF RunInv, IdleInv
    <2> QED
      BY <2>1, <2>5, GoOnKeeps
  <1> QED
    BY <1>1, <1>2

-----------------------------------------------------------------------------
(* Making tables.                                                          *)

\* When tables are made all leftovers are gone.
LEMMA NoLeftover ==
    ASSUME Calm, pc = "update"
    PROVE  /\ WayInv /\ KnowsInv /\ outcome = "none" /\ ~teardown
           /\ \A t \in live : name[t] \notin creating
  <1>1. WayInv /\ KnowsInv /\ outcome = "none" /\ ~teardown
    BY DEF Calm, Parts, RunInv
  <1>2. None \notin live
    BY PlacesAndTables DEF Calm, TypedEc2
  <1> QED
    BY <1>1, <1>2 DEF WayInv, KnowsInv

LEMMA StateType ==
    ASSUME Calm
    PROVE  \A s \in Desired : assoc[s].state \in {"associating", "associated"}
  BY PlacesAndTables DEF Calm, TypedEc2, Association

LEMMA CreateTableKeeps ==
    ASSUME Calm, CreateTable
    PROVE  Parts'
  <1>. DEFINE f == FirstOf(creating)
  <1>1. f \in creating /\ f \in Desired /\ f # Unnamed
    BY FirstOfType, PlacesAndTables DEF CreateTable, Calm, TypedMemory
  <1>2. PICK t \in OwnTables \ used :
            /\ live' = live \cup {t}
            /\ name' = [name EXCEPT ![t] = f]
            /\ target' = t
    BY DEF CreateTable
  <1>3. /\ pc = "update" /\ pc' = "associate"
        /\ UNCHANGED <<assoc, deleting, teardown, todo, tagging, creating, ready,
                        found, outcome>>
    BY DEF CreateTable, plan
  <1>4. /\ OwnedInv /\ ResultInv /\ WayInv /\ KnowsInv /\ outcome = "none" /\ ~teardown
        /\ \A u \in live : name[u] \notin creating
    BY <1>3, NoLeftover DEF Calm, Parts
  <1>5. t \in Tables /\ t \notin live /\ t # Main
    BY <1>2, PlacesAndTables DEF Calm, TypedEc2, OwnTables, Main
  <1>6. /\ name'[t] = f
        /\ \A u \in live : name'[u] = name[u]
        /\ name'[Main] = name[Main]
    BY <1>2, <1>5, PlacesAndTables DEF Calm, TypedEc2
  <1>. HIDE DEF f
  <1>7. OwnedInv'
    BY <1>1, <1>2, <1>3, <1>4, <1>6 DEF OwnedInv
  <1>8. WayInv'
    BY <1>2, <1>3, <1>4, <1>6 DEF WayInv, f
  <1>9. KnowsInv'
    BY <1>2, <1>3, <1>4, <1>6 DEF KnowsInv
  <1>10. RunInv'
    BY <1>3, <1>4, <1>8, <1>9 DEF RunInv, IdleInv
  <1>11. ASSUME NEW s \in Desired, SlotState(s)' = "unassociated"
         PROVE  s = f
    <2>1. assoc[s].table = None /\ \E u \in live' : name'[u] = s
      BY <1>3, <1>11, StateType DEF SlotState
    <2>2. s \in creating
      BY <1>4, <2>1 DEF KnowsInv
    <2> QED
      BY <1>2, <1>4, <1>6, <2>1, <2>2
  <1>12. ResultInv'
    BY <1>3, <1>4, <1>11 DEF ResultInv
  <1> QED
    BY <1>7, <1>10, <1>12 DEF Parts

LEMMA AssociateTableKeeps ==
    ASSUME Calm, AssociateTable
    PROVE  Parts'
  <1>. DEFINE f == FirstOf(creating)
  <1>1. pc = "associate" /\ UNCHANGED <<live, used, name, deleting>>
    BY DEF AssociateTable
  <1>2. f \in creating /\ f \in Desired /\ f \in Places /\ target # None
    BY <1>1, FirstOfType, PlacesAndTables DEF Calm, TypedMemory, StageInv, Places
  <1>3. CASE UNCHANGED assoc /\ End("error")
    BY <1>1, <1>3, EndKeeps DEF ec2Vars
  <1>4. CASE /\ target \in live /\ assoc[f].table = None
             /\ \E state \in {"associating", "associated"} :
                    /\ assoc' = [assoc EXCEPT
                            ![f] = [table |-> target, state |-> state, edit |-> 0]]
                    /\ ready' = (ready /\ state = "associated")
             /\ creating' = creating \ {f} /\ target' = None /\ pc' = "update"
             /\ UNCHANGED <<teardown, todo, found, tagging, outcome>>
    <2>1. /\ OwnedInv /\ ResultInv /\ WayInv /\ KnowsInv /\ outcome = "none" /\ ~teardown
      BY <1>1 DEF Calm, Parts, RunInv
    <2>2. name[target] = f /\ todo = {}
      BY <1>1, <2>1 DEF WayInv
    <2>3. PICK state \in {"associating", "associated"} :
                /\ assoc' = [assoc EXCEPT
                        ![f] = [table |-> target, state |-> state, edit |-> 0]]
                /\ ready' = (ready /\ state = "associated")
      BY <1>4
    <2>. HIDE DEF f
    <2>3a. /\ assoc'[f].table = target /\ assoc'[f].state = state
           /\ \A p \in Places \ {f} : assoc'[p] = assoc[p]
      BY <1>2, <2>3 DEF Calm, TypedEc2
    <2>3b. ready' => ready /\ assoc'[f].state = "associated"
      BY <2>3, <2>3a
    <2>4. Desired \subseteq Places
      BY PlacesAndTables DEF Calm
    <2>5. OwnedInv'
      BY <1>1, <1>2, <1>4, <2>1, <2>2, <2>3a DEF OwnedInv
    <2>6. WayInv'
      BY <1>4, <2>1, <2>2 DEF WayInv
    <2>7. KnowsInv'
      <3>1. \A s \in Desired : s \in creating' <=> assoc'[s].table = None
        BY <1>2, <1>4, <2>1, <2>3a, <2>4 DEF KnowsInv
      <3>2. \A t \in live' : name'[t] \in creating' => t \in todo' \cup {target'}
        BY <1>1, <1>4, <2>1, <2>2 DEF KnowsInv
      <3>3. ready' => \A s \in Desired \ creating' : assoc'[s].state = "associated"
        BY <1>4, <2>1, <2>3a, <2>3b, <2>4 DEF KnowsInv
      <3> QED
        BY <3>1, <3>2, <3>3 DEF KnowsInv
    <2>8. RunInv'
      BY <1>4, <2>1, <2>6, <2>7 DEF RunInv, IdleInv
    <2>9. ASSUME NEW s \in Desired, SlotState(s)' = "unassociated"
          PROVE  SlotState(s) = "unassociated"
      BY <1>1, <1>2, <2>3, <2>3a, <2>4, <2>9 DEF SlotState
    <2>10. ResultInv'
      BY <1>1, <1>4, <2>1, <2>9 DEF ResultInv
    <2> QED
      BY <2>5, <2>8, <2>10 DEF Parts
  <1> QED
    BY <1>3, <1>4 DEF AssociateTable

\* A reconcile that made or found a complete association for every subnet.
LEMMA FinishKeeps ==
    ASSUME Calm, Finish
    PROVE  Parts'
  <1>1. /\ pc = "update" /\ creating = {} /\ UNCHANGED <<ec2Vars, deleting>>
        /\ End(IF ready THEN "ready" ELSE "notReady")
    BY DEF Finish
  <1>2. CASE ~ready
    BY <1>1, <1>2, EndKeeps
  <1>3. CASE ready
    <2>1. \A s \in Desired : assoc[s].table # None /\ assoc[s].state = "associated"
      BY <1>1, <1>3, NoLeftover DEF KnowsInv
    <2>2. OwnedInv'
      BY <1>1, SameEc2
    <2>3. RunInv'
      BY <1>1 DEF End, RunInv, IdleInv
    <2>4. ResultInv'
      BY <1>1, <2>1, SameEc2 DEF Calm, Parts, ResultInv, ec2Vars
    <2> QED
      BY <2>2, <2>3, <2>4 DEF Parts
  <1> QED
    BY <1>2, <1>3

-----------------------------------------------------------------------------
(* The environment, and all steps.                                         *)

LEMMA AssociatesKeeps ==
    ASSUME Calm, NEW p \in Places, Associates(p)
    PROVE  Parts'
  <1>1. /\ UNCHANGED <<live, name, deleting, pc, teardown, todo, target, found, tagging,
                        creating, ready, outcome>>
        /\ \A q \in Places :
            /\ assoc'[q].table = assoc[q].table
            /\ assoc'[q].state # assoc[q].state => assoc'[q].state = "associated"
    BY DEF Associates, memory, Calm, TypedEc2, Association
  <1>2. Desired \subseteq Places
    BY PlacesAndTables DEF Calm
  <1>3. OwnedInv'
    BY <1>1 DEF Calm, Parts, OwnedInv
  <1>4. \A t : AssociatedPlaces(t)' = AssociatedPlaces(t)
    BY <1>1 DEF AssociatedPlaces
  <1>5. WayInv => WayInv'
    BY <1>1, <1>4 DEF WayInv
  <1>6. KnowsInv => KnowsInv'
    BY <1>1, <1>2 DEF KnowsInv
  <1>7. RunInv'
    BY <1>1, <1>5, <1>6 DEF Calm, Parts, RunInv, IdleInv
  <1>8. \A s \in Desired : SlotState(s)' = "unassociated" => SlotState(s) = "unassociated"
    BY <1>1, <1>2, StateType DEF SlotState
  <1>9. ResultInv'
    BY <1>1, <1>2, <1>8 DEF Calm, Parts, ResultInv
  <1> QED
    BY <1>3, <1>7, <1>9 DEF Parts

LEMMA StutterKeeps ==
    ASSUME Calm, UNCHANGED <<ec2Vars, pc, memory, outcome>>, deleting => deleting'
    PROVE  Parts'
  <1>1. OwnedInv'
    BY SameEc2
  <1>2. RunInv'
    BY SameEc2 DEF Calm, Parts, RunInv, IdleInv, WayInv, KnowsInv, ec2Vars, memory
  <1>3. ResultInv'
    BY SameEc2 DEF Calm, Parts, ResultInv, ec2Vars
  <1> QED
    BY <1>1, <1>2, <1>3 DEF Parts

\* A step after which nobody has edited the VPC is none of the user's.
LEMMA NoEdit ==
    ASSUME TypedBounds, [Next]_vars, edits' = 0
    PROVE  edits = 0 /\ ~UserSteps
  <1>1. edits \in Nat
    BY DEF TypedBounds
  <1>2. ~UserSteps
    BY <1>1 DEF UserSteps, UserCreates, UserDisassociates, UserAssociates, UserDeletes, Edit
  <1>3. ~UserSteps => edits' = edits
    BY DEF Next, OperatorSteps, List, Get, TakeListed, Disassociate, SkipMain, DeleteTable,
           AfterDeletion, UpdateTags, CreateTable, AssociateTable, Finish, CallFails,
           Associates, RequestDeletion, vars
  <1> QED
    BY <1>2, <1>3

LEMMA StepKeeps ==
    ASSUME Calm, [Next]_vars, edits' = 0
    PROVE  Parts'
  <1>1. ~UserSteps
    BY NoEdit DEF Calm
  <1>2. ASSUME NEW s \in tagging, UpdateTags(s)
        PROVE  FALSE
    BY <1>2, NoLeftover DEF UpdateTags, WayInv
  <1>3. CASE CallFails
    BY <1>3, EndKeeps DEF CallFails
  <1>4. CASE RequestDeletion \/ UNCHANGED vars
    <2>1. UNCHANGED <<ec2Vars, pc, memory, outcome>> /\ (deleting => deleting')
      BY <1>4 DEF RequestDeletion, vars
    <2> QED
      BY <2>1, StutterKeeps
  <1>5. ASSUME NEW t \in todo, Get(t) \/ TakeListed(t)
        PROVE  Parts'
    BY <1>5, GetKeeps, TakeListedKeeps
  <1>6. ASSUME NEW a \in found, Disassociate(a)
        PROVE  Parts'
    BY <1>6, DisassociateKeeps
  <1>7. ASSUME NEW p \in Places, Associates(p)
        PROVE  Parts'
    BY <1>7, AssociatesKeeps
  <1> QED
    BY <1>1, <1>2, <1>3, <1>4, <1>5, <1>6, <1>7, ListKeeps, SkipMainKeeps, DeleteTableKeeps,
       AfterDeletionKeeps, CreateTableKeeps, AssociateTableKeeps, FinishKeeps
    DEF Next, OperatorSteps

LEMMA InitSlots ==
    ASSUME ConstantsAssumption, Init
    PROVE  \A s \in Desired : SlotState(s) = "none"
  <1>. SUFFICES ASSUME NEW s \in Desired
                PROVE  SlotState(s) = "none"
    OBVIOUS
  <1>1. assoc[s].table = None
    BY PlacesAndTables DEF Init, Nothing, Disassociated
  <1>2. \A t \in live : name[t] # s
    BY PlacesAndTables DEF Init
  <1> QED
    BY <1>1, <1>2 DEF SlotState

LEMMA InitUnedited ==
    ASSUME ConstantsAssumption, Init
    PROVE  UneditedInv
  <1>1. Desired \subseteq Places
    BY PlacesAndTables
  <1>2. OwnedInv
    BY <1>1, PlacesAndTables DEF Init, OwnedInv, Nothing, Disassociated
  <1>3. RunInv
    BY DEF Init, RunInv, IdleInv
  <1>4. ResultInv
    BY InitSlots DEF Init, ResultInv
  <1> QED
    BY <1>2, <1>3, <1>4 DEF UneditedInv

\* Nobody has edited the VPC so far: the parts hold.
LEMMA IsCalm ==
    ASSUME ConstantsAssumption, IInv, edits = 0
    PROVE  Calm
  BY TypeParts DEF IInv, UneditedInv, Calm, Parts

LEMMA InitIInv ==
    ASSUME ConstantsAssumption, Init
    PROVE  IInv
  BY InitType, InitPlan, InitUnedited DEF IInv

LEMMA StepIInv ==
    ASSUME ConstantsAssumption, IInv, [Next]_vars
    PROVE  IInv'
  <1>1. TypeInv' /\ PlanInv'
    BY StepType, StepPlan DEF IInv
  <1>2. ASSUME edits' = 0
        PROVE  Parts'
    <2>1. edits = 0
      BY <1>2, NoEdit, TypeParts DEF IInv
    <2> QED
      BY <1>2, <2>1, IsCalm, StepKeeps
  <1> QED
    BY <1>1, <1>2 DEF IInv, UneditedInv, Parts

-----------------------------------------------------------------------------
(* The theorems.                                                           *)

\* However often calls fail and the process dies, the operator never has two
\* tables for one subnet: when CreateTable runs, every table whose association
\* failed before is gone.
THEOREM HasOneTablePerSubnet == Spec => []OneTablePerSubnet
  <1>1. Init => IInv
    BY InitIInv, ConstantsAssumption
  <1>2. IInv /\ [Next]_vars => IInv'
    BY StepIInv, ConstantsAssumption
  <1>3. IInv => OneTablePerSubnet
    <2>1. SUFFICES ASSUME IInv, edits = 0, NEW s \in Desired
                   PROVE  Cardinality({t \in live : name[t] = s}) <= 1
      BY DEF OneTablePerSubnet
    <2>. DEFINE T == {t \in live : name[t] = s}
    <2>2. \A t, u \in T : t = u
      BY <2>1, PlacesAndTables, ConstantsAssumption DEF IInv, UneditedInv, OwnedInv
    <2>3. T = {} \/ \E t \in T : T = {t}
      BY <2>2
    <2>4. Cardinality(T) = 0 \/ Cardinality(T) = 1
      BY <2>3, FS_EmptySet, FS_Singleton
    <2> QED
      BY <2>4
  <1> QED
    BY <1>1, <1>2, <1>3, PTL DEF Spec

\* When Reconcile reports no table that is not ready, and nobody has edited the
\* VPC, every subnet is served by a table of its own, also later.
THEOREM ReadyIsServed == Spec => []ReadyMeansServed
  <1>1. Init => IInv
    BY InitIInv, ConstantsAssumption
  <1>2. IInv /\ [Next]_vars => IInv'
    BY StepIInv, ConstantsAssumption
  <1>3. IInv => ReadyMeansServed
    <2>1. SUFFICES ASSUME IInv, outcome = "ready", edits = 0, ~deleting, NEW s \in Desired
                   PROVE  /\ assoc[s].table # None /\ assoc[s].state = "associated"
                          /\ \A other \in Desired \ {s} : assoc[other].table # assoc[s].table
      BY DEF ReadyMeansServed
    <2>2. OwnedInv /\ ResultInv /\ Desired \subseteq Places
      BY <2>1, PlacesAndTables, ConstantsAssumption DEF IInv, UneditedInv
    <2>3. assoc[s].table # None /\ assoc[s].state = "associated"
      BY <2>1, <2>2 DEF ResultInv
    <2> QED
      BY <2>2, <2>3 DEF OwnedInv
  <1> QED
    BY <1>1, <1>2, <1>3, PTL DEF Spec

\* A subnet of a cluster that nobody deletes keeps its table.
LEMMA StepKeepsServing ==
    ASSUME Calm, [Next]_vars, edits' = 0, ~deleting, NEW s \in Desired
    PROVE  /\ SlotState(s) \in {"associating", "associated"}
                => SlotState(s)' \in {"associating", "associated"}
           /\ SlotState(s) = "associated" => SlotState(s)' = "associated"
  <1>1. assoc \in [Places -> Association] /\ s \in Places
    BY PlacesAndTables DEF Calm, TypedEc2
  <1>2. CASE UNCHANGED assoc
    BY <1>1, <1>2 DEF SlotState, Association
  <1>3. ASSUME NEW a \in found, Disassociate(a)
        PROVE  FALSE
    BY <1>3 DEF Disassociate, Calm, Parts, RunInv, WayInv, PlanInv
  <1>4. CASE AssociateTable
    <2>1. \/ UNCHANGED assoc
          \/ /\ assoc[FirstOf(creating)].table = None
             /\ \A p \in Places \ {FirstOf(creating)} : assoc'[p] = assoc[p]
      BY <1>1, <1>4 DEF AssociateTable
    <2>2. SlotState(s) \in {"associating", "associated"} => assoc[s].table # None
      BY DEF SlotState
    <2>3. UNCHANGED assoc \/ (assoc[s].table # None => assoc'[s] = assoc[s])
      BY <1>1, <2>1
    <2> QED
      BY <1>1, <1>2, <2>2, <2>3 DEF SlotState
  <1>5. ASSUME NEW p \in Places, Associates(p)
        PROVE  assoc'[s].table = assoc[s].table /\
               (assoc'[s].state = assoc[s].state \/ assoc'[s].state = "associated")
    BY <1>1, <1>5 DEF Associates, Association
  <1>6. CASE \E p \in Places : Associates(p)
    BY <1>1, <1>5, <1>6 DEF SlotState
  <1>7. ~UserSteps
    BY NoEdit DEF Calm
  <1>8. \/ UNCHANGED assoc
        \/ \E a \in found : Disassociate(a)
        \/ AssociateTable
        \/ \E p \in Places : Associates(p)
    BY <1>7 DEF Next, OperatorSteps, List, Get, TakeListed, SkipMain, DeleteTable, NotFound,
           AfterDeletion, UpdateTags, CreateTable, Finish, CallFails, RequestDeletion,
           ec2Vars, vars
  <1> QED
    BY <1>2, <1>3, <1>4, <1>6, <1>8

LEMMA DeletingSteps ==
    ASSUME Calm, [Next]_vars, edits' = 0
    PROVE  \/ deleting' = deleting
           \/ ~deleting /\ deleting' /\ UNCHANGED ec2Vars
  <1>1. ~UserSteps
    BY NoEdit DEF Calm
  <1> QED
    BY <1>1 DEF Next, OperatorSteps, List, Get, TakeListed, Disassociate, SkipMain,
           DeleteTable, AfterDeletion, UpdateTags, CreateTable, AssociateTable, Finish,
           CallFails, Associates, RequestDeletion, vars

\* Request by request the operator does to the tables of the subnets what
\* RouteTableSlots allows: a subnet keeps its table, and an attempt whose
\* association failed is cleared away before the next one.
THEOREM RouteTableSlotsAreImplemented == Spec => ImplementsRouteTableSlots
  <1>. DEFINE slots == [s \in Desired |-> SlotState(s)]
              Steps == edits' = 0 => [Contract!Next]_(Contract!vars)
  <1>1. Init => IInv
    BY InitIInv, ConstantsAssumption
  <1>2. IInv /\ [Next]_vars => IInv'
    BY StepIInv, ConstantsAssumption
  <1>3. Init => Contract!Init
    <2>1. SUFFICES ASSUME Init
                   PROVE  /\ slots = [s \in Desired |-> "none"]
                          /\ deleting = FALSE
      BY DEF Contract!Init
    <2>2. \A s \in Desired : SlotState(s) = "none"
      BY <2>1, InitSlots, ConstantsAssumption
    <2> QED
      BY <2>1, <2>2 DEF Init
  <1>4. IInv /\ [Next]_vars => Steps
    <2>1. SUFFICES ASSUME IInv, [Next]_vars, edits' = 0
                   PROVE  [Contract!Next]_(Contract!vars)
      OBVIOUS
    <2>2. Calm /\ Parts'
      BY <2>1, NoEdit, IsCalm, StepKeeps, TypeParts, ConstantsAssumption DEF IInv
    <2>3. TypedEc2'
      BY <2>1, StepEc2, ConstantsAssumption DEF IInv
    <2>4. slots' \in [Desired -> Contract!States]
      BY <2>3, PlacesAndTables, ConstantsAssumption
      DEF TypedEc2, Association, SlotState, Contract!States
    <2>5. CASE ~deleting /\ deleting' = deleting
      <3>1. Contract!KeepsServing
        BY <2>1, <2>2, <2>5, StepKeepsServing DEF Contract!KeepsServing, Contract!Serving
      <3>2. Contract!AtMostOneLeftover'
        BY <2>2, <2>5 DEF Parts, ResultInv, Contract!AtMostOneLeftover
      <3> QED
        BY <2>4, <2>5, <3>1, <3>2 DEF Contract!Next, Contract!Work
    <2>6. CASE ~deleting /\ deleting' /\ UNCHANGED ec2Vars
      <3>1. slots' = slots
        BY <2>2, <2>6, SameEc2
      <3> QED
        BY <2>6, <3>1, <2>2 DEF Contract!Next, Contract!RequestDeletion, Calm, TypedBounds
    <2>7. CASE deleting /\ deleting' = deleting
      BY <2>4, <2>7 DEF Contract!Next, Contract!Teardown
    <2> QED
      BY <2>1, <2>2, <2>5, <2>6, <2>7, DeletingSteps
  <1>5. IInv /\ [Next]_vars => [Steps]_vars
    BY <1>4
  <1> QED
    BY <1>1, <1>2, <1>3, <1>5, PTL DEF Spec, ImplementsRouteTableSlots
=============================================================================
