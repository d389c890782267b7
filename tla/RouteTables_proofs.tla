-------------------------- MODULE RouteTables_proofs --------------------------
(***************************************************************************)
(* Proofs about RouteTables for every number of subnets, edits and faults. *)
(***************************************************************************)
EXTENDS RouteTables, WellFoundedInduction, TLAPS

\* A table is being deleted, or associated, only if there is one.
StageInv ==
    /\ pc = "disassociate" => target # None
    /\ pc = "associate" => target # None /\ creating # {}

TypeInv == TypeOK /\ StageInv

\* A table Reconcile is going to delete has the operator's tags, and no subnet
\* was associated with it when the tables were listed; only a deletion starts
\* DeleteAll.
Leftover(t) ==
    /\ name[t] # Unnamed
    /\ \A s \in Subnets : seen[s].table # t

PlanInv ==
    /\ teardown => deleting
    /\ ~teardown =>
        /\ \A t \in todo : Leftover(t)
        /\ pc = "disassociate" => Leftover(target)

-----------------------------------------------------------------------------
(* Types.                                                                  *)

\* The set of subnets a table is made for has a first one.
LEMMA FirstOfType ==
    ASSUME NEW S \in SUBSET Nat, S # {}
    PROVE  FirstOf(S) \in S
  <1>. DEFINE R == {ss \in Nat \X Nat : ss[1] < ss[2]}
  <1>1. IsWellFoundedOn(R, Nat)
    <2>1. OpToRel(<, Nat) = R
      BY Zenon DEF OpToRel
    <2> QED
      BY <2>1, NatLessThanWellFounded, Zenon
  <1>2. PICK x \in S : \A y \in S : <<y, x>> \notin R
    <2>. HIDE DEF R
    <2> QED
      BY <1>1, WFMin
  <1>3. ASSUME NEW y \in S, ~ (x <= y) PROVE FALSE
    <2>1. y \in Nat /\ x \in Nat /\ y < x
      BY <1>3
    <2>2. <<y, x>> \in Nat \X Nat /\ <<y, x>>[1] < <<y, x>>[2]
      BY <2>1
    <2>3. <<y, x>> \in R
      BY <2>2, Zenon
    <2> QED
      BY <2>3, <1>2, Zenon
  <1> QED
    BY <1>3 DEF FirstOf

LEMMA PlacesAndTables ==
    ASSUME ConstantsAssumption
    PROVE  /\ Desired \subseteq Nat \ {0} /\ Desired \subseteq Subnets
           /\ Subnets \subseteq Places
           /\ Tables \subseteq Nat /\ None \notin Tables
           /\ Main \in Tables /\ OwnTables \subseteq Tables /\ UserTables \subseteq Tables
           /\ Names = Desired \cup {Unnamed} /\ Unnamed \notin Desired
           /\ 0 \in 0..MaxEdits /\ 0 \in 0..MaxFaults
  BY DEF ConstantsAssumption, Desired, Subnets, Places, Tables, OwnTables, UserTables,
         LastOwn, Main, Names, Unnamed

LEMMA NothingType ==
    ASSUME ConstantsAssumption
    PROVE  Disassociated \in Association /\ Nothing \in [Places -> Association]
  BY PlacesAndTables DEF Disassociated, Nothing, Association

TypedEc2 ==
    /\ live \subseteq used /\ used \subseteq Tables
    /\ name \in [Tables -> Names]
    /\ assoc \in [Places -> Association]

TypedMemory ==
    /\ seen \in [Places -> Association]
    /\ teardown \in BOOLEAN /\ ready \in BOOLEAN
    /\ pc \in Stages
    /\ todo \subseteq Tables
    /\ target \in Tables \cup {None}
    /\ found \subseteq [place : Places, edit : 0..MaxEdits]
    /\ tagging \subseteq Desired /\ creating \subseteq Desired
    /\ outcome \in Outcomes
    /\ StageInv

TypedBounds ==
    deleting \in BOOLEAN /\ edits \in 0..MaxEdits /\ faults \in 0..MaxFaults

LEMMA TypeParts ==
    TypeInv <=> TypedEc2 /\ TypedMemory /\ TypedBounds
  BY DEF TypeInv, TypeOK, TypedEc2, TypedMemory, TypedBounds

LEMMA EndType ==
    ASSUME ConstantsAssumption, NEW result \in Outcomes, End(result)
    PROVE  TypedMemory'
  BY NothingType, PlacesAndTables DEF End, TypedMemory, Stages, StageInv

LEMMA NextTableType ==
    ASSUME TypedMemory, NextTable
    PROVE  TypedMemory'
  BY DEF TypedMemory, NextTable, Stages, StageInv, plan

LEMMA AssociationIdsType ==
    ASSUME NEW a \in [Places -> Association], NEW t
    PROVE  AssociationIds(a, t) \subseteq [place : Places, edit : 0..MaxEdits]
  BY DEF AssociationIds, Association

LEMMA StepBounds ==
    ASSUME ConstantsAssumption, TypeInv, [Next]_vars
    PROVE  TypedBounds'
  <1>. TypedBounds
    BY TypeParts
  <1>. USE DEF TypedBounds
  <1>1. CASE OperatorSteps
    BY <1>1 DEF OperatorSteps, List, Get, TakeListed, Disassociate, SkipMain,
                DeleteTable, AfterDeletion, UpdateTags, CreateTable, AssociateTable, Finish
  <1>2. CASE CallFails
    BY <1>2 DEF CallFails, ConstantsAssumption
  <1>3. CASE (\E p \in Places : Associates(p)) \/ RequestDeletion
    BY <1>3 DEF Associates, RequestDeletion
  <1>4. CASE UserSteps
    BY <1>4 DEF UserSteps, UserCreates, UserDisassociates, UserAssociates, UserDeletes,
                Edit, ConstantsAssumption
  <1>5. CASE UNCHANGED vars
    BY <1>5 DEF vars
  <1> QED
    BY <1>1, <1>2, <1>3, <1>4, <1>5 DEF Next

LEMMA StepEc2 ==
    ASSUME ConstantsAssumption, TypeInv, [Next]_vars
    PROVE  TypedEc2'
  <1>1. TypedEc2 /\ TypedMemory
    BY TypeParts
  <1>2. CASE UNCHANGED ec2Vars
    BY <1>1, <1>2 DEF TypedEc2, ec2Vars
  <1>3. ASSUME NEW p \in Places, NEW a \in Association,
               assoc' = [assoc EXCEPT ![p] = a], UNCHANGED <<live, used, name>>
        PROVE  TypedEc2'
    BY <1>1, <1>3 DEF TypedEc2
  <1>4. ASSUME NEW a \in found, Disassociate(a)
        PROVE  TypedEc2'
    <2>1. a.place \in Places
      BY <1>1, <1>4 DEF TypedMemory
    <2> QED
      BY <1>2, <1>3, <1>4, <2>1, NothingType DEF Disassociate, NotFound
  <1>5. CASE DeleteTable
    BY <1>1, <1>2, <1>5 DEF DeleteTable, NotFound, TypedEc2, ec2Vars
  <1>6. ASSUME NEW s \in tagging, UpdateTags(s)
        PROVE  TypedEc2'
    <2>1. s \in Names
      BY <1>1, <1>6, PlacesAndTables DEF TypedMemory
    <2> QED
      BY <1>1, <1>6, <2>1 DEF UpdateTags, TypedEc2
  <1>7. CASE CreateTable
    <2>1. FirstOf(creating) \in Names
      BY <1>1, <1>7, FirstOfType, PlacesAndTables DEF TypedMemory, CreateTable
    <2>2. PICK t \in OwnTables \ used :
            /\ live' = live \cup {t} /\ used' = used \cup {t}
            /\ name' = [name EXCEPT ![t] = FirstOf(creating)]
      BY <1>7 DEF CreateTable
    <2>3. UNCHANGED assoc
      BY <1>7 DEF CreateTable
    <2> QED
      BY <1>1, <2>1, <2>2, <2>3, PlacesAndTables DEF TypedEc2
  <1>8. CASE AssociateTable
    <2>1. FirstOf(creating) \in Places /\ target \in Tables
      BY <1>1, <1>8, FirstOfType, PlacesAndTables DEF TypedMemory, StageInv, AssociateTable
    <2>2. \A state \in {"associating", "associated"} :
            [table |-> target, state |-> state, edit |-> 0] \in Association
      BY <2>1, PlacesAndTables DEF Association
    <2> QED
      BY <1>2, <1>3, <1>8, <2>1, <2>2 DEF AssociateTable, ec2Vars
  <1>9. ASSUME NEW p \in Places, Associates(p)
        PROVE  TypedEc2'
    BY <1>1, <1>9 DEF Associates, TypedEc2, Association
  <1>10. CASE UserSteps
    <2>1. CASE UserCreates
      BY <1>1, <2>1, PlacesAndTables DEF UserCreates, TypedEc2
    <2>2. ASSUME NEW p \in Places, UserDisassociates(p)
          PROVE  TypedEc2'
      BY <1>3, <2>2, NothingType DEF UserDisassociates
    <2>3. ASSUME NEW p \in Places, NEW t \in live, UserAssociates(p, t)
          PROVE  TypedEc2'
      <3>1. t \in Tables /\ edits + 1 \in 0..MaxEdits
        BY <1>1, <2>3, TypeParts DEF TypedEc2, TypedBounds, UserAssociates, Edit,
                                     ConstantsAssumption
      <3>2. [table |-> t, state |-> "associated", edit |-> edits + 1] \in Association
        BY <3>1 DEF Association
      <3> QED
        BY <1>3, <2>3, <3>2 DEF UserAssociates
    <2>4. ASSUME NEW t \in live, UserDeletes(t)
          PROVE  TypedEc2'
      BY <1>1, <2>4 DEF UserDeletes, TypedEc2
    <2> QED
      BY <1>10, <2>1, <2>2, <2>3, <2>4 DEF UserSteps
  <1>11. \/ UNCHANGED ec2Vars
         \/ \E a \in found : Disassociate(a)
         \/ DeleteTable
         \/ \E s \in tagging : UpdateTags(s)
         \/ CreateTable \/ AssociateTable
         \/ \E p \in Places : Associates(p)
         \/ UserSteps
    BY DEF Next, OperatorSteps, List, Get, TakeListed, SkipMain, AfterDeletion, Finish,
           CallFails, RequestDeletion, vars
  <1> QED
    BY <1>2, <1>4, <1>5, <1>6, <1>7, <1>8, <1>9, <1>10, <1>11

LEMMA StepMemory ==
    ASSUME ConstantsAssumption, TypeInv, [Next]_vars
    PROVE  TypedMemory'
  <1>1. TypedEc2 /\ TypedMemory
    BY TypeParts
  <1>2. \A result \in Outcomes : End(result) => TypedMemory'
    BY EndType
  <1>3. NextTable => TypedMemory'
    BY <1>1, NextTableType
  <1>4. CASE UNCHANGED <<pc, memory, outcome>>
    BY <1>1, <1>4 DEF TypedMemory, memory, StageInv
  <1>5. CASE List
    <2>1. /\ \/ PlanDeletion
             \/ PlanReconcile
          /\ pc' = "delete" /\ teardown' = deleting /\ seen' = assoc
          /\ outcome' = "none" /\ UNCHANGED <<target, found>>
      BY <1>5 DEF List
    <2>2. live \subseteq Tables /\ AllAssociated \in BOOLEAN /\ deleting \in BOOLEAN
      BY <1>1, TypeParts DEF TypedEc2, TypedBounds, AllAssociated
    <2>3. todo' \subseteq Tables /\ tagging' \subseteq Desired /\ creating' \subseteq Desired
          /\ ready' \in BOOLEAN
      BY <2>1, <2>2 DEF PlanDeletion, PlanReconcile, Plan, Leftovers, Misnamed
    <2> QED
      BY <1>1, <2>1, <2>2, <2>3 DEF TypedEc2, TypedMemory, Stages, Outcomes, StageInv
  <1>6. ASSUME NEW t \in todo, Get(t) \/ TakeListed(t)
        PROVE  TypedMemory'
    <2>1. t \in Tables /\ t # None
      BY <1>1, <1>6, PlacesAndTables DEF TypedMemory
    <2>2. CASE End("error")
      BY <1>2, <2>2 DEF Outcomes
    <2>3. CASE ~End("error")
      <3>1. /\ pc' = "disassociate" /\ target' = t /\ todo' = todo \ {t}
            /\ found' \in {AssociationIds(assoc, t), AssociationIds(seen, t)}
            /\ UNCHANGED <<teardown, seen, tagging, creating, ready, outcome>>
        BY <1>6, <2>3 DEF Get, TakeListed
      <3>2. found' \subseteq [place : Places, edit : 0..MaxEdits]
        BY <1>1, <3>1, AssociationIdsType DEF TypedEc2, TypedMemory
      <3> QED
        BY <1>1, <2>1, <3>1, <3>2 DEF TypedMemory, Stages, StageInv
    <2> QED
      BY <2>2, <2>3
  <1>7. ASSUME NEW a \in found, Disassociate(a)
        PROVE  TypedMemory'
    <2>1. \/ End("error")
          \/ /\ found' = found \ {a}
             /\ UNCHANGED <<pc, teardown, seen, plan, target, outcome>>
      BY <1>7 DEF Disassociate, NotFound
    <2> QED
      BY <1>1, <1>2, <2>1 DEF TypedMemory, plan, StageInv, Outcomes
  <1>8. CASE SkipMain \/ DeleteTable
    <2>1. End("error") \/ NextTable
      BY <1>8 DEF SkipMain, DeleteTable, NotFound
    <2> QED
      BY <1>2, <1>3, <2>1 DEF Outcomes
  <1>9. CASE AfterDeletion
    <2>1. CASE End("deleted")
      BY <1>2, <2>1 DEF Outcomes
    <2>2. CASE pc' = "update" /\ UNCHANGED <<memory, outcome>>
      BY <1>1, <2>2 DEF TypedMemory, memory, Stages, StageInv
    <2> QED
      BY <1>9, <2>1, <2>2 DEF AfterDeletion
  <1>10. ASSUME NEW s \in tagging, UpdateTags(s)
         PROVE  TypedMemory'
    <2>1. CASE End("error")
      BY <1>2, <2>1 DEF Outcomes
    <2>2. CASE /\ tagging' = tagging \ {s}
               /\ UNCHANGED <<pc, teardown, seen, todo, target, found, creating,
                              ready, outcome>>
      BY <1>1, <2>2 DEF TypedMemory, StageInv
    <2> QED
      BY <1>10, <2>1, <2>2 DEF UpdateTags
  <1>11. CASE CreateTable
    <2>1. /\ target' \in Tables /\ target' # None /\ creating # {}
          /\ pc' = "associate"
          /\ UNCHANGED <<teardown, seen, plan, found, outcome>>
      BY <1>11, PlacesAndTables DEF CreateTable
    <2> QED
      BY <1>1, <2>1 DEF TypedMemory, plan, Stages, StageInv
  <1>12. CASE AssociateTable
    <2>1. CASE End("error")
      BY <1>2, <2>1 DEF Outcomes
    <2>2. CASE ~End("error")
      <3>1. PICK state \in {"associating", "associated"} :
              /\ ready' = (ready /\ state = "associated")
              /\ creating' = creating \ {FirstOf(creating)}
              /\ target' = None
              /\ pc' = "update"
              /\ UNCHANGED <<teardown, seen, todo, found, tagging, outcome>>
        BY <1>12, <2>2 DEF AssociateTable
      <3> QED
        BY <1>1, <3>1 DEF TypedMemory, Stages, StageInv
    <2> QED
      BY <2>1, <2>2
  <1>13. CASE Finish \/ CallFails
    <2>1. \E result \in Outcomes : End(result)
      BY <1>13 DEF Finish, CallFails, Outcomes
    <2> QED
      BY <1>2, <2>1
  <1>14. CASE (\E p \in Places : Associates(p)) \/ RequestDeletion \/ UserSteps
                \/ UNCHANGED vars
    BY <1>4, <1>14 DEF Associates, RequestDeletion, UserSteps, UserCreates,
            UserDisassociates, UserAssociates, UserDeletes, Edit, vars
  <1> QED
    BY <1>5, <1>6, <1>7, <1>8, <1>9, <1>10, <1>11, <1>12, <1>13, <1>14
       DEF Next, OperatorSteps

LEMMA InitType ==
    ASSUME ConstantsAssumption, Init
    PROVE  TypeInv
  BY NothingType, PlacesAndTables
     DEF Init, TypeInv, TypeOK, StageInv, Stages, Outcomes

LEMMA StepType ==
    ASSUME ConstantsAssumption, TypeInv, [Next]_vars
    PROVE  TypeInv'
  BY StepEc2, StepMemory, StepBounds DEF TypeInv, TypeOK, TypedEc2, TypedMemory, TypedBounds

\* Every variable keeps its type, and a table is disassociated, deleted or
\* associated only where there is one.
THEOREM TypeCorrect == Spec => []TypeOK
  <1>1. Init => TypeInv
    BY InitType, ConstantsAssumption
  <1>2. TypeInv /\ [Next]_vars => TypeInv'
    BY StepType, ConstantsAssumption
  <1>3. TypeInv => TypeOK
    BY DEF TypeInv
  <1> QED
    BY <1>1, <1>2, <1>3, PTL DEF Spec

-----------------------------------------------------------------------------
(* What the operator takes away.                                           *)

\* What one step does to tables and associations that are there, unless it is
\* an edit by the user: only the table being deleted loses anything, and no
\* table ever loses the operator's tags.
Moves ==
    /\ \A t \in live : t \notin live' => pc = "disassociate" /\ t = target
    /\ \A p \in Places :
        assoc[p].table # None /\ assoc'[p].table # assoc[p].table
            => pc = "disassociate" /\ assoc[p].table = target

LEMMA TagsStay ==
    ASSUME ConstantsAssumption, TypeInv, [Next]_vars
    PROVE  \A t \in Tables : name[t] # Unnamed => name'[t] # Unnamed
  <1>1. name \in [Tables -> Names] /\ TypedMemory
    BY TypeParts DEF TypedEc2
  <1>2. ASSUME NEW s \in tagging, UpdateTags(s)
        PROVE  \A t \in Tables : name[t] # Unnamed => name'[t] # Unnamed
    <2>1. s # Unnamed
      BY <1>1, <1>2, PlacesAndTables DEF TypedMemory
    <2> QED
      BY <1>1, <1>2, <2>1 DEF UpdateTags
  <1>3. CASE CreateTable
    <2>1. FirstOf(creating) # Unnamed
      BY <1>1, <1>3, FirstOfType, PlacesAndTables DEF TypedMemory, CreateTable
    <2> QED
      BY <1>1, <1>3, <2>1 DEF CreateTable
  <1>4. \/ UNCHANGED name
        \/ \E s \in tagging : UpdateTags(s)
        \/ CreateTable
    BY DEF Next, OperatorSteps, List, Get, TakeListed, Disassociate, NotFound, SkipMain,
           DeleteTable, AfterDeletion, AssociateTable, Finish, CallFails, Associates,
           RequestDeletion, UserSteps, UserCreates, UserDisassociates, UserAssociates,
           UserDeletes, ec2Vars, vars
  <1> QED
    BY <1>2, <1>3, <1>4

LEMMA StepMoves ==
    ASSUME ConstantsAssumption, TypeInv, [Next]_vars, edits' = edits
    PROVE  Moves
  <1>1. assoc \in [Places -> Association] /\ TypedMemory
    BY TypeParts DEF TypedEc2
  <1>2. CASE UNCHANGED <<live, assoc>>
    BY <1>2 DEF Moves
  <1>3. ASSUME NEW a \in found, Disassociate(a)
        PROVE  Moves
    <2>1. \/ UNCHANGED <<live, assoc>>
          \/ /\ UNCHANGED live
             /\ assoc[a.place].table = target
             /\ assoc' = [assoc EXCEPT ![a.place] = Disassociated]
      BY <1>3 DEF Disassociate, NotFound, ec2Vars
    <2>2. pc = "disassociate"
      BY <1>3 DEF Disassociate
    <2> QED
      BY <1>1, <2>1, <2>2 DEF Moves
  <1>4. CASE DeleteTable
    <2>1. /\ pc = "disassociate" /\ UNCHANGED assoc
          /\ UNCHANGED live \/ live' = live \ {target}
      BY <1>4 DEF DeleteTable, NotFound, ec2Vars
    <2> QED
      BY <2>1 DEF Moves
  <1>5. CASE CreateTable
    BY <1>5 DEF CreateTable, Moves
  <1>6. CASE AssociateTable
    <2>1. /\ UNCHANGED live
          /\ \/ UNCHANGED assoc
             \/ \E a \in [table : {target}, state : {"associating", "associated"}, edit : {0}] :
                    /\ assoc[FirstOf(creating)].table = None
                    /\ assoc' = [assoc EXCEPT ![FirstOf(creating)] = a]
      BY <1>6 DEF AssociateTable
    <2> QED
      BY <1>1, <2>1 DEF Moves
  <1>7. ASSUME NEW p \in Places, Associates(p)
        PROVE  Moves
    <2>1. /\ UNCHANGED live
          /\ assoc' = [assoc EXCEPT ![p].state = "associated"]
      BY <1>7 DEF Associates
    <2>2. \A q \in Places : assoc'[q].table = assoc[q].table
      BY <1>1, <2>1 DEF Association
    <2> QED
      BY <2>1, <2>2 DEF Moves
  <1>8. ~UserSteps
    BY TypeParts DEF TypedBounds, UserSteps, UserCreates, UserDisassociates,
                     UserAssociates, UserDeletes, Edit
  <1>9. \/ UNCHANGED <<live, assoc>>
        \/ \E a \in found : Disassociate(a)
        \/ DeleteTable \/ CreateTable \/ AssociateTable
        \/ \E p \in Places : Associates(p)
    BY <1>8 DEF Next, OperatorSteps, List, Get, TakeListed, SkipMain, AfterDeletion,
           UpdateTags, Finish, CallFails, RequestDeletion, ec2Vars, vars
  <1> QED
    BY <1>2, <1>3, <1>4, <1>5, <1>6, <1>7, <1>9

LEMMA InitPlan ==
    ASSUME ConstantsAssumption, Init
    PROVE  PlanInv
  BY DEF Init, PlanInv

LEMMA StepPlan ==
    ASSUME ConstantsAssumption, TypeInv, PlanInv, [Next]_vars
    PROVE  PlanInv'
  <1>1. /\ live \subseteq Tables /\ todo \subseteq Tables /\ TypedMemory
        /\ pc = "disassociate" => target \in Tables
    BY TypeParts DEF TypedEc2, TypedMemory, StageInv
  <1>2. deleting => deleting'
    BY DEF Next, OperatorSteps, List, Get, TakeListed, Disassociate, SkipMain,
           DeleteTable, AfterDeletion, UpdateTags, CreateTable, AssociateTable, Finish,
           CallFails, Associates, RequestDeletion, UserSteps, UserCreates,
           UserDisassociates, UserAssociates, UserDeletes, Edit, vars
  <1>3. \A t \in Tables : seen' = seen /\ Leftover(t) => Leftover(t)'
    BY TagsStay DEF Leftover
  <1>4. ASSUME NEW result, End(result)
        PROVE  PlanInv'
    BY <1>4 DEF End, PlanInv
  <1>5. CASE /\ UNCHANGED <<teardown, seen>>
             /\ todo' \subseteq todo
             /\ pc' = "disassociate" =>
                    \/ pc = "disassociate" /\ target' = target
                    \/ target' \in todo
    <2>1. teardown' => deleting'
      BY <1>2, <1>5 DEF PlanInv
    <2>2. ASSUME ~teardown'
          PROVE  /\ \A t \in todo' : Leftover(t)'
                 /\ pc' = "disassociate" => Leftover(target)'
      <3>1. ~teardown
        BY <1>5, <2>2
      <3>2. \A t \in todo' : t \in Tables /\ Leftover(t)
        BY <1>1, <1>5, <3>1 DEF PlanInv
      <3>3. pc' = "disassociate" => target' \in Tables /\ Leftover(target')
        BY <1>1, <1>5, <3>1 DEF PlanInv
      <3>4. \A t \in Tables :
                Leftover(t) => name'[t] # Unnamed /\ \A s \in Subnets : seen'[s].table # t
        BY <1>5, TagsStay DEF Leftover
      <3> QED
        BY <3>2, <3>3, <3>4 DEF Leftover
    <2> QED
      BY <2>1, <2>2 DEF PlanInv
  <1>6. CASE List
    <2>1. CASE deleting
      BY <1>6, <2>1 DEF List, PlanInv
    <2>2. CASE ~deleting
      <3>1. /\ teardown' = FALSE /\ seen' = assoc /\ pc' = "delete"
            /\ todo' = Leftovers /\ UNCHANGED name
        BY <1>6, <2>2 DEF List, PlanReconcile, Plan, ec2Vars
      <3>2. \A t \in todo' : Leftover(t)'
        BY <3>1 DEF Leftovers, Leftover, WithoutSubnet, AssociatedPlaces, Subnets, Places
      <3> QED
        BY <3>1, <3>2 DEF PlanInv
    <2> QED
      BY <2>1, <2>2
  <1>7. \/ List
        \/ \E result \in Outcomes : End(result)
        \/ /\ UNCHANGED <<teardown, seen>>
           /\ todo' \subseteq todo
           /\ pc' = "disassociate" =>
                    \/ pc = "disassociate" /\ target' = target
                    \/ target' \in todo
    <2>. DEFINE Goes == /\ UNCHANGED <<teardown, seen>>
                        /\ todo' \subseteq todo
                        /\ pc' = "disassociate" =>
                                \/ pc = "disassociate" /\ target' = target
                                \/ target' \in todo
                Ends == \E result \in Outcomes : End(result)
    <2>1. \A result \in {"error", "deleted", "ready", "notReady"} : End(result) => Ends
      BY DEF Outcomes
    <2>2. ASSUME NEW t \in todo, Get(t) \/ TakeListed(t)
          PROVE  Goes \/ Ends
      BY <2>1, <2>2 DEF Get, TakeListed
    <2>3. ASSUME NEW a \in found, Disassociate(a)
          PROVE  Goes \/ Ends
      BY <2>1, <2>3 DEF Disassociate, NotFound, plan
    <2>4. CASE SkipMain \/ DeleteTable
      BY <2>1, <2>4 DEF SkipMain, DeleteTable, NotFound, NextTable, plan
    <2>5. CASE AfterDeletion
      BY <2>1, <2>5 DEF AfterDeletion, memory
    <2>6. ASSUME NEW s \in tagging, UpdateTags(s)
          PROVE  Goes \/ Ends
      BY <2>1, <2>6 DEF UpdateTags
    <2>7. CASE CreateTable \/ AssociateTable
      BY <2>1, <2>7 DEF CreateTable, AssociateTable, plan
    <2>8. CASE Finish \/ CallFails
      BY <2>1, <2>8 DEF Finish, CallFails
    <2>9. CASE (\E p \in Places : Associates(p)) \/ RequestDeletion \/ UserSteps
                  \/ UNCHANGED vars
      BY <2>9 DEF Associates, RequestDeletion, UserSteps, UserCreates, UserDisassociates,
              UserAssociates, UserDeletes, Edit, memory, vars
    <2> QED
      BY <2>2, <2>3, <2>4, <2>5, <2>6, <2>7, <2>8, <2>9 DEF Next, OperatorSteps
  <1> QED
    BY <1>4, <1>5, <1>6, <1>7

\* A table without the operator's tags, and its associations, are left alone
\* by a cluster that is not being deleted: what is deleted was listed as a
\* leftover, and a tag once read is still there.
THEOREM UntaggedTablesAreKept == Spec => UntaggedTablesKept
  <1>. DEFINE Keeps ==
            ~deleting /\ edits' = edits =>
                /\ \A t \in live : name[t] = Unnamed => t \in live'
                /\ \A p \in Places :
                    assoc[p].table # None /\ name[assoc[p].table] = Unnamed
                        => assoc'[p].table = assoc[p].table
  <1>1. Init => TypeInv /\ PlanInv
    BY InitType, InitPlan, ConstantsAssumption
  <1>2. TypeInv /\ PlanInv /\ [Next]_vars => (TypeInv /\ PlanInv)'
    BY StepType, StepPlan, ConstantsAssumption
  <1>3. TypeInv /\ PlanInv /\ [Next]_vars => [Keeps]_vars
    <2>1. ASSUME TypeInv, PlanInv, [Next]_vars, ~deleting, edits' = edits
          PROVE  Keeps
      <3>1. Moves
        BY <2>1, StepMoves, ConstantsAssumption
      <3>2. pc = "disassociate" => name[target] # Unnamed
        BY <2>1 DEF PlanInv, Leftover
      <3> QED
        BY <3>1, <3>2 DEF Moves
    <2> QED
      BY <2>1
  <1> QED
    BY <1>1, <1>2, <1>3, PTL DEF Spec, UntaggedTablesKept

\* An association that a reconcile has listed is not one it removes: a table
\* it deletes had none with a subnet when it was listed.
THEOREM SeenAssociationsAreKept == Spec => SeenAssociationsKept
  <1>. DEFINE Keeps ==
            pc # "idle" /\ ~teardown /\ edits' = edits =>
                \A s \in Subnets :
                    assoc[s].table # None /\ assoc[s].edit = seen[s].edit
                      /\ assoc[s].table = seen[s].table
                        => assoc'[s].table = assoc[s].table
  <1>1. Init => TypeInv /\ PlanInv
    BY InitType, InitPlan, ConstantsAssumption
  <1>2. TypeInv /\ PlanInv /\ [Next]_vars => (TypeInv /\ PlanInv)'
    BY StepType, StepPlan, ConstantsAssumption
  <1>3. TypeInv /\ PlanInv /\ [Next]_vars => [Keeps]_vars
    <2>1. ASSUME TypeInv, PlanInv, [Next]_vars, ~teardown, edits' = edits
          PROVE  Keeps
      <3>1. Moves /\ Subnets \subseteq Places
        BY <2>1, StepMoves, PlacesAndTables, ConstantsAssumption
      <3>2. pc = "disassociate" => \A s \in Subnets : seen[s].table # target
        BY <2>1 DEF PlanInv, Leftover
      <3> QED
        BY <3>1, <3>2 DEF Moves
    <2> QED
      BY <2>1
  <1> QED
    BY <1>1, <1>2, <1>3, PTL DEF Spec, SeenAssociationsKept

-----------------------------------------------------------------------------
(* What stays, once it is so: the half of the liveness properties that is  *)
(* about "for ever".  The user's edits are over; reconciles, failed calls  *)
(* and crashes go on.                                                      *)

LEMMA DeletionStays == ASSUME deleting, [Next]_vars PROVE deleting'
  BY DEF Next, OperatorSteps, List, Get, TakeListed, Disassociate, SkipMain,
         DeleteTable, AfterDeletion, UpdateTags, CreateTable, AssociateTable, Finish,
         CallFails, Associates, RequestDeletion, UserSteps, UserCreates,
         UserDisassociates, UserAssociates, UserDeletes, Edit, vars

\* When edits are over, none is made.
LEMMA NoMoreEdits ==
    ASSUME ConstantsAssumption, TypeInv, edits = MaxEdits, [Next]_vars
    PROVE  /\ edits' = MaxEdits
           /\ \/ OperatorSteps \/ CallFails \/ RequestDeletion
              \/ \E p \in Places : Associates(p)
              \/ UNCHANGED vars
  <1>1. ~UserSteps
    BY DEF ConstantsAssumption, UserSteps, UserCreates, UserDisassociates,
           UserAssociates, UserDeletes, Edit
  <1>2. ~UserSteps => edits' = edits
    BY DEF Next, OperatorSteps, List, Get, TakeListed, Disassociate, SkipMain,
           DeleteTable, AfterDeletion, UpdateTags, CreateTable, AssociateTable, Finish,
           CallFails, Associates, RequestDeletion, vars
  <1> QED
    BY <1>1, <1>2 DEF Next

\* Every subnet of the cluster is served, and no table is left over.
Served ==
    /\ \A s \in Desired : assoc[s].table # None /\ assoc[s].state = "associated"
    /\ \A t \in live \ {Main} : name[t] # Unnamed => ~WithoutSubnet(t)

\* The running reconcile has nothing to create, and nothing to delete but a
\* main table that carries tags without having a subnet, which it will skip
\* after it has taken a gateway from it.
HarmlessPlan ==
    /\ ~teardown
    /\ todo \subseteq {Main}
    /\ Main \in todo => WithoutSubnet(Main)
    /\ pc = "disassociate" => target = Main /\ \A a \in found : a.place = Gateway
    /\ creating = {}
    /\ \A s \in Desired : seen[s].table = assoc[s].table

ServedInv ==
    deleting \/ (edits = MaxEdits /\ Served /\ (pc # "idle" => HarmlessPlan))

\* Steps that move no association of a subnet to another table.
LEMMA PlacesKept ==
    ASSUME ConstantsAssumption, Served, live' \subseteq live, UNCHANGED name,
           \A s \in Subnets : /\ assoc'[s].table = assoc[s].table
                              /\ assoc[s].state = "associated" => assoc'[s].state = "associated"
    PROVE  Served' /\ \A t : WithoutSubnet(t)' = WithoutSubnet(t)
  <1>1. Desired \subseteq Subnets /\ Subnets \subseteq Places
    BY PlacesAndTables
  <1>2. \A t : WithoutSubnet(t) <=> \A s \in Subnets : assoc[s].table # t
    BY <1>1 DEF WithoutSubnet, AssociatedPlaces
  <1>3. \A t : WithoutSubnet(t)' <=> \A s \in Subnets : assoc'[s].table # t
    BY <1>1 DEF WithoutSubnet, AssociatedPlaces
  <1>4. \A t : WithoutSubnet(t)' = WithoutSubnet(t)
    BY <1>2, <1>3
  <1> QED
    BY <1>1, <1>4 DEF Served

LEMMA StepServed ==
    ASSUME ConstantsAssumption, TypeInv, ServedInv, [Next]_vars
    PROVE  ServedInv'
  <1>1. CASE deleting \/ deleting'
    BY <1>1, DeletionStays DEF ServedInv
  <1>2. CASE ~deleting /\ ~deleting'
    <2>1. /\ edits' = MaxEdits
          /\ \/ OperatorSteps \/ CallFails
             \/ \E p \in Places : Associates(p)
             \/ UNCHANGED vars
      BY <1>2, NoMoreEdits DEF ServedInv, RequestDeletion
    <2>2. Served /\ (pc # "idle" => HarmlessPlan)
      BY <1>2 DEF ServedInv
    <2>3. TypedEc2 /\ TypedMemory
      BY TypeParts
    <2>4. /\ Desired \subseteq Subnets /\ Subnets \subseteq Places
          /\ Gateway \notin Subnets /\ Gateway # Foreign
      BY PlacesAndTables DEF ConstantsAssumption, Gateway, Foreign, Subnets, Desired
    <2>5. SUFFICES Served' /\ (pc' # "idle" => HarmlessPlan')
      BY <1>2, <2>1 DEF ServedInv
    <2>6. CASE UNCHANGED <<ec2Vars, pc, memory>>
      BY <2>2, <2>6 DEF ec2Vars, memory, Served, HarmlessPlan, WithoutSubnet, AssociatedPlaces
    <2>7. CASE UNCHANGED ec2Vars /\ pc' = "idle"
      BY <2>2, <2>7, PlacesKept DEF ec2Vars
    <2>8. CASE List
      <3>1. /\ pc' = "delete" /\ ~teardown' /\ seen' = assoc
            /\ todo' = Leftovers
            /\ creating' = {s \in Desired : assoc[s].table = None}
            /\ UNCHANGED <<ec2Vars, found>>
        BY <1>2, <2>8 DEF List, PlanReconcile, Plan
      <3>2. Leftovers \subseteq {Main} /\ (Main \in Leftovers => WithoutSubnet(Main))
        BY <2>2 DEF Leftovers, Served
      <3>3. creating' = {}
        BY <2>2, <3>1 DEF Served
      <3>4. Served' /\ \A t : WithoutSubnet(t)' = WithoutSubnet(t)
        BY <2>2, <3>1, PlacesKept DEF ec2Vars
      <3> QED
        BY <3>1, <3>2, <3>3, <3>4 DEF HarmlessPlan, ec2Vars
    <2>9. ASSUME NEW t \in todo, Get(t)
          PROVE  Served' /\ (pc' # "idle" => HarmlessPlan')
      <3>1. CASE End("error")
        BY <2>7, <2>9, <3>1 DEF Get, End
      <3>2. CASE ~End("error")
        <4>1. HarmlessPlan /\ t = Main /\ WithoutSubnet(Main)
          BY <2>2, <2>9 DEF Get, HarmlessPlan
        <4>2. /\ pc' = "disassociate" /\ target' = Main
              /\ found' = AssociationIds(assoc, Main)
              /\ todo' = {}
              /\ UNCHANGED <<ec2Vars, teardown, seen, creating>>
          BY <2>9, <3>2, <4>1 DEF Get, HarmlessPlan
        <4>3. \A a \in found' : a.place = Gateway
          <5>1. \A p \in Places : assoc[p].table = Main => p = Gateway
            BY <4>1 DEF WithoutSubnet, AssociatedPlaces, Places
          <5> QED
            BY <4>2, <5>1 DEF AssociationIds
        <4>4. Served'
          BY <2>2, <4>2, PlacesKept DEF ec2Vars
        <4> QED
          BY <4>1, <4>2, <4>3, <4>4 DEF HarmlessPlan, ec2Vars
      <3> QED
        BY <3>1, <3>2
    <2>10. ASSUME NEW a \in found, Disassociate(a)
           PROVE  Served' /\ (pc' # "idle" => HarmlessPlan')
      <3>1. HarmlessPlan /\ pc = "disassociate" /\ a.place = Gateway
        BY <2>2, <2>10 DEF Disassociate, HarmlessPlan
      <3>2. CASE End("error")
        <4>1. UNCHANGED ec2Vars
          BY <2>10, <3>1, <3>2 DEF Disassociate, NotFound, End
        <4> QED
          BY <2>7, <3>2, <4>1 DEF End
      <3>3. CASE ~End("error")
        <4>1. /\ found' = found \ {a}
              /\ UNCHANGED <<live, name, pc, teardown, seen, todo, creating, target>>
              /\ UNCHANGED assoc \/ assoc' = [assoc EXCEPT ![Gateway] = Disassociated]
          BY <2>10, <3>1, <3>3 DEF Disassociate, NotFound, plan, ec2Vars
        <4>2. \A s \in Subnets : assoc'[s] = assoc[s]
          BY <2>4, <4>1, <2>3 DEF TypedEc2
        <4>3. Served' /\ \A t : WithoutSubnet(t)' = WithoutSubnet(t)
          BY <2>2, <4>1, <4>2, PlacesKept
        <4> QED
          BY <2>4, <3>1, <4>1, <4>2, <4>3 DEF HarmlessPlan
      <3> QED
        BY <3>2, <3>3
    <2>11. CASE SkipMain \/ DeleteTable
      <3>1. HarmlessPlan /\ pc = "disassociate" /\ SkipMain
        BY <2>2, <2>11 DEF SkipMain, DeleteTable, HarmlessPlan
      <3>2. /\ pc' = "delete"
            /\ UNCHANGED <<ec2Vars, teardown, seen, todo, creating>>
        BY <3>1 DEF SkipMain, NextTable, plan
      <3>3. Served' /\ \A t : WithoutSubnet(t)' = WithoutSubnet(t)
        BY <2>2, <3>2, PlacesKept DEF ec2Vars
      <3> QED
        BY <3>1, <3>2, <3>3 DEF HarmlessPlan, ec2Vars
    <2>12. CASE AfterDeletion
      <3>1. HarmlessPlan
        BY <2>2, <2>12 DEF AfterDeletion
      <3>2. /\ pc' = "update" /\ UNCHANGED <<ec2Vars, memory>>
        BY <2>12, <3>1 DEF AfterDeletion, HarmlessPlan
      <3>3. Served' /\ \A t : WithoutSubnet(t)' = WithoutSubnet(t)
        BY <2>2, <3>2, PlacesKept DEF ec2Vars
      <3> QED
        BY <3>1, <3>2, <3>3 DEF HarmlessPlan, memory, ec2Vars
    <2>13. ASSUME NEW s \in tagging, UpdateTags(s)
           PROVE  Served' /\ (pc' # "idle" => HarmlessPlan')
      <3>1. HarmlessPlan /\ s \in Desired
        BY <2>2, <2>3, <2>13 DEF UpdateTags, TypedMemory
      <3>2. /\ UNCHANGED <<live, assoc>>
            /\ \A t \in Tables : t # assoc[s].table => name'[t] = name[t]
        BY <2>3, <2>13, <3>1 DEF UpdateTags, HarmlessPlan, TypedEc2
      <3>3. \A t : WithoutSubnet(t)' = WithoutSubnet(t)
        BY <3>2 DEF WithoutSubnet, AssociatedPlaces
      <3>4. ~WithoutSubnet(assoc[s].table)
        BY <2>4, <3>1 DEF WithoutSubnet, AssociatedPlaces
      <3>5. Served'
        BY <2>2, <2>3, <3>2, <3>3, <3>4 DEF Served, TypedEc2
      <3>6. CASE End("error")
        BY <3>5, <3>6 DEF End
      <3>7. CASE ~End("error")
        <4>1. UNCHANGED <<pc, teardown, seen, todo, creating>> /\ pc = "update"
          BY <2>13, <3>7 DEF UpdateTags
        <4> QED
          BY <3>1, <3>2, <3>3, <3>5, <4>1 DEF HarmlessPlan
      <3> QED
        BY <3>6, <3>7
    <2>14. CASE Finish \/ CallFails
      BY <2>7, <2>14 DEF Finish, CallFails, End
    <2>15. ASSUME NEW p \in Places, Associates(p)
           PROVE  Served' /\ (pc' # "idle" => HarmlessPlan')
      <3>1. /\ assoc' = [assoc EXCEPT ![p].state = "associated"]
            /\ UNCHANGED <<live, name, pc, memory>>
        BY <2>15 DEF Associates
      <3>2. \A s \in Subnets :
                /\ assoc'[s].table = assoc[s].table
                /\ assoc[s].state = "associated" => assoc'[s].state = "associated"
        BY <2>3, <2>4, <3>1 DEF TypedEc2, Association
      <3>3. Served' /\ \A t : WithoutSubnet(t)' = WithoutSubnet(t)
        BY <2>2, <3>1, <3>2, PlacesKept
      <3> QED
        BY <2>2, <2>4, <3>1, <3>2, <3>3 DEF HarmlessPlan, memory
    <2>16. CASE UNCHANGED vars
      BY <2>6, <2>16 DEF vars
    <2>17. ~CreateTable /\ ~AssociateTable /\ \A t \in todo : ~TakeListed(t)
      BY <2>2, <2>3
         DEF CreateTable, AssociateTable, TakeListed, HarmlessPlan, TypedMemory, StageInv
    <2> QED
      BY <2>1, <2>8, <2>9, <2>10, <2>11, <2>12, <2>13, <2>14, <2>15, <2>16, <2>17
         DEF OperatorSteps
  <1> QED
    BY <1>1, <1>2

\* Tables that serve the subnets go on to, and no new one is left over: from a
\* state between two reconciles in which every subnet has an associated table
\* and no table of the operator is without a subnet, reconciles that run to the
\* end, fail or die change neither. (The half of TablesSettle that does not
\* need fairness.)
THEOREM SettledTablesStay ==
    Spec => [](pc = "idle" /\ edits = MaxEdits /\ Served => [](deleting \/ Served))
  <1>. DEFINE Rests == pc = "idle" /\ edits = MaxEdits /\ Served
              Serves == deleting \/ Served
  <1>1. Init => TypeInv
    BY InitType, ConstantsAssumption
  <1>2. TypeInv /\ [Next]_vars => TypeInv'
    BY StepType, ConstantsAssumption
  <1>3. TypeInv /\ ServedInv /\ [Next]_vars => ServedInv'
    BY StepServed, ConstantsAssumption
  <1>4. (Rests => ServedInv) /\ (ServedInv => Serves)
    BY DEF ServedInv
  <1>. HIDE DEF Rests, Serves
  <1>5. Spec => [](Rests => []Serves)
    BY <1>1, <1>2, <1>3, <1>4, PTL DEF Spec
  <1> QED
    BY <1>5 DEF Rests, Serves

\* A VPC with nothing but its main table, in which only DeleteAll runs.
EmptiedInv ==
    /\ deleting /\ edits = MaxEdits /\ live = {Main}
    /\ pc \in {"idle", "delete", "disassociate"}
    /\ pc # "idle" => teardown

LEMMA StepEmptied ==
    ASSUME ConstantsAssumption, TypeInv, EmptiedInv, [Next]_vars
    PROVE  EmptiedInv'
  <1>1. /\ deleting' /\ edits' = MaxEdits
        /\ \/ OperatorSteps \/ CallFails \/ RequestDeletion
           \/ \E p \in Places : Associates(p)
           \/ UNCHANGED vars
    BY NoMoreEdits, DeletionStays DEF EmptiedInv
  <1>2. CASE List
    BY <1>1, <1>2 DEF List, ec2Vars, EmptiedInv
  <1>3. ASSUME NEW t \in todo, Get(t) \/ TakeListed(t)
        PROVE  EmptiedInv'
    BY <1>1, <1>3 DEF Get, TakeListed, ec2Vars, EmptiedInv
  <1>4. ASSUME NEW a \in found, Disassociate(a)
        PROVE  EmptiedInv'
    BY <1>1, <1>4 DEF Disassociate, NotFound, End, ec2Vars, EmptiedInv
  <1>5. CASE SkipMain
    BY <1>1, <1>5 DEF SkipMain, NextTable, ec2Vars, EmptiedInv
  <1>6. CASE DeleteTable
    BY <1>1, <1>6 DEF DeleteTable, NotFound, NextTable, End, ec2Vars, EmptiedInv
  <1>7. CASE AfterDeletion \/ CallFails
    BY <1>1, <1>7 DEF AfterDeletion, CallFails, End, ec2Vars, EmptiedInv
  <1>8. CASE RequestDeletion \/ (\E p \in Places : Associates(p)) \/ UNCHANGED vars
    BY <1>1, <1>8 DEF RequestDeletion, Associates, ec2Vars, memory, vars, EmptiedInv
  <1>9. ~CreateTable /\ ~AssociateTable /\ ~Finish /\ \A s \in tagging : ~UpdateTags(s)
    BY DEF CreateTable, AssociateTable, Finish, UpdateTags, EmptiedInv
  <1> QED
    BY <1>1, <1>2, <1>3, <1>4, <1>5, <1>6, <1>7, <1>8, <1>9 DEF OperatorSteps

\* A VPC that DeleteAll has emptied stays empty: once the cluster is being
\* deleted and only the main table is left between two reconciles, the operator
\* neither makes a table again nor deletes the main one. (The half of TablesGo
\* that does not need fairness.)
THEOREM EmptiedVpcStaysEmpty ==
    Spec => [](deleting /\ pc = "idle" /\ edits = MaxEdits /\ live = {Main}
               => [](live = {Main}))
  <1>. DEFINE Emptied == deleting /\ pc = "idle" /\ edits = MaxEdits /\ live = {Main}
              Empty == live = {Main}
  <1>1. Init => TypeInv
    BY InitType, ConstantsAssumption
  <1>2. TypeInv /\ [Next]_vars => TypeInv'
    BY StepType, ConstantsAssumption
  <1>3. TypeInv /\ EmptiedInv /\ [Next]_vars => EmptiedInv'
    BY StepEmptied, ConstantsAssumption
  <1>4. (Emptied => EmptiedInv) /\ (EmptiedInv => Empty)
    BY DEF EmptiedInv
  <1>. HIDE DEF Emptied, Empty
  <1>5. Spec => [](Emptied => []Empty)
    BY <1>1, <1>2, <1>3, <1>4, PTL DEF Spec
  <1> QED
    BY <1>5 DEF Emptied, Empty
=============================================================================
