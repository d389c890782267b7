-------------------------- MODULE VpcEndpoint_proofs --------------------------
(***************************************************************************)
(* Proofs about VpcEndpoint for every set of route tables and any number   *)
(* of edits and faults.                                                    *)
(***************************************************************************)
EXTENDS VpcEndpoint, TLAPS

\* Until somebody edits the VPC the endpoint serves every table of it, and a
\* reconcile works on the tables as they are.
UneditedInv ==
    edits = 0 =>
        /\ endpoint # "none" => served = tables
        /\ pc \in {"get", "create"} => wanted = tables
        /\ pc # "modify"

IInv == TypeOK /\ UneditedInv

-----------------------------------------------------------------------------
(* Types.                                                                  *)

LEMMA InitType == ASSUME ConstantsAssumption, Init PROVE TypeOK
  <1>1. 0 \in 0..MaxEdits /\ 0 \in 0..MaxFaults
    BY DEF ConstantsAssumption
  <1>2. tables \subseteq Tables /\ Main \in tables
    BY DEF Init
  <1> QED
    BY <1>1, <1>2 DEF Init, TypeOK, EndpointStates, Stages, Outcomes, Misses

\* What is left of a reconcile that has ended keeps its type.
LEMMA EndType ==
    ASSUME NEW result \in Outcomes, End(result)
    PROVE  /\ pc' \in Stages /\ outcome' \in Outcomes
           /\ wanted' \subseteq Tables /\ current' \subseteq Tables
           /\ seen' \in EndpointStates
  BY DEF End, Stages, EndpointStates

\* The operator's requests.
LEMMA OperatorType ==
    ASSUME ConstantsAssumption, TypeOK, OperatorSteps
    PROVE  TypeOK'
  <1>. USE DEF TypeOK, EndpointStates, Stages, Outcomes, Misses
  <1>1. CASE ListTables
    BY <1>1 DEF ListTables, ec2Vars
  <1>2. CASE Get
    <2>1. CASE endpoint = "none"
      BY <1>2, <2>1 DEF Get, ec2Vars
    <2>2. CASE endpoint # "none"
      BY <1>2, <2>2 DEF Get, ec2Vars
    <2> QED
      BY <2>1, <2>2
  <1>3. CASE Create
    BY <1>3 DEF Create, End, Ready
  <1>4. CASE Modify
    <2>1. CASE pc' = "tag"
      BY <1>4, <2>1 DEF Modify, End, memory
    <2>2. CASE pc' # "tag"
      BY <1>4, <2>2 DEF Modify, End
    <2> QED
      BY <2>1, <2>2
  <1>5. CASE UpdateTags
    BY <1>5 DEF UpdateTags, End, Ready, ec2Vars
  <1>6. CASE GetForDeletion
    BY <1>6 DEF GetForDeletion, End, memory, ec2Vars
  <1>7. CASE Delete
    BY <1>7 DEF Delete, End, ConstantsAssumption
  <1> QED
    BY <1>1, <1>2, <1>3, <1>4, <1>5, <1>6, <1>7 DEF OperatorSteps

\* The steps of the others.
LEMMA EnvironmentType ==
    ASSUME ConstantsAssumption, TypeOK,
           CallFails \/ EndpointSettles \/ RequestDeletion \/ UserSteps \/ UNCHANGED vars
    PROVE  TypeOK'
  <1>. USE DEF TypeOK, EndpointStates, Stages, Outcomes, Misses
  <1>1. CASE CallFails
    BY <1>1 DEF CallFails, End, ec2Vars, ConstantsAssumption
  <1>2. CASE EndpointSettles
    BY <1>2 DEF EndpointSettles, memory
  <1>3. CASE RequestDeletion
    BY <1>3 DEF RequestDeletion, ec2Vars, memory
  <1>4. CASE UserSteps
    <2>1. /\ UNCHANGED <<deleting, pc, memory, outcome, faults>>
          /\ edits' \in 0..MaxEdits
      BY <1>4 DEF UserSteps, TableCreated, TableDeleted, UserCreatesEndpoint,
             UserModifiesEndpoint, UserDeletesEndpoint, Edit, ConstantsAssumption
    <2>2. /\ tables' \subseteq Tables /\ Main \in tables'
          /\ endpoint' \in EndpointStates /\ served' \subseteq tables'
          /\ missed' \in Misses
      BY <1>4 DEF UserSteps, TableCreated, TableDeleted, UserCreatesEndpoint,
             UserModifiesEndpoint, UserDeletesEndpoint
    <2> QED
      BY <2>1, <2>2 DEF memory
  <1>5. CASE UNCHANGED vars
    BY <1>5 DEF vars, ec2Vars, memory
  <1> QED
    BY <1>1, <1>2, <1>3, <1>4, <1>5

LEMMA StepType ==
    ASSUME ConstantsAssumption, TypeOK, [Next]_vars
    PROVE  TypeOK'
  BY OperatorType, EnvironmentType DEF Next, Finished

\* Every variable keeps its type; what the endpoint serves are route tables of
\* the VPC, since EC2 takes no other into it and takes a deleted one out.
THEOREM TypeCorrect == Spec => []TypeOK
  <1>1. Init => TypeOK
    BY InitType, ConstantsAssumption
  <1>2. TypeOK /\ [Next]_vars => TypeOK'
    BY StepType, ConstantsAssumption
  <1> QED
    BY <1>1, <1>2, PTL DEF Spec

-----------------------------------------------------------------------------
(* No request without a reason.                                            *)

\* The empty strings that cloneAndSort puts before a list are the same on both
\* sides of the difference of a list with itself.
LEMMA NoDifference ==
    ASSUME wanted = served
    PROVE  ToBeAdded(served) \cup ToBeRemoved(served) = {}
  BY DEF ToBeAdded, ToBeRemoved

LEMMA EditsStay ==
    ASSUME TypeOK, [Next]_vars, edits' = 0
    PROVE  edits = 0 /\ ~UserSteps
  <1>1. edits \in Nat
    BY DEF TypeOK
  <1>2. ~UserSteps
    BY <1>1 DEF UserSteps, TableCreated, TableDeleted, UserCreatesEndpoint,
           UserModifiesEndpoint, UserDeletesEndpoint, Edit
  <1>3. ~UserSteps => edits' = edits
    BY DEF Next, OperatorSteps, ListTables, Get, Create, Modify, UpdateTags,
           GetForDeletion, Delete, CallFails, EndpointSettles, RequestDeletion, Finished, vars
  <1> QED
    BY <1>2, <1>3

LEMMA StepUnedited ==
    ASSUME TypeOK, UneditedInv, [Next]_vars
    PROVE  UneditedInv'
  <1>. SUFFICES ASSUME edits' = 0
                PROVE  /\ endpoint' # "none" => served' = tables'
                       /\ pc' \in {"get", "create"} => wanted' = tables'
                       /\ pc' # "modify"
    BY DEF UneditedInv
  <1>1. /\ edits = 0 /\ ~UserSteps
        /\ endpoint # "none" => served = tables
        /\ pc \in {"get", "create"} => wanted = tables
        /\ pc # "modify"
    BY EditsStay DEF UneditedInv
  <1>2. CASE ListTables
    BY <1>1, <1>2 DEF ListTables, ec2Vars
  <1>3. CASE Get
    <2>1. CASE endpoint = "none"
      BY <1>1, <1>3, <2>1 DEF Get, ec2Vars
    <2>2. CASE endpoint # "none"
      <3>1. wanted = served
        BY <1>1, <1>3, <2>2 DEF Get
      <3>2. pc' = "tag" /\ UNCHANGED <<tables, endpoint, served>>
        BY <1>3, <2>2, <3>1, NoDifference DEF Get, ec2Vars
      <3> QED
        BY <1>1, <3>2
    <2> QED
      BY <2>1, <2>2
  <1>4. CASE Create
    BY <1>1, <1>4 DEF Create, End
  <1>5. CASE UpdateTags \/ GetForDeletion \/ Delete
    BY <1>1, <1>5 DEF UpdateTags, GetForDeletion, Delete, End, ec2Vars
  <1>6. CASE CallFails \/ EndpointSettles \/ RequestDeletion
    BY <1>1, <1>6 DEF CallFails, EndpointSettles, RequestDeletion, End, ec2Vars, memory
  <1>7. CASE UNCHANGED vars
    BY <1>1, <1>7 DEF vars, ec2Vars, memory
  <1>8. ~Modify
    BY <1>1 DEF Modify
  <1> QED
    BY <1>1, <1>2, <1>3, <1>4, <1>5, <1>6, <1>7, <1>8 DEF Next, OperatorSteps, Finished

\* The operator sends no ModifyVpcEndpoint for an endpoint of its own that
\* nobody edited: Reconcile's difference of what it wants and what it finds is
\* empty, however reconciles fail, the endpoint settles and is deleted.
THEOREM ModifiesOnlyAfterEdits == Spec => []NoNeedlessModify
  <1>1. Init => IInv
    BY InitType, ConstantsAssumption DEF IInv, UneditedInv, Init
  <1>2. IInv /\ [Next]_vars => IInv'
    BY StepType, StepUnedited, ConstantsAssumption DEF IInv
  <1>3. IInv => NoNeedlessModify
    BY DEF IInv, UneditedInv, NoNeedlessModify, TypeOK
  <1> QED
    BY <1>1, <1>2, <1>3, PTL DEF Spec

-----------------------------------------------------------------------------
(* What stays, once it is so: the half of the liveness properties that is  *)
(* about "for ever". The user's edits are over; reconciles and failures go *)
(* on.                                                                     *)

\* When edits are over, none is made.
LEMMA NoMoreEdits ==
    ASSUME TypeOK, edits = MaxEdits, [Next]_vars
    PROVE  /\ edits' = MaxEdits
           /\ \/ OperatorSteps \/ CallFails \/ EndpointSettles
              \/ RequestDeletion \/ UNCHANGED vars
  <1>1. ~UserSteps
    BY ConstantsAssumption
       DEF TypeOK, UserSteps, TableCreated, TableDeleted, UserCreatesEndpoint,
           UserModifiesEndpoint, UserDeletesEndpoint, Edit
  <1>2. ~UserSteps => edits' = edits
    BY DEF Next, OperatorSteps, ListTables, Get, Create, Modify, UpdateTags,
           GetForDeletion, Delete, CallFails, EndpointSettles, RequestDeletion, Finished, vars
  <1> QED
    BY <1>1, <1>2 DEF Next, Finished

\* The endpoint serves every table, and the running reconcile has not seen
\* anything else.
CoveredInv ==
    deleting \/ /\ edits = MaxEdits
                /\ endpoint = "available" /\ served = tables
                /\ pc = "get" => wanted = tables
                /\ pc \notin {"modify", "delete"}

LEMMA DeletingStays == ASSUME deleting, [Next]_vars PROVE deleting'
  BY DEF Next, OperatorSteps, ListTables, Get, Create, Modify, UpdateTags,
         GetForDeletion, Delete, CallFails, EndpointSettles, RequestDeletion, Finished,
         UserSteps, TableCreated, TableDeleted, UserCreatesEndpoint,
         UserModifiesEndpoint, UserDeletesEndpoint, Edit, vars

LEMMA StepCovered ==
    ASSUME TypeOK, CoveredInv, [Next]_vars
    PROVE  CoveredInv'
  <1>1. CASE deleting \/ deleting'
    BY <1>1, DeletingStays DEF CoveredInv
  <1>2. CASE ~deleting /\ ~deleting'
    <2>1. /\ edits' = MaxEdits
          /\ OperatorSteps \/ CallFails \/ EndpointSettles \/ UNCHANGED vars
      BY <1>2, NoMoreEdits DEF CoveredInv, RequestDeletion
    <2>2. CASE ListTables
      BY <1>2, <2>1, <2>2 DEF ListTables, ec2Vars, CoveredInv
    <2>3. CASE Get
      <3>1. wanted = served /\ endpoint # "none"
        BY <1>2, <2>3 DEF Get, CoveredInv
      <3>2. pc' = "tag" /\ UNCHANGED <<tables, endpoint, served>>
        BY <2>3, <3>1, NoDifference DEF Get, ec2Vars
      <3> QED
        BY <1>2, <2>1, <3>2 DEF CoveredInv
    <2>4. CASE Create
      BY <1>2, <2>1, <2>4 DEF Create, End, CoveredInv
    <2>5. CASE UpdateTags \/ CallFails
      BY <1>2, <2>1, <2>5 DEF UpdateTags, CallFails, End, ec2Vars, CoveredInv
    <2>6. CASE UNCHANGED vars
      BY <1>2, <2>1, <2>6 DEF vars, ec2Vars, memory, CoveredInv
    <2>7. ~Modify /\ ~GetForDeletion /\ ~Delete /\ ~EndpointSettles
      BY <1>2 DEF Modify, GetForDeletion, Delete, EndpointSettles, CoveredInv
    <2> QED
      BY <2>1, <2>2, <2>3, <2>4, <2>5, <2>6, <2>7 DEF OperatorSteps
  <1> QED
    BY <1>1, <1>2

\* An endpoint that serves every table goes on to, until the cluster is
\* deleted: no reconcile, complete or not, takes a table out of it. (The half
\* of EndpointCovers that does not need fairness.)
THEOREM CoverageStays ==
    Spec => [](CoveredInv => [](deleting \/ (endpoint = "available" /\ served = tables)))
  <1>. DEFINE Covers == deleting \/ (endpoint = "available" /\ served = tables)
  <1>1. TypeOK /\ CoveredInv /\ [Next]_vars => CoveredInv'
    BY StepCovered
  <1>2. CoveredInv => Covers
    BY DEF CoveredInv
  <1>. HIDE DEF Covers
  <1>3. Spec => [](CoveredInv => []Covers)
    BY <1>1, <1>2, TypeCorrect, PTL DEF Spec
  <1> QED
    BY <1>3 DEF Covers

\* The endpoint serves no table, and the running reconcile has not seen any.
BareInv ==
    deleting \/ /\ edits = MaxEdits
                /\ endpoint = "available" /\ served = {}
                /\ pc \in {"get", "modify"} => wanted # {}
                /\ pc = "modify" => current = {}
                /\ pc # "delete"

\* The empty string that stands before the wanted tables has no counterpart.
LEMMA EmptyIsAdded ==
    ASSUME wanted # {}
    PROVE  Empty \in ToBeAdded({})
  BY DEF ToBeAdded, CloneAndSort

LEMMA StepBare ==
    ASSUME TypeOK, BareInv, [Next]_vars
    PROVE  BareInv'
  <1>1. CASE deleting \/ deleting'
    BY <1>1, DeletingStays DEF BareInv
  <1>2. CASE ~deleting /\ ~deleting'
    <2>1. /\ edits' = MaxEdits
          /\ OperatorSteps \/ CallFails \/ EndpointSettles \/ UNCHANGED vars
      BY <1>2, NoMoreEdits DEF BareInv, RequestDeletion
    <2>2. CASE ListTables
      BY <1>2, <2>1, <2>2 DEF ListTables, ec2Vars, BareInv, TypeOK
    <2>3. CASE Get
      <3>1. pc = "get" /\ wanted # {} /\ served = {} /\ endpoint = "available"
        BY <1>2, <2>3 DEF Get, BareInv
      <3>2. pc' = "modify" /\ current' = {}
            /\ UNCHANGED <<tables, endpoint, served, wanted>>
        BY <2>3, <3>1, EmptyIsAdded DEF Get, ec2Vars
      <3> QED
        BY <1>2, <2>1, <3>1, <3>2 DEF BareInv
    <2>4. CASE Create
      BY <1>2, <2>1, <2>4 DEF Create, End, BareInv
    <2>5. CASE Modify
      <3>1. Empty \in ToBeAdded(current) /\ Empty \notin tables
        BY <1>2, <2>5, EmptyIsAdded, ConstantsAssumption DEF Modify, BareInv, TypeOK
      <3>2. UNCHANGED served /\ pc' = "idle"
        BY <2>5, <3>1 DEF Modify, End
      <3> QED
        BY <1>2, <2>1, <2>5, <3>2 DEF Modify, BareInv
    <2>6. CASE UpdateTags \/ CallFails
      BY <1>2, <2>1, <2>6 DEF UpdateTags, CallFails, End, ec2Vars, BareInv
    <2>7. CASE UNCHANGED vars
      BY <1>2, <2>1, <2>7 DEF vars, ec2Vars, memory, BareInv
    <2>8. ~GetForDeletion /\ ~Delete /\ ~EndpointSettles
      BY <1>2 DEF GetForDeletion, Delete, EndpointSettles, BareInv
    <2> QED
      BY <2>1, <2>2, <2>3, <2>4, <2>5, <2>6, <2>7, <2>8 DEF OperatorSteps
  <1> QED
    BY <1>1, <1>2

\* An endpoint that was left without any table never gets one from the
\* operator, however often it tries: the request always names the empty string,
\* and EC2 refuses it. (The exception of EndpointCovers; cloneAndSort,
\* pkg/aws/vpcendpoint/reconciler_normal.go.)
THEOREM BareEndpointStaysBare ==
    Spec => [](BareInv => [](deleting \/ (endpoint = "available" /\ served = {})))
  <1>. DEFINE Bare == deleting \/ (endpoint = "available" /\ served = {})
  <1>1. TypeOK /\ BareInv /\ [Next]_vars => BareInv'
    BY StepBare
  <1>2. BareInv => Bare
    BY DEF BareInv
  <1>. HIDE DEF Bare
  <1>3. Spec => [](BareInv => []Bare)
    BY <1>1, <1>2, TypeCorrect, PTL DEF Spec
  <1> QED
    BY <1>3 DEF Bare

Gone == endpoint \in {"none", "deleting"}

\* What the operator has missed, and whose doing it is: an endpoint that EC2
\* did not delete, or another one that somebody else has made.
MissedInv ==
    /\ missed = "kept" => faults > 0
    /\ missed = "replaced" => edits > 0

\* Only a deletion ends with "deleted", and only with the endpoint on its way,
\* as far as the operator knows.
MarkedInv ==
    /\ pc = "delete" => deleting
    /\ outcome = "deleted" =>
        deleting /\ pc = "idle" /\ (Gone \/ missed # "nothing")

LEMMA StepMissed ==
    ASSUME TypeOK, MissedInv, [Next]_vars
    PROVE  MissedInv'
  <1>1. edits \in Nat /\ faults \in Nat
    BY ConstantsAssumption DEF TypeOK
  <1>2. CASE Delete
    BY <1>1, <1>2 DEF Delete, MissedInv
  <1>3. CASE UserSteps
    BY <1>1, <1>3 DEF UserSteps, TableCreated, TableDeleted, UserCreatesEndpoint,
       UserModifiesEndpoint, UserDeletesEndpoint, Edit, MissedInv
  <1>4. CASE CallFails
    BY <1>1, <1>4 DEF CallFails, MissedInv
  <1>5. CASE Get \/ Create \/ GetForDeletion
    BY <1>5 DEF Get, Create, GetForDeletion, MissedInv
  <1>6. CASE \/ ListTables \/ Modify \/ UpdateTags
             \/ EndpointSettles \/ RequestDeletion \/ UNCHANGED vars
    BY <1>6 DEF ListTables, Modify, UpdateTags, EndpointSettles, RequestDeletion,
       vars, MissedInv
  <1> QED
    BY <1>2, <1>3, <1>4, <1>5, <1>6 DEF Next, OperatorSteps, Finished

LEMMA StepMarked ==
    ASSUME MarkedInv, [Next]_vars
    PROVE  MarkedInv'
  <1>. USE DEF Gone
  <1>1. CASE ListTables \/ Get \/ Create \/ Modify \/ UpdateTags
    BY <1>1 DEF ListTables, Get, Create, Modify, UpdateTags, End, Ready, memory, MarkedInv
  <1>2. CASE GetForDeletion
    BY <1>2 DEF GetForDeletion, End, ec2Vars, MarkedInv
  <1>3. CASE Delete
    BY <1>3 DEF Delete, End, MarkedInv
  <1>4. CASE CallFails
    BY <1>4 DEF CallFails, End, MarkedInv
  <1>5. CASE EndpointSettles \/ RequestDeletion
    BY <1>5 DEF EndpointSettles, RequestDeletion, ec2Vars, MarkedInv
  <1>6. CASE UserSteps
    <2>1. UNCHANGED <<deleting, pc, outcome>>
      BY <1>6 DEF UserSteps, TableCreated, TableDeleted, UserCreatesEndpoint,
         UserModifiesEndpoint, UserDeletesEndpoint, Edit
    <2>2. Gone \/ missed # "nothing" => Gone' \/ missed' # "nothing"
      BY <1>6 DEF UserSteps, TableCreated, TableDeleted, UserCreatesEndpoint,
         UserModifiesEndpoint, UserDeletesEndpoint
    <2> QED
      BY <2>1, <2>2 DEF MarkedInv
  <1>7. CASE UNCHANGED vars
    BY <1>7 DEF vars, ec2Vars, MarkedInv
  <1> QED
    BY <1>1, <1>2, <1>3, <1>4, <1>5, <1>6, <1>7 DEF Next, OperatorSteps, Finished

\* When ReconcileDelete reports the endpoint deleted, it is gone or on its way.
\* Two things the operator does not notice are all that can make this false:
\* EC2 kept the endpoint and said so in the answer that client_delete.go:70
\* discards, or somebody made another one after the operator had looked.
THEOREM DeletedEndpointIsGone ==
    Spec => [](outcome = "deleted" =>
                  \/ endpoint \in {"none", "deleting"}
                  \/ missed = "kept" /\ faults > 0
                  \/ missed = "replaced" /\ edits > 0)
  <1>1. Init => MissedInv /\ MarkedInv
    BY DEF Init, MissedInv, MarkedInv
  <1>2. TypeOK /\ MissedInv /\ [Next]_vars => MissedInv'
    BY StepMissed
  <1>3. MarkedInv /\ [Next]_vars => MarkedInv'
    BY StepMarked
  <1>. DEFINE TrueOrMissed ==
                  outcome = "deleted" =>
                      \/ endpoint \in {"none", "deleting"}
                      \/ missed = "kept" /\ faults > 0
                      \/ missed = "replaced" /\ edits > 0
  <1>4. TypeOK /\ MissedInv /\ MarkedInv => TrueOrMissed
    BY DEF TypeOK, Misses, MissedInv, MarkedInv, Gone
  <1>. HIDE DEF TrueOrMissed
  <1>5. Spec => []TrueOrMissed
    BY <1>1, <1>2, <1>3, <1>4, TypeCorrect, PTL DEF Spec
  <1> QED
    BY <1>5 DEF TrueOrMissed

\* The endpoint of a deleted cluster is gone or going, edits are over, and the
\* operator has marked it deleted or is looking again after the mark was lost.
GoneInv ==
    /\ edits = MaxEdits /\ Gone
    /\ deleting /\ pc \in {"idle", "delete"}

LEMMA StepGone ==
    ASSUME TypeOK, GoneInv, [Next]_vars
    PROVE  GoneInv'
  <1>. USE DEF Gone
  <1>1. /\ edits' = MaxEdits /\ deleting'
        /\ \/ OperatorSteps \/ CallFails \/ EndpointSettles
           \/ RequestDeletion \/ UNCHANGED vars
    BY NoMoreEdits, DeletingStays DEF GoneInv
  <1>2. CASE GetForDeletion \/ Delete \/ CallFails
    BY <1>1, <1>2 DEF GetForDeletion, Delete, CallFails, End, ec2Vars, GoneInv
  <1>3. CASE EndpointSettles \/ RequestDeletion
    BY <1>1, <1>3 DEF EndpointSettles, RequestDeletion, ec2Vars, GoneInv
  <1>4. CASE UNCHANGED vars
    BY <1>4 DEF vars, ec2Vars, GoneInv
  <1>5. ~ListTables /\ ~Get /\ ~Create /\ ~Modify /\ ~UpdateTags
    BY DEF ListTables, Get, Create, Modify, UpdateTags, GoneInv
  <1> QED
    BY <1>1, <1>2, <1>3, <1>4, <1>5 DEF OperatorSteps

\* Once the endpoint is gone or on its way and the operator has marked it
\* deleted, the operator does not bring it back, nor does a reconcile that has
\* lost its mark and starts again: only somebody else's edit does, and edits are
\* over. (The half of EndpointGoes that does not need fairness.)
THEOREM DeletedEndpointStaysGone ==
    Spec => [](/\ outcome = "deleted" /\ endpoint \in {"none", "deleting"}
               /\ edits = MaxEdits
               => [](endpoint \in {"none", "deleting"}))
  <1>. DEFINE Marked == /\ outcome = "deleted" /\ endpoint \in {"none", "deleting"}
                        /\ edits = MaxEdits
              IsGone == endpoint \in {"none", "deleting"}
  <1>1. Init => MarkedInv
    BY DEF Init, MarkedInv
  <1>2. MarkedInv /\ [Next]_vars => MarkedInv'
    BY StepMarked
  <1>3. TypeOK /\ GoneInv /\ [Next]_vars => GoneInv'
    BY StepGone
  <1>4. (MarkedInv /\ Marked => GoneInv) /\ (GoneInv => IsGone)
    BY DEF MarkedInv, GoneInv, Gone
  <1>. HIDE DEF Marked, IsGone
  <1>5. Spec => [](Marked => []IsGone)
    BY <1>1, <1>2, <1>3, <1>4, TypeCorrect, PTL DEF Spec
  <1> QED
    BY <1>5 DEF Marked, IsGone
=============================================================================
