----------------------------- MODULE VpcEndpoint -----------------------------
(***************************************************************************)
(* The S3 gateway endpoint of one VPC: the stage of reconcileNormal that   *)
(* lists the VPC's route tables and makes the endpoint serve all of them   *)
(* (pkg/aws/vpcendpoint, Reconcile), and its deletion, one EC2 request at  *)
(* a time.  Between the requests the user creates and deletes route tables *)
(* and edits the endpoint, calls fail, and the process dies.               *)
(***************************************************************************)
EXTENDS Naturals, FiniteSets

CONSTANTS
    Tables,    \* route table IDs
    Main,      \* the main route table of the VPC
    Empty,     \* the empty string among route table IDs
    MaxEdits,  \* bound on the user's edits of the VPC
    MaxFaults  \* bound on failed calls and crashes

ASSUME ConstantsAssumption ==
    /\ Main \in Tables /\ Empty \notin Tables
    /\ MaxEdits \in Nat /\ MaxFaults \in Nat

VARIABLES
    tables,    \* EC2: the route tables of the VPC
    endpoint,  \* EC2: the state of the endpoint
    served,    \* EC2: the route tables the endpoint serves
    deleting,  \* the AWSCluster has a deletion timestamp
    pc,        \* operator: the next request
    wanted,    \* operator: the route tables as List returned them
    current,   \* operator: the served tables as Get returned them
    seen,      \* operator: the endpoint's state as Get returned it
    outcome,   \* operator: how the last reconcile ended
    missed,    \* what has become of the endpoint the operator read, unseen
    edits, faults

ec2Vars == <<tables, endpoint, served>>
memory  == <<wanted, current, seen>>
vars    == <<ec2Vars, deleting, pc, memory, outcome, missed, edits, faults>>

EndpointStates == {"none", "pending", "available", "deleting"}
Stages   == {"idle", "get", "create", "modify", "tag", "delete"}
Outcomes == {"none", "error", "ready", "notReady", "deleted"}

\* EC2 kept the endpoint that it was asked to delete, or the operator holds the
\* ID of one that is gone while another has taken its place.
Misses   == {"nothing", "kept", "replaced"}

Init ==
    /\ tables \in {T \in SUBSET Tables : Main \in T}
    /\ endpoint = "none" /\ served = {}
    /\ deleting = FALSE
    /\ pc = "idle"
    /\ wanted = {} /\ current = {} /\ seen = "none"
    /\ outcome = "none" /\ missed = "nothing"
    /\ edits = 0 /\ faults = 0

End(result) ==
    /\ pc' = "idle"
    /\ outcome' = result
    /\ wanted' = {} /\ current' = {} /\ seen' = "none"

\* Mutant: the state is passed on as it is.
StateAsOutcome(state) == state

Ready(state) == IF state = "available" THEN "ready" ELSE "notReady"

-----------------------------------------------------------------------------
(* The request the controller builds, and Reconcile.                       *)

\* The subnets in the request are left out: a gateway endpoint has none.
ListTables ==
    /\ pc = "idle" /\ ~deleting
    /\ wanted' = tables
    /\ pc' = "get"
    /\ outcome' = "none"
    /\ UNCHANGED <<ec2Vars, deleting, current, seen, missed, edits, faults>>

\* cloneAndSort puts as many empty strings before the n elements of a list as
\* it has elements.  Lists are sets here: sorted, they only serve to search.
CloneAndSort(S) == IF S = {} THEN {} ELSE S \cup {Empty}

\* Mutant: what the endpoint serves is not cloned.
AddedAgainstUncloned(now) == CloneAndSort(wanted) \ now

\* Mutant: the arguments of diff are swapped.
AddedSwapped(now) == CloneAndSort(now) \ CloneAndSort(wanted)

ToBeAdded(now) == CloneAndSort(wanted) \ CloneAndSort(now)
ToBeRemoved(now) == CloneAndSort(now) \ CloneAndSort(wanted)

Get ==
    /\ pc = "get"
    /\ missed' = "nothing"
    /\ IF endpoint = "none"
       THEN pc' = "create" /\ UNCHANGED <<current, seen>>
       ELSE /\ current' = served /\ seen' = endpoint
            /\ pc' = IF ToBeAdded(served) \cup ToBeRemoved(served) = {}
                     THEN "tag" ELSE "modify"
    /\ UNCHANGED <<ec2Vars, deleting, wanted, outcome, edits, faults>>

\* EC2 refuses a table that is gone, and one that has an endpoint.
Create ==
    /\ pc = "create"
    /\ IF wanted \subseteq tables /\ endpoint = "none"
       THEN /\ endpoint' \in {"pending", "available"}
            /\ served' = wanted /\ missed' = "nothing"
            /\ End(Ready(endpoint'))
       ELSE UNCHANGED <<endpoint, served, missed>> /\ End("error")
    /\ UNCHANGED <<tables, deleting, edits, faults>>

\* EC2 refuses an ID that names no table of the VPC, an empty one too, and an
\* endpoint that is gone or on its way out.
Modify ==
    /\ pc = "modify"
    /\ IF /\ endpoint \in {"pending", "available"} /\ missed = "nothing"
          /\ ToBeAdded(current) \cup ToBeRemoved(current) \subseteq tables
       THEN /\ served' = (served \cup ToBeAdded(current)) \ ToBeRemoved(current)
            /\ pc' = "tag"
            /\ UNCHANGED <<memory, outcome>>
       ELSE UNCHANGED served /\ End("error")
    /\ UNCHANGED <<tables, endpoint, deleting, missed, edits, faults>>

\* The result is the state Get returned, before anything was modified.
UpdateTags ==
    /\ pc = "tag"
    /\ End(IF endpoint = "none" \/ missed = "replaced" THEN "error" ELSE Ready(seen))
    /\ UNCHANGED <<ec2Vars, deleting, missed, edits, faults>>

-----------------------------------------------------------------------------
(* ReconcileDelete, until the controller has marked the endpoint deleted.  *)

\* Mutant: an endpoint that is not available yet is left alone.
GetPendingForDeletion ==
    /\ pc = "idle" /\ deleting /\ outcome # "deleted"
    /\ missed' = "nothing"
    /\ IF endpoint # "available"
       THEN End("deleted")
       ELSE pc' = "delete" /\ outcome' = "none" /\ UNCHANGED memory
    /\ UNCHANGED <<ec2Vars, deleting, edits, faults>>

GetForDeletion ==
    /\ pc = "idle" /\ deleting /\ outcome # "deleted"
    /\ missed' = "nothing"
    /\ IF endpoint \in {"none", "deleting"}
       THEN End("deleted")
       ELSE pc' = "delete" /\ outcome' = "none" /\ UNCHANGED memory
    /\ UNCHANGED <<ec2Vars, deleting, edits, faults>>

\* The answer is discarded.  An endpoint that EC2 does not know, or does not
\* delete (Undeletable in AWSClusterController), is only listed there.
Delete ==
    /\ pc = "delete"
    /\ End("deleted")
    /\ \/ /\ endpoint' = IF endpoint = "none" \/ missed = "replaced"
                          THEN endpoint ELSE "deleting"
          /\ UNCHANGED <<missed, faults>>
       \/ /\ endpoint \in {"pending", "available"} /\ missed = "nothing"
          /\ faults < MaxFaults /\ faults' = faults + 1
          /\ missed' = "kept"
          /\ UNCHANGED endpoint
    /\ UNCHANGED <<tables, served, deleting, edits>>

-----------------------------------------------------------------------------
(* The environment.                                                        *)

\* The next call fails, the process dies, or the result of a reconcile, at
\* "idle", does not reach the API server.
CallFails ==
    /\ faults < MaxFaults /\ faults' = faults + 1
    /\ End("error")
    /\ UNCHANGED <<ec2Vars, deleting, missed, edits>>

EndpointSettles ==
    /\ endpoint \in {"pending", "deleting"}
    /\ endpoint' = IF endpoint = "pending" THEN "available" ELSE "none"
    /\ served' = IF endpoint = "pending" THEN served ELSE {}
    /\ UNCHANGED <<tables, deleting, pc, memory, outcome, missed, edits, faults>>

RequestDeletion ==
    /\ ~deleting /\ deleting' = TRUE
    /\ UNCHANGED <<ec2Vars, pc, memory, outcome, missed, edits, faults>>

Edit ==
    /\ edits < MaxEdits /\ edits' = edits + 1
    /\ UNCHANGED <<deleting, pc, memory, outcome, faults>>

TableCreated ==
    /\ Edit
    /\ \E t \in Tables \ tables : tables' = tables \cup {t}
    /\ UNCHANGED <<endpoint, served, missed>>

\* EC2 takes a deleted table out of the endpoint.
TableDeleted ==
    /\ Edit
    /\ \E t \in tables \ {Main} : tables' = tables \ {t} /\ served' = served \ {t}
    /\ UNCHANGED <<endpoint, missed>>

UserCreatesEndpoint ==
    /\ Edit
    /\ endpoint = "none"
    /\ endpoint' = "available" /\ missed' = "replaced"
    /\ \E T \in SUBSET tables : served' = T
    /\ UNCHANGED tables

UserModifiesEndpoint ==
    /\ Edit
    /\ endpoint = "available"
    /\ \E T \in SUBSET tables : served' = T
    /\ UNCHANGED <<tables, endpoint, missed>>

UserDeletesEndpoint ==
    /\ Edit
    /\ endpoint \in {"pending", "available"}
    /\ endpoint' = "deleting"
    /\ UNCHANGED <<tables, served, missed>>

-----------------------------------------------------------------------------
(* The system.                                                             *)

OperatorSteps ==
    \/ ListTables \/ Get \/ Create \/ Modify \/ UpdateTags
    \/ GetForDeletion \/ Delete

UserSteps ==
    \/ TableCreated \/ TableDeleted
    \/ UserCreatesEndpoint \/ UserModifiesEndpoint \/ UserDeletesEndpoint

\* The endpoint is marked deleted: the operator does not look at it again.
Finished ==
    /\ outcome = "deleted" /\ pc = "idle"
    /\ UNCHANGED vars

Next ==
    \/ OperatorSteps
    \/ CallFails
    \/ EndpointSettles
    \/ RequestDeletion
    \/ UserSteps
    \/ Finished

Spec == Init /\ [][Next]_vars

\* Errors and results that are not ready are retried, and a ready cluster is
\* reconciled again by the resync of the cache; EC2 settles the endpoint.
FairSpec == Spec /\ WF_vars(OperatorSteps) /\ WF_vars(EndpointSettles)

-----------------------------------------------------------------------------
(* Properties.                                                             *)

TypeOK ==
    /\ tables \subseteq Tables /\ Main \in tables
    /\ endpoint \in EndpointStates /\ served \subseteq tables
    /\ deleting \in BOOLEAN
    /\ pc \in Stages
    /\ wanted \subseteq Tables /\ current \subseteq Tables
    /\ seen \in EndpointStates
    /\ outcome \in Outcomes /\ missed \in Misses
    /\ edits \in 0..MaxEdits /\ faults \in 0..MaxFaults

\* The empty strings cancel out: the operator does not modify the endpoint it
\* made unless somebody else changed it or the tables.
NoNeedlessModify == pc = "modify" => edits > 0

Covered == endpoint = "available" /\ served = tables /\ outcome # "error"

\* The endpoint comes to serve every route table of the VPC, whatever the user
\* did to the tables and to it, unless it was left without any table at all.
EndpointCovers ==
    <>(deleting \/ []Covered \/ [](endpoint = "available" /\ served = {}))

\* The endpoint of a deleted cluster goes away, whatever was edited and failed,
\* and the operator stops looking.  An endpoint that is still there for ever is
\* one that EC2 kept when it was asked to delete it, in an answer that
\* client_delete.go:70 does not read, or one made after the operator looked.
EndpointGoes ==
    <>deleting =>
        <>[](outcome = "deleted" /\ (endpoint = "none" \/ missed # "nothing"))
=============================================================================
