--------------------------- MODULE RouteTableSlots ---------------------------
(***************************************************************************)
(* What the network of a cluster may expect of its route tables, whoever   *)
(* implements it: one slot per subnet, which holds at most one table.  Both *)
(* the request by request module RouteTables and the stages of             *)
(* AWSClusterController implement this specification.                      *)
(***************************************************************************)
EXTENDS Naturals, FiniteSets

CONSTANT Slots

VARIABLES
    slot,      \* subnet -> the state of the table made for it
    deleting   \* has the deletion of the cluster been requested?

vars == <<slot, deleting>>

States == {"none", "unassociated", "associating", "associated"}
Serving == {"associating", "associated"}

Init ==
    /\ slot = [s \in Slots |-> "none"]
    /\ deleting = FALSE

\* At most one table at a time waits for its association: an attempt that
\* failed is cleared away before the next one.
AtMostOneLeftover ==
    \A s, t \in Slots :
        slot[s] = "unassociated" /\ slot[t] = "unassociated" => s = t

\* A subnet that has got its table keeps it.
KeepsServing ==
    \A s \in Slots :
        /\ slot[s] \in Serving => slot'[s] \in Serving
        /\ slot[s] = "associated" => slot'[s] = "associated"

Work ==
    /\ ~deleting
    /\ slot' \in [Slots -> States]
    /\ KeepsServing
    /\ AtMostOneLeftover'
    /\ UNCHANGED deleting

RequestDeletion ==
    /\ ~deleting /\ deleting' = TRUE
    /\ UNCHANGED slot

\* Once the cluster is being deleted a reconcile that started before may still
\* add tables, and those that follow take them away in any order.
Teardown ==
    /\ deleting
    /\ slot' \in [Slots -> States]
    /\ UNCHANGED deleting

Next == Work \/ RequestDeletion \/ Teardown

Spec == Init /\ [][Next]_vars
=============================================================================
