--------------------------- MODULE NotReadyBackoff ---------------------------
(***************************************************************************)
(* Waiting for subnets and route tables: the part of reconcileNormal that  *)
(* marks SubnetsReady and RouteTablesReady and asks to be called again, in *)
(* minutes.                                                                *)
(*                                                                         *)
(* Three things interact here.  The delay is chosen from the severity of   *)
(* the condition and the time since it last changed; setting a condition   *)
(* to anything but what it is resets that time; and the patch of a changed *)
(* condition comes back as a watch event, for which the controller has no  *)
(* predicate, and so calls Reconcile at once, whatever delay was asked     *)
(* for.                                                                    *)
(***************************************************************************)
EXTENDS Naturals, FiniteSets

CONSTANT NumSubnets    \* subnets of the AWSCluster

ASSUME ConstantsAssumption == NumSubnets \in Nat \ {0}

Subnets == 1..NumSubnets

Never   == 16   \* no call is scheduled; any scheduled one is sooner
Cap     == 16   \* ages are not counted beyond this
MaxBusy == 5    \* reconciles at one time are not counted beyond this

VARIABLES
    up,        \* EC2: are all subnets available?
    table,     \* EC2: subnet -> the state of its route table's association
    upFor,     \* minutes since everything has been ready in EC2
    cond,      \* API server: the two conditions
    event,     \* work queue: a watch event for the object
    timer,     \* work queue: minutes until the delayed call
    pc,        \* operator: where the running reconcile is
    marked,    \* operator: the SubnetsReady condition of the running reconcile
    busy       \* reconciles since time passed or anything changed from outside

ec2Vars == <<up, table>>
vars == <<ec2Vars, upFor, cond, event, timer, pc, marked, busy>>

NotReadyStates == {"none", "associating"}

\* What a condition that is False is about: the available subnets, or the
\* route table of one subnet and its state.
Nothing  == [subnet |-> 0, state |-> "associated"]
Messages == [subnet : Subnets, state : NotReadyStates] \cup {Nothing}

\* Only a condition that is False has a severity and a message.
Condition == [status : {"False"}, severity : {"Info", "Warning"},
              message : Messages, age : 0..Cap]
        \cup [status : {"Unset", "True"}, severity : {"None"},
              message : {Nothing}, age : 0..Cap]

Unset == [status |-> "Unset", severity |-> "None", message |-> Nothing, age |-> 0]

Init ==
    /\ up \in BOOLEAN
    /\ table = [s \in Subnets |-> "none"]
    /\ upFor = 0
    /\ cond = [subnets |-> Unset, routeTables |-> Unset]
    /\ event = TRUE
    /\ timer = Never
    /\ pc = "idle"
    /\ marked = Unset
    /\ busy = 0

Min2(m, n) == IF m <= n THEN m ELSE n

\* conditions.Set keeps the transition time of a condition that stays as it is.
Set(c, status, severity, message) ==
    LET new == [status |-> status, severity |-> severity, message |-> message,
                age |-> c.age]
    IN  IF new = c THEN c ELSE [new EXCEPT !.age = 0]

\* Mutant: the severity and the message stay.
MarkStatusTrue(c) == Set(c, "True", c.severity, c.message)

MarkTrue(c) == Set(c, "True", "None", Nothing)

\* Mutant: what takes long is not asked for again.
BackoffGivesUp(c) ==
    IF c.severity = "Info" /\ c.age < 5  THEN [severity |-> "Info", delay |-> 1]
    ELSE IF c.severity = "Info" /\ c.age < 15 THEN [severity |-> "Info", delay |-> 5]
    ELSE [severity |-> "Warning", delay |-> Never]

\* Mutant: the test of the severity is the wrong way round.
BackoffInverted(c) ==
    IF c.severity # "Info" /\ c.age < 5  THEN [severity |-> "Info", delay |-> 1]
    ELSE IF c.severity # "Info" /\ c.age < 15 THEN [severity |-> "Info", delay |-> 5]
    ELSE [severity |-> "Warning", delay |-> 15]

Backoff(c) ==
    IF c.severity = "Info" /\ c.age < 5  THEN [severity |-> "Info", delay |-> 1]
    ELSE IF c.severity = "Info" /\ c.age < 15 THEN [severity |-> "Info", delay |-> 5]
    ELSE [severity |-> "Warning", delay |-> 15]

-----------------------------------------------------------------------------
(* The reconcile.                                                          *)

\* The worker takes the object from the queue, which forgets a delayed call
\* that is due and keeps one that is not.
Remaining == IF timer = 0 THEN Never ELSE timer

Take ==
    /\ pc = "idle"
    /\ event \/ timer = 0
    /\ busy' = Min2(busy + 1, MaxBusy)
    /\ UNCHANGED <<ec2Vars, upFor>>

\* Subnets that are not available end the reconcile.
SubnetsNotAvailable ==
    /\ Take /\ ~up
    /\ LET b == Backoff(cond.subnets)
           c == Set(cond.subnets, "False", b.severity, Nothing)
       IN  /\ cond' = [cond EXCEPT !.subnets = c]
           /\ event' = (c # cond.subnets)
           /\ timer' = Min2(Remaining, b.delay)
    /\ UNCHANGED <<pc, marked>>

NotReady == {s \in Subnets : table[s] # "associated"}

\* The condition names the last subnet without a table that is ready, in the
\* order in which EC2 lists subnets, taken to be the same every time.
MarkSubnets ==
    LET c == cond.subnets
        severity == IF c.severity = "Info" /\ c.age < 15 THEN "Info" ELSE "Warning"
    IN  \/ NotReady = {} /\ marked' = MarkTrue(c)
        \/ \E s \in NotReady :
            /\ \A r \in NotReady : r <= s
            /\ marked' = Set(c, "False", severity, [subnet |-> s, state |-> table[s]])

SubnetsAvailable ==
    /\ Take /\ up
    /\ MarkSubnets
    /\ event' = FALSE
    /\ timer' = Remaining
    /\ pc' = "tables"
    /\ UNCHANGED cond

\* Which table the condition is about: Reconcile lists the tables there were
\* in the order of a Go map, which is random, then those it created.
Named(created, notReady) ==
    IF created \cap notReady = {} THEN notReady
    ELSE {s \in created \cap notReady : \A r \in created \cap notReady : r <= s}

\* The reconcile ends here, or goes on to the VPC endpoint.
Return(routeTables, delay) ==
    /\ cond' = [subnets |-> marked, routeTables |-> routeTables]
    /\ event' = (event \/ cond' # cond)
    /\ timer' = Min2(timer, delay)
    /\ marked' = Unset
    /\ pc' = "idle"

ReconcileRouteTables ==
    /\ pc = "tables"
    /\ LET created == {s \in Subnets : table[s] = "none"} IN
        /\ table' \in [Subnets -> {"associating", "associated"}]
        /\ \A s \in Subnets \ created : table'[s] = table[s]
        /\ LET notReady == {s \in Subnets : table'[s] # "associated"} IN
            IF notReady = {}
            THEN Return(MarkTrue(cond.routeTables), Never)
            ELSE \E s \in Named(created, notReady) :
                    LET b == Backoff(cond.routeTables) IN
                    Return(Set(cond.routeTables, "False", b.severity,
                               [subnet |-> s, state |-> table'[s]]),
                           b.delay)
    /\ UNCHANGED <<up, upFor, busy>>

-----------------------------------------------------------------------------
(* The environment.                                                        *)

AllUp == up /\ \A s \in Subnets : table[s] = "associated"

\* Reconciles take less than a minute, so none is running or due.
Tick ==
    /\ pc = "idle" /\ ~event /\ timer # 0
    /\ timer' = IF timer = Never THEN Never ELSE timer - 1
    /\ cond' = [k \in DOMAIN cond |->
                 [cond[k] EXCEPT !.age = IF cond[k].status = "Unset" THEN 0
                                         ELSE Min2(@ + 1, Cap)]]
    /\ upFor' = IF AllUp THEN Min2(upFor + 1, Cap) ELSE 0
    /\ busy' = 0
    /\ UNCHANGED <<ec2Vars, event, pc, marked>>

SubnetsBecomeAvailable ==
    /\ ~up /\ up' = TRUE
    /\ busy' = 0
    /\ UNCHANGED <<table, upFor, cond, event, timer, pc, marked>>

Associates(s) ==
    /\ table[s] = "associating"
    /\ table' = [table EXCEPT ![s] = "associated"]
    /\ busy' = 0
    /\ UNCHANGED <<up, upFor, cond, event, timer, pc, marked>>

\* CAPA or the user updates the object.
OthersUpdate ==
    /\ event' = TRUE
    /\ busy' = 0
    /\ UNCHANGED <<ec2Vars, upFor, cond, timer, pc, marked>>

Next ==
    \/ SubnetsNotAvailable \/ SubnetsAvailable \/ ReconcileRouteTables
    \/ Tick
    \/ SubnetsBecomeAvailable
    \/ \E s \in Subnets : Associates(s)
    \/ OthersUpdate

Spec == Init /\ [][Next]_vars

-----------------------------------------------------------------------------
(* Properties.                                                             *)

TypeOK ==
    /\ up \in BOOLEAN /\ table \in [Subnets -> NotReadyStates \cup {"associated"}]
    /\ upFor \in 0..Cap /\ busy \in 0..MaxBusy
    /\ cond \in [{"subnets", "routeTables"} -> Condition]
    /\ event \in BOOLEAN /\ timer \in 0..Never
    /\ pc \in {"idle", "tables"} /\ marked \in Condition

\* A quarter of an hour after everything is ready in EC2, at the latest, the
\* conditions say so, although a reconcile may read the subnets before and the
\* route tables after the last association, and nothing but a delayed call or
\* the operator's own patch brings it back.
NoticedInTime ==
    upFor > 15 =>
        /\ cond.subnets.status = "True"
        /\ cond.routeTables.status = "True"

\* "let just wait a bit longer": the operator's own patches do not keep it
\* running; three reconciles after the last change from outside it waits,
\* unless more than one table is not ready: then the condition names another
\* one at random, and its patch wakes the operator up before the delay is over.
WaitsInBetween == busy <= 3 \/ Cardinality(NotReady) > 1

-----------------------------------------------------------------------------
(* What the repository says and the code does not keep: see the README.    *)

\* "initially retry more often": a condition that became False less than five
\* minutes ago is looked at again within a minute.
InitiallyRetriesMoreOften ==
    pc = "idle" /\ ~event =>
        \A k \in DOMAIN cond :
            cond[k].status = "False" /\ cond[k].age < 5 => timer <= 1
=============================================================================
