------------------------ MODULE NotReadyBackoff_proofs ------------------------
(***************************************************************************)
(* For any number of subnets: the conditions have their types, say that    *)
(* everything is ready a quarter of an hour after it is, and the operator  *)
(* does not keep itself running.                                           *)
(***************************************************************************)
EXTENDS NotReadyBackoff, FiniteSetTheorems, TLAPS

AllAssociated == \A s \in Subnets : table[s] = "associated"

Noticed == cond.subnets.status = "True" /\ cond.routeTables.status = "True"

\* Nothing in EC2 becomes less ready, so what a condition says stays true.
RouteTablesTrue == cond.routeTables.status = "True" => AllAssociated
MarkedTrue ==
    pc = "tables" =>
        /\ up
        /\ AllAssociated /\ cond.routeTables.status = "True" => marked.status = "True"

AgeCounts == upFor > 0 => AllUp

\* While the operator sleeps and has not noticed, a delayed call is scheduled
\* for a time when things have been ready for at most a quarter of an hour.
NotNoticedYet ==
    ~Noticed => /\ upFor <= 15
                /\ pc = "idle" /\ ~event => upFor + timer <= 15

IInv ==
    /\ TypeOK
    /\ RouteTablesTrue /\ MarkedTrue
    /\ AgeCounts /\ NotNoticedYet

-----------------------------------------------------------------------------
(* Helpers.                                                                *)

\* Setting a condition gives one that says what it was set to.
LEMMA SetType ==
    ASSUME NEW c \in Condition, NEW status, NEW severity, NEW message,
           \/ /\ status = "False" /\ severity \in {"Info", "Warning"}
              /\ message \in Messages
           \/ status = "True" /\ severity = "None" /\ message = Nothing
    PROVE  /\ Set(c, status, severity, message) \in Condition
           /\ Set(c, status, severity, message).status = status
BY DEF Set, Condition, Cap

LEMMA MarkTrueType ==
    ASSUME NEW c \in Condition
    PROVE  MarkTrue(c) \in Condition /\ MarkTrue(c).status = "True"
BY SetType DEF MarkTrue

\* Every result that is not ready asks for a call within a quarter of an hour.
LEMMA BackoffBound ==
    ASSUME NEW c \in Condition
    PROVE  /\ Backoff(c).severity \in {"Info", "Warning"}
           /\ Backoff(c).delay \in 1..15
BY DEF Backoff

LEMMA TableMessage ==
    ASSUME NEW s \in Subnets, NEW state \in NotReadyStates
    PROVE  [subnet |-> s, state |-> state] \in Messages
BY DEF Messages

LEMMA Min2Type ==
    ASSUME NEW m \in 0..Never, NEW n \in 0..Never
    PROVE  Min2(m, n) \in 0..Never /\ Min2(m, n) <= m /\ Min2(m, n) <= n
BY DEF Min2, Never

-----------------------------------------------------------------------------
(* Types.                                                                  *)

LEMMA UnsetType == Unset \in Condition /\ Unset.status = "Unset"
BY DEF Unset, Condition, Cap

LEMMA InitIInv == Init => IInv
<1> SUFFICES ASSUME Init PROVE IInv
  OBVIOUS
<1>1. cond \in [{"subnets", "routeTables"} -> Condition]
  BY UnsetType DEF Init
<1>2. TypeOK
  BY <1>1, UnsetType DEF Init, TypeOK, NotReadyStates, Cap, Never, MaxBusy
<1>3. RouteTablesTrue /\ MarkedTrue /\ AgeCounts /\ NotNoticedYet
  BY UnsetType DEF Init, RouteTablesTrue, MarkedTrue, AgeCounts, NotNoticedYet, Noticed
<1> QED
  BY <1>2, <1>3 DEF IInv

LEMMA TakeType ==
    ASSUME TypeOK, Take
    PROVE  Remaining \in 0..Never /\ busy' \in 0..MaxBusy
BY DEF TypeOK, Take, Remaining, Min2, Never, MaxBusy

\* Subnets that are not available: nothing has been ready for any time.
LEMMA SubnetsNotAvailableStep ==
    ASSUME IInv, SubnetsNotAvailable
    PROVE  IInv'
<1> DEFINE b == Backoff(cond.subnets)
           c == Set(cond.subnets, "False", b.severity, Nothing)
<1>1. /\ TypeOK /\ Take /\ ~up /\ UNCHANGED <<up, table, upFor, pc, marked>>
      /\ cond' = [cond EXCEPT !.subnets = c]
      /\ timer' = Min2(Remaining, b.delay)
      /\ event' \in BOOLEAN
  BY DEF IInv, SubnetsNotAvailable, Take, ec2Vars
<1>2. cond.subnets \in Condition /\ cond.routeTables \in Condition
  BY <1>1 DEF TypeOK
<1>3. b.severity \in {"Info", "Warning"} /\ b.delay \in 1..15
  BY <1>2, BackoffBound
<1>4. c \in Condition
  BY <1>2, <1>3, SetType DEF Messages
<1> HIDE DEF b, c
<1>5. timer' \in 0..Never /\ timer' <= 15
  BY <1>1, <1>3, TakeType, Min2Type DEF Never
<1>6. cond' \in [{"subnets", "routeTables"} -> Condition]
      /\ cond'.routeTables = cond.routeTables
  BY <1>1, <1>4 DEF TypeOK
<1>7. TypeOK'
  BY <1>1, <1>5, <1>6, TakeType DEF TypeOK
<1>8. upFor = 0 /\ pc = "idle"
  BY <1>1 DEF IInv, AgeCounts, AllUp, TypeOK, Cap, Take
<1>9. RouteTablesTrue' /\ MarkedTrue' /\ AgeCounts'
  BY <1>1, <1>6, <1>8 DEF IInv, RouteTablesTrue, MarkedTrue, AgeCounts, AllAssociated
<1>10. NotNoticedYet'
  BY <1>1, <1>5, <1>8, TypeOK' DEF NotNoticedYet, TypeOK, Never
<1> QED
  BY <1>7, <1>9, <1>10 DEF IInv

\* The subnets are read: a SubnetsReady that is not True was marked from a
\* table that is not ready, so RouteTablesReady is not True either.
LEMMA SubnetsAvailableStep ==
    ASSUME IInv, SubnetsAvailable
    PROVE  IInv'
<1>1. /\ TypeOK /\ Take /\ up /\ MarkSubnets
      /\ UNCHANGED <<up, table, upFor, cond>>
      /\ event' = FALSE /\ timer' = Remaining /\ pc' = "tables"
  BY DEF IInv, SubnetsAvailable, Take, ec2Vars
<1>2. cond.subnets \in Condition
  BY <1>1 DEF TypeOK
<1>3. /\ marked' \in Condition
      /\ AllAssociated => marked'.status = "True"
  <2>1. CASE NotReady = {} /\ marked' = MarkTrue(cond.subnets)
    BY <1>2, <2>1, MarkTrueType
  <2>2. ASSUME NEW s \in NotReady,
               NEW severity \in {"Info", "Warning"},
               marked' = Set(cond.subnets, "False", severity,
                             [subnet |-> s, state |-> table[s]])
        PROVE  marked' \in Condition /\ ~AllAssociated
    <3>1. s \in Subnets /\ table[s] \in NotReadyStates /\ table[s] # "associated"
      BY <1>1, <2>2 DEF NotReady, TypeOK
    <3> QED
      BY <1>2, <2>2, <3>1, TableMessage, SetType DEF AllAssociated
  <2> QED
    BY <1>1, <2>1, <2>2 DEF MarkSubnets
<1>4. TypeOK'
  BY <1>1, <1>3, TakeType DEF TypeOK
<1>5. RouteTablesTrue' /\ MarkedTrue' /\ AgeCounts' /\ NotNoticedYet'
  BY <1>1, <1>3 DEF IInv, RouteTablesTrue, MarkedTrue, AgeCounts, AllUp,
                    AllAssociated, NotNoticedYet, Noticed
<1> QED
  BY <1>4, <1>5 DEF IInv

\* The tables are read: either the conditions change, and the patch comes back
\* as an event, or both were True, or a delayed call is asked for.
LEMMA ReconcileRouteTablesStep ==
    ASSUME IInv, ReconcileRouteTables
    PROVE  IInv'
<1> DEFINE created == {s \in Subnets : table[s] = "none"}
           notReady == {s \in Subnets : table'[s] # "associated"}
<1>1. /\ TypeOK /\ pc = "tables"
      /\ table' \in [Subnets -> {"associating", "associated"}]
      /\ \A s \in Subnets \ created : table'[s] = table[s]
      /\ UNCHANGED <<up, upFor, busy>>
  BY DEF IInv, ReconcileRouteTables
<1>2. up /\ (AllAssociated /\ cond.routeTables.status = "True" => marked.status = "True")
  BY <1>1 DEF IInv, MarkedTrue
<1>3. AllAssociated => table' = table
  BY <1>1 DEF AllAssociated, TypeOK
<1>4. cond.routeTables \in Condition
  BY <1>1 DEF TypeOK
<1>5. ASSUME NEW r \in Condition, NEW delay \in 1..16, Return(r, delay),
             r.status = "True" => AllAssociated',
             delay = Never => r.status = "True",
             delay # Never => delay <= 15 /\ ~AllAssociated'
      PROVE  IInv'
  <2>1. /\ cond' = [subnets |-> marked, routeTables |-> r]
        /\ event' = (event \/ cond' # cond)
        /\ timer' = Min2(timer, delay)
        /\ marked' = Unset /\ pc' = "idle"
    BY <1>5 DEF Return
  <2>2. timer' \in 0..Never /\ timer' <= delay
    BY <1>1, <1>5, <2>1, Min2Type DEF TypeOK, Never
  <2>3. TypeOK'
    <3>1. cond' \in [{"subnets", "routeTables"} -> Condition] /\ event' \in BOOLEAN
      BY <1>1, <1>5, <2>1 DEF TypeOK
    <3> QED
      BY <1>1, <2>1, <2>2, <3>1, UnsetType DEF TypeOK, NotReadyStates
  <2>4. cond'.routeTables.status = r.status
    BY <2>1
  <2>5. RouteTablesTrue' /\ MarkedTrue'
    BY <1>5, <2>1, <2>4 DEF RouteTablesTrue, MarkedTrue
  <2>6. AgeCounts'
    BY <1>1, <1>3 DEF IInv, AgeCounts, AllUp, AllAssociated
  <2>7. CASE delay # Never
    <3>1. upFor = 0
      BY <1>1, <1>3, <1>5, <2>7 DEF IInv, AgeCounts, AllUp, AllAssociated, TypeOK, Cap
    <3>2. upFor' = 0 /\ timer' \in 0..15
      BY <1>1, <1>5, <2>2, <2>7, <3>1 DEF Never
    <3>3. upFor' <= 15 /\ upFor' + timer' <= 15
      <4>1. 0 <= 15 /\ \A n \in 0..15 : 0 + n <= 15
        OBVIOUS
      <4> QED
        BY <3>2, <4>1, Zenon
    <3>4. NotNoticedYet'
      BY <3>3, Zenon DEF NotNoticedYet
    <3> QED
      BY <2>3, <2>5, <2>6, <3>4 DEF IInv
  <2>8. CASE delay = Never
    <3>1. CASE cond.routeTables.status = "True"
      <4>1. marked.status = "True"
        BY <1>2, <3>1 DEF IInv, RouteTablesTrue
      <4>2. Noticed'
        BY <1>5, <2>1, <2>8, <4>1 DEF Noticed
      <4> QED
        BY <2>3, <2>5, <2>6, <4>2 DEF IInv, NotNoticedYet
    <3>2. CASE cond.routeTables.status # "True"
      <4>1. event'
        BY <1>5, <2>1, <2>4, <2>8, <3>2
      <4>2. upFor <= 15
        BY <3>2 DEF IInv, NotNoticedYet, Noticed
      <4> QED
        BY <1>1, <2>3, <2>5, <2>6, <4>1, <4>2 DEF IInv, NotNoticedYet
    <3> QED
      BY <3>1, <3>2
  <2> QED
    BY <2>7, <2>8
<1>6. CASE notReady = {}
  <2>1. Return(MarkTrue(cond.routeTables), Never) /\ AllAssociated'
    BY <1>6 DEF ReconcileRouteTables, AllAssociated
  <2>2. /\ MarkTrue(cond.routeTables) \in Condition
        /\ MarkTrue(cond.routeTables).status = "True"
    BY <1>4, MarkTrueType
  <2> QED
    BY <1>5, <2>1, <2>2 DEF Never
<1>7. CASE notReady # {}
  <2> DEFINE b == Backoff(cond.routeTables)
  <2>1. PICK s \in Named(created, notReady) :
          Return(Set(cond.routeTables, "False", b.severity,
                     [subnet |-> s, state |-> table'[s]]), b.delay)
    BY <1>7 DEF ReconcileRouteTables
  <2>2. s \in Subnets /\ table'[s] = "associating"
    <3>1. s \in notReady
      BY <2>1 DEF Named
    <3> QED
      BY <1>1, <3>1
  <2>3. b.severity \in {"Info", "Warning"} /\ b.delay \in 1..15
    BY <1>4, BackoffBound
  <2> HIDE DEF b
  <2> DEFINE r == Set(cond.routeTables, "False", b.severity,
                      [subnet |-> s, state |-> table'[s]])
  <2>4. r \in Condition /\ r.status = "False"
    <3>1. [subnet |-> s, state |-> table'[s]] \in Messages
      BY <2>2, TableMessage DEF NotReadyStates
    <3> QED
      BY <1>4, <2>3, <3>1, SetType
  <2>5. ~AllAssociated'
    BY <2>2 DEF AllAssociated
  <2>6. Return(r, b.delay)
    BY <2>1
  <2> HIDE DEF r
  <2> QED
    BY <1>5, <2>3, <2>4, <2>5, <2>6 DEF Never
<1> QED
  BY <1>6, <1>7

\* A minute passes while the operator sleeps with a delayed call ahead.
LEMMA TickStep ==
    ASSUME IInv, Tick
    PROVE  IInv'
<1>1. /\ TypeOK /\ pc = "idle" /\ ~event /\ timer # 0
      /\ timer' = IF timer = Never THEN Never ELSE timer - 1
      /\ upFor' = IF AllUp THEN Min2(upFor + 1, Cap) ELSE 0
      /\ busy' = 0
      /\ UNCHANGED <<up, table, event, pc, marked>>
  BY DEF IInv, Tick, ec2Vars
<1>2. ASSUME NEW k \in {"subnets", "routeTables"}
      PROVE  cond'[k] \in Condition /\ cond'[k].status = cond[k].status
  <2>1. cond[k] \in Condition
    BY <1>1 DEF TypeOK
  <2>2. cond'[k] = [cond[k] EXCEPT !.age = IF cond[k].status = "Unset" THEN 0
                                           ELSE Min2(@ + 1, Cap)]
    BY <1>1, <1>2 DEF Tick, TypeOK
  <2> QED
    BY <2>1, <2>2 DEF Condition, Min2, Cap
<1>3. cond' \in [{"subnets", "routeTables"} -> Condition]
  BY <1>1, <1>2 DEF Tick, TypeOK
<1>4. upFor' \in 0..Cap /\ upFor' <= upFor + 1 /\ timer' \in 0..Never
  BY <1>1 DEF TypeOK, Min2, Cap, Never
<1>5. TypeOK'
  BY <1>1, <1>3, <1>4 DEF TypeOK, MaxBusy
<1>6. RouteTablesTrue' /\ MarkedTrue' /\ AgeCounts'
  BY <1>1, <1>2 DEF IInv, RouteTablesTrue, MarkedTrue, AgeCounts, AllUp, AllAssociated
<1>7. NotNoticedYet'
  <2>1. ASSUME ~Noticed PROVE upFor' + timer' <= 15
    <3>1. upFor + timer <= 15
      BY <1>1, <2>1 DEF IInv, NotNoticedYet
    <3> QED
      BY <1>1, <1>4, <3>1 DEF TypeOK, Never
  <2>2. Noticed' <=> Noticed
    BY <1>2 DEF Noticed
  <2>3. ~Noticed => upFor' <= 15
    BY <1>1, <1>4, <2>1 DEF Cap, Never
  <2> QED
    BY <2>1, <2>2, <2>3, Zenon DEF NotNoticedYet
<1> QED
  BY <1>5, <1>6, <1>7 DEF IInv

\* EC2 and the others: what they change has not been ready for any time.
LEMMA EnvironmentStep ==
    ASSUME IInv,
           \/ SubnetsBecomeAvailable
           \/ \E s \in Subnets : Associates(s)
           \/ OthersUpdate
    PROVE  IInv'
<1>1. CASE SubnetsBecomeAvailable
  <2>1. /\ up' = TRUE /\ busy' = 0 /\ upFor = 0
        /\ UNCHANGED <<table, upFor, cond, event, timer, pc, marked>>
    BY <1>1 DEF IInv, SubnetsBecomeAvailable, AgeCounts, AllUp, TypeOK, Cap
  <2> QED
    BY <2>1 DEF IInv, TypeOK, RouteTablesTrue, MarkedTrue, AgeCounts, AllAssociated,
                NotNoticedYet, Noticed, MaxBusy
<1>2. ASSUME NEW s \in Subnets, Associates(s) PROVE IInv'
  <2>1. /\ table' = [table EXCEPT ![s] = "associated"] /\ busy' = 0
        /\ ~AllAssociated
        /\ UNCHANGED <<up, upFor, cond, event, timer, pc, marked>>
    BY <1>2 DEF Associates, AllAssociated
  <2>2. upFor = 0 /\ cond.routeTables.status # "True"
    BY <2>1 DEF IInv, RouteTablesTrue, AgeCounts, AllUp, AllAssociated, TypeOK, Cap
  <2>3. TypeOK'
    BY <2>1 DEF IInv, TypeOK, MaxBusy
  <2> QED
    BY <2>1, <2>2, <2>3 DEF IInv, RouteTablesTrue, MarkedTrue, AgeCounts,
                            NotNoticedYet, Noticed
<1>3. CASE OthersUpdate
  <2>1. /\ event' = TRUE /\ busy' = 0
        /\ UNCHANGED <<up, table, upFor, cond, timer, pc, marked>>
    BY <1>3 DEF OthersUpdate, ec2Vars
  <2> QED
    BY <2>1 DEF IInv, TypeOK, RouteTablesTrue, MarkedTrue, AgeCounts, AllUp,
                AllAssociated, NotNoticedYet, Noticed, MaxBusy
<1> QED
  BY <1>1, <1>2, <1>3

LEMMA StepIInv == IInv /\ [Next]_vars => IInv'
<1> SUFFICES ASSUME IInv, [Next]_vars PROVE IInv'
  OBVIOUS
<1>1. CASE UNCHANGED vars
  BY <1>1 DEF vars, ec2Vars, IInv, TypeOK, RouteTablesTrue, MarkedTrue, AgeCounts,
              AllUp, AllAssociated, NotNoticedYet, Noticed
<1> QED
  BY <1>1, SubnetsNotAvailableStep, SubnetsAvailableStep, ReconcileRouteTablesStep,
     TickStep, EnvironmentStep DEF Next

LEMMA SpecIInv == Spec => []IInv
<1> QED
  BY InitIInv, StepIInv, PTL DEF Spec

-----------------------------------------------------------------------------
(* Theorems.                                                               *)

\* Every condition is well formed, however reconciles, time and EC2 interleave.
THEOREM TypeCorrect == Spec => []TypeOK
<1>1. IInv => TypeOK
  BY DEF IInv
<1> QED
  BY <1>1, SpecIInv, PTL

\* For any number of subnets, the conditions say that everything is ready at
\* most a quarter of an hour after it is, although the operator sleeps with
\* only a delayed call or its own patch to wake it.
THEOREM IsNoticedInTime == Spec => []NoticedInTime
<1>1. IInv => NoticedInTime
  BY DEF IInv, TypeOK, NotNoticedYet, Noticed, NoticedInTime, Cap
<1> QED
  BY <1>1, SpecIInv, PTL

-----------------------------------------------------------------------------
(* How often the operator runs without anything happening around it.       *)

Severity(c) == IF c.severity = "Info" /\ c.age < 15 THEN "Info" ELSE "Warning"

\* Setting c to False with message m once more does not change it.
Repeats(c, m) == c = Set(c, "False", Severity(c), m)

\* A reconcile that finds c there, and tables in the states t, keeps c.
SaysSo(c, t) ==
    /\ (\A s \in Subnets : t[s] = "associated") => c = MarkTrue(c)
    /\ \A s \in Subnets :
        t[s] # "associated" => Repeats(c, [subnet |-> s, state |-> t[s]])

AtMostOneNotReady == \A r, s \in NotReady : r = s

SomeTableMissing == \E s \in Subnets : table[s] = "none"

\* A delayed call that was due has been taken, and none is asked for at once.
TimerAhead == busy > 0 \/ pc = "tables" => timer # 0

\* Without subnets the first reconcile may change the condition, the second
\* one does not.
RunsWithoutSubnets ==
    ~up => /\ busy <= 2
           /\ busy >= 1 => Repeats(cond.subnets, Nothing)
           /\ busy = 2 => ~event

\* The first reconcile that gets to the route tables creates all of them.
RunsBeforeTables ==
    up /\ SomeTableMissing => busy <= IF pc = "idle" THEN 0 ELSE 1

\* With the tables there, the first reconcile settles RouteTablesReady, the
\* second one SubnetsReady, and the third one changes nothing.
RunsWithTables ==
    up /\ ~SomeTableMissing /\ AtMostOneNotReady =>
        /\ busy <= 3
        /\ pc = "idle" =>
            /\ busy >= 1 => SaysSo(cond.routeTables, table)
            /\ busy >= 2 => SaysSo(cond.subnets, table)
            /\ busy = 3 => ~event
        /\ pc = "tables" =>
            /\ busy >= 2 => SaysSo(cond.routeTables, table) /\ SaysSo(marked, table)
            /\ busy = 3 => marked = cond.subnets /\ ~event

RunsInv ==
    /\ TimerAhead
    /\ RunsWithoutSubnets /\ RunsBeforeTables /\ RunsWithTables

LEMMA SetRepeats ==
    ASSUME NEW c \in Condition, NEW m \in Messages
    PROVE  Repeats(Set(c, "False", Severity(c), m), m)
<1> DEFINE new == [status |-> "False", severity |-> Severity(c), message |-> m,
                   age |-> c.age]
           d == Set(c, "False", Severity(c), m)
<1>1. CASE new = c
  BY <1>1 DEF Set, Repeats
<1>2. CASE new # c
  <2>1. d = [status |-> "False", severity |-> Severity(c), message |-> m, age |-> 0]
    BY <1>2 DEF Set
  <2>2. Severity(d) = Severity(c)
    BY <2>1 DEF Severity
  <2> QED
    BY <2>1, <2>2 DEF Set, Repeats
<1> QED
  BY <1>1, <1>2

LEMMA MarkTrueRepeats ==
    ASSUME NEW c \in Condition
    PROVE  MarkTrue(MarkTrue(c)) = MarkTrue(c)
BY DEF MarkTrue, Set

LEMMA BackoffSeverity ==
    ASSUME NEW c \in Condition
    PROVE  Backoff(c).severity = Severity(c)
BY DEF Backoff, Severity, Condition, Cap

LEMMA TakeAhead ==
    ASSUME TypeOK, Take
    PROVE  Remaining \in 1..Never /\ busy' = (IF busy = 5 THEN 5 ELSE busy + 1)
BY DEF TypeOK, Take, Remaining, Min2, Never, MaxBusy

\* Nothing has run since the environment acted.
LEMMA EnvironmentResets ==
    ASSUME IInv, RunsInv, busy' = 0, pc' = pc,
           pc = "tables" => timer' = timer
    PROVE  RunsInv'
BY DEF IInv, TypeOK, RunsInv, TimerAhead, RunsWithoutSubnets, RunsBeforeTables,
       RunsWithTables

LEMMA SubnetsNotAvailableRuns ==
    ASSUME IInv, RunsInv, SubnetsNotAvailable
    PROVE  RunsInv'
<1> DEFINE b == Backoff(cond.subnets)
           c == Set(cond.subnets, "False", b.severity, Nothing)
<1>1. /\ TypeOK /\ Take /\ ~up /\ UNCHANGED <<up, table, upFor, pc, marked>>
      /\ cond' = [cond EXCEPT !.subnets = c]
      /\ event' = (c # cond.subnets)
      /\ timer' = Min2(Remaining, b.delay)
  BY DEF IInv, SubnetsNotAvailable, Take, ec2Vars
<1>2. cond.subnets \in Condition /\ Nothing \in Messages
  BY <1>1 DEF TypeOK, Messages
<1>3. b.severity = Severity(cond.subnets) /\ b.delay \in 1..15
  BY <1>2, BackoffBound, BackoffSeverity
<1>4. Repeats(c, Nothing)
  BY <1>2, <1>3, SetRepeats
<1>5. cond'.subnets = c
  BY <1>1 DEF TypeOK
<1>6. busy >= 1 => ~event'
  BY <1>1, <1>3 DEF RunsInv, RunsWithoutSubnets, Repeats
<1> HIDE DEF b, c
<1>7. timer' # 0
  BY <1>1, <1>3, TakeAhead DEF Min2, Never
<1>8. busy \in 0..1 /\ busy' = busy + 1
  <2>1. timer # 0 \/ busy = 0
    BY <1>1 DEF RunsInv, TimerAhead, TypeOK, MaxBusy
  <2>2. event \/ busy = 0
    BY <1>1, <2>1 DEF Take
  <2>3. busy # 2 /\ busy <= 2
    BY <1>1, <2>2 DEF RunsInv, RunsWithoutSubnets
  <2> QED
    BY <1>1, <2>3, TakeAhead DEF TypeOK, MaxBusy
<1> QED
  BY <1>1, <1>4, <1>5, <1>6, <1>7, <1>8
     DEF RunsInv, TimerAhead, RunsWithoutSubnets, RunsBeforeTables, RunsWithTables

LEMMA SubnetsAvailableRuns ==
    ASSUME IInv, RunsInv, SubnetsAvailable
    PROVE  RunsInv'
<1>1. /\ TypeOK /\ Take /\ up /\ MarkSubnets
      /\ UNCHANGED <<up, table, upFor, cond>>
      /\ event' = FALSE /\ timer' = Remaining /\ pc = "idle" /\ pc' = "tables"
  BY DEF IInv, SubnetsAvailable, Take, ec2Vars
<1>2. cond.subnets \in Condition
  BY <1>1 DEF TypeOK
<1>3. timer' # 0
  BY <1>1, TakeAhead DEF Never
<1>4. event \/ busy = 0
  BY <1>1 DEF Take, RunsInv, TimerAhead, TypeOK, MaxBusy
<1>5. NotReady' = NotReady /\ SomeTableMissing' = SomeTableMissing
  BY <1>1 DEF NotReady, SomeTableMissing
<1>6. CASE SomeTableMissing
  <2>1. busy = 0 /\ busy' = 1
    BY <1>1, <1>6, TakeAhead DEF RunsInv, RunsBeforeTables, TypeOK, MaxBusy
  <2> QED
    BY <1>1, <1>3, <1>5, <1>6, <2>1
       DEF RunsInv, TimerAhead, RunsWithoutSubnets, RunsBeforeTables, RunsWithTables
<1>7. CASE ~SomeTableMissing /\ AtMostOneNotReady
  <2>1. SaysSo(marked', table')
    <3>1. CASE NotReady = {} /\ marked' = MarkTrue(cond.subnets)
      BY <1>2, <1>5, <3>1, MarkTrueRepeats DEF SaysSo, NotReady
    <3>2. ASSUME NEW s \in NotReady,
                 marked' = Set(cond.subnets, "False", Severity(cond.subnets),
                               [subnet |-> s, state |-> table[s]])
          PROVE  SaysSo(marked', table')
      <4>1. s \in Subnets /\ table[s] \in NotReadyStates
        BY <1>1, <3>2 DEF NotReady, TypeOK
      <4>2. Repeats(marked', [subnet |-> s, state |-> table[s]])
        BY <1>2, <3>2, <4>1, SetRepeats, TableMessage
      <4>3. \A r \in NotReady : r = s
        BY <1>7, <3>2 DEF AtMostOneNotReady
      <4> QED
        BY <1>1, <1>5, <3>2, <4>2, <4>3 DEF SaysSo, NotReady
    <3> QED
      BY <1>1, <3>1, <3>2 DEF MarkSubnets, Severity
  <2>2. SaysSo(cond.subnets, table) => marked' = cond.subnets
    <3>1. CASE NotReady = {} /\ marked' = MarkTrue(cond.subnets)
      BY <3>1 DEF SaysSo, NotReady
    <3>2. ASSUME NEW s \in NotReady,
                 marked' = Set(cond.subnets, "False", Severity(cond.subnets),
                               [subnet |-> s, state |-> table[s]])
          PROVE  SaysSo(cond.subnets, table) => marked' = cond.subnets
      BY <3>2 DEF SaysSo, Repeats, NotReady
    <3> QED
      BY <1>1, <3>1, <3>2 DEF MarkSubnets, Severity
  <2>3. busy \in 0..2 /\ busy' = busy + 1
    <3>1. busy # 3 /\ busy <= 3
      BY <1>1, <1>4, <1>7 DEF RunsInv, RunsWithTables
    <3> QED
      BY <1>1, <3>1, TakeAhead DEF TypeOK, MaxBusy
  <2>4. busy >= 1 => SaysSo(cond'.routeTables, table')
    BY <1>1, <1>5, <1>7 DEF RunsInv, RunsWithTables, SaysSo
  <2>5. busy >= 2 => marked' = cond'.subnets
    BY <1>1, <1>7, <2>2 DEF RunsInv, RunsWithTables
  <2>6. RunsWithTables'
    BY <1>1, <2>1, <2>3, <2>4, <2>5 DEF RunsWithTables
  <2> QED
    BY <1>1, <1>3, <1>5, <1>7, <2>6
       DEF RunsInv, TimerAhead, RunsWithoutSubnets, RunsBeforeTables
<1>8. CASE ~SomeTableMissing /\ ~AtMostOneNotReady
  BY <1>1, <1>3, <1>5, <1>8
     DEF RunsInv, TimerAhead, RunsWithoutSubnets, RunsBeforeTables, RunsWithTables,
         AtMostOneNotReady
<1> QED
  BY <1>6, <1>7, <1>8

LEMMA ReconcileRouteTablesRuns ==
    ASSUME IInv, RunsInv, ReconcileRouteTables
    PROVE  RunsInv'
<1> DEFINE created == {s \in Subnets : table[s] = "none"}
           notReady == {s \in Subnets : table'[s] # "associated"}
<1>1. /\ TypeOK /\ pc = "tables" /\ up
      /\ table' \in [Subnets -> {"associating", "associated"}]
      /\ \A s \in Subnets \ created : table'[s] = table[s]
      /\ UNCHANGED <<up, upFor, busy>>
  BY DEF IInv, ReconcileRouteTables, MarkedTrue
<1>2. cond.routeTables \in Condition /\ NotReady' = notReady /\ ~SomeTableMissing'
  BY <1>1 DEF TypeOK, NotReady, SomeTableMissing
<1>3. timer # 0 /\ timer \in 0..16
  BY <1>1 DEF RunsInv, TimerAhead, TypeOK, Never
<1>4. ~SomeTableMissing => table' = table
  BY <1>1 DEF SomeTableMissing, TypeOK
<1>5. ASSUME NEW r, NEW delay \in 1..16, Return(r, delay),
             AtMostOneNotReady' => SaysSo(r, table'),
             ~SomeTableMissing /\ AtMostOneNotReady /\ SaysSo(cond.routeTables, table)
                => r = cond.routeTables
      PROVE  RunsInv'
  <2>1. /\ cond' = [subnets |-> marked, routeTables |-> r]
        /\ event' = (event \/ cond' # cond)
        /\ timer' = Min2(timer, delay)
        /\ pc' = "idle"
    BY <1>5 DEF Return
  <2>2. timer' # 0
    BY <1>3, <1>5, <2>1 DEF Min2
  <2>3. cond'.subnets = marked /\ cond'.routeTables = r
    BY <2>1
  <2>4. CASE SomeTableMissing
    <3>1. busy <= 1
      BY <1>1, <2>4 DEF RunsInv, RunsBeforeTables
    <3> QED
      BY <1>1, <1>2, <1>5, <2>1, <2>2, <2>3, <3>1
         DEF RunsInv, TimerAhead, RunsWithoutSubnets, RunsBeforeTables, RunsWithTables,
             TypeOK, MaxBusy, SaysSo
  <2>5. CASE ~SomeTableMissing /\ AtMostOneNotReady
    <3>1. table' = table
      BY <1>4, <2>5
    <3>2. /\ busy <= 3
          /\ busy >= 2 => SaysSo(cond.routeTables, table) /\ SaysSo(marked, table)
          /\ busy = 3 => marked = cond.subnets /\ ~event
      BY <1>1, <2>5 DEF RunsInv, RunsWithTables
    <3>3. busy = 3 => cond' = cond
      <4>1. cond = [subnets |-> cond.subnets, routeTables |-> cond.routeTables]
        BY <1>1 DEF TypeOK
      <4> QED
        BY <1>1, <1>5, <2>1, <2>5, <3>2, <4>1 DEF TypeOK, MaxBusy
    <3>4. AtMostOneNotReady' /\ (busy >= 2 => SaysSo(cond'.subnets, table'))
      BY <2>3, <2>5, <3>1, <3>2 DEF AtMostOneNotReady, SaysSo, NotReady
    <3>5. SaysSo(cond'.routeTables, table')
      BY <1>5, <2>3, <3>4 DEF SaysSo
    <3>6. RunsWithTables'
      BY <1>1, <2>1, <3>2, <3>3, <3>4, <3>5 DEF RunsWithTables
    <3> QED
      BY <1>1, <1>2, <2>2, <3>6 DEF RunsInv, TimerAhead, RunsWithoutSubnets, RunsBeforeTables
  <2>6. CASE ~SomeTableMissing /\ ~AtMostOneNotReady
    <3>1. ~AtMostOneNotReady'
      BY <1>4, <2>6 DEF AtMostOneNotReady, NotReady
    <3> QED
      BY <1>1, <1>2, <2>2, <3>1
         DEF RunsInv, TimerAhead, RunsWithoutSubnets, RunsBeforeTables, RunsWithTables
  <2> QED
    BY <2>4, <2>5, <2>6
<1>6. CASE notReady = {}
  <2> DEFINE r == MarkTrue(cond.routeTables)
  <2>1. Return(r, Never)
    BY <1>6 DEF ReconcileRouteTables
  <2>2. SaysSo(r, table')
    BY <1>2, <1>6, MarkTrueRepeats DEF SaysSo
  <2>3. ~SomeTableMissing /\ SaysSo(cond.routeTables, table) => r = cond.routeTables
    BY <1>4, <1>6 DEF SaysSo, NotReady
  <2> HIDE DEF r
  <2> QED
    BY <1>5, <2>1, <2>2, <2>3 DEF Never
<1>7. CASE notReady # {}
  <2> DEFINE b == Backoff(cond.routeTables)
  <2>1. PICK s \in Named(created, notReady) :
          Return(Set(cond.routeTables, "False", b.severity,
                     [subnet |-> s, state |-> table'[s]]), b.delay)
    BY <1>7 DEF ReconcileRouteTables
  <2>2. s \in notReady /\ s \in Subnets /\ table'[s] = "associating"
    <3>1. s \in notReady
      BY <2>1 DEF Named
    <3> QED
      BY <1>1, <3>1
  <2>3. b.severity = Severity(cond.routeTables) /\ b.delay \in 1..15
    BY <1>2, BackoffBound, BackoffSeverity
  <2> HIDE DEF b
  <2> DEFINE m == [subnet |-> s, state |-> table'[s]]
             r == Set(cond.routeTables, "False", Severity(cond.routeTables), m)
  <2>4. Repeats(r, m)
    BY <1>2, <2>2, SetRepeats, TableMessage DEF NotReadyStates
  <2>5. AtMostOneNotReady' => SaysSo(r, table')
    <3>1. AtMostOneNotReady' => \A q \in notReady : q = s
      BY <1>2, <2>2 DEF AtMostOneNotReady
    <3>2. (\A q \in notReady : q = s) => SaysSo(r, table')
      BY <1>2, <1>7, <2>4 DEF SaysSo, Repeats
    <3> QED
      BY <3>1, <3>2
  <2>6. ~SomeTableMissing /\ SaysSo(cond.routeTables, table) => r = cond.routeTables
    BY <1>4, <2>2 DEF SaysSo, Repeats, NotReady
  <2>7. Return(r, b.delay) /\ b.delay \in 1..16
    BY <2>1, <2>3
  <2> HIDE DEF r
  <2> QED
    BY <1>5, <2>5, <2>6, <2>7
<1> QED
  BY <1>6, <1>7

LEMMA StepRuns == IInv /\ RunsInv /\ [Next]_vars => RunsInv'
<1> SUFFICES ASSUME IInv, RunsInv, [Next]_vars PROVE RunsInv'
  OBVIOUS
<1>1. CASE Tick
  BY <1>1, EnvironmentResets DEF Tick
<1>2. CASE SubnetsBecomeAvailable \/ OthersUpdate
  BY <1>2, EnvironmentResets DEF SubnetsBecomeAvailable, OthersUpdate
<1>3. CASE \E s \in Subnets : Associates(s)
  BY <1>3, EnvironmentResets DEF Associates
<1>4. CASE UNCHANGED vars
  BY <1>4 DEF vars, ec2Vars, RunsInv, TimerAhead, RunsWithoutSubnets, RunsBeforeTables,
              RunsWithTables, SomeTableMissing, AtMostOneNotReady, NotReady, SaysSo
<1> QED
  BY <1>1, <1>2, <1>3, <1>4, SubnetsNotAvailableRuns, SubnetsAvailableRuns,
     ReconcileRouteTablesRuns DEF Next

LEMMA SpecRuns == Spec => []RunsInv
<1>1. Init => RunsInv
  BY DEF Init, RunsInv, TimerAhead, RunsWithoutSubnets, RunsBeforeTables, RunsWithTables
<1> QED
  BY <1>1, SpecIInv, StepRuns, PTL DEF Spec

\* For any number of subnets the operator comes to rest by itself: after the
\* last change from outside it runs three times at most, whatever conditions it
\* found and wherever in a reconcile the change came, unless more than one
\* table is not ready.
THEOREM RunsAtMostThreeTimes == Spec => []WaitsInBetween
<1>1. IInv /\ RunsInv => WaitsInBetween
  <2> SUFFICES ASSUME IInv, RunsInv PROVE WaitsInBetween
    OBVIOUS
  <2>1. CASE AtMostOneNotReady
    BY <2>1 DEF IInv, TypeOK, RunsInv, RunsWithoutSubnets, RunsBeforeTables,
                RunsWithTables, WaitsInBetween, MaxBusy
  <2>2. CASE ~AtMostOneNotReady
    <3>1. PICK r \in NotReady, s \in NotReady : r # s
      BY <2>2 DEF AtMostOneNotReady
    <3>2. IsFiniteSet(NotReady)
      <4>1. NotReady \subseteq 1..NumSubnets
        BY DEF NotReady, Subnets
      <4>2. IsFiniteSet(1..NumSubnets)
        BY ConstantsAssumption, FS_Interval
      <4> QED
        BY <4>1, <4>2, FS_Subset
    <3>3. Cardinality({r, s}) = 2
      <4>1. IsFiniteSet({s}) /\ Cardinality({s}) = 1
        BY FS_Singleton
      <4>2. Cardinality({s} \cup {r}) = Cardinality({s}) + 1
        BY <3>1, <4>1, FS_AddElement
      <4>3. {s} \cup {r} = {r, s}
        OBVIOUS
      <4> QED
        BY <4>1, <4>2, <4>3
    <3>4. Cardinality({r, s}) <= Cardinality(NotReady)
      BY <3>1, <3>2, FS_Subset
    <3>5. Cardinality(NotReady) \in Nat
      BY <3>2, FS_CardinalityType
    <3> QED
      BY <3>3, <3>4, <3>5 DEF WaitsInBetween
  <2> QED
    BY <2>1, <2>2
<1> QED
  BY <1>1, SpecIInv, SpecRuns, PTL
=============================================================================
