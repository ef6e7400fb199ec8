------------------------ MODULE BudgetEngine_proofs ------------------------
(***************************************************************************)
(* Proofs about BudgetEngine, for every set of requests and policies, any  *)
(* number of periods and requests inside the check at a time, and a        *)
(* database that may fail at any statement.                                *)
(*                                                                         *)
(* The books are proved from where each request is (PlaceInv), what the    *)
(* holder of SQLite's write lock has inserted (FreshInv) and which rows a  *)
(* request can rely on (RowInv).  The bound on the overshoot adds up the   *)
(* estimates of the requests that have passed a policy and not yet         *)
(* reserved (LooseInv).                                                    *)
(***************************************************************************)
EXTENDS BudgetEngine, SumTheorems

-----------------------------------------------------------------------------
(* The inductive invariants.                                               *)

PlaceInv ==
    \A r \in Requests :
        /\ pc[r] = "idle" => idx[r] = 1
        /\ pc[r] \in {"select", "sum", "insert"} => idx[r] \in 1..Len(Match[r])
        /\ pc[r] = "reserve" => idx[r] = Len(Match[r]) + 1
        /\ holds[r] => pc[r] \in {"forward", "reconcile", "log", "done", "failed"}
        /\ settled[r] => holds[r] /\ pc[r] \in {"log", "done"}
        /\ lock = r => pc[r] \in Checking

\* The rows inserted and not committed belong to the holder of the lock, are
\* not in the committed table, and leave room for its estimate.
FreshInv ==
    \A p \in Policies :
        fresh[p] # NoRow =>
            /\ lock \in Requests
            /\ p \in PolicySet(lock)
            /\ counter[p][since[lock]] = NoRow
            /\ fresh[p] + Est[lock] <= Limit[p]

\* The policies that r has found within their limits.
Passed(r) == {Match[r][i] : i \in 1..(idx[r] - 1)}

\* A request sees a row for every policy it has passed, and a reservation
\* has a row for each of its policies.
RowInv ==
    \A r \in Requests :
        /\ pc[r] \in Checking => \A p \in Passed(r) : RowSeen(r, p) # NoRow
        /\ holds[r] => \A p \in PolicySet(r) : counter[p][since[r]] # NoRow

BooksInv == TypeOK /\ PlaceInv /\ FreshInv /\ RowInv /\ BooksBalance

\* The policies that r may add its estimate to without looking again.
Owed(r) ==
    Passed(r) \cup (IF pc[r] \in {"sum", "insert"} THEN {Policy(r)} ELSE {})

Loose(p, k) ==
    {r \in Requests : pc[r] \in Checking /\ since[r] = k /\ p \in Owed(r)}

InCheck == {r \in Requests : pc[r] \in Checking}

CrowdInv == Cardinality(InCheck) <= Overlap

CostInv == \A r \in Requests : cost[r] <= Est[r]

\* What the counter would be if all of them reserved.
LooseInv ==
    \A p \in Policies, k \in Periods :
        counter[p][k] # NoRow =>
            counter[p][k] + SumFunctionOnSet(Est, Loose(p, k))
                <= Limit[p] + (Overlap - 1) * MaxEst

OverInv == BooksInv /\ CrowdInv /\ CostInv /\ LooseInv

-----------------------------------------------------------------------------
(* Types and places.                                                       *)

\* The policy under check is a policy.
LEMMA PolicyType ==
    ASSUME TypeOK, PlaceInv, NEW r \in Requests,
           pc[r] \in {"select", "sum", "insert"}
    PROVE  Policy(r) \in Policies /\ Policy(r) \in PolicySet(r)
<1>1. Match[r] \in Seq(Policies) /\ idx[r] \in 1..Len(Match[r])
  BY MatchAssumption DEF PlaceInv
<1>. QED
  BY <1>1 DEF Policy, PolicySet

\* What a connection reads is an amount, or there is no row.
LEMMA RowType ==
    ASSUME TypeOK, NEW r \in Requests, NEW p \in Policies
    PROVE  RowSeen(r, p) \in Int \cup {NoRow}
BY DEF TypeOK, Tables, RowSeen

\* The UPDATEs of a reservation or a correction, row by row.
LEMMA BumpAt ==
    ASSUME TypeOK, NEW r \in Requests, NEW amount \in Int
    PROVE  /\ Bump(r, amount) \in Tables
           /\ \A p \in Policies, k \in Periods :
                 Bump(r, amount)[p][k] =
                    IF p \in PolicySet(r) /\ k = since[r]
                    THEN Bumped(RowSeen(r, p), amount) ELSE counter[p][k]
<1>1. \A p \in Policies : Bumped(RowSeen(r, p), amount) \in Int \cup {NoRow}
  BY RowType DEF Bumped
<1>2. counter \in Tables /\ since[r] \in Periods
  BY DEF TypeOK
<1>. QED
  BY <1>1, <1>2 DEF Bump, Tables

\* Release() leaves the lock to nobody, or as it was.
LEMMA ReleaseType ==
    ASSUME TypeOK, NEW r \in Requests, Release(r)
    PROVE  /\ lock' \in Requests \cup {NoRequest}
           /\ fresh' \in [Policies -> Nat \cup {NoRow}]
           /\ lock' # r
           /\ \A q \in Requests : lock' = q => lock = q
BY NoRequestAssumption DEF TypeOK, Release, NoneFresh

\* The initial state has its types, and every request is at its start.
LEMMA InitTypes == Init => TypeOK /\ PlaceInv
<1>. SUFFICES ASSUME Init PROVE TypeOK /\ PlaceInv
  OBVIOUS
<1>1. 0 \in Periods
  BY MaxPeriodAssumption DEF Periods
<1>2. TypeOK
  BY <1>1 DEF Init, TypeOK, Tables, PcValues
<1>3. PlaceInv
  BY NoRequestAssumption DEF Init, PlaceInv
<1>. QED
  BY <1>2, <1>3

\* Steps of check_and_reserve() keep the types.
LEMMA CheckTypes ==
    ASSUME TypeOK, PlaceInv, NEW r \in Requests,
           \/ Begin(r) \/ SelectCounter(r) \/ SelectMissing(r)
           \/ CalculateInitialSpend(r) \/ InsertCounter(r) \/ Reserve(r)
           \/ CheckRaises(r)
    PROVE  TypeOK'
<1>1. CASE Begin(r)
  BY <1>1 DEF TypeOK, Begin, Goto, PcValues
<1>2. CASE SelectCounter(r)
  <2>1. UNCHANGED <<period, counter, recorded, since, spent, cost, holds, settled, seed>>
    BY <1>2 DEF SelectCounter
  <2>2. CASE NextPolicy(r) /\ UNCHANGED <<lock, fresh>>
    BY <2>1, <2>2 DEF TypeOK, NextPolicy, Goto, PcValues
  <2>3. CASE Goto(r, "refused") /\ Release(r) /\ UNCHANGED idx
    BY <2>1, <2>3, ReleaseType DEF TypeOK, Goto, PcValues
  <2>. QED
    BY <1>2, <2>2, <2>3 DEF SelectCounter
<1>3. CASE SelectMissing(r)
  BY <1>3 DEF TypeOK, SelectMissing, Goto, PcValues, locals
<1>4. CASE CalculateInitialSpend(r)
  <2>1. recorded[Policy(r)][since[r]] \in Nat
    BY <1>4, PolicyType DEF TypeOK, CalculateInitialSpend
  <2>2. PICK v \in Nat : spent' = [spent EXCEPT ![r] = v]
    BY <1>4, <2>1 DEF CalculateInitialSpend
  <2>3. spent' \in [Requests -> Nat]
    BY <2>2 DEF TypeOK
  <2>. QED
    BY <1>4, <2>3 DEF TypeOK, CalculateInitialSpend, Goto, PcValues
<1>5. CASE InsertCounter(r)
  <2>0. Policy(r) \in Policies
    BY <1>5, PolicyType DEF InsertCounter
  <2>1. UNCHANGED <<period, counter, recorded, since, spent, cost, holds, settled, seed>>
    BY <1>5 DEF InsertCounter
  <2>2. CASE /\ lock' = r /\ NextPolicy(r)
             /\ fresh' \in {fresh, [fresh EXCEPT ![Policy(r)] = spent[r]]}
    <3>1. fresh' \in [Policies -> Nat \cup {NoRow}]
      BY <2>0, <2>2 DEF TypeOK
    <3>2. idx' \in [Requests -> Nat] /\ pc' \in [Requests -> PcValues]
      BY <2>2 DEF TypeOK, NextPolicy, Goto, PcValues
    <3>. QED
      BY <2>1, <2>2, <3>1, <3>2 DEF TypeOK
  <2>3. CASE Release(r) /\ Goto(r, "refused") /\ UNCHANGED idx
    BY <2>1, <2>3, ReleaseType DEF TypeOK, Goto, PcValues
  <2>. QED
    BY <1>5, <2>2, <2>3 DEF InsertCounter
<1>6. CASE Reserve(r)
  <2>1. counter' \in Tables
    BY <1>6, BumpAt, EstAssumption DEF Reserve
  <2>2. seed' \in [Policies -> [Periods -> Nat]]
    BY <1>6 DEF TypeOK, Reserve
  <2>. QED
    BY <1>6, <2>1, <2>2 DEF TypeOK, Reserve, Goto, PcValues, NoneFresh, locals
<1>7. CASE CheckRaises(r)
  BY <1>7, ReleaseType DEF TypeOK, CheckRaises, Goto, PcValues, locals
<1>. QED
  BY <1>1, <1>2, <1>3, <1>4, <1>5, <1>6, <1>7

\* The upstream call, reconcile() and the log keep the types.
LEMMA AnswerTypes ==
    ASSUME TypeOK, NEW r \in Requests,
           \/ UpstreamAnswers(r) \/ UpstreamRaises(r) \/ Reconcile(r)
           \/ ReconcileRaises(r) \/ LogRow(r)
    PROVE  TypeOK'
<1>1. CASE UpstreamAnswers(r)
  <2>1. PICK c \in Nat : cost' = [cost EXCEPT ![r] = c]
    BY <1>1, ActualsAssumption DEF UpstreamAnswers
  <2>2. cost' \in [Requests -> Nat]
    BY <2>1 DEF TypeOK
  <2>. QED
    BY <1>1, <2>2 DEF TypeOK, UpstreamAnswers, Goto, PcValues
<1>2. CASE UpstreamRaises(r)
  BY <1>2 DEF TypeOK, UpstreamRaises, Goto, PcValues, locals
<1>3. CASE Reconcile(r)
  <2>1. cost[r] - Est[r] \in Int
    BY EstAssumption DEF TypeOK
  <2>2. counter' \in Tables
    BY <1>3, <2>1, BumpAt DEF TypeOK, Reconcile
  <2>. QED
    BY <1>3, <2>2 DEF TypeOK, Reconcile, Goto, PcValues, locals
<1>4. CASE ReconcileRaises(r)
  BY <1>4 DEF TypeOK, ReconcileRaises, Goto, PcValues, locals
<1>5. CASE LogRow(r)
  <2>1. recorded' \in [Policies -> [Periods -> Nat]]
    BY <1>5 DEF TypeOK, LogRow
  <2>. QED
    BY <1>5, <2>1 DEF TypeOK, LogRow, Goto, PcValues, locals
<1>. QED
  BY <1>1, <1>2, <1>3, <1>4, <1>5

\* The place of one request.
PlaceOf(r) ==
    /\ pc[r] = "idle" => idx[r] = 1
    /\ pc[r] \in {"select", "sum", "insert"} => idx[r] \in 1..Len(Match[r])
    /\ pc[r] = "reserve" => idx[r] = Len(Match[r]) + 1
    /\ holds[r] => pc[r] \in {"forward", "reconcile", "log", "done", "failed"}
    /\ settled[r] => holds[r] /\ pc[r] \in {"log", "done"}
    /\ lock = r => pc[r] \in Checking

\* A step of r moves only r.
LEMMA PlaceByPlace ==
    ASSUME PlaceInv, NEW r \in Requests, PlaceOf(r)',
           \A q \in Requests : q # r =>
               /\ pc'[q] = pc[q] /\ idx'[q] = idx[q]
               /\ holds'[q] = holds[q] /\ settled'[q] = settled[q]
               /\ lock' = q => lock = q
    PROVE  PlaceInv'
<1>. SUFFICES ASSUME NEW q \in Requests PROVE PlaceOf(q)'
  BY DEF PlaceInv, PlaceOf
<1>1. CASE q = r
  BY <1>1
<1>2. CASE q # r
  BY <1>2 DEF PlaceInv, PlaceOf
<1>. QED
  BY <1>1, <1>2

\* Going on to the next policy ends in the reservation.
LEMMA NextPolicyPlace ==
    ASSUME TypeOK, PlaceInv, NEW r \in Requests, NextPolicy(r),
           pc[r] \in {"select", "insert"}, UNCHANGED <<holds, settled>>,
           lock' \in {lock, r}
    PROVE  PlaceInv'
<1>1. Len(Match[r]) \in Nat /\ idx[r] \in 1..Len(Match[r]) /\ ~holds[r] /\ ~settled[r]
  BY MatchAssumption DEF PlaceInv
<1>2. idx'[r] = idx[r] + 1 /\ pc'[r] = IF idx[r] = Len(Match[r]) THEN "reserve" ELSE "select"
  BY DEF TypeOK, NextPolicy, Goto
<1>3. PlaceOf(r)'
  BY <1>1, <1>2 DEF PlaceOf, Checking
<1>4. \A q \in Requests : q # r => pc'[q] = pc[q] /\ idx'[q] = idx[q]
  BY DEF TypeOK, NextPolicy, Goto
<1>. QED
  BY <1>3, <1>4, PlaceByPlace

\* Steps of check_and_reserve() keep every request in its place.
LEMMA CheckPlaces ==
    ASSUME TypeOK, PlaceInv, NEW r \in Requests,
           \/ Begin(r) \/ SelectCounter(r) \/ SelectMissing(r)
           \/ CalculateInitialSpend(r) \/ InsertCounter(r) \/ Reserve(r)
           \/ CheckRaises(r)
    PROVE  PlaceInv'
<1>0. Match[r] \in Seq(Policies) /\ Len(Match[r]) \in Nat
  BY MatchAssumption
<1>1. CASE Begin(r)
  <2>1. idx[r] = 1 /\ ~holds[r] /\ ~settled[r] /\ lock # r
    BY <1>1 DEF PlaceInv, Begin, Checking
  <2>2. Match[r] # <<>> => 1 \in 1..Len(Match[r])
    BY <1>0
  <2>3. UNCHANGED <<idx, holds, settled, lock>>
    BY <1>1 DEF Begin
  <2>4. /\ pc'[r] \in {"forward", "unpriced", "select"}
        /\ pc'[r] = "select" => Match[r] # <<>>
        /\ \A q \in Requests : q # r => pc'[q] = pc[q]
    BY <1>1 DEF TypeOK, Begin, Goto
  <2>5. PlaceOf(r)'
    BY <2>1, <2>2, <2>3, <2>4 DEF PlaceOf, Checking
  <2>. QED
    BY <2>3, <2>4, <2>5, PlaceByPlace
<1>2. CASE SelectCounter(r)
  <2>1. UNCHANGED <<holds, settled>> /\ pc[r] = "select"
    BY <1>2 DEF SelectCounter
  <2>2. CASE NextPolicy(r) /\ UNCHANGED <<lock, fresh>>
    BY <2>1, <2>2, NextPolicyPlace
  <2>3. CASE Goto(r, "refused") /\ Release(r) /\ UNCHANGED idx
    BY <2>1, <2>3, ReleaseType DEF TypeOK, PlaceInv, Goto, Checking
  <2>. QED
    BY <1>2, <2>2, <2>3 DEF SelectCounter
<1>3. CASE SelectMissing(r)
  BY <1>3 DEF TypeOK, PlaceInv, SelectMissing, Goto, Checking, locals
<1>4. CASE CalculateInitialSpend(r)
  BY <1>4 DEF TypeOK, PlaceInv, CalculateInitialSpend, Goto, Checking
<1>5. CASE InsertCounter(r)
  <2>1. UNCHANGED <<holds, settled>> /\ pc[r] = "insert"
    BY <1>5 DEF InsertCounter
  <2>2. CASE lock' = r /\ NextPolicy(r)
    BY <2>1, <2>2, NextPolicyPlace
  <2>3. CASE Release(r) /\ Goto(r, "refused") /\ UNCHANGED idx
    BY <2>1, <2>3, ReleaseType DEF TypeOK, PlaceInv, Goto, Checking
  <2>. QED
    BY <1>5, <2>2, <2>3 DEF InsertCounter
<1>6. CASE Reserve(r)
  BY <1>6, NoRequestAssumption DEF TypeOK, PlaceInv, Reserve, Goto, Checking, locals
<1>7. CASE CheckRaises(r)
  BY <1>7, ReleaseType DEF TypeOK, PlaceInv, CheckRaises, Goto, Checking, locals
<1>. QED
  BY <1>1, <1>2, <1>3, <1>4, <1>5, <1>6, <1>7

\* The upstream call, reconcile() and the log keep every request in its place.
LEMMA AnswerPlaces ==
    ASSUME TypeOK, PlaceInv, NEW r \in Requests,
           \/ UpstreamAnswers(r) \/ UpstreamRaises(r) \/ Reconcile(r)
           \/ ReconcileRaises(r) \/ LogRow(r)
    PROVE  PlaceInv'
<1>1. CASE UpstreamAnswers(r)
  BY <1>1 DEF TypeOK, PlaceInv, UpstreamAnswers, Goto, Checking
<1>2. CASE UpstreamRaises(r)
  BY <1>2 DEF TypeOK, PlaceInv, UpstreamRaises, Goto, Checking, locals
<1>3. CASE Reconcile(r)
  BY <1>3 DEF TypeOK, PlaceInv, Reconcile, Goto, Checking, locals
<1>4. CASE ReconcileRaises(r)
  BY <1>4 DEF TypeOK, PlaceInv, ReconcileRaises, Goto, Checking, locals
<1>5. CASE LogRow(r)
  BY <1>5 DEF TypeOK, PlaceInv, LogRow, Goto, Checking, locals
<1>. QED
  BY <1>1, <1>2, <1>3, <1>4, <1>5

\* Every step keeps the types and the places.
LEMMA NextTypes == TypeOK /\ PlaceInv /\ [Next]_vars => TypeOK' /\ PlaceInv'
<1>. SUFFICES ASSUME TypeOK, PlaceInv, [Next]_vars PROVE TypeOK' /\ PlaceInv'
  OBVIOUS
<1>1. CASE \E r \in Requests : Step(r)
  BY <1>1, CheckTypes, AnswerTypes, CheckPlaces, AnswerPlaces DEF Step
<1>2. CASE NewPeriod
  BY <1>2, MaxPeriodAssumption DEF NewPeriod, TypeOK, PlaceInv, Periods, Checking, locals
<1>3. CASE UNCHANGED vars
  BY <1>3 DEF vars, TypeOK, PlaceInv, Checking
<1>. QED
  BY <1>1, <1>2, <1>3 DEF Next

\* Type correctness of the budget engine, whatever fails and interleaves.
THEOREM BudgetTypes == Spec => []TypeOK
BY InitTypes, NextTypes, PTL DEF Spec

\* A refused request leaves nothing behind: neither a reservation nor the
\* write lock nor, with it, an uncommitted row (check_and_reserve()'s early
\* returns close the connection).
THEOREM RefusedClean == Spec => []RefusedLeavesNothing
<1>1. TypeOK /\ PlaceInv => RefusedLeavesNothing
  BY DEF PlaceInv, RefusedLeavesNothing, Checking
<1>. QED
  BY <1>1, InitTypes, NextTypes, PTL DEF Spec

-----------------------------------------------------------------------------
(* Rows: what a step of one request leaves to the others.                  *)

\* A step of r leaves the progress of every other request, its lock and its
\* uncommitted rows alone, and no committed row disappears.
LEMMA StepFrame ==
    ASSUME TypeOK, PlaceInv, NEW r \in Requests, Step(r)
    PROVE  /\ \A q \in Requests : q # r =>
                /\ pc'[q] = pc[q] /\ idx'[q] = idx[q] /\ since'[q] = since[q]
                /\ holds'[q] = holds[q] /\ settled'[q] = settled[q]
                /\ cost'[q] = cost[q]
                /\ lock = q => lock' = q /\ fresh' = fresh
                /\ lock' = q => lock = q
           /\ \A p \in Policies, k \in Periods :
                counter[p][k] # NoRow => counter'[p][k] # NoRow
<1>. DEFINE Frame == \A q \in Requests : q # r =>
                /\ pc'[q] = pc[q] /\ idx'[q] = idx[q] /\ since'[q] = since[q]
                /\ holds'[q] = holds[q] /\ settled'[q] = settled[q]
                /\ cost'[q] = cost[q]
                /\ lock = q => lock' = q /\ fresh' = fresh
                /\ lock' = q => lock = q
            Grow == \A p \in Policies, k \in Periods :
                counter[p][k] # NoRow => counter'[p][k] # NoRow
<1>0. ASSUME NEW amount \in Int, counter' = Bump(r, amount) PROVE Grow
  <2>1. \A p \in Policies : RowSeen(r, p) # NoRow => Bumped(RowSeen(r, p), amount) # NoRow
    BY RowType, NoRowAssumption DEF Bumped
  <2>2. \A p \in Policies : counter[p][since[r]] # NoRow => RowSeen(r, p) # NoRow
    BY DEF RowSeen
  <2>. QED
    BY <1>0, <2>1, <2>2, BumpAt
<1>1. CASE Begin(r)
  BY <1>1 DEF TypeOK, Begin, Goto
<1>2. CASE SelectCounter(r)
  BY <1>2, NoRequestAssumption DEF TypeOK, SelectCounter, NextPolicy, Goto, Release
<1>3. CASE SelectMissing(r)
  BY <1>3 DEF TypeOK, SelectMissing, Goto, locals
<1>4. CASE CalculateInitialSpend(r)
  BY <1>4 DEF TypeOK, CalculateInitialSpend, Goto
<1>5. CASE InsertCounter(r)
  BY <1>5, NoRequestAssumption DEF TypeOK, InsertCounter, NextPolicy, Goto, Release, MayWrite
<1>6. CASE Reserve(r)
  <2>1. Grow
    BY <1>6, <1>0, EstAssumption DEF Reserve
  <2>2. Frame
    BY <1>6, NoRequestAssumption DEF TypeOK, Reserve, Goto, MayWrite, locals
  <2>. QED
    BY <2>1, <2>2
<1>7. CASE CheckRaises(r)
  BY <1>7, NoRequestAssumption DEF TypeOK, CheckRaises, Goto, Release, locals
<1>8. CASE UpstreamAnswers(r)
  BY <1>8 DEF TypeOK, UpstreamAnswers, Goto
<1>9. CASE UpstreamRaises(r)
  BY <1>9 DEF TypeOK, UpstreamRaises, Goto, locals
<1>10. CASE Reconcile(r)
  <2>1. cost[r] - Est[r] \in Int
    BY EstAssumption DEF TypeOK
  <2>2. Grow
    BY <1>10, <2>1, <1>0 DEF Reconcile
  <2>3. Frame
    BY <1>10 DEF TypeOK, Reconcile, Goto, locals
  <2>. QED
    BY <2>2, <2>3
<1>11. CASE ReconcileRaises(r)
  BY <1>11 DEF TypeOK, ReconcileRaises, Goto, locals
<1>12. CASE LogRow(r)
  BY <1>12 DEF TypeOK, LogRow, Goto, locals
<1>. QED
  BY <1>1, <1>2, <1>3, <1>4, <1>5, <1>6, <1>7, <1>8, <1>9, <1>10, <1>11, <1>12 DEF Step

\* Release() keeps what is known of uncommitted rows.
LEMMA ReleaseFresh ==
    ASSUME TypeOK, FreshInv, NEW r \in Requests, Release(r),
           UNCHANGED <<counter, since>>
    PROVE  FreshInv'
BY DEF FreshInv, Release, NoneFresh

\* Uncommitted rows stay rows of the lock holder that nobody else has
\* committed: every other writer waits for the lock.
LEMMA StepFresh ==
    ASSUME TypeOK, PlaceInv, FreshInv, NEW r \in Requests, Step(r)
    PROVE  FreshInv'
<1>1. CASE Begin(r)
  <2>1. lock # r /\ UNCHANGED <<lock, fresh, counter>>
    BY <1>1 DEF PlaceInv, Begin, Checking
  <2>. QED
    BY <1>1, <2>1, StepFrame DEF FreshInv
<1>2. CASE SelectCounter(r)
  BY <1>2, ReleaseFresh DEF SelectCounter, FreshInv
<1>3. CASE InsertCounter(r)
  <2>1. UNCHANGED <<counter, since>> /\ Policy(r) \in PolicySet(r) /\ Policy(r) \in Policies
    BY <1>3, PolicyType DEF InsertCounter
  <2>2. CASE Release(r)
    BY <2>1, <2>2, ReleaseFresh
  <2>3. CASE ~Release(r)
    <3>1. /\ lock' = r /\ Within(r, spent[r])
          /\ fresh' = IF RowSeen(r, Policy(r)) = NoRow
                      THEN [fresh EXCEPT ![Policy(r)] = spent[r]] ELSE fresh
      BY <1>3, <2>3 DEF InsertCounter
    <3>2. \A p \in Policies : fresh[p] # NoRow => lock = r
      BY <1>3, NoRequestAssumption DEF InsertCounter, MayWrite, FreshInv
    <3>3. RowSeen(r, Policy(r)) = NoRow => counter[Policy(r)][since[r]] = NoRow
      BY DEF RowSeen
    <3>4. ASSUME NEW p \in Policies, fresh'[p] # NoRow
          PROVE  /\ p \in PolicySet(r) /\ counter[p][since[r]] = NoRow
                 /\ fresh'[p] + Est[r] <= Limit[p]
      <4>1. CASE p = Policy(r) /\ RowSeen(r, Policy(r)) = NoRow
        BY <2>1, <3>1, <3>3, <4>1 DEF TypeOK, Within
      <4>2. CASE ~(p = Policy(r) /\ RowSeen(r, Policy(r)) = NoRow)
        <5>1. fresh'[p] = fresh[p]
          BY <3>1, <4>2 DEF TypeOK
        <5>. QED
          BY <5>1, <3>2, <3>4 DEF FreshInv
      <4>. QED
        BY <4>1, <4>2
    <3>. QED
      BY <3>1, <3>4, <2>1 DEF FreshInv
  <2>. QED
    BY <2>2, <2>3
<1>4. CASE Reserve(r)
  BY <1>4 DEF Reserve, NoneFresh, FreshInv
<1>5. CASE CheckRaises(r)
  BY <1>5, ReleaseFresh DEF CheckRaises, locals
<1>6. CASE Reconcile(r)
  <2>1. UNCHANGED <<lock, fresh, since>> /\ (lock = NoRequest \/ counter' = counter)
    BY <1>6 DEF Reconcile, locals
  <2>. QED
    BY <2>1, NoRequestAssumption DEF FreshInv
<1>7. CASE \/ SelectMissing(r) \/ CalculateInitialSpend(r) \/ UpstreamAnswers(r)
           \/ UpstreamRaises(r) \/ ReconcileRaises(r) \/ LogRow(r)
  BY <1>7 DEF SelectMissing, CalculateInitialSpend, UpstreamAnswers, UpstreamRaises,
              ReconcileRaises, LogRow, locals, FreshInv
<1>. QED
  BY <1>1, <1>2, <1>3, <1>4, <1>5, <1>6, <1>7 DEF Step

\* The rows of one request.
RowsOf(r) ==
    /\ pc[r] \in Checking => \A p \in Passed(r) : RowSeen(r, p) # NoRow
    /\ holds[r] => \A p \in PolicySet(r) : counter[p][since[r]] # NoRow

\* Policies that a request has passed are policies of its reservation.
LEMMA PassedType ==
    ASSUME TypeOK, PlaceInv, NEW r \in Requests
    PROVE  /\ PolicySet(r) \subseteq Policies
           /\ pc[r] \in Checking => Passed(r) \subseteq PolicySet(r)
           /\ pc[r] = "reserve" => Passed(r) = PolicySet(r)
<1>1. Match[r] \in Seq(Policies) /\ Len(Match[r]) \in Nat
  BY MatchAssumption
<1>2. pc[r] \in Checking => idx[r] \in 1..(Len(Match[r]) + 1)
  BY <1>1 DEF PlaceInv, Checking
<1>3. pc[r] = "reserve" => idx[r] - 1 = Len(Match[r])
  BY <1>1 DEF PlaceInv
<1>. QED
  BY <1>1, <1>2, <1>3 DEF Passed, PolicySet, Checking

\* Going on to the next policy adds the policy under check.
LEMMA PassedNext ==
    ASSUME TypeOK, PlaceInv, NEW r \in Requests, NextPolicy(r),
           pc[r] \in {"select", "insert"}
    PROVE  Passed(r)' = Passed(r) \cup {Policy(r)}
<1>1. idx'[r] = idx[r] + 1 /\ idx[r] \in Nat /\ idx[r] >= 1
  BY MatchAssumption DEF TypeOK, PlaceInv, NextPolicy
<1>. QED
  BY <1>1 DEF Passed, Policy

\* The rows of the requests that a step does not move stay in view.
LEMMA OtherRows ==
    ASSUME TypeOK, PlaceInv, RowInv, NEW r \in Requests, Step(r),
           NEW q \in Requests, q # r
    PROVE  RowsOf(q)'
<1>1. /\ pc'[q] = pc[q] /\ idx'[q] = idx[q] /\ since'[q] = since[q] /\ holds'[q] = holds[q]
      /\ lock = q => lock' = q /\ fresh' = fresh
      /\ lock' = q => lock = q
  BY StepFrame
<1>2. \A p \in Policies, k \in Periods : counter[p][k] # NoRow => counter'[p][k] # NoRow
  BY StepFrame
<1>3. since[q] \in Periods
  BY DEF TypeOK
<1>4. Passed(q)' = Passed(q)
  BY <1>1 DEF Passed
<1>5. \A p \in Policies : RowSeen(q, p) # NoRow => RowSeen(q, p)' # NoRow
  BY <1>1, <1>2, <1>3 DEF RowSeen
<1>6. pc[q] \in Checking => Passed(q) \subseteq Policies
  BY PassedType
<1>7. PolicySet(q) \subseteq Policies
  BY PassedType
<1>8. /\ pc[q] \in Checking => \A p \in Passed(q) : RowSeen(q, p) # NoRow
      /\ holds[q] => \A p \in PolicySet(q) : counter[p][since[q]] # NoRow
  BY DEF RowInv
<1>. QED
  BY <1>1, <1>2, <1>3, <1>4, <1>5, <1>6, <1>7, <1>8 DEF RowsOf, PolicySet

\* The row of a policy exists before the request goes on to the next one.
LEMMA OwnRows ==
    ASSUME TypeOK, PlaceInv, FreshInv, RowInv, NEW r \in Requests, Step(r)
    PROVE  RowsOf(r)'
<1>0. /\ pc[r] \in Checking => \A p \in Passed(r) : RowSeen(r, p) # NoRow
      /\ holds[r] => \A p \in PolicySet(r) : counter[p][since[r]] # NoRow
  BY DEF RowInv
<1>1. CASE Begin(r)
  <2>1. ~holds'[r] /\ idx'[r] = 1
    BY <1>1 DEF PlaceInv, Begin
  <2>. QED
    BY <2>1 DEF RowsOf, Passed
<1>2. CASE SelectCounter(r)
  <2>1. ~holds'[r] /\ pc[r] \in Checking /\ RowSeen(r, Policy(r)) # NoRow
    BY <1>2 DEF PlaceInv, SelectCounter, Checking
  <2>2. CASE NextPolicy(r) /\ UNCHANGED <<lock, fresh, counter, since>>
    <3>1. Passed(r)' = Passed(r) \cup {Policy(r)}
      BY <1>2, <2>2, PassedNext DEF SelectCounter
    <3>. QED
      BY <1>0, <2>1, <2>2, <3>1 DEF RowsOf, RowSeen
  <2>3. CASE Goto(r, "refused")
    BY <2>1, <2>3 DEF RowsOf, Checking, Goto, TypeOK
  <2>. QED
    BY <1>2, <2>2, <2>3 DEF SelectCounter
<1>3. CASE InsertCounter(r)
  <2>1. /\ ~holds'[r] /\ pc[r] \in Checking /\ Policy(r) \in Policies
        /\ UNCHANGED <<counter, since>>
    BY <1>3, PolicyType DEF PlaceInv, InsertCounter, Checking
  <2>2. CASE NextPolicy(r) /\ ~Goto(r, "refused")
    <3>1. Passed(r)' = Passed(r) \cup {Policy(r)}
      BY <1>3, <2>2, PassedNext DEF InsertCounter
    <3>2. /\ lock' = r
          /\ fresh' = IF RowSeen(r, Policy(r)) = NoRow
                      THEN [fresh EXCEPT ![Policy(r)] = spent[r]] ELSE fresh
      BY <1>3, <2>2 DEF InsertCounter
    <3>3. \A p \in Policies : fresh[p] # NoRow => lock = r
      BY <1>3, NoRequestAssumption DEF InsertCounter, MayWrite, FreshInv
    <3>4. spent[r] # NoRow
      BY NoRowAssumption DEF TypeOK
    <3>5. ASSUME NEW p \in Policies, RowSeen(r, p) # NoRow \/ p = Policy(r)
          PROVE  RowSeen(r, p)' # NoRow
      <4>1. CASE p = Policy(r) /\ RowSeen(r, p) = NoRow
        BY <2>1, <3>2, <3>4, <4>1 DEF RowSeen, TypeOK
      <4>2. CASE RowSeen(r, p) # NoRow
        <5>1. fresh[p] # NoRow => fresh'[p] # NoRow
          BY <3>2, <3>4 DEF TypeOK
        <5>2. CASE fresh[p] # NoRow
          BY <5>1, <5>2, <3>2 DEF RowSeen
        <5>3. CASE fresh[p] = NoRow
          BY <2>1, <3>2, <4>2, <5>3 DEF RowSeen
        <5>. QED
          BY <5>2, <5>3
      <4>. QED
        BY <3>5, <4>1, <4>2
    <3>6. Passed(r) \subseteq Policies
      BY <2>1, PassedType
    <3>. QED
      BY <1>0, <2>1, <3>1, <3>5, <3>6 DEF RowsOf
  <2>3. CASE Goto(r, "refused")
    BY <2>1, <2>3 DEF RowsOf, Checking, Goto, TypeOK
  <2>. QED
    BY <1>3, <2>2, <2>3 DEF InsertCounter
<1>4. CASE Reserve(r)
  <2>1. \A p \in PolicySet(r) : p \in Policies /\ RowSeen(r, p) # NoRow
    BY <1>4, <1>0, PassedType DEF Reserve, Checking
  <2>2. \A p \in PolicySet(r) : counter'[p][since[r]] = Bumped(RowSeen(r, p), Est[r])
    <3>1. Est[r] \in Int
      BY EstAssumption
    <3>2. since[r] \in Periods
      BY DEF TypeOK
    <3>3. counter' = Bump(r, Est[r])
      BY <1>4 DEF Reserve
    <3>. QED
      BY <2>1, <3>1, <3>2, <3>3, BumpAt
  <2>3. \A p \in PolicySet(r) : Bumped(RowSeen(r, p), Est[r]) # NoRow
    BY <2>1, RowType, EstAssumption, NoRowAssumption DEF Bumped
  <2>4. pc'[r] = "forward" /\ since' = since
    BY <1>4 DEF Reserve, Goto, locals, TypeOK
  <2>. QED
    BY <2>2, <2>3, <2>4 DEF RowsOf, Checking, PolicySet
<1>5. CASE SelectMissing(r) \/ CalculateInitialSpend(r)
  <2>1. /\ UNCHANGED <<lock, fresh, counter, since, idx, holds>> /\ pc[r] \in Checking
        /\ ~holds[r]
    BY <1>5 DEF SelectMissing, CalculateInitialSpend, locals, Checking, PlaceInv
  <2>. QED
    BY <1>0, <2>1 DEF RowsOf, RowSeen, Passed
<1>6. CASE \/ CheckRaises(r) \/ UpstreamAnswers(r) \/ UpstreamRaises(r)
           \/ Reconcile(r) \/ ReconcileRaises(r) \/ LogRow(r)
  <2>1. /\ pc'[r] \notin Checking /\ holds' = holds /\ since' = since
    BY <1>6 DEF CheckRaises, UpstreamAnswers, UpstreamRaises, Reconcile, ReconcileRaises,
                LogRow, Goto, locals, Checking, TypeOK
  <2>2. since[r] \in Periods /\ PolicySet(r) \subseteq Policies
    BY PassedType DEF TypeOK
  <2>3. \A p \in Policies, k \in Periods : counter[p][k] # NoRow => counter'[p][k] # NoRow
    BY StepFrame
  <2>. QED
    BY <1>0, <2>1, <2>2, <2>3 DEF RowsOf, PolicySet
<1>. QED
  BY <1>1, <1>2, <1>3, <1>4, <1>5, <1>6 DEF Step

\* Every step keeps what requests know of uncommitted and committed rows.
LEMMA StepRows ==
    ASSUME TypeOK, PlaceInv, FreshInv, RowInv, NEW r \in Requests, Step(r)
    PROVE  RowInv'
<1>1. \A q \in Requests : RowsOf(q)'
  BY OwnRows, OtherRows
<1>. QED
  BY <1>1 DEF RowsOf, RowInv

-----------------------------------------------------------------------------
(* The books.                                                              *)

\* Shares are amounts, and they are summed over finite sets.
LEMMA ShareType ==
    ASSUME TypeOK
    PROVE  /\ \A r \in Requests : Shares[r] = Share(r) /\ Share(r) \in Nat
           /\ \A p, k : IsFiniteSet(Contributors(p, k)) /\ Contributors(p, k) \subseteq Requests
<1>1. \A r \in Requests : Shares[r] = Share(r) /\ Share(r) \in Nat
  BY EstAssumption DEF TypeOK, Shares, Share
<1>2. ASSUME NEW p, NEW k PROVE IsFiniteSet(Contributors(p, k)) /\ Contributors(p, k) \subseteq Requests
  <2>1. Contributors(p, k) \subseteq Requests
    BY DEF Contributors
  <2>. QED
    BY <2>1, RequestsAssumption, FS_Subset
<1>. QED
  BY <1>1, <1>2

\* The shares and the counters stay as they are.
LEMMA BooksKept ==
    ASSUME TypeOK, TypeOK', BooksBalance, UNCHANGED <<counter, seed, since>>,
           \A q \in Requests : Share(q)' = Share(q)
    PROVE  BooksBalance'
<1>1. Shares' = Shares
  BY DEF Shares
<1>2. \A p, k : Contributors(p, k)' = Contributors(p, k)
  BY DEF Contributors, PolicySet
<1>. QED
  BY <1>1, <1>2 DEF BooksBalance

\* A request that enters the check brings its period and no share.
LEMMA BeginBooks ==
    ASSUME TypeOK, PlaceInv, BooksBalance, NEW r \in Requests, Begin(r)
    PROVE  BooksBalance'
<1>1. UNCHANGED <<counter, seed, cost, holds, settled>> /\ ~holds[r] /\ ~settled[r]
  BY DEF Begin, PlaceInv
<1>2. Shares' = Shares /\ Share(r) = 0
  BY <1>1 DEF Shares, Share
<1>3. ASSUME NEW p \in Policies, NEW k \in Periods
      PROVE  SumFunctionOnSet(Shares', Contributors(p, k)') =
             SumFunctionOnSet(Shares, Contributors(p, k))
  <2>. DEFINE S == Contributors(p, k)
              T == Contributors(p, k)'
  <2>1. S \ {r} = T \ {r}
    BY DEF Contributors, PolicySet, Begin, TypeOK
  <2>2. T \subseteq Requests /\ IsFiniteSet(T)
    <3>1. T \subseteq Requests
      BY DEF Contributors
    <3>. QED
      BY <3>1, RequestsAssumption, FS_Subset
  <2>3. S \subseteq Requests /\ IsFiniteSet(S)
    BY ShareType
  <2>4. \A q \in Requests : Shares[q] \in Int
    BY ShareType
  <2>5. Shares[r] = 0
    BY <1>2, ShareType
  <2>. HIDE DEF S, T
  <2>6. SumFunctionOnSet(Shares, S \ {r}) = SumFunctionOnSet(Shares, S)
    BY <2>3, <2>4, <2>5, SumDrop
  <2>7. SumFunctionOnSet(Shares, T \ {r}) = SumFunctionOnSet(Shares, T)
    BY <2>2, <2>4, <2>5, SumDrop
  <2>. QED
    BY <1>2, <2>1, <2>6, <2>7 DEF S, T
<1>. QED
  BY <1>1, <1>3 DEF BooksBalance

\* A row that is not there yet has nobody's share.
LEMMA NoRowNoShare ==
    ASSUME TypeOK, PlaceInv, RowInv, NEW p \in Policies, NEW k \in Periods,
           counter[p][k] = NoRow
    PROVE  SumFunctionOnSet(Shares, Contributors(p, k)) = 0
<1>1. ASSUME NEW q \in Contributors(p, k) PROVE Shares[q] = 0
  <2>1. q \in Requests /\ p \in PolicySet(q) /\ since[q] = k
    BY DEF Contributors
  <2>2. ~holds[q] /\ ~settled[q]
    BY <2>1 DEF RowInv, PlaceInv
  <2>. QED
    BY <2>1, <2>2, ShareType DEF Share
<1>. QED
  BY <1>1, ShareType, SumZero

\* The UPDATEs and the commit add one estimate to each row of the
\* reservation, its own uncommitted rows included.
LEMMA ReserveBooks ==
    ASSUME TypeOK, TypeOK', PlaceInv, FreshInv, RowInv, BooksBalance,
           NEW r \in Requests, Reserve(r)
    PROVE  BooksBalance'
<1>1. /\ UNCHANGED <<since, cost, settled>> /\ ~holds[r] /\ ~settled[r]
      /\ holds' = [holds EXCEPT ![r] = TRUE] /\ Est[r] \in Nat
      /\ since[r] \in Periods /\ counter' = Bump(r, Est[r])
  BY EstAssumption DEF Reserve, PlaceInv, TypeOK, locals
<1>2. /\ \A q \in Requests : q # r => Shares'[q] = Shares[q]
      /\ Shares[r] = 0 /\ Shares'[r] = Est[r]
      /\ \A q \in Requests : Shares[q] \in Int /\ Shares'[q] \in Int
  <2>1. \A q \in Requests : Shares'[q] = Share(q)' /\ Shares[q] = Share(q)
    BY DEF Shares
  <2>2. \A q \in Requests : q # r => Share(q)' = Share(q)
    BY <1>1 DEF Share, TypeOK
  <2>3. Share(r) = 0 /\ Share(r)' = Est[r]
    BY <1>1 DEF Share, TypeOK
  <2>4. \A q \in Requests : Share(q) \in Int
    BY ShareType
  <2>. QED
    BY <1>1, <2>1, <2>2, <2>3, <2>4
<1>3. \A p, k : Contributors(p, k)' = Contributors(p, k)
  BY <1>1 DEF Contributors, PolicySet
<1>. SUFFICES ASSUME NEW p \in Policies, NEW k \in Periods, counter'[p][k] # NoRow
              PROVE  counter'[p][k] =
                     seed'[p][k] + SumFunctionOnSet(Shares', Contributors(p, k))
  BY <1>3 DEF BooksBalance
<1>. DEFINE S == Contributors(p, k)
            Old == SumFunctionOnSet(Shares, S)
            New == SumFunctionOnSet(Shares', S)
<1>4. S \subseteq Requests /\ IsFiniteSet(S)
  BY ShareType
<1>5. seed'[p] = IF lock = r /\ fresh[p] # NoRow
                 THEN [seed[p] EXCEPT ![since[r]] = fresh[p]] ELSE seed[p]
  BY DEF Reserve
<1>6. seed[p] \in [Periods -> Nat] /\ fresh[p] \in Nat \cup {NoRow}
  BY DEF TypeOK
<1>7. CASE p \in PolicySet(r) /\ k = since[r]
  <2>1. r \in S
    BY <1>7 DEF Contributors
  <2>2. Old \in Int
    BY <1>2, <1>4, SumInt
  <2>3. New = Old - Shares[r] + Shares'[r]
    <3>. HIDE DEF S
    <3>. QED
      BY <1>2, <1>4, <2>1, SumUpdate
  <2>4. New = Old + Est[r]
    BY <1>1, <1>2, <2>2, <2>3
  <2>5. counter'[p][k] = Bumped(RowSeen(r, p), Est[r])
    BY <1>1, <1>7, BumpAt
  <2>6. RowSeen(r, p) \in Int
    <3>1. RowSeen(r, p) # NoRow
      BY <1>7, PassedType DEF RowInv, Reserve, Checking
    <3>. QED
      BY <3>1, RowType
  <2>7. counter'[p][k] = RowSeen(r, p) + Est[r]
    BY <2>5, <2>6, NoRowAssumption DEF Bumped
  <2>. HIDE DEF Old, New
  <2>8. CASE lock = r /\ fresh[p] # NoRow
    <3>1. counter[p][k] = NoRow
      BY <1>7, <2>8 DEF FreshInv
    <3>2. Old = 0
      BY <3>1, NoRowNoShare DEF Old
    <3>3. RowSeen(r, p) = fresh[p] /\ seed'[p][k] = fresh[p]
      BY <1>5, <1>6, <1>7, <2>8 DEF RowSeen
    <3>. QED
      BY <1>1, <2>4, <2>6, <2>7, <3>2, <3>3 DEF New
  <2>9. CASE ~(lock = r /\ fresh[p] # NoRow)
    <3>1. RowSeen(r, p) = counter[p][k] /\ seed'[p][k] = seed[p][k]
      BY <1>5, <1>7, <2>9 DEF RowSeen
    <3>2. counter[p][k] = seed[p][k] + Old
      BY <3>1, <2>6, NoRowAssumption DEF BooksBalance, Old
    <3>. QED
      BY <1>1, <1>6, <2>2, <2>4, <2>7, <3>1, <3>2 DEF New
  <2>. QED
    BY <2>8, <2>9
<1>8. CASE ~(p \in PolicySet(r) /\ k = since[r])
  <2>1. counter'[p][k] = counter[p][k]
    BY <1>1, <1>8, BumpAt
  <2>2. seed'[p][k] = seed[p][k]
    BY <1>5, <1>6, <1>8 DEF FreshInv
  <2>3. r \notin S
    BY <1>8 DEF Contributors
  <2>4. New = Old
    <3>1. \A q \in S : Shares[q] = Shares'[q]
      BY <1>2, <1>4, <2>3
    <3>. QED
      BY <3>1, <1>4, SumSame
  <2>. QED
    BY <2>1, <2>2, <2>4 DEF BooksBalance
<1>. QED
  BY <1>7, <1>8

\* reconcile() turns the estimate of r into its actual cost, in the rows
\* that hold the estimate.
LEMMA ReconcileBooks ==
    ASSUME TypeOK, TypeOK', PlaceInv, RowInv, BooksBalance,
           NEW r \in Requests, Reconcile(r)
    PROVE  BooksBalance'
<1>. CASE ~holds[r]
  BY BooksKept DEF Reconcile, Share, locals
<1>. CASE holds[r]
  <2>1. /\ UNCHANGED <<since, cost, holds, seed>> /\ ~settled[r] /\ lock = NoRequest
        /\ settled' = [settled EXCEPT ![r] = TRUE] /\ Est[r] \in Nat /\ cost[r] \in Nat
        /\ since[r] \in Periods /\ counter' = Bump(r, cost[r] - Est[r])
    BY EstAssumption DEF Reconcile, PlaceInv, TypeOK, locals
  <2>2. /\ \A q \in Requests : q # r => Shares'[q] = Shares[q]
        /\ Shares[r] = Est[r] /\ Shares'[r] = cost[r]
        /\ \A q \in Requests : Shares[q] \in Int /\ Shares'[q] \in Int
    <3>1. \A q \in Requests : Shares'[q] = Share(q)' /\ Shares[q] = Share(q)
      BY DEF Shares
    <3>2. \A q \in Requests : q # r => Share(q)' = Share(q)
      BY <2>1 DEF Share, TypeOK
    <3>3. Share(r) = Est[r] /\ Share(r)' = cost[r]
      BY <2>1 DEF Share, TypeOK
    <3>4. \A q \in Requests : Share(q) \in Int
      BY ShareType
    <3>. QED
      BY <2>1, <3>1, <3>2, <3>3, <3>4
  <2>3. \A p, k : Contributors(p, k)' = Contributors(p, k)
    BY <2>1 DEF Contributors, PolicySet
  <2>. SUFFICES ASSUME NEW p \in Policies, NEW k \in Periods, counter'[p][k] # NoRow
                PROVE  counter'[p][k] =
                       seed[p][k] + SumFunctionOnSet(Shares', Contributors(p, k))
    BY <2>1, <2>3 DEF BooksBalance
  <2>. DEFINE S == Contributors(p, k)
              Old == SumFunctionOnSet(Shares, S)
              New == SumFunctionOnSet(Shares', S)
  <2>4. S \subseteq Requests /\ IsFiniteSet(S)
    BY ShareType
  <2>5. CASE p \in PolicySet(r) /\ k = since[r]
    <3>1. r \in S
      BY <2>5 DEF Contributors
    <3>2. Old \in Int
      BY <2>2, <2>4, SumInt
    <3>3. New = Old - Shares[r] + Shares'[r]
      <4>. HIDE DEF S
      <4>. QED
        BY <2>2, <2>4, <3>1, SumUpdate
    <3>4. cost[r] - Est[r] \in Int
      BY <2>1
    <3>5. counter'[p][k] = Bumped(RowSeen(r, p), cost[r] - Est[r])
      BY <2>1, <2>5, <3>4, BumpAt
    <3>6. RowSeen(r, p) = counter[p][k] /\ counter[p][k] # NoRow
      BY <2>1, <2>5, NoRequestAssumption DEF RowSeen, RowInv
    <3>7. counter[p][k] = seed[p][k] + Old /\ seed[p][k] \in Int
      BY <3>6 DEF BooksBalance, TypeOK
    <3>8. counter'[p][k] = counter[p][k] + (cost[r] - Est[r])
      BY <3>5, <3>6 DEF Bumped
    <3>. HIDE DEF Old, New
    <3>9. counter'[p][k] = seed[p][k] + New
      BY <2>1, <2>2, <3>2, <3>3, <3>7, <3>8
    <3>. QED
      BY <3>9 DEF New
  <2>6. CASE ~(p \in PolicySet(r) /\ k = since[r])
    <3>1. cost[r] - Est[r] \in Int
      BY <2>1
    <3>2. counter'[p][k] = counter[p][k]
      BY <2>1, <2>6, <3>1, BumpAt
    <3>3. r \notin S
      BY <2>6 DEF Contributors
    <3>4. \A q \in S : Shares[q] = Shares'[q]
      BY <2>2, <2>4, <3>3
    <3>5. New = Old
      BY <3>4, <2>4, SumSame
    <3>. QED
      BY <3>2, <3>5 DEF BooksBalance
  <2>. QED
    BY <2>5, <2>6
<1>. QED
  OBVIOUS

\* Every step keeps the books.
LEMMA StepBooks ==
    ASSUME TypeOK, TypeOK', PlaceInv, FreshInv, RowInv, BooksBalance,
           NEW r \in Requests, Step(r)
    PROVE  BooksBalance'
<1>1. CASE Begin(r)
  BY <1>1, BeginBooks
<1>2. CASE Reserve(r)
  BY <1>2, ReserveBooks
<1>3. CASE Reconcile(r)
  BY <1>3, ReconcileBooks
<1>4. CASE UpstreamAnswers(r)
  <2>1. ~settled[r] /\ UNCHANGED <<counter, seed, since, holds, settled>>
    BY <1>4 DEF UpstreamAnswers, PlaceInv
  <2>2. \A q \in Requests : q # r => cost'[q] = cost[q]
    BY StepFrame
  <2>3. \A q \in Requests : Share(q)' = Share(q)
    BY <2>1, <2>2 DEF Share
  <2>. QED
    BY <2>1, <2>3, BooksKept
<1>5. CASE \/ SelectCounter(r) \/ SelectMissing(r) \/ CalculateInitialSpend(r)
           \/ InsertCounter(r) \/ CheckRaises(r) \/ UpstreamRaises(r)
           \/ ReconcileRaises(r) \/ LogRow(r)
  <2>1. UNCHANGED <<counter, seed, since, cost, holds, settled>>
    BY <1>5 DEF SelectCounter, SelectMissing, CalculateInitialSpend, InsertCounter,
                CheckRaises, UpstreamRaises, ReconcileRaises, LogRow, locals
  <2>2. \A q \in Requests : Share(q)' = Share(q)
    BY <2>1 DEF Share
  <2>. QED
    BY <2>1, <2>2, BooksKept
<1>. QED
  BY <1>1, <1>2, <1>3, <1>4, <1>5 DEF Step

\* No row, no reservation and nothing to balance at the start.
LEMMA InitBooks == Init => BooksInv
<1>. SUFFICES ASSUME Init PROVE BooksInv
  OBVIOUS
<1>1. FreshInv /\ BooksBalance
  BY DEF Init, FreshInv, BooksBalance
<1>2. RowInv
  BY DEF Init, RowInv, Checking
<1>. QED
  BY <1>1, <1>2, InitTypes DEF BooksInv

\* The books are an inductive invariant.
LEMMA NextBooks == BooksInv /\ [Next]_vars => BooksInv'
<1>. SUFFICES ASSUME BooksInv, [Next]_vars PROVE BooksInv'
  OBVIOUS
<1>0. TypeOK' /\ PlaceInv'
  BY NextTypes DEF BooksInv
<1>1. CASE \E r \in Requests : Step(r)
  BY <1>0, <1>1, StepFresh, StepRows, StepBooks DEF BooksInv
<1>2. CASE NewPeriod \/ UNCHANGED vars
  <2>1. UNCHANGED <<counter, lock, fresh, recorded, pc, since, idx, spent, cost, holds,
                    settled, seed>>
    BY <1>2 DEF NewPeriod, vars, locals
  <2>2. FreshInv' /\ RowInv'
    BY <2>1 DEF BooksInv, FreshInv, RowInv, RowSeen, Passed, PolicySet
  <2>3. \A q \in Requests : Share(q)' = Share(q)
    BY <2>1 DEF Share
  <2>4. BooksBalance'
    BY <1>0, <2>1, <2>3, BooksKept DEF BooksInv
  <2>. QED
    BY <1>0, <2>2, <2>4 DEF BooksInv
<1>. QED
  BY <1>1, <1>2 DEF Next

\* No reservation or correction is lost, applied twice or applied to another
\* period: the counters of check_and_reserve() and reconcile() add up, for
\* any number of concurrent requests and whatever statement fails.
THEOREM BooksAddUp == Spec => []BooksBalance
<1>1. BooksInv => BooksBalance
  BY DEF BooksInv
<1>. QED
  BY <1>1, InitBooks, NextBooks, PTL DEF Spec

-----------------------------------------------------------------------------
(* The overshoot.                                                          *)

\* No estimate is larger than the largest.
LEMMA EstBound == MaxEst \in Nat /\ \A r \in Requests : Est[r] \in Nat /\ Est[r] <= MaxEst
<1>1. \A r \in Requests : Est[r] \in Int
  BY EstAssumption
<1>2. /\ Max({Est[r] : r \in Requests}) \in {Est[r] : r \in Requests}
      /\ \A y \in Requests : Est[y] <= Max({Est[r] : r \in Requests})
  BY <1>1, RequestsAssumption, MaxValue
<1>. QED
  BY <1>2, EstAssumption DEF MaxEst

\* The requests inside the check are finitely many.
LEMMA CheckFinite ==
    /\ IsFiniteSet(InCheck) /\ InCheck \subseteq Requests
    /\ \A p, k : Loose(p, k) \subseteq InCheck
<1>1. InCheck \subseteq Requests
  BY DEF InCheck
<1>2. \A p, k : Loose(p, k) \subseteq InCheck
  BY DEF Loose, InCheck
<1>. QED
  BY <1>1, <1>2, RequestsAssumption, FS_Subset

\* Next to a request inside the check, the others have at most Overlap - 1
\* estimates to add.
LEMMA Room ==
    ASSUME CrowdInv, NEW r \in InCheck, NEW S \in SUBSET (InCheck \ {r})
    PROVE  /\ SumFunctionOnSet(Est, S) \in Nat
           /\ SumFunctionOnSet(Est, S) <= (Overlap - 1) * MaxEst
<1>1. S \subseteq Requests /\ S \cup {r} \subseteq InCheck /\ r \notin S
  BY CheckFinite
<1>2. IsFiniteSet(S) /\ Cardinality(S) \in Nat
  BY <1>1, CheckFinite, FS_Subset, FS_CardinalityType
<1>3. Cardinality(S \cup {r}) = Cardinality(S) + 1
  BY <1>1, <1>2, FS_AddElement
<1>4. Cardinality(S \cup {r}) <= Cardinality(InCheck) /\ Cardinality(InCheck) \in Nat
  BY <1>1, CheckFinite, FS_Subset, FS_CardinalityType
<1>5. Cardinality(S) <= Overlap - 1 /\ Overlap - 1 \in Nat
  BY <1>2, <1>3, <1>4, OverlapAssumption DEF CrowdInv
<1>6. /\ SumFunctionOnSet(Est, S) \in Nat
      /\ SumFunctionOnSet(Est, S) <= Cardinality(S) * MaxEst
  BY <1>1, <1>2, EstBound, SumBound
<1>7. Cardinality(S) * MaxEst <= (Overlap - 1) * MaxEst
  BY <1>2, <1>5, EstBound, TimesLess
<1>8. Cardinality(S) * MaxEst \in Int /\ (Overlap - 1) * MaxEst \in Int
  BY <1>2, <1>5, EstBound
<1>. QED
  BY <1>6, <1>7, <1>8

\* A sum of estimates is an amount, and one request less does not raise it.
LEMMA EstSum ==
    ASSUME NEW S \in SUBSET Requests, NEW r \in Requests
    PROVE  /\ IsFiniteSet(S)
           /\ SumFunctionOnSet(Est, S) \in Nat
           /\ SumFunctionOnSet(Est, S \ {r}) \in Nat
           /\ r \in S => SumFunctionOnSet(Est, S) = Est[r] + SumFunctionOnSet(Est, S \ {r})
           /\ r \notin S => S \ {r} = S
<1>1. IsFiniteSet(S) /\ IsFiniteSet(S \ {r})
  BY RequestsAssumption, FS_Subset
<1>2. \A x \in S : Est[x] \in Nat /\ Est[x] \in Int
  BY EstBound
<1>3. SumFunctionOnSet(Est, S) \in Nat /\ SumFunctionOnSet(Est, S \ {r}) \in Nat
  BY <1>1, <1>2, SumNat
<1>4. r \in S => SumFunctionOnSet(Est, S) = Est[r] + SumFunctionOnSet(Est, S \ {r})
  BY <1>1, <1>2, SumRemove
<1>. QED
  BY <1>1, <1>3, <1>4

\* A step of r makes nobody else join or leave.
LEMMA LooseFrame ==
    ASSUME TypeOK, PlaceInv, NEW r \in Requests, Step(r), NEW p, NEW k
    PROVE  Loose(p, k)' \ {r} = Loose(p, k) \ {r}
<1>1. ASSUME NEW q \in Requests, q # r PROVE q \in Loose(p, k)' <=> q \in Loose(p, k)
  <2>1. pc'[q] = pc[q] /\ idx'[q] = idx[q] /\ since'[q] = since[q]
    BY <1>1, StepFrame
  <2>2. Owed(q)' = Owed(q)
    BY <2>1 DEF Owed, Passed, Policy
  <2>. QED
    BY <2>1, <2>2 DEF Loose
<1>2. Loose(p, k) \subseteq Requests /\ Loose(p, k)' \subseteq Requests
  BY DEF Loose
<1>. QED
  BY <1>1, <1>2

\* What the bound says of one row.
LooseAt(p, k) ==
    counter[p][k] # NoRow =>
        counter[p][k] + SumFunctionOnSet(Est, Loose(p, k))
            <= Limit[p] + (Overlap - 1) * MaxEst

\* The bound is a number.
LEMMA BoundType ==
    ASSUME NEW p \in Policies
    PROVE  Limit[p] \in Nat /\ (Overlap - 1) * MaxEst \in Nat
BY LimitAssumption, OverlapAssumption, EstBound

\* The bound survives when the row does not grow and nobody joins.
LEMMA NobodyJoins ==
    ASSUME TypeOK, TypeOK', PlaceInv, LooseInv, NEW r \in Requests, Step(r),
           NEW p \in Policies, NEW k \in Periods,
           counter'[p][k] # NoRow => counter[p][k] # NoRow /\ counter'[p][k] <= counter[p][k],
           r \in Loose(p, k)' => r \in Loose(p, k)
    PROVE  LooseAt(p, k)'
<1>. SUFFICES ASSUME counter'[p][k] # NoRow
              PROVE  counter'[p][k] + SumFunctionOnSet(Est, Loose(p, k)')
                        <= Limit[p] + (Overlap - 1) * MaxEst
  BY DEF LooseAt
<1>. DEFINE S == Loose(p, k)
            T == Loose(p, k)'
            B == Limit[p] + (Overlap - 1) * MaxEst
<1>1. S \subseteq Requests /\ T \subseteq Requests
  BY DEF Loose
<1>2. counter[p][k] \in Int /\ counter'[p][k] \in Int /\ counter'[p][k] <= counter[p][k]
  BY DEF TypeOK, Tables
<1>3. counter[p][k] + SumFunctionOnSet(Est, S) <= B
  BY DEF LooseInv
<1>4. B \in Int
  BY BoundType
<1>5. T = S \/ T = S \ {r}
  BY LooseFrame
<1>. HIDE DEF S, T, B
<1>6. /\ SumFunctionOnSet(Est, S) \in Nat /\ SumFunctionOnSet(Est, T) \in Nat
      /\ SumFunctionOnSet(Est, T) <= SumFunctionOnSet(Est, S)
  <2>0. SumFunctionOnSet(Est, S) \in Nat /\ SumFunctionOnSet(Est, S) <= SumFunctionOnSet(Est, S)
    <3>1. SumFunctionOnSet(Est, S) \in Nat
      BY <1>1, EstSum
    <3>. QED
      BY <3>1
  <2>1. CASE T = S
    BY <2>0, <2>1
  <2>2. CASE T = S \ {r} /\ r \in S
    BY <2>2, <1>1, EstSum, EstBound
  <2>3. CASE T = S \ {r} /\ r \notin S
    <3>1. T = S
      BY <2>3
    <3>. QED
      BY <2>0, <3>1
  <2>. QED
    BY <1>5, <2>1, <2>2, <2>3
<1>7. counter'[p][k] + SumFunctionOnSet(Est, T) <= B
  BY <1>2, <1>3, <1>4, <1>6
<1>. QED
  BY <1>7 DEF B, T

\* A request that finds the row within the limit joins: its own estimate fits
\* under the limit, and the others are at most Overlap - 1.
LEMMA SelectJoins ==
    ASSUME TypeOK, TypeOK', PlaceInv, FreshInv, CrowdInv, LooseInv,
           NEW r \in Requests, SelectCounter(r), NextPolicy(r),
           NEW p \in Policies, NEW k \in Periods,
           r \in Loose(p, k)', r \notin Loose(p, k)
    PROVE  LooseAt(p, k)'
<1>0. Step(r) /\ pc[r] = "select" /\ UNCHANGED <<counter, since>> /\ r \in InCheck
  BY DEF Step, SelectCounter, InCheck, Checking
<1>. SUFFICES ASSUME counter[p][k] # NoRow
              PROVE  counter[p][k] + SumFunctionOnSet(Est, Loose(p, k)')
                        <= Limit[p] + (Overlap - 1) * MaxEst
  BY <1>0 DEF LooseAt
<1>. DEFINE T == Loose(p, k)'
            B == (Overlap - 1) * MaxEst
            E == SumFunctionOnSet(Est, T)
            F == SumFunctionOnSet(Est, T \ {r})
<1>1. p = Policy(r) /\ k = since[r]
  <2>1. Passed(r)' = Passed(r) \cup {Policy(r)}
    BY <1>0, PassedNext
  <2>2. pc'[r] \in {"reserve", "select"}
    BY DEF NextPolicy, Goto, TypeOK
  <2>3. Owed(r)' = Passed(r)'
    BY <2>2 DEF Owed
  <2>4. Owed(r) = Passed(r)
    BY <1>0 DEF Owed
  <2>. QED
    BY <1>0, <2>1, <2>3, <2>4 DEF Loose, InCheck
<1>2. RowSeen(r, p) = counter[p][k]
  BY <1>1 DEF RowSeen, FreshInv
<1>3. RowSeen(r, p) + Est[r] <= Limit[p]
  BY <1>1 DEF SelectCounter, Within, NextPolicy, Goto, TypeOK
<1>4. T \ {r} \subseteq InCheck \ {r}
  BY <1>0, LooseFrame, CheckFinite
<1>5. F \in Nat /\ F <= B
  BY <1>0, <1>4, Room
<1>6. E = Est[r] + F
  <2>1. T \subseteq Requests
    BY DEF Loose
  <2>. QED
    BY <2>1, EstSum
<1>7. counter[p][k] \in Int /\ Est[r] \in Nat /\ Limit[p] \in Nat /\ B \in Nat
  BY BoundType, EstBound DEF TypeOK, Tables
<1>. HIDE DEF B, E, F
<1>8. counter[p][k] + E <= Limit[p] + B
  BY <1>2, <1>3, <1>5, <1>6, <1>7
<1>. QED
  BY <1>8 DEF B, E

\* A reservation adds the estimate it was counted with; a row that it
\* creates starts within the limit.
LEMMA ReserveLoose ==
    ASSUME TypeOK, TypeOK', PlaceInv, FreshInv, RowInv, CrowdInv, LooseInv,
           NEW r \in Requests, Reserve(r), NEW p \in Policies, NEW k \in Periods
    PROVE  LooseAt(p, k)'
<1>0. /\ Step(r) /\ pc[r] = "reserve" /\ r \in InCheck /\ Est[r] \in Nat
      /\ since[r] \in Periods
  BY EstBound DEF Step, Reserve, InCheck, Checking, TypeOK
<1>1. r \notin Loose(p, k)'
  BY DEF Reserve, Goto, Loose, Checking, TypeOK
<1>2. counter' = Bump(r, Est[r])
  BY DEF Reserve
<1>3. CASE p \in PolicySet(r) /\ k = since[r]
  <2>. DEFINE S == Loose(p, k)
              B == (Overlap - 1) * MaxEst
              E == SumFunctionOnSet(Est, S)
              F == SumFunctionOnSet(Est, S \ {r})
  <2>1. r \in S
    BY <1>0, <1>3, PassedType DEF Loose, Owed, Checking
  <2>2. Loose(p, k)' = S \ {r}
    BY <1>0, <1>1, LooseFrame
  <2>3. F \in Nat /\ F <= B
    BY <1>0, CheckFinite, Room
  <2>4. E = Est[r] + F /\ E \in Nat
    <3>1. S \subseteq Requests
      BY DEF Loose
    <3>. QED
      BY <2>1, <3>1, EstSum
  <2>5. RowSeen(r, p) \in Int
    <3>1. RowSeen(r, p) # NoRow
      BY <1>0, <1>3, PassedType DEF RowInv, Checking
    <3>. QED
      BY <3>1, RowType
  <2>6. counter'[p][k] = RowSeen(r, p) + Est[r]
    <3>1. counter'[p][k] = Bumped(RowSeen(r, p), Est[r])
      BY <1>0, <1>2, <1>3, BumpAt
    <3>. QED
      BY <3>1, <2>5, NoRowAssumption DEF Bumped
  <2>7. Limit[p] \in Nat /\ B \in Nat
    BY BoundType
  <2>8. CASE lock = r /\ fresh[p] # NoRow
    <3>1. RowSeen(r, p) + Est[r] <= Limit[p]
      BY <2>8 DEF RowSeen, FreshInv
    <3>. HIDE DEF B, F
    <3>2. counter'[p][k] + F <= Limit[p] + B
      BY <1>0, <2>3, <2>5, <2>6, <2>7, <3>1
    <3>. QED
      BY <2>2, <3>2 DEF B, F, LooseAt
  <2>9. CASE ~(lock = r /\ fresh[p] # NoRow)
    <3>1. RowSeen(r, p) = counter[p][k]
      BY <1>3, <2>9 DEF RowSeen
    <3>2. counter[p][k] + E <= Limit[p] + B
      BY <2>5, <3>1, NoRowAssumption DEF LooseInv
    <3>. HIDE DEF B, E, F
    <3>3. counter'[p][k] + F <= Limit[p] + B
      BY <1>0, <2>3, <2>4, <2>5, <2>6, <2>7, <3>1, <3>2
    <3>. QED
      BY <2>2, <3>3 DEF B, F, LooseAt
  <2>. QED
    BY <2>8, <2>9
<1>4. CASE ~(p \in PolicySet(r) /\ k = since[r])
  <2>1. counter'[p][k] = counter[p][k]
    BY <1>0, <1>2, <1>4, BumpAt
  <2>2. counter[p][k] # NoRow => counter[p][k] <= counter[p][k]
    <3>1. counter[p][k] \in Int \cup {NoRow}
      BY DEF TypeOK, Tables
    <3>. QED
      BY <3>1
  <2>. QED
    BY <1>0, <1>1, <2>1, <2>2, NobodyJoins
<1>. QED
  BY <1>3, <1>4

\* The steps that leave the counters alone, with what r owes after them.
LEMMA StillLoose ==
    ASSUME TypeOK, TypeOK', PlaceInv, LooseInv, NEW r \in Requests, Step(r),
           counter' = counter, NEW p \in Policies, NEW k \in Periods,
           r \in Loose(p, k)' => r \in Loose(p, k)
    PROVE  LooseAt(p, k)'
<1>1. counter[p][k] # NoRow => counter[p][k] <= counter[p][k]
  <2>1. counter[p][k] \in Int \cup {NoRow}
    BY DEF TypeOK, Tables
  <2>. QED
    BY <2>1
<1>. QED
  BY <1>1, NobodyJoins

\* Every step keeps the bound, row by row.
LEMMA StepLoose ==
    ASSUME TypeOK, TypeOK', PlaceInv, FreshInv, RowInv, CrowdInv, CostInv, LooseInv,
           NEW r \in Requests, Step(r), NEW p \in Policies, NEW k \in Periods
    PROVE  LooseAt(p, k)'
<1>1. CASE Begin(r)
  <2>1. idx'[r] = 1 /\ counter' = counter /\ pc'[r] \notin {"sum", "insert"}
    BY <1>1 DEF Begin, PlaceInv, Goto, TypeOK
  <2>2. r \notin Loose(p, k)'
    BY <2>1 DEF Loose, Owed, Passed
  <2>. QED
    BY <2>1, <2>2, StillLoose
<1>2. CASE SelectCounter(r)
  <2>1. counter' = counter /\ since' = since /\ pc[r] = "select"
    BY <1>2 DEF SelectCounter
  <2>2. CASE NextPolicy(r)
    <3>1. CASE r \in Loose(p, k)' /\ r \notin Loose(p, k)
      BY <1>2, <2>2, <3>1, SelectJoins
    <3>2. CASE r \in Loose(p, k)' => r \in Loose(p, k)
      BY <2>1, <3>2, StillLoose
    <3>. QED
      BY <3>1, <3>2
  <2>3. CASE Goto(r, "refused")
    <3>1. r \notin Loose(p, k)'
      BY <2>3 DEF Goto, Loose, Checking, TypeOK
    <3>. QED
      BY <2>1, <3>1, StillLoose
  <2>. QED
    BY <1>2, <2>2, <2>3 DEF SelectCounter
<1>3. CASE SelectMissing(r)
  <2>1. /\ UNCHANGED <<counter, since, idx>> /\ pc[r] = "select"
        /\ RowSeen(r, Policy(r)) = NoRow
        /\ pc'[r] = "sum"
    BY <1>3 DEF SelectMissing, locals, Goto, TypeOK
  <2>2. Owed(r)' = Owed(r) \cup {Policy(r)}
    BY <2>1 DEF Owed, Passed, Policy
  <2>3. CASE p = Policy(r) /\ k = since[r]
    BY <2>1, <2>3 DEF RowSeen, LooseAt
  <2>4. CASE ~(p = Policy(r) /\ k = since[r])
    <3>1. r \in Loose(p, k)' => r \in Loose(p, k)
      BY <2>1, <2>2, <2>4 DEF Loose, Checking
    <3>. QED
      BY <2>1, <3>1, StillLoose
  <2>. QED
    BY <2>3, <2>4
<1>4. CASE CalculateInitialSpend(r)
  <2>1. UNCHANGED <<counter, since, idx>> /\ pc[r] = "sum" /\ pc'[r] = "insert"
    BY <1>4 DEF CalculateInitialSpend, Goto, TypeOK
  <2>2. Owed(r)' = Owed(r)
    BY <2>1 DEF Owed, Passed, Policy
  <2>3. r \in Loose(p, k)' => r \in Loose(p, k)
    BY <2>1, <2>2 DEF Loose, Checking
  <2>. QED
    BY <2>1, <2>3, StillLoose
<1>5. CASE InsertCounter(r)
  <2>1. counter' = counter /\ since' = since /\ pc[r] = "insert"
    BY <1>5 DEF InsertCounter
  <2>2. CASE NextPolicy(r)
    <3>1. Passed(r)' = Passed(r) \cup {Policy(r)}
      BY <2>1, <2>2, PassedNext
    <3>2. pc'[r] \in {"reserve", "select"}
      BY <2>2 DEF NextPolicy, Goto, TypeOK
    <3>3. Owed(r)' = Passed(r)'
      BY <3>2 DEF Owed
    <3>4. Owed(r) = Passed(r) \cup {Policy(r)}
      BY <2>1 DEF Owed
    <3>5. r \in Loose(p, k)' => r \in Loose(p, k)
      BY <2>1, <3>1, <3>3, <3>4 DEF Loose, Checking
    <3>. QED
      BY <2>1, <3>5, StillLoose
  <2>3. CASE Goto(r, "refused")
    <3>1. r \notin Loose(p, k)'
      BY <2>3 DEF Goto, Loose, Checking, TypeOK
    <3>. QED
      BY <2>1, <3>1, StillLoose
  <2>. QED
    BY <1>5, <2>2, <2>3 DEF InsertCounter
<1>6. CASE Reserve(r)
  BY <1>6, ReserveLoose
<1>7. CASE Reconcile(r) /\ holds[r]
  <2>1. /\ counter' = Bump(r, cost[r] - Est[r]) /\ pc'[r] = "log" /\ lock = NoRequest
        /\ cost[r] - Est[r] \in Int /\ cost[r] - Est[r] <= 0 /\ since[r] \in Periods
    <3>1. counter' = Bump(r, cost[r] - Est[r]) /\ lock = NoRequest
      BY <1>7 DEF Reconcile
    <3>2. pc'[r] = "log" /\ since[r] \in Periods
      BY <1>7 DEF Reconcile, Goto, TypeOK
    <3>3. cost[r] - Est[r] \in Int /\ cost[r] - Est[r] <= 0
      BY EstAssumption DEF TypeOK, CostInv
    <3>. QED
      BY <3>1, <3>2, <3>3
  <2>2. r \notin Loose(p, k)'
    BY <2>1 DEF Loose, Checking
  <2>3. counter'[p][k] = IF p \in PolicySet(r) /\ k = since[r]
                         THEN Bumped(RowSeen(r, p), cost[r] - Est[r]) ELSE counter[p][k]
    BY <2>1, BumpAt
  <2>4. k = since[r] => RowSeen(r, p) = counter[p][k]
    BY <2>1, NoRequestAssumption DEF RowSeen
  <2>5. counter[p][k] \in Int \cup {NoRow}
    BY DEF TypeOK, Tables
  <2>6. counter'[p][k] # NoRow => counter[p][k] # NoRow /\ counter'[p][k] <= counter[p][k]
    BY <2>1, <2>3, <2>4, <2>5 DEF Bumped
  <2>. QED
    BY <2>2, <2>6, NobodyJoins
<1>8. CASE \/ CheckRaises(r) \/ UpstreamAnswers(r) \/ UpstreamRaises(r)
           \/ Reconcile(r) /\ ~holds[r]
           \/ ReconcileRaises(r) \/ LogRow(r)
  <2>1. counter' = counter /\ pc'[r] \notin Checking
    BY <1>8 DEF CheckRaises, UpstreamAnswers, UpstreamRaises, Reconcile, ReconcileRaises,
                LogRow, Goto, Checking, TypeOK
  <2>2. r \notin Loose(p, k)'
    BY <2>1 DEF Loose
  <2>. QED
    BY <2>1, <2>2, StillLoose
<1>. QED
  BY <1>1, <1>2, <1>3, <1>4, <1>5, <1>6, <1>7, <1>8 DEF Step

\* The estimates are upper bounds: no request can cost more than was
\* estimated for it.
EstimatesHigh == \A r \in Requests : \A c \in Actuals[r] : c <= Est[r]

\* Entry to the check is limited, and only entry raises the number inside.
LEMMA StepCrowd ==
    ASSUME TypeOK, PlaceInv, CrowdInv, NEW r \in Requests, Step(r)
    PROVE  CrowdInv'
<1>1. InCheck' \subseteq InCheck \cup {r}
  <2>1. \A q \in Requests : q # r => pc'[q] = pc[q]
    BY StepFrame
  <2>. QED
    BY <2>1 DEF InCheck
<1>2. IsFiniteSet(InCheck) /\ Cardinality(InCheck) \in Nat
  BY CheckFinite, FS_CardinalityType
<1>3. CASE Begin(r)
  <2>1. Cardinality(InCheck) < Overlap
    BY <1>3 DEF Begin, InCheck
  <2>2. /\ IsFiniteSet(InCheck \cup {r})
        /\ Cardinality(InCheck \cup {r}) <= Cardinality(InCheck) + 1
    <3>1. /\ IsFiniteSet(InCheck \cup {r})
          /\ Cardinality(InCheck \cup {r}) \in {Cardinality(InCheck), Cardinality(InCheck) + 1}
      BY <1>2, FS_AddElement, Zenon
    <3>. QED
      BY <1>2, <3>1
  <2>3. IsFiniteSet(InCheck') /\ Cardinality(InCheck') <= Cardinality(InCheck \cup {r})
    BY <1>1, <2>2, FS_Subset
  <2>4. Cardinality(InCheck') \in Nat /\ Cardinality(InCheck \cup {r}) \in Nat
    BY <2>2, <2>3, FS_CardinalityType
  <2>. QED
    BY <1>2, <2>1, <2>2, <2>3, <2>4, OverlapAssumption DEF CrowdInv
<1>4. CASE ~Begin(r)
  <2>1. pc[r] \in Checking \/ pc'[r] \notin Checking
    BY <1>4 DEF Step, SelectCounter, SelectMissing, CalculateInitialSpend, InsertCounter,
         Reserve, CheckRaises, UpstreamAnswers, UpstreamRaises, Reconcile, ReconcileRaises,
         LogRow, Goto, Checking, TypeOK
  <2>2. InCheck' \subseteq InCheck
    BY <1>1, <2>1 DEF InCheck
  <2>3. IsFiniteSet(InCheck') /\ Cardinality(InCheck') <= Cardinality(InCheck)
    BY <1>2, <2>2, FS_Subset
  <2>4. Cardinality(InCheck') \in Nat
    BY <2>3, FS_CardinalityType
  <2>. QED
    BY <1>2, <2>3, <2>4, OverlapAssumption DEF CrowdInv
<1>. QED
  BY <1>3, <1>4

\* No actual cost exceeds its estimate.
LEMMA StepCost ==
    ASSUME TypeOK, CostInv, EstimatesHigh, NEW r \in Requests, Step(r)
    PROVE  CostInv'
<1>1. CASE UpstreamAnswers(r)
  <2>1. PICK c \in Actuals[r] \cup {0} : cost' = [cost EXCEPT ![r] = c]
    BY <1>1 DEF UpstreamAnswers
  <2>2. c <= Est[r]
    BY EstAssumption DEF EstimatesHigh
  <2>. QED
    BY <2>1, <2>2 DEF CostInv, TypeOK
<1>2. CASE ~UpstreamAnswers(r)
  <2>1. cost' = cost
    BY <1>2 DEF Step, Begin, SelectCounter, SelectMissing, CalculateInitialSpend,
         InsertCounter, Reserve, CheckRaises, UpstreamRaises, Reconcile, ReconcileRaises,
         LogRow, locals
  <2>. QED
    BY <2>1 DEF CostInv
<1>. QED
  BY <1>1, <1>2

\* The overshoot of the counters is bounded by one estimate for each request
\* but one that check_and_reserve() can be serving at a time, however many
\* pass through, whatever fails, when estimates are upper bounds.
THEOREM OvershootIsBounded == EstimatesHigh => (Spec => []OvershootBounded)
<1>. SUFFICES ASSUME EstimatesHigh PROVE Spec => []OvershootBounded
  OBVIOUS
<1>1. Init => OverInv
  <2>. SUFFICES ASSUME Init PROVE OverInv
    OBVIOUS
  <2>1. BooksInv
    BY InitBooks
  <2>2. LooseInv
    BY DEF Init, LooseInv
  <2>3. CostInv
    BY EstAssumption DEF Init, CostInv
  <2>4. InCheck = {}
    BY DEF Init, InCheck, Checking
  <2>5. CrowdInv
    BY <2>4, FS_EmptySet, OverlapAssumption DEF CrowdInv
  <2>. QED
    BY <2>1, <2>2, <2>3, <2>5 DEF OverInv
<1>2. OverInv /\ [Next]_vars => OverInv'
  <2>. SUFFICES ASSUME OverInv, [Next]_vars PROVE OverInv'
    OBVIOUS
  <2>1. BooksInv /\ BooksInv'
    BY NextBooks DEF OverInv
  <2>2. CASE \E r \in Requests : Step(r)
    <3>1. PICK r \in Requests : Step(r)
      BY <2>2
    <3>2. CrowdInv' /\ CostInv'
      BY <2>1, <3>1, StepCrowd, StepCost DEF OverInv, BooksInv
    <3>3. \A p \in Policies, k \in Periods : LooseAt(p, k)'
      BY <2>1, <3>1, StepLoose DEF OverInv, BooksInv
    <3>4. LooseInv'
      BY <3>3 DEF LooseAt, LooseInv
    <3>. QED
      BY <2>1, <3>2, <3>4 DEF OverInv
  <2>3. CASE NewPeriod \/ UNCHANGED vars
    <3>1. UNCHANGED <<counter, pc, since, idx, cost>>
      BY <2>3 DEF NewPeriod, vars, locals
    <3>2. CrowdInv' /\ CostInv'
      BY <3>1 DEF OverInv, CrowdInv, CostInv, InCheck
    <3>3. \A p, k : Loose(p, k)' = Loose(p, k)
      BY <3>1 DEF Loose, Owed, Passed, Policy
    <3>4. LooseInv'
      BY <3>1, <3>3 DEF OverInv, LooseInv
    <3>. QED
      BY <2>1, <3>2, <3>4 DEF OverInv
  <2>. QED
    BY <2>2, <2>3 DEF Next
<1>3. OverInv => OvershootBounded
  <2>. SUFFICES ASSUME OverInv, NEW p \in Policies, NEW k \in Periods, counter[p][k] # NoRow
                PROVE  counter[p][k] <= Limit[p] + (Overlap - 1) * MaxEst
    BY DEF OvershootBounded
  <2>. DEFINE B == Limit[p] + (Overlap - 1) * MaxEst
              E == SumFunctionOnSet(Est, Loose(p, k))
  <2>1. counter[p][k] + E <= B
    BY DEF OverInv, LooseInv
  <2>2. E \in Nat
    BY RequestsAssumption, EstSum DEF Loose
  <2>3. counter[p][k] \in Int /\ B \in Int
    BY BoundType DEF OverInv, BooksInv, TypeOK, Tables
  <2>. HIDE DEF B, E
  <2>4. counter[p][k] <= B
    BY <2>1, <2>2, <2>3
  <2>. QED
    BY <2>4 DEF B
<1>. QED
  BY <1>1, <1>2, <1>3, PTL DEF Spec
=============================================================================
