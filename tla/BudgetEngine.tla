---------------------------- MODULE BudgetEngine ----------------------------
(***************************************************************************)
(* Hierarchical budget policies of the proxy: reserve an estimate before   *)
(* the upstream call, reconcile with the actual cost after it.             *)
(*                                                                         *)
(* Every request builds its own BudgetEngine, so the asyncio.Lock of the   *)
(* engine excludes nobody; what remains between two requests is SQLite.  A *)
(* SELECT reads the last committed table; the first INSERT or UPDATE of a  *)
(* connection takes the write lock, which it keeps until commit or close.  *)
(***************************************************************************)
EXTENDS Integers, Sequences, FiniteSets, FiniteSetsExt

CONSTANTS
    Requests,     \* requests that reach check_and_reserve()
    Policies,     \* config.budget_policies
    NoRequest,    \* nobody holds the SQLite write lock
    NoRow,        \* budget_counters has no such row
    Limit,        \* Limit[p]: limit_usd
    Est,          \* Est[r]: estimated cost; 0 for a model without a price
    Priced,       \* is_model_priced() holds for the model of the request
    Match,        \* Match[r]: the policies matching r, in configuration order
    CountedBy,    \* CountedBy[r]: the policies whose SUM counts the row of r
    Actuals,      \* Actuals[r]: what r may turn out to cost
    BlockUnpriced,\* config.block_unpriced_models
    MaxPeriod,    \* bound on period changes
    Overlap,      \* how many requests may be inside check_and_reserve()
    DbMayFail     \* a statement may raise (database is locked, disk full)

Periods == 0..MaxPeriod

ASSUME RequestsAssumption == IsFiniteSet(Requests) /\ Requests # {}
ASSUME NoRequestAssumption == NoRequest \notin Requests
ASSUME NoRowAssumption == NoRow \notin Int
ASSUME LimitAssumption == Limit \in [Policies -> Nat]
ASSUME EstAssumption ==
    /\ Est \in [Requests -> Nat] /\ Priced \subseteq Requests
    /\ \A r \in Requests \ Priced : Est[r] = 0
ASSUME MatchAssumption == Match \in [Requests -> Seq(Policies)]
ASSUME CountedByAssumption == CountedBy \in [Requests -> SUBSET Policies]
ASSUME ActualsAssumption == Actuals \in [Requests -> SUBSET Nat]
ASSUME MaxPeriodAssumption == MaxPeriod \in Nat
ASSUME OverlapAssumption == Overlap \in Nat \ {0}
ASSUME FlagsAssumption == BlockUnpriced \in BOOLEAN /\ DbMayFail \in BOOLEAN

VARIABLES
    period,    \* current budget period
    counter,   \* counter[p][k]: committed current_spend, or NoRow
    lock,      \* holder of the SQLite write lock
    fresh,     \* fresh[p]: row inserted by the lock holder, not committed
    recorded,  \* recorded[p][k]: SUM(cost_usd) for p since the start of k
    pc,        \* where each request is
    since,     \* since[r]: period_start of the reservation of r
    idx,       \* idx[r]: policy of Match[r] being checked
    spent,     \* spent[r]: initial_spend read for a missing row
    cost,      \* cost[r]: actual cost, once known
    holds,     \* holds[r]: the reservation lists policies
    settled,   \* settled[r]: reconcile() committed
    seed       \* history: seed[p][k], the value the row was created with

vars == <<period, counter, lock, fresh, recorded, pc, since, idx, spent, cost,
          holds, settled, seed>>
locals == <<since, idx, spent, cost>>

PcValues == {"idle", "select", "sum", "insert", "reserve", "forward",
             "reconcile", "log", "done", "refused", "unpriced", "failed"}

Tables == [Policies -> [Periods -> Int \cup {NoRow}]]

TypeOK ==
    /\ period \in Periods
    /\ counter \in Tables
    /\ lock \in Requests \cup {NoRequest}
    /\ fresh \in [Policies -> Nat \cup {NoRow}]
    /\ recorded \in [Policies -> [Periods -> Nat]]
    /\ pc \in [Requests -> PcValues]
    /\ since \in [Requests -> Periods]
    /\ idx \in [Requests -> Nat]
    /\ spent \in [Requests -> Nat]
    /\ cost \in [Requests -> Nat]
    /\ holds \in [Requests -> BOOLEAN]
    /\ settled \in [Requests -> BOOLEAN]
    /\ seed \in [Policies -> [Periods -> Nat]]

Init ==
    /\ period = 0
    /\ counter = [p \in Policies |-> [k \in Periods |-> NoRow]]
    /\ lock = NoRequest
    /\ fresh = [p \in Policies |-> NoRow]
    /\ recorded = [p \in Policies |-> [k \in Periods |-> 0]]
    /\ pc = [r \in Requests |-> "idle"]
    /\ since = [r \in Requests |-> 0]
    /\ idx = [r \in Requests |-> 1]
    /\ spent = [r \in Requests |-> 0]
    /\ cost = [r \in Requests |-> 0]
    /\ holds = [r \in Requests |-> FALSE]
    /\ settled = [r \in Requests |-> FALSE]
    /\ seed = [p \in Policies |-> [k \in Periods |-> 0]]

-----------------------------------------------------------------------------
Goto(r, l) == pc' = [pc EXCEPT ![r] = l]

PolicySet(r) == {Match[r][i] : i \in 1..Len(Match[r])}

Checking == {"select", "sum", "insert", "reserve"}

NoneFresh == [p \in Policies |-> NoRow]

\* The row of policy p in the period of r, as the connection of r sees it.
RowSeen(r, p) ==
    IF lock = r /\ fresh[p] # NoRow THEN fresh[p] ELSE counter[p][since[r]]

\* The write lock is free for r; otherwise its statement waits.
MayWrite(r) == lock \in {NoRequest, r}

\* Variant of Release: the connection is leaked with its transaction open.
ReleaseLeaks(r) == UNCHANGED <<lock, fresh>>

\* Rollback: the connection of r is closed.
Release(r) ==
    IF lock = r
    THEN lock' = NoRequest /\ fresh' = NoneFresh
    ELSE UNCHANGED <<lock, fresh>>

\* The policy under check.
Policy(r) == Match[r][idx[r]]

\* UPDATE ... SET current_spend = current_spend + amount, for each policy of
\* the reservation; a missing row is not touched.
Bumped(row, amount) == IF row = NoRow THEN NoRow ELSE row + amount

\* Variant of Bump: the period is computed anew instead of remembered.
BumpNow(r, amount) ==
    [p \in Policies |->
        IF p \in PolicySet(r)
        THEN [counter[p] EXCEPT ![period] = Bumped(RowSeen(r, p), amount)]
        ELSE counter[p]]

Bump(r, amount) ==
    [p \in Policies |->
        IF p \in PolicySet(r)
        THEN [counter[p] EXCEPT ![since[r]] = Bumped(RowSeen(r, p), amount)]
        ELSE counter[p]]

-----------------------------------------------------------------------------
(* check_and_reserve().                                                    *)

\* Estimate, match the policies, and leave at once when nothing is to be
\* reserved.
Begin(r) ==
    /\ pc[r] = "idle"
    /\ Cardinality({q \in Requests : pc[q] \in Checking}) < Overlap
    /\ since' = [since EXCEPT ![r] = period]
    /\ \/ /\ \/ Match[r] = <<>>
             \/ Est[r] = 0 /\ (BlockUnpriced => r \in Priced)
          /\ Goto(r, "forward")
       \/ /\ Match[r] # <<>> /\ Est[r] = 0 /\ BlockUnpriced /\ r \notin Priced
          /\ Goto(r, "unpriced")
       \/ /\ Match[r] # <<>> /\ Est[r] > 0
          /\ Goto(r, "select")
    /\ UNCHANGED <<period, counter, lock, fresh, recorded, idx, spent, cost,
                   holds, settled, seed>>

\* Variant of Within: the estimate is left out of the comparison.
WithinNow(r, current) == current <= Limit[Policy(r)]

\* What follows the read of current_spend: refuse, or go on to the next
\* policy.
Within(r, current) == current + Est[r] <= Limit[Policy(r)]

NextPolicy(r) ==
    /\ idx' = [idx EXCEPT ![r] = @ + 1]
    /\ Goto(r, IF idx[r] = Len(Match[r]) THEN "reserve" ELSE "select")

SelectCounter(r) ==
    /\ pc[r] = "select"
    /\ LET row == RowSeen(r, Policy(r))
       IN  /\ row # NoRow
           /\ \/ Within(r, row) /\ NextPolicy(r) /\ UNCHANGED <<lock, fresh>>
              \/ ~Within(r, row) /\ Goto(r, "refused") /\ Release(r)
                 /\ UNCHANGED idx
    /\ UNCHANGED <<period, counter, recorded, since, spent, cost, holds, settled,
                   seed>>

SelectMissing(r) ==
    /\ pc[r] = "select"
    /\ RowSeen(r, Policy(r)) = NoRow
    /\ Goto(r, "sum")
    /\ UNCHANGED <<period, counter, lock, fresh, recorded, locals, holds,
                   settled, seed>>

\* _calculate_initial_spend(): a failing query counts as nothing spent.
CalculateInitialSpend(r) ==
    /\ pc[r] = "sum"
    /\ \/ spent' = [spent EXCEPT ![r] = recorded[Policy(r)][since[r]]]
       \/ DbMayFail /\ spent' = [spent EXCEPT ![r] = 0]
    /\ Goto(r, "insert")
    /\ UNCHANGED <<period, counter, lock, fresh, recorded, since, idx, cost,
                   holds, settled, seed>>

\* INSERT OR IGNORE.  The check that follows uses the sum just read, even
\* when another request created the row in the meantime.
InsertCounter(r) ==
    /\ pc[r] = "insert"
    /\ MayWrite(r)
    /\ \/ /\ Within(r, spent[r])
          /\ lock' = r
          /\ fresh' = IF RowSeen(r, Policy(r)) = NoRow
                      THEN [fresh EXCEPT ![Policy(r)] = spent[r]]
                      ELSE fresh
          /\ NextPolicy(r)
       \/ /\ ~Within(r, spent[r])
          /\ Release(r)
          /\ Goto(r, "refused")
          /\ UNCHANGED idx
    /\ UNCHANGED <<period, counter, recorded, since, spent, cost, holds,
                   settled, seed>>

\* All UPDATEs and the commit: one write transaction.
Reserve(r) ==
    /\ pc[r] = "reserve"
    /\ MayWrite(r)
    /\ counter' = Bump(r, Est[r])
    /\ seed' = [p \in Policies |->
                  IF lock = r /\ fresh[p] # NoRow
                  THEN [seed[p] EXCEPT ![since[r]] = fresh[p]]
                  ELSE seed[p]]
    /\ lock' = NoRequest
    /\ fresh' = NoneFresh
    /\ holds' = [holds EXCEPT ![r] = TRUE]
    /\ Goto(r, "forward")
    /\ UNCHANGED <<period, recorded, locals, settled>>

\* An exception anywhere in the check fails open: no reservation, and the
\* request is forwarded.
CheckRaises(r) ==
    /\ DbMayFail
    /\ pc[r] \in Checking
    /\ Release(r)
    /\ Goto(r, "forward")
    /\ UNCHANGED <<period, counter, recorded, locals, holds, settled,
                   seed>>

-----------------------------------------------------------------------------
(* The upstream call and reconcile().                                      *)

\* A response below 400 costs what its usage says; an HTTP error costs 0.
UpstreamAnswers(r) ==
    /\ pc[r] = "forward"
    /\ \E c \in Actuals[r] \cup {0} : cost' = [cost EXCEPT ![r] = c]
    /\ Goto(r, "reconcile")
    /\ UNCHANGED <<period, counter, lock, fresh, recorded, since, idx, spent,
                   holds, settled, seed>>

\* No response (connect error after the retries, read timeout, client gone):
\* the exception leaves handle_request() past every reconcile().
UpstreamRaises(r) ==
    /\ pc[r] = "forward"
    /\ Goto(r, "failed")
    /\ UNCHANGED <<period, counter, lock, fresh, recorded, locals, holds,
                   settled, seed>>

\* Variant of Reconcile: an actual cost of zero is taken for unknown.
ReconcileNonzero(r) ==
    /\ pc[r] = "reconcile"
    /\ \/ /\ ~holds[r] \/ cost[r] = 0
          /\ UNCHANGED <<counter, settled>>
       \/ /\ holds[r] /\ cost[r] # 0
          /\ lock = NoRequest
          /\ counter' = Bump(r, cost[r] - Est[r])
          /\ settled' = [settled EXCEPT ![r] = TRUE]
    /\ Goto(r, "log")
    /\ UNCHANGED <<period, lock, fresh, recorded, locals, holds, seed>>

\* A reservation without policies is skipped; the others are corrected in
\* the period they were made in, whatever the period is now.
Reconcile(r) ==
    /\ pc[r] = "reconcile"
    /\ \/ /\ ~holds[r]
          /\ UNCHANGED <<counter, settled>>
       \/ /\ holds[r]
          /\ lock = NoRequest
          /\ counter' = Bump(r, cost[r] - Est[r])
          /\ settled' = [settled EXCEPT ![r] = TRUE]
    /\ Goto(r, "log")
    /\ UNCHANGED <<period, lock, fresh, recorded, locals, holds, seed>>

\* The exception of a failing reconcile() is logged and dropped.
ReconcileRaises(r) ==
    /\ DbMayFail
    /\ pc[r] = "reconcile"
    /\ holds[r]
    /\ Goto(r, "log")
    /\ UNCHANGED <<period, counter, lock, fresh, recorded, locals, holds,
                   settled, seed>>

\* Variant of LogRow: the correction is recorded instead of the cost.
LogDelta(r) ==
    /\ pc[r] = "log"
    /\ recorded' = [p \in Policies |-> [k \in Periods |->
                       IF p \in CountedBy[r] /\ k <= period
                       THEN recorded[p][k] + cost[r] - Est[r]
                       ELSE recorded[p][k]]]
    /\ Goto(r, "done")
    /\ UNCHANGED <<period, counter, lock, fresh, locals, holds, settled, seed>>

\* The row reaches table requests, with the time of this step.
LogRow(r) ==
    /\ pc[r] = "log"
    /\ recorded' = [p \in Policies |-> [k \in Periods |->
                       IF p \in CountedBy[r] /\ k <= period
                       THEN recorded[p][k] + cost[r] ELSE recorded[p][k]]]
    /\ Goto(r, "done")
    /\ UNCHANGED <<period, counter, lock, fresh, locals, holds, settled, seed>>

NewPeriod ==
    /\ period < MaxPeriod
    /\ period' = period + 1
    /\ UNCHANGED <<counter, lock, fresh, recorded, pc, locals, holds, settled,
                   seed>>

-----------------------------------------------------------------------------
Step(r) ==
    \/ Begin(r) \/ SelectCounter(r) \/ SelectMissing(r)
    \/ CalculateInitialSpend(r) \/ InsertCounter(r) \/ Reserve(r)
    \/ CheckRaises(r) \/ UpstreamAnswers(r) \/ UpstreamRaises(r)
    \/ Reconcile(r) \/ ReconcileRaises(r) \/ LogRow(r)

Next == (\E r \in Requests : Step(r)) \/ NewPeriod

Spec == Init /\ [][Next]_vars

\* The event loop resumes every request; statements and upstream calls end.
Fairness == \A r \in Requests : WF_vars(Step(r))

FairSpec == Spec /\ Fairness

-----------------------------------------------------------------------------
(* Properties.                                                             *)

\* What request r contributes to the counters of its reservation.
Share(r) == IF settled[r] THEN cost[r] ELSE IF holds[r] THEN Est[r] ELSE 0

Shares == [r \in Requests |-> Share(r)]

Contributors(p, k) == {r \in Requests : p \in PolicySet(r) /\ since[r] = k}

\* No reservation or correction is lost, applied twice or applied to another
\* period, however the statements of the requests interleave and fail: every
\* counter is the value it was created with plus the estimate of each open
\* reservation plus the actual cost of each settled one.
BooksBalance ==
    \A p \in Policies, k \in Periods :
        counter[p][k] # NoRow =>
            counter[p][k] = seed[p][k] + SumFunctionOnSet(Shares, Contributors(p, k))

\* How far concurrent checks can overshoot: by one estimate for each request
\* but one that can be inside check_and_reserve() at a time, however many
\* requests pass through in sequence.
MaxEst == Max({Est[r] : r \in Requests})

OvershootBounded ==
    \A p \in Policies, k \in Periods :
        counter[p][k] # NoRow =>
            counter[p][k] <= Limit[p] + (Overlap - 1) * MaxEst

\* A request that the policies refused has left nothing behind: it holds no
\* reservation, and rows it had inserted for its first policies are rolled
\* back and do not keep the table locked for the others.
RefusedLeavesNothing ==
    \A r \in Requests :
        pc[r] \in {"refused", "unpriced"} => ~holds[r] /\ lock # r

\* Waiting for SQLite's write lock never becomes everyone waiting for
\* everyone: every request that enters the check is refused, answered and
\* logged, or fails.
EveryRequestEnds ==
    \A r \in Requests :
        <>(pc[r] \in {"done", "refused", "unpriced", "failed"})

\* After a response the reservation is corrected to the actual cost, if the
\* database takes the update.
AnsweredSettled ==
    \A r \in Requests :
        (pc[r] = "reconcile" /\ holds[r]) ~> settled[r]
=============================================================================
