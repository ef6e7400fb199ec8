----------------------------- MODULE LocalAlerts -----------------------------
(***************************************************************************)
(* Budget alerts of the proxy (alerts/engine.py, analysis/budget.py).      *)
(* Every finished request starts two tasks beside the one that stores its  *)
(* record: check_and_dispatch compares the spend of each budget period     *)
(* with its thresholds, check_and_dispatch_key_budgets the day's spend of  *)
(* a key with its cap.  Both remember in AlertEngine._fired what they have *)
(* announced; _fired lives as long as the process.  Spend is counted in    *)
(* units, thresholds are levels of it, time is the day.  One key label is  *)
(* modelled: labels share nothing.                                         *)
(***************************************************************************)
EXTENDS Naturals, FiniteSets, FiniteSetsExt

CONSTANTS
    Finishers,      \* requests whose checks may be in flight at once
    Periods,        \* lengths in days of the periods that have a budget
    Levels,         \* levels at which a threshold is crossed
    MaxDay,         \* bound on days
    MaxUnits        \* bound on requests a day

ASSUME LocalAlertsAssumption ==
    /\ Periods \subseteq Nat \ {0} /\ Levels \subseteq Nat \ {0}
    /\ IsFiniteSet(Finishers) /\ IsFiniteSet(Levels)
    /\ {MaxDay, MaxUnits} \subseteq Nat

VARIABLES
    day,
    cost,           \* requests table: units stored per day of their timestamp
    unstored,       \* units logged and still on their way through the WAL
    budgetCheck,    \* per request: check_and_dispatch
    keyCheck,       \* per request: check_and_dispatch_key_budgets
    firedSet,       \* AlertEngine._fired
    sent,           \* history: alerts sent by this process, with how often
    seen,           \* history: crossings a finished reading of this process found
    strayed         \* history: days under which an earlier day's key alert was filed

localAlertVars == <<day, cost, unstored, budgetCheck, keyCheck, firedSet, sent, seen, strayed>>

Days == 0..MaxDay
AlertIdle == [at |-> "idle"]
BudgetAlerts == [kind : {"budget"}, period : Periods, start : Days, level : Levels]
KeyAlerts == [kind : {"key"}, day : Days, level : Levels]

LocalAlertsInit ==
    /\ day = 0
    /\ cost = [d \in Days |-> 0] /\ unstored = [d \in Days |-> 0]
    /\ budgetCheck = [c \in Finishers |-> AlertIdle]
    /\ keyCheck = [c \in Finishers |-> AlertIdle]
    /\ firedSet = {} /\ seen = {} /\ strayed = {}
    /\ sent = [a \in BudgetAlerts \cup KeyAlerts |-> 0]

Midnight ==
    /\ day < MaxDay /\ day' = day + 1
    /\ UNCHANGED <<cost, unstored, budgetCheck, keyCheck, firedSet, sent, seen, strayed>>

\* The end of a request: its record goes to the WAL, its two checks start.
\* check_thresholds takes its clock before it reads anything.
FinishRequest(c) ==
    /\ budgetCheck[c] = AlertIdle /\ keyCheck[c] = AlertIdle
    /\ cost[day] + unstored[day] < MaxUnits
    /\ unstored' = [unstored EXCEPT ![day] = @ + 1]
    /\ budgetCheck' = [budgetCheck EXCEPT ![c] =
                         [at |-> "reading", day |-> day, left |-> Periods, found |-> {}]]
    /\ keyCheck' = [keyCheck EXCEPT ![c] = [at |-> "reading"]]
    /\ UNCHANGED <<day, cost, firedSet, sent, seen, strayed>>

\* The persistence worker inserts a record (WalPipeline has the detail).
StoreUnit(d) ==
    /\ unstored[d] > 0
    /\ unstored' = [unstored EXCEPT ![d] = @ - 1]
    /\ cost' = [cost EXCEPT ![d] = @ + 1]
    /\ UNCHANGED <<day, budgetCheck, keyCheck, firedSet, sent, seen, strayed>>

\* _period_start_iso
PeriodStart(p, d) == (d \div p) * p

\* get_total_cost(since)
CostSince(d) == FoldSet(LAMBDA e, s : cost[e] + s, 0, d..MaxDay)

\* The thresholds of one period that its spend has reached.
Crossed(p, d) ==
    {[kind |-> "budget", period |-> p, start |-> PeriodStart(p, d), level |-> l] :
       l \in {x \in Levels : CostSince(PeriodStart(p, d)) >= x}}

\* Variant of NewAlerts: told from what was sent for any start of the period.
NewAlertsAnyStart(found) ==
    {a \in found : ~ \E f \in firedSet : f.kind = "budget" /\ f.period = a.period /\ f.level = a.level}

\* _is_fired
NewAlerts(found) == found \ firedSet

\* One period of check_thresholds; a query that fails is skipped.  After the
\* last one _run filters, with no await between.
ReadPeriod(c, p, ok) ==
    LET b == budgetCheck[c]
        found == b.found \cup (IF ok THEN Crossed(p, b.day) ELSE {})
        left == b.left \ {p} IN
    /\ b.at = "reading" /\ p \in b.left
    /\ budgetCheck' = [budgetCheck EXCEPT ![c] =
         IF left # {} THEN [b EXCEPT !.left = left, !.found = found]
         ELSE [at |-> "dispatching", queue |-> NewAlerts(found)]]
    /\ seen' = IF left # {} THEN seen ELSE seen \cup found
    /\ UNCHANGED <<day, cost, unstored, keyCheck, firedSet, sent, strayed>>

\* _mark_fired and _dispatch of one alert, after _get_top_model or the send
\* before it.  A send that fails is swallowed by the channel.
Dispatch(c, a) ==
    /\ budgetCheck[c].at = "dispatching" /\ a \in budgetCheck[c].queue
    /\ firedSet' = firedSet \cup {a}
    /\ sent' = [sent EXCEPT ![a] = @ + 1]
    /\ budgetCheck' = [budgetCheck EXCEPT ![c].queue = @ \ {a}]
    /\ UNCHANGED <<day, cost, unstored, keyCheck, seen, strayed>>

BudgetCheckDone(c) ==
    /\ budgetCheck[c].at = "dispatching" /\ budgetCheck[c].queue = {}
    /\ budgetCheck' = [budgetCheck EXCEPT ![c] = AlertIdle]
    /\ UNCHANGED <<day, cost, unstored, keyCheck, firedSet, sent, seen, strayed>>

\* check_key_budgets: the highest level of today's spend, if any, then list_keys.
ReadKeySpend(c) ==
    LET reached == {l \in Levels : cost[day] >= l}
        a == [kind |-> "key", day |-> day, level |-> Max(reached)] IN
    /\ keyCheck[c].at = "reading"
    /\ IF reached = {}
       THEN keyCheck' = [keyCheck EXCEPT ![c] = AlertIdle] /\ UNCHANGED seen
       ELSE /\ keyCheck' = [keyCheck EXCEPT ![c] = [at |-> "filing", alert |-> a]]
            /\ seen' = seen \cup {a}
    /\ UNCHANGED <<day, cost, unstored, budgetCheck, firedSet, sent, strayed>>

\* Variant of Filed: the day is not part of the dedup key.
FiledAnyDay(a) == \E f \in firedSet : f.kind = "key" /\ f.level = a.level

\* Variant of Filed: nothing is remembered.
FiledNever(a) == FALSE

\* key in self._fired; the day of the key is the day of filing.
Filed(a) == [a EXCEPT !.day = day] \in firedSet

\* The loop of _run_key_checks: test, mark and send without an await.
FileKeyAlert(c) ==
    LET a == keyCheck[c].alert IN
    /\ keyCheck[c].at = "filing"
    /\ IF Filed(a) THEN UNCHANGED <<firedSet, sent>>
       ELSE /\ firedSet' = firedSet \cup {[a EXCEPT !.day = day]}
            /\ sent' = [sent EXCEPT ![a] = @ + 1]
    /\ strayed' = IF a.day = day THEN strayed ELSE strayed \cup {day}
    /\ keyCheck' = [keyCheck EXCEPT ![c] = AlertIdle]
    /\ UNCHANGED <<day, cost, unstored, budgetCheck, seen>>

\* A query of a check raises: the check ends.
KeyCheckFails(c) ==
    /\ keyCheck[c].at = "reading"
    /\ keyCheck' = [keyCheck EXCEPT ![c] = AlertIdle]
    /\ UNCHANGED <<day, cost, unstored, budgetCheck, firedSet, sent, seen, strayed>>

\* The proxy restarts: checks and _fired are gone, the WAL keeps the records.
RestartProxy ==
    /\ firedSet # {}
    /\ budgetCheck' = [c \in Finishers |-> AlertIdle]
    /\ keyCheck' = [c \in Finishers |-> AlertIdle]
    /\ firedSet' = {} /\ seen' = {} /\ strayed' = {}
    /\ sent' = [a \in DOMAIN sent |-> 0]
    /\ UNCHANGED <<day, cost, unstored>>

LocalAlertsNext ==
    \/ Midnight \/ RestartProxy
    \/ \E d \in Days : StoreUnit(d)
    \/ \E c \in Finishers :
         \/ FinishRequest(c) \/ BudgetCheckDone(c)
         \/ ReadKeySpend(c) \/ FileKeyAlert(c) \/ KeyCheckFails(c)
         \/ \E p \in Periods, ok \in BOOLEAN : ReadPeriod(c, p, ok)
         \/ budgetCheck[c].at = "dispatching" /\ \E a \in budgetCheck[c].queue : Dispatch(c, a)

(***************************************************************************)
(* Properties.                                                             *)
(***************************************************************************)
LocalAlertsTypeOK ==
    /\ day \in Days /\ firedSet \cup seen \subseteq BudgetAlerts \cup KeyAlerts
    /\ \A d \in Days : cost[d] + unstored[d] <= MaxUnits /\ (d > day => cost[d] = 0)
    /\ \A c \in Finishers : budgetCheck[c].at \in {"idle", "reading", "dispatching"}

\* _fired never swallows a crossing of a budget: one that a check has read is
\* sent, or waits in a check that will send it.
BudgetCrossingSent ==
    \A a \in seen \cap BudgetAlerts :
      sent[a] > 0 \/ \E c \in Finishers : budgetCheck[c].at = "dispatching" /\ a \in budgetCheck[c].queue

\* The same for the caps of a key, except where midnight came between a check's
\* reading and its filing: such a check looks for the entry of the new day, and
\* takes it away from a check of that day.
KeyCrossingSent ==
    \A a \in seen \cap KeyAlerts :
      \/ sent[a] > 0
      \/ \E c \in Finishers : keyCheck[c].at = "filing" /\ keyCheck[c].alert = a
      \/ \E d \in strayed : a.day <= d

\* Repeats are bounded: a budget alert goes out at most once per check that
\* was in flight with the first, a key alert once, with the same exception.
RepeatsBounded ==
    \A a \in DOMAIN sent :
      /\ a.kind = "budget" => sent[a] <= Cardinality(Finishers)
      /\ a.kind = "key" => sent[a] <= 1 \/ strayed # {}
=============================================================================
