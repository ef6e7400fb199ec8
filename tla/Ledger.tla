-------------------------------- MODULE Ledger -------------------------------
(***************************************************************************)
(* The books of one workspace and one provider in the hosted backend:      *)
(* rows that arrive late, the daily comparison with the provider's bill    *)
(* (reconciliation.py), the nightly retention prune                        *)
(* (compliance/retention_prune.py) and the confidence report that puts     *)
(* them together.  A priced row costs 1, an unpriced one 0; days are       *)
(* numbers; only equal amounts are within DRIFT_ALERT_THRESHOLD_PCT.       *)
(***************************************************************************)
EXTENDS Naturals, FiniteSets

CONSTANTS
    LedgerRows,     \* rows the proxies may push
    CronRuns,       \* reconcile jobs in flight
    Retentions,     \* retention_days of the plans; 0 keeps for ever
    LastDay         \* bound on the days

ASSUME LedgerAssumption ==
    /\ Retentions \subseteq Nat /\ Retentions # {} /\ LastDay \in Nat
    /\ IsFiniteSet(LedgerRows)

LedgerDays == 0..LastDay
RowClasses == {"calculated", "unpriced"}    \* an estimated row is like a calculated one

VARIABLES
    today,
    records,        \* request_records: day and pricing class per row; a set of at most one
    billed,         \* what the provider bills for each day
    credential,     \* reconciliation_credentials has the provider's key
    runs,           \* reconciliation_runs per day; a set of at most one
    job,            \* per job: step, day and what it has read
    retention,      \* retention_days of the current plan
    prune,          \* the prune under way and the limit it has read
    moved,          \* history: days whose rows changed after a job had summed them
    wronged         \* history: rows deleted although the plan of that moment keeps them

ledgerVars == <<today, records, billed, credential, runs, job, retention, prune, moved, wronged>>

\* The provider's bills are what they are; nobody asks about the last day.
LedgerInit ==
    /\ today = 0 /\ records = [r \in LedgerRows |-> {}]
    /\ billed \in [LedgerDays -> {0, 1}] /\ billed[LastDay] = 0
    /\ credential = FALSE /\ runs = [d \in LedgerDays |-> {}]
    /\ job = [j \in CronRuns |-> [at |-> "idle"]]
    /\ retention \in Retentions /\ prune = [at |-> "idle"]
    /\ moved = {} /\ wronged = FALSE

RowsOf(d) == {r \in LedgerRows : \E x \in records[r] : x.day = d}
DayCost(d) == Cardinality({r \in RowsOf(d) : \A x \in records[r] : x.class # "unpriced"})

\* A day whose sum some run or job already holds.
Summed(d) == runs[d] # {} \/ \E j \in CronRuns : job[j].at = "summed" /\ job[j].day = d

DayPasses ==
    /\ today < LastDay /\ today' = today + 1
    /\ UNCHANGED <<records, billed, credential, runs, job, retention, prune, moved, wronged>>

\* ingest: a row of today, or of any earlier day when a proxy was offline.
RowArrives(r, d, class) ==
    /\ records[r] = {} /\ d <= today
    /\ records' = [records EXCEPT ![r] = {[day |-> d, class |-> class]}]
    /\ moved' = IF Summed(d) THEN moved \cup {d} ELSE moved
    /\ UNCHANGED <<today, billed, credential, runs, job, retention, prune, wronged>>

(***************************************************************************)
(* Reconciliation.                                                         *)
(***************************************************************************)
\* put_reconciliation_credential stores a key that worked, and
\* delete_reconciliation_credential forgets it; past runs stay.
SetCredential(on) ==
    /\ credential # on /\ credential' = on
    /\ UNCHANGED <<today, records, billed, runs, job, retention, prune, moved, wronged>>

\* reconcile_all_workspaces lists the credentials and asks the provider about
\* yesterday.  A fetch that fails leaves the day without a run.
FetchBill(j) ==
    /\ job[j].at = "idle" /\ credential /\ today > 0
    /\ job' = [job EXCEPT ![j] = [at |-> "fetched", day |-> today - 1, bill |-> billed[today - 1]]]
    /\ UNCHANGED <<today, records, billed, credential, runs, retention, prune, moved, wronged>>

\* _burnlens_day_cost
SumDay(j) ==
    /\ job[j].at = "fetched"
    /\ job' = [job EXCEPT ![j] = [at |-> "summed", day |-> @.day, bill |-> @.bill,
                                  cost |-> DayCost(job[j].day)]]
    /\ UNCHANGED <<today, records, billed, credential, runs, retention, prune, moved, wronged>>

\* Variant of StoreRun: an insert beside the run that is there.
StoreRunBeside(j) ==
    /\ job[j].at = "summed"
    /\ runs' = [runs EXCEPT ![job[j].day] = @ \cup {[bill |-> job[j].bill, cost |-> job[j].cost]}]
    /\ job' = [job EXCEPT ![j] = [at |-> "idle"]]
    /\ UNCHANGED <<today, records, billed, credential, retention, prune, moved, wronged>>

\* The upsert of the day's run.  A sum from before a change replaces a newer one.
StoreRun(j) ==
    /\ job[j].at = "summed"
    /\ runs' = [runs EXCEPT ![job[j].day] = {[bill |-> job[j].bill, cost |-> job[j].cost]}]
    /\ job' = [job EXCEPT ![j] = [at |-> "idle"]]
    /\ UNCHANGED <<today, records, billed, credential, retention, prune, moved, wronged>>

JobDies(j) ==
    /\ job[j].at # "idle"
    /\ job' = [job EXCEPT ![j] = [at |-> "idle"]]
    /\ UNCHANGED <<today, records, billed, credential, runs, retention, prune, moved, wronged>>

\* compute_drift_pct and classify: without a bill, agreement is no cost.
DriftVerdict(run) ==
    IF run.bill = 0 THEN (IF run.cost = 0 THEN "reconciled" ELSE "drifted")
    ELSE IF run.cost = run.bill THEN "reconciled" ELSE "drifted"

SpendDays(from) == {d \in from..today : RowsOf(d) # {}}

\* Variant of PeriodStatus: the last run speaks for the whole window.
PeriodStatusLatest(from) ==
    IF ~ credential THEN "none"
    ELSE IF \A d \in SpendDays(from) : runs[d] = {} THEN "unreconciled"
    ELSE LET d == CHOOSE d \in SpendDays(from) :
                    runs[d] # {} /\ \A e \in SpendDays(from) : runs[e] # {} => e <= d
         IN  DriftVerdict(CHOOSE x \in runs[d] : TRUE)

\* build_period_provider_status: every day with spend needs a run of its own.
PeriodStatus(from) ==
    IF ~ credential THEN "none"
    ELSE IF \E d \in SpendDays(from) : runs[d] = {} THEN "unreconciled"
    ELSE IF \E d \in SpendDays(from) : \E x \in runs[d] : DriftVerdict(x) = "drifted" THEN "drifted"
    ELSE "reconciled"

\* classify_row: unpriced outranks reconciled.
ConfidenceClass(r, from) ==
    LET class == (CHOOSE x \in records[r] : TRUE).class IN
    IF class = "unpriced" THEN "unpriced"
    ELSE IF PeriodStatus(from) = "reconciled" THEN "reconciled" ELSE class

(***************************************************************************)
(* Retention.                                                              *)
(***************************************************************************)
PlanRetention(days) ==
    /\ days \in Retentions \ {retention}
    /\ retention' = days
    /\ UNCHANGED <<today, records, billed, credential, runs, job, prune, moved, wronged>>

\* Variant of Limited: zero days are a limit like any other.
LimitedAlways(days) == TRUE

\* None and 0 keep the rows for ever.
Limited(days) == days # 0

\* _prune_workspace reads the limits once ...
StartPrune ==
    /\ prune.at = "idle"
    /\ prune' = IF Limited(retention) THEN [at |-> "batch", days |-> retention] ELSE prune
    /\ UNCHANGED <<today, records, billed, credential, runs, job, retention, moved, wronged>>

ExpiredAt(d, days) == d + days < today

\* ... and deletes expired rows in batches with the clock of each statement.
\* A prune that had read the limit before the plan changed goes on with it.
DeleteBatch(r) ==
    /\ prune.at = "batch"
    /\ \E x \in records[r] :
         /\ ExpiredAt(x.day, prune.days)
         /\ records' = [records EXCEPT ![r] = {}]
         /\ moved' = IF Summed(x.day) THEN moved \cup {x.day} ELSE moved
         /\ wronged' = (wronged \/ (prune.days = retention /\ (retention = 0 \/ x.day + retention >= today)))
    /\ UNCHANGED <<today, billed, credential, runs, job, retention, prune>>

\* A batch deletes less than its size, or raises.
EndPrune ==
    /\ prune.at = "batch"
    /\ prune' = [at |-> "idle"]
    /\ UNCHANGED <<today, records, billed, credential, runs, job, retention, moved, wronged>>

LedgerNext ==
    \/ DayPasses
    \/ \E r \in LedgerRows : \/ \E d \in LedgerDays, class \in RowClasses : RowArrives(r, d, class)
                             \/ DeleteBatch(r)
    \/ \E on \in BOOLEAN : SetCredential(on)
    \/ \E j \in CronRuns : FetchBill(j) \/ SumDay(j) \/ StoreRun(j) \/ JobDies(j)
    \/ \E days \in Retentions : PlanRetention(days)
    \/ StartPrune \/ EndPrune

(***************************************************************************)
(* Properties.                                                             *)
(***************************************************************************)
LedgerTypeOK ==
    /\ today \in LedgerDays /\ credential \in BOOLEAN /\ retention \in Retentions
    /\ \A r \in LedgerRows : Cardinality(records[r]) <= 1
    /\ \A r \in LedgerRows : \A x \in records[r] : x.day <= today
    /\ \A d \in LedgerDays : Cardinality(runs[d]) <= 1

\* Money reported as reconciled agrees with the bill: on every day of the window
\* the rows that are there now add up to what the provider billed, unless rows
\* of that day came or went after the day was summed.
ReconciledBacked ==
    \A from \in LedgerDays : \A r \in LedgerRows :
      \A x \in records[r] : (x.day >= from /\ ConfidenceClass(r, from) = "reconciled") =>
        \A d \in from..today : RowsOf(d) # {} => (DayCost(d) = billed[d] \/ d \in moved)

\* The prune deletes nothing that the workspace's plan keeps; only a prune that
\* read another plan's limit may.
KeptRowsStay == ~ wronged
=============================================================================
