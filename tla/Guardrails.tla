------------------------------ MODULE Guardrails -----------------------------
(***************************************************************************)
(* Runtime guardrails (burnlens/guardrails): telemetry events of one task  *)
(* are deduplicated, judged against the accumulated metrics and answered;  *)
(* the task is paused or stopped.  Deduplication, reading the task,        *)
(* changing its state and adding to its metrics are separate transactions. *)
(***************************************************************************)
EXTENDS Naturals, FiniteSets

CONSTANTS
    Evals,          \* evaluations in flight at a time
    Events,         \* telemetry event ids
    Kinds,          \* what an event reports: cost, retry, toolError, tool, forbidden
    HardBudget, MaxRetries, MaxToolErrors, MaxTaskRequests,     \* GuardrailPolicy
    MaxDeliveries   \* bound on the number of deliveries

ASSUME GuardrailsAssumption ==
    /\ IsFiniteSet(Evals) /\ Evals # {} /\ "operator" \notin Evals
    /\ {HardBudget, MaxRetries, MaxToolErrors, MaxTaskRequests, MaxDeliveries} \subseteq Nat
    /\ Kinds # {} /\ \A k \in Kinds : k.cost \in Nat

VARIABLES
    kind,           \* what each event reports, the same on every delivery
    state,          \* task_guardrail_state.state
    metrics,        \* cost, retries, toolErrors, requests of the task
    ingested,       \* guardrail_telemetry_dedup
    eval,           \* per evaluation: step, event, decision
    resuming,       \* the operator has seen PAUSED and is about to resume
    tallied,        \* history: how often an event is in the metrics
    outrun,         \* history: events with two deliveries past the duplicate check
    allowed,        \* history: cost of the events answered ALLOW after judgement
    older,          \* history: writers that had read the task before it was stopped
    deliveries

guardrailVars == <<kind, state, metrics, ingested, eval, resuming, tallied, outrun,
                   allowed, older, deliveries>>

GuardrailsInit ==
    /\ kind \in [Events -> Kinds]
    /\ state = "ACTIVE"
    /\ metrics = [cost |-> 0, retries |-> 0, toolErrors |-> 0, requests |-> 0]
    /\ ingested = {}
    /\ eval = [v \in Evals |-> [at |-> "idle"]]
    /\ resuming = FALSE
    /\ tallied = [e \in Events |-> 0] /\ outrun = {}
    /\ allowed = 0 /\ older = {} /\ deliveries = 0

EvalMoves(v, to) == eval' = [eval EXCEPT ![v].at = to]
Count(b) == IF b THEN 1 ELSE 0

\* is_event_duplicate: a duplicate is answered ALLOW at once.
Deliver(v, e) ==
    /\ eval[v].at = "idle" /\ deliveries < MaxDeliveries
    /\ deliveries' = deliveries + 1
    /\ eval' = IF e \in ingested THEN eval
               ELSE [eval EXCEPT ![v] = [at |-> "fresh", event |-> e, says |-> "none"]]
    /\ outrun' = IF \E w \in Evals : eval[w].at = "fresh" /\ eval[w].event = e
                THEN outrun \cup {e} ELSE outrun
    /\ UNCHANGED <<kind, state, metrics, ingested, resuming, tallied, allowed, older>>

\* Variant of RecordEventIngestion: the event is not remembered.
RecordEventIngestionNot(v) ==
    /\ eval[v].at = "fresh"
    /\ EvalMoves(v, "ingested")
    /\ UNCHANGED <<kind, state, metrics, ingested, resuming, tallied, outrun, allowed, older, deliveries>>

\* record_event_ingestion: INSERT OR IGNORE.
RecordEventIngestion(v) ==
    /\ eval[v].at = "fresh"
    /\ ingested' = ingested \cup {eval[v].event}
    /\ EvalMoves(v, "ingested")
    /\ UNCHANGED <<kind, state, metrics, resuming, tallied, outrun, allowed, older, deliveries>>

\* Variant of Judge: the budget is compared with what was spent before.
JudgeLate(k) ==
    CASE k.forbidden -> "DENY"
      [] metrics.cost > HardBudget -> "STOP"
      [] metrics.retries + Count(k.retry) >= MaxRetries -> "PAUSE"
      [] metrics.toolErrors + Count(k.toolError) >= MaxToolErrors -> "PAUSE"
      [] metrics.requests + 1 >= MaxTaskRequests -> "PAUSE"
      [] OTHER -> "ALLOW"

\* GuardrailDetector.evaluate: the precedence of the failures.
Judge(k) ==
    CASE k.forbidden -> "DENY"
      [] metrics.cost + k.cost > HardBudget -> "STOP"
      [] metrics.retries + Count(k.retry) >= MaxRetries -> "PAUSE"
      [] metrics.toolErrors + Count(k.toolError) >= MaxToolErrors -> "PAUSE"
      [] metrics.requests + 1 >= MaxTaskRequests -> "PAUSE"
      [] OTHER -> "ALLOW"

\* Variant of Turned: a stopped task is judged like any other.
TurnedPaused == state = "PAUSED"

\* A stopped or paused task answers at once and its metrics stay.
Turned == state \in {"STOPPED", "PAUSED"}

EvaluateTask(v) ==
    /\ eval[v].at = "ingested"
    /\ eval' = [eval EXCEPT ![v] =
                  IF Turned THEN [at |-> "idle"]
                  ELSE [@ EXCEPT !.at = "judged", !.says = Judge(kind[eval[v].event])]]
    /\ UNCHANGED <<kind, state, metrics, ingested, resuming, tallied, outrun, allowed, older, deliveries>>

\* set_task_state for PAUSE and STOP, without a condition on the state.
SetTaskState(v) ==
    /\ eval[v].at = "judged"
    /\ state' = CASE eval[v].says = "PAUSE" -> "PAUSED"
                  [] eval[v].says = "STOP" -> "STOPPED"
                  [] OTHER -> state
    /\ older' = IF eval[v].says = "STOP"
                THEN {w \in Evals \ {v} : eval[w].at = "judged"} \cup (IF resuming THEN {"operator"} ELSE {})
                ELSE older \ {v}
    /\ EvalMoves(v, "set")
    /\ UNCHANGED <<kind, metrics, ingested, resuming, tallied, outrun, allowed, deliveries>>

\* update_task_metrics, one atomic UPDATE; then the decision is returned.
UpdateTaskMetrics(v) ==
    /\ eval[v].at = "set"
    /\ LET k == kind[eval[v].event] IN
       /\ metrics' = [cost |-> metrics.cost + k.cost,
                      retries |-> metrics.retries + Count(k.retry),
                      toolErrors |-> IF ~k.toolError /\ k.tool THEN 0
                                     ELSE metrics.toolErrors + Count(k.toolError),
                      requests |-> metrics.requests + 1]
       /\ allowed' = allowed + (IF eval[v].says = "ALLOW" THEN k.cost ELSE 0)
    /\ tallied' = [tallied EXCEPT ![eval[v].event] = @ + 1]
    /\ eval' = [eval EXCEPT ![v] = [at |-> "idle"]]
    /\ UNCHANGED <<kind, state, ingested, resuming, outrun, older, deliveries>>

\* resume_task: the state is read, and set to ACTIVE in another transaction.
ResumeRead ==
    /\ ~resuming /\ state = "PAUSED"
    /\ resuming' = TRUE
    /\ UNCHANGED <<kind, state, metrics, ingested, eval, tallied, outrun, allowed, older, deliveries>>

ResumeWrite ==
    /\ resuming
    /\ state' = "ACTIVE" /\ resuming' = FALSE
    /\ metrics' = [metrics EXCEPT !.retries = 0, !.toolErrors = 0]
    /\ older' = older \ {"operator"}
    /\ UNCHANGED <<kind, ingested, eval, tallied, outrun, allowed, deliveries>>

GuardrailsKilled ==
    /\ \E v \in Evals : eval[v].at # "idle"
    /\ eval' = [v \in Evals |-> [at |-> "idle"]]
    /\ resuming' = FALSE /\ older' = {}
    /\ UNCHANGED <<kind, state, metrics, ingested, tallied, outrun, allowed, deliveries>>

GuardrailsNext ==
    \/ \E v \in Evals, e \in Events : Deliver(v, e)
    \/ \E v \in Evals : \/ RecordEventIngestion(v) \/ EvaluateTask(v)
                        \/ SetTaskState(v) \/ UpdateTaskMetrics(v)
    \/ ResumeRead \/ ResumeWrite \/ GuardrailsKilled

(***************************************************************************)
(* Properties.                                                             *)
(***************************************************************************)
GuardrailsTypeOK ==
    /\ state \in {"ACTIVE", "PAUSED", "STOPPED"}
    /\ metrics \in [{"cost", "retries", "toolErrors", "requests"} -> Nat]
    /\ ingested \subseteq Events /\ allowed \in Nat /\ deliveries \in 0..MaxDeliveries

\* A redelivered event is added to the metrics once, unless its two deliveries
\* were both past the duplicate check before either was remembered.
CountedOnce == \A e \in Events : tallied[e] > 1 => e \in outrun

\* The cost of what was let through stays within the hard budget, and within
\* one event more for every further evaluation in flight: forbidden events,
\* which are charged without being stopped, do not buy anything.
AllowedWithinBudget ==
    \A most \in {k.cost : k \in Kinds} :
      (\A k \in Kinds : k.cost <= most) =>
        allowed <= HardBudget + (Cardinality(Evals) - 1) * most

\* STOPPED is left only through a writer that had read the task before it was
\* stopped; nothing that begins afterwards can pause or resume it.
StoppedStays ==
    [][(state = "STOPPED" /\ state' # "STOPPED") => older' # older]_guardrailVars
=============================================================================
