---------------------------- MODULE HostedAlerts -----------------------------
(***************************************************************************)
(* The cron jobs of the hosted backend that write to customers: hourly     *)
(* quota alerts (alert_engine.py) and weekly digests (digest.py), posted   *)
(* by an external scheduler (cron_api.py) that may fire a job again while  *)
(* the last one runs.  One workspace with one alert rule is modelled:      *)
(* workspaces and rules share nothing.  Time is a tick.                    *)
(***************************************************************************)
EXTENDS Naturals, FiniteSets

CONSTANTS
    AlertRuns,      \* evaluate-alerts requests
    DigestRuns,     \* weekly-digest requests
    QuietTime,      \* the 24 hours of _should_fire
    MinGap,         \* DIGEST_MIN_GAP_DAYS
    MaxTime,        \* bound on time
    Thresholds,     \* 80 and 100, as levels of usage
    MaxUsage        \* bound on usage

ASSUME HostedAlertsAssumption ==
    {QuietTime, MinGap, MaxTime, MaxUsage} \subseteq Nat /\ Thresholds \subseteq Nat /\ Thresholds # {}

VARIABLES
    time,
    usage,          \* workspace_usage_cycles.request_count
    rule,           \* alert_rules: enabled and threshold_pct
    events,         \* alert_events: fired_at and status
    alertRun,       \* per run: step and its clock
    digestOn,       \* weekly_digest_enabled
    lastSent,       \* weekly_digest_last_sent_at; a set of at most one
    digestRun,      \* per run: step, its clock and the last_sent it fetched
    alertMail,      \* history: when alerts reached someone; a set of at most one
    digestMail,     \* history: when the last digest was delivered
    clash,          \* history: "alert" or "digest" sent twice within its time
    excuse          \* history: "alert" or "digest" runs that overlapped or lost a stamp

hostedAlertVars == <<time, usage, rule, events, alertRun, digestOn, lastSent, digestRun,
                     alertMail, digestMail, clash, excuse>>

alertSide == <<rule, events, alertRun, alertMail>>
digestSide == <<digestOn, lastSent, digestRun, digestMail>>
JobIdle == [at |-> "idle"]

HostedAlertsInit ==
    /\ time = 0 /\ usage = 0
    /\ rule \in [enabled : {TRUE}, threshold : Thresholds] /\ events = {}
    /\ alertRun = [r \in AlertRuns |-> JobIdle]
    /\ digestOn = TRUE /\ lastSent = {}
    /\ digestRun = [r \in DigestRuns |-> JobIdle]
    /\ alertMail = {} /\ digestMail = {} /\ clash = {} /\ excuse = {}

TimePasses ==
    /\ time < MaxTime /\ time' = time + 1
    /\ UNCHANGED <<usage, alertSide, digestSide, clash, excuse>>

UsageGrows ==
    /\ usage < MaxUsage /\ usage' = usage + 1
    /\ UNCHANGED <<time, alertSide, digestSide, clash, excuse>>

\* patch_alert_rule
PatchAlertRule(on, t) ==
    /\ rule' = [enabled |-> on, threshold |-> t]
    /\ UNCHANGED <<time, usage, events, alertRun, alertMail, digestSide, clash, excuse>>

\* evaluate_all_workspaces fetches plan, cap and count of every workspace once.
EvaluateAlerts(r) ==
    /\ alertRun[r] = JobIdle
    /\ alertRun' = [alertRun EXCEPT ![r] = [at |-> "rules", clock |-> time, count |-> usage]]
    /\ UNCHANGED <<time, usage, rule, events, alertMail, digestSide, clash, excuse>>

\* _should_fire: no event of the rule, sent or failed, in the quiet time.
ShouldFire(t) == \A e \in events : e.at + QuietTime <= t

\* evaluate_workspace up to the dispatch: enabled, crossed and not deduped.
EvaluateRule(r) ==
    LET q == alertRun[r]
        due == rule.enabled /\ q.count >= rule.threshold /\ ShouldFire(q.clock) IN
    /\ q.at = "rules"
    /\ alertRun' = [alertRun EXCEPT ![r] = IF due THEN [at |-> "due", clock |-> q.clock] ELSE JobIdle]
    /\ excuse' = IF due /\ \E s \in AlertRuns : alertRun[s].at \in {"due", "sent"}
                 THEN excuse \cup {"alert"} ELSE excuse
    /\ UNCHANGED <<time, usage, rule, events, alertMail, digestSide, clash>>

\* _dispatch_email, _dispatch_slack, _dispatch_teams: never raise.  The e-mail
\* channel says sent once the mail is queued.
DispatchAlert(r, ok) ==
    /\ alertRun[r].at = "due"
    /\ alertRun' = [alertRun EXCEPT ![r] = [at |-> "sent", clock |-> @.clock, ok |-> ok]]
    /\ alertMail' = IF ok THEN {time} ELSE alertMail
    /\ clash' = IF ok /\ \E t \in alertMail : t + QuietTime > time THEN clash \cup {"alert"} ELSE clash
    /\ UNCHANGED <<time, usage, rule, events, digestSide, excuse>>

\* The audit row, with the clock of the run.
RecordAlert(r) ==
    /\ alertRun[r].at = "sent"
    /\ events' = events \cup {[at |-> alertRun[r].clock, ok |-> alertRun[r].ok]}
    /\ alertRun' = [alertRun EXCEPT ![r] = JobIdle]
    /\ excuse' = IF alertRun[r].clock # time THEN excuse \cup {"alert"} ELSE excuse
    /\ UNCHANGED <<time, usage, rule, alertMail, digestSide, clash>>

\* The insert raises or the run is cut off.
AlertRunDies(r) ==
    /\ alertRun[r].at # "idle"
    /\ alertRun' = [alertRun EXCEPT ![r] = JobIdle]
    /\ excuse' = IF alertRun[r].at = "sent" THEN excuse \cup {"alert"} ELSE excuse
    /\ UNCHANGED <<time, usage, rule, events, alertMail, digestSide, clash>>

\* update_weekly_digest
UpdateWeeklyDigest(on) ==
    /\ digestOn' = on
    /\ UNCHANGED <<time, usage, lastSent, digestRun, digestMail, alertSide, clash, excuse>>

\* send_weekly_digests fetches the opted-in workspaces with their last_sent.
SendWeeklyDigests(r) ==
    /\ digestRun[r] = JobIdle /\ digestOn
    /\ digestRun' = [digestRun EXCEPT ![r] = [at |-> "fetched", clock |-> time, last |-> lastSent]]
    /\ UNCHANGED <<time, usage, digestOn, lastSent, digestMail, alertSide, clash, excuse>>

\* Variant of Due: a workspace is due a tick early.
DueEarly(q) == \A t \in q.last : t <= q.clock

\* last_sent < due_before
Due(q) == \A t \in q.last : t + MinGap < q.clock

\* One workspace: skipped if recent, or empty or without an owner; else
\* deliver_now.
DeliverDigest(r, ok) ==
    LET q == digestRun[r] IN
    /\ q.at = "fetched"
    /\ IF Due(q) /\ ok
       THEN /\ digestRun' = [digestRun EXCEPT ![r] = [at |-> "delivered", clock |-> q.clock]]
            /\ digestMail' = {time}
            /\ clash' = IF \E t \in digestMail : t + MinGap >= time THEN clash \cup {"digest"} ELSE clash
            /\ excuse' = IF lastSent # q.last \/ \E s \in DigestRuns : digestRun[s].at = "delivered"
                         THEN excuse \cup {"digest"} ELSE excuse
       ELSE /\ digestRun' = [digestRun EXCEPT ![r] = JobIdle]
            /\ UNCHANGED <<digestMail, clash, excuse>>
    /\ UNCHANGED <<time, usage, digestOn, lastSent, alertSide>>

\* The stamp, with the clock of the run, after a confirmed delivery only.
StampDigest(r) ==
    /\ digestRun[r].at = "delivered"
    /\ lastSent' = {digestRun[r].clock}
    /\ digestRun' = [digestRun EXCEPT ![r] = JobIdle]
    /\ excuse' = IF digestRun[r].clock # time THEN excuse \cup {"digest"} ELSE excuse
    /\ UNCHANGED <<time, usage, digestOn, digestMail, alertSide, clash>>

\* The stamp raises or the run is cut off between delivery and stamp.
DigestRunDies(r) ==
    /\ digestRun[r].at # "idle"
    /\ digestRun' = [digestRun EXCEPT ![r] = JobIdle]
    /\ excuse' = IF digestRun[r].at = "delivered" THEN excuse \cup {"digest"} ELSE excuse
    /\ UNCHANGED <<time, usage, digestOn, lastSent, digestMail, alertSide, clash>>

\* The two jobs share only the clock.
AlertJobNext ==
    \/ TimePasses \/ UsageGrows
    \/ \E on \in BOOLEAN, t \in Thresholds : PatchAlertRule(on, t)
    \/ \E r \in AlertRuns :
         \/ EvaluateAlerts(r) \/ EvaluateRule(r) \/ RecordAlert(r) \/ AlertRunDies(r)
         \/ \E ok \in BOOLEAN : DispatchAlert(r, ok)

DigestJobNext ==
    \/ TimePasses
    \/ \E on \in BOOLEAN : UpdateWeeklyDigest(on)
    \/ \E r \in DigestRuns :
         \/ SendWeeklyDigests(r) \/ StampDigest(r) \/ DigestRunDies(r)
         \/ \E ok \in BOOLEAN : DeliverDigest(r, ok)

(***************************************************************************)
(* Properties.                                                             *)
(***************************************************************************)
HostedAlertsTypeOK ==
    /\ time \in 0..MaxTime /\ usage \in 0..MaxUsage /\ rule.threshold \in Thresholds
    /\ Cardinality(lastSent) <= 1 /\ Cardinality(digestMail) <= 1 /\ Cardinality(alertMail) <= 1
    /\ clash \cup excuse \subseteq {"alert", "digest"}

\* A customer is not written to twice in a quiet time: neither an alert within
\* 24 hours nor a digest within the gap is repeated, unless two runs overlapped,
\* a run outlasted its clock or a run ended between the mail and its record.
QuietKept == clash \subseteq excuse
=============================================================================
