------------------------------ MODULE Findings -------------------------------
(***************************************************************************)
(* Waste findings and their lifecycle (burnlens_cloud/findings.py and its  *)
(* local twin burnlens/storage/findings.py).  A detection pass is run by   *)
(* whoever reads stale findings: it selects and then writes each finding,  *)
(* in statements of their own.  Operators move findings through open,      *)
(* acknowledged, resolved and accepted_risk; resolving takes a baseline of *)
(* the subject, or of the cohort the operator names, and remembers which   *)
(* in the evidence.  Savings are verified against that baseline a window   *)
(* later.                                                                  *)
(***************************************************************************)
EXTENDS Naturals, FiniteSets

CONSTANTS
    Fingerprints,
    Passes,         \* reads that may run the detectors at once
    Operators,      \* set_finding_status calls in flight
    MinVerify,      \* MIN_VERIFY_REQUESTS
    Measures        \* what a scope may cost: before, after, requests, quality

ASSUME FindingsAssumption ==
    /\ MinVerify \in Nat
    /\ Measures # {} /\ Measures \subseteq [before : Nat, after : Nat, n : Nat, degraded : BOOLEAN]

Scope == {"subject", "cohort"}
FindingStatuses == {"open", "acknowledged", "resolved", "accepted_risk"}
Nowhere == "none"

VARIABLES
    finding,        \* waste_findings: a set of at most one row
    fresh,          \* MAX(last_seen_at) is within STALE_AFTER
    pass,           \* per pass: findings to write and the status selected
    resolving,      \* per operator: the resolve between its select and its update
    measured,       \* request_records: cost per request of each scope
    elapsed,        \* findings whose window after resolved_at is over
    decided,        \* history: the operator's last decision
    outdated,       \* history: findings written by a pass that had selected before a decision
    rewritten       \* history: resolved findings whose evidence a pass replaced

findingVars == <<finding, fresh, pass, resolving, measured, elapsed, decided, outdated, rewritten>>

FindingsInit ==
    /\ finding = [f \in Fingerprints |-> {}]
    /\ fresh = FALSE
    /\ pass = [p \in Passes |-> [at |-> "idle"]]
    /\ resolving = [o \in Operators |-> {}]
    /\ measured \in [Scope -> Measures]
    /\ elapsed = {} /\ outdated = {} /\ rewritten = {}
    /\ decided = [f \in Fingerprints |-> "open"]

RowOf(f) == CHOOSE r \in finding[f] : TRUE

\* refresh_findings: only when stale.  The detectors find D in the last days.
RefreshFindings(p, D) ==
    /\ pass[p].at = "idle" /\ ~ fresh
    /\ pass' = [pass EXCEPT ![p] = [at |-> "next", todo |-> D]]
    /\ UNCHANGED <<finding, fresh, resolving, measured, elapsed, decided, outdated, rewritten>>

\* sync_findings, the select of one finding.
SelectFinding(p, f) ==
    /\ pass[p].at = "next" /\ f \in pass[p].todo
    /\ pass' = [pass EXCEPT ![p] = [at |-> "selected", todo |-> @.todo \ {f}, of |-> f,
                                    status |-> {r.status : r \in finding[f]}]]
    /\ UNCHANGED <<finding, fresh, resolving, measured, elapsed, decided, outdated, rewritten>>

\* Variant of Refreshed: accepted_risk is reopened as well.
RefreshedAll(r, status) == [r EXCEPT !.status = "open", !.scope = Nowhere]

\* Variant of Refreshed: a reopened finding starts afresh.
RefreshedAfresh(r, status) ==
    [r EXCEPT !.status = IF status = "resolved" THEN "open" ELSE status, !.scope = Nowhere,
              !.resolved = @ /\ status # "resolved"]

\* The update: resolved and still detected is open again, resolved_at stays, the
\* evidence is what the detector found.
Refreshed(r, status) ==
    [r EXCEPT !.status = IF status = "resolved" THEN "open" ELSE status, !.scope = Nowhere]

\* The insert or update of one finding.  An insert that meets another pass's row
\* raises, which ends the pass.
WriteFinding(p) ==
    LET f == pass[p].of IN
    /\ pass[p].at = "selected"
    /\ IF pass[p].status = {}
       THEN IF finding[f] # {}
            THEN /\ pass' = [pass EXCEPT ![p] = [at |-> "idle"]]
                 /\ UNCHANGED <<finding, fresh, outdated, rewritten>>
            ELSE /\ finding' = [finding EXCEPT ![f] =
                      {[status |-> "open", resolved |-> FALSE, baseline |-> Nowhere, scope |-> Nowhere]}]
                 /\ pass' = [pass EXCEPT ![p] = [at |-> "next", todo |-> @.todo]]
                 /\ fresh' = TRUE
                 /\ UNCHANGED <<outdated, rewritten>>
       ELSE LET read == CHOOSE s \in pass[p].status : TRUE IN
            /\ finding' = [finding EXCEPT ![f] = {Refreshed(r, read) : r \in @}]
            /\ pass' = [pass EXCEPT ![p] = [at |-> "next", todo |-> @.todo]]
            /\ fresh' = TRUE
            /\ outdated' = IF RowOf(f).status = read THEN outdated ELSE outdated \cup {f}
            /\ rewritten' = IF RowOf(f).scope = Nowhere THEN rewritten ELSE rewritten \cup {f}
    /\ UNCHANGED <<resolving, measured, elapsed, decided>>

\* The pass is done, or raises: what is left waits for the next.
EndPass(p) ==
    /\ pass[p].at # "idle"
    /\ pass' = [pass EXCEPT ![p] = [at |-> "idle"]]
    /\ UNCHANGED <<finding, fresh, resolving, measured, elapsed, decided, outdated, rewritten>>

HourPasses ==
    /\ fresh /\ fresh' = FALSE
    /\ UNCHANGED <<finding, pass, resolving, measured, elapsed, decided, outdated, rewritten>>

\* set_finding_status other than resolved: one statement.
SetStatus(f, s) ==
    /\ finding[f] # {} /\ s # "resolved"
    /\ finding' = [finding EXCEPT ![f] = {[r EXCEPT !.status = s] : r \in @}]
    /\ decided' = [decided EXCEPT ![f] = s]
    /\ outdated' = outdated \ {f}
    /\ UNCHANGED <<fresh, pass, resolving, measured, elapsed, rewritten>>

\* Resolve, up to its second statement: the row and the spend of the scope.
ResolveSelect(o, f, s) ==
    /\ resolving[o] = {} /\ finding[f] # {}
    /\ resolving' = [resolving EXCEPT ![o] = {[of |-> f, scope |-> s]}]
    /\ UNCHANGED <<finding, fresh, pass, measured, elapsed, decided, outdated, rewritten>>

\* Resolve, its update: status, resolved_at, baseline and evidence together.
ResolveUpdate(o) ==
    \E q \in resolving[o] :
    /\ finding' = [finding EXCEPT ![q.of] =
                     {[status |-> "resolved", resolved |-> TRUE, baseline |-> q.scope, scope |-> q.scope]}]
    /\ elapsed' = elapsed \ {q.of}
    /\ decided' = [decided EXCEPT ![q.of] = "resolved"]
    /\ outdated' = outdated \ {q.of} /\ rewritten' = rewritten \ {q.of}
    /\ resolving' = [resolving EXCEPT ![o] = {}]
    /\ UNCHANGED <<fresh, pass, measured>>

\* baseline_window_days after resolved_at.
WindowElapses(f) ==
    /\ finding[f] # {} /\ RowOf(f).resolved /\ f \notin elapsed
    /\ elapsed' = elapsed \cup {f}
    /\ UNCHANGED <<finding, fresh, pass, resolving, measured, decided, outdated, rewritten>>

FindingsNext ==
    \/ HourPasses
    \/ \E p \in Passes :
         \/ \E D \in SUBSET Fingerprints : RefreshFindings(p, D)
         \/ \E f \in Fingerprints : SelectFinding(p, f)
         \/ WriteFinding(p) \/ EndPass(p)
    \/ \E f \in Fingerprints :
         \/ \E s \in FindingStatuses : SetStatus(f, s)
         \/ WindowElapses(f)
    \/ \E o \in Operators :
         \/ \E f \in Fingerprints, s \in Scope : ResolveSelect(o, f, s)
         \/ ResolveUpdate(o)

(***************************************************************************)
(* verify_savings.                                                         *)
(***************************************************************************)
\* The scope the evidence names, or the finding's own subject.
VerifiedScope(r) == IF r.scope = Nowhere THEN "subject" ELSE r.scope

\* Variant of ClassifySavings: a flat cost counts as saved.
ClassifySavingsFlat(before, after, n) ==
    IF n < MinVerify THEN "inconclusive" ELSE IF after <= before THEN "verified" ELSE "missed"

\* classify_savings
ClassifySavings(before, after, n) ==
    IF n < MinVerify THEN "inconclusive" ELSE IF after < before THEN "verified" ELSE "missed"

\* The verdict on finding f.  A saving bought with fewer accepted outcomes is
\* missed.
Verdict(f) ==
    LET r == RowOf(f)
        then == measured[r.baseline]
        since == measured[VerifiedScope(r)]
        saved == ClassifySavings(then.before, since.after, since.n) IN
    CASE ~ r.resolved -> "no_baseline"
      [] r.resolved /\ f \notin elapsed -> "pending"
      [] r.resolved /\ f \in elapsed /\ since.n = 0 -> "no_traffic"
      [] OTHER -> IF saved = "verified" /\ since.degraded THEN "missed" ELSE saved

(***************************************************************************)
(* Properties.                                                             *)
(***************************************************************************)
FindingsTypeOK ==
    /\ fresh \in BOOLEAN /\ elapsed \subseteq Fingerprints
    /\ \A f \in Fingerprints : Cardinality(finding[f]) <= 1
    /\ \A f \in Fingerprints : \A r \in finding[f] :
         r.status \in FindingStatuses /\ {r.baseline, r.scope} \subseteq Scope \cup {Nowhere}

\* What an operator decided stands against any number of detection passes: only
\* a resolved finding that is detected again opens, and only a pass that had
\* selected the finding before the decision undoes it.
DecisionStands ==
    \A f \in Fingerprints : \A r \in finding[f] :
      \/ r.status = decided[f] \/ f \in outdated
      \/ decided[f] = "resolved" /\ r.status = "open"

\* The anchor of a fix survives: once resolved, a finding keeps resolved_at and
\* its baseline through reopening and every later status.
AnchorKept ==
    [][\A f \in Fingerprints : \A r \in finding[f] : r.resolved =>
         \A s \in finding'[f] : s.resolved /\ s.baseline # Nowhere]_finding

\* A saving reported as verified is one: the scope whose baseline was taken
\* costs less per request than before, with its quality kept, unless a later
\* pass has replaced the evidence that names the scope.
VerifiedIsSaving ==
    \A f \in Fingerprints : \A r \in finding[f] :
      (Verdict(f) = "verified" /\ f \notin rewritten) =>
        LET m == measured[r.baseline] IN m.after < m.before /\ m.n >= MinVerify /\ ~ m.degraded
=============================================================================
