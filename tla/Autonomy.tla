------------------------------- MODULE Autonomy ------------------------------
(***************************************************************************)
(* Controlled autonomy (burnlens/autonomy, trust and verification): the    *)
(* optimisation cycles of one workspace check the kill switch and the      *)
(* trust an agent has earned, deploy a canary, compare it with a baseline, *)
(* expand it or roll it back, and update the agent's trust.  Each of these *)
(* is a transaction of its own; cycles, evaluations from evidence and the  *)
(* operator's switch interleave.                                           *)
(***************************************************************************)
EXTENDS Naturals, FiniteSets

CONSTANTS
    Cycles,         \* optimisation cycles, each run once
    Agents,
    Recs,           \* recommendations
    Evidence,       \* rates in percent and task counts an evaluation may see
    Befores,        \* what a cycle may observe before the change, and
    Afters          \* after it

VARIABLES
    killed,         \* workspace_kill_switches.is_disabled
    profile,        \* agent_trust_profiles: score in 1/100 points and level
    baseline,       \* baseline_snapshots per recommendation
    cycle,          \* per cycle: step and inputs
    plan,           \* autonomous_plans.canary_status per cycle
    earned,         \* history: level by the latest evaluation from evidence
    overtaken,      \* history: agents judged from evidence while a cycle ran
    mixed           \* history: cycles whose baseline another cycle replaced

autonomyVars == <<killed, profile, baseline, cycle, plan, earned, overtaken, mixed>>

(***************************************************************************)
(* TrustCalculator.calculate_score, in 1/100 points.  Below ten tasks the  *)
(* score is drawn to the prior of 30 and the level is RESTRICTED.          *)
(***************************************************************************)
FullScore == 10000           \* 100 points

RawScore(e) == 35 * e.accepted + 25 * e.success + 20 * (100 - e.violation)
                 + 10 * (100 - e.rollback) + 10 * (100 - e.waste)

CalculateScore(e) ==
    LET sparse == e.tasks < 10
        exact == IF sparse THEN (3000 * (10 - e.tasks) + RawScore(e) * e.tasks) \div 10
                 ELSE RawScore(e)
        score == 10 * ((exact + 5) \div 10)     \* rounded to one decimal
    IN  [score |-> score,
         level |-> IF sparse \/ score < 5000 THEN "RESTRICTED"
                   ELSE IF score < 8000 THEN "STANDARD" ELSE "EARNED_AUTONOMY"]

Rates(s, a, r, v, w, n) ==
    [success |-> s, accepted |-> a, rollback |-> r, violation |-> v, waste |-> w, tasks |-> n]

NoHistory == Rates(0, 0, 0, 0, 0, 0)
AfterExpand == Rates(98, 96, 0, 0, 2, 50)       \* what a cycle asserts of its agent
AfterRollback == Rates(90, 85, 8, 0, 5, 50)

\* What is observed before and after the change: unit cost, and outcome rate
\* in 1/100 of a percent;
\* a baseline without requests is refused, fewer than ten requests after the
\* change are not enough.
Observed == [unit : Nat, rate : Nat, enough : BOOLEAN]

ASSUME AutonomyAssumption ==
    /\ Befores \cup Afters \subseteq Observed
    /\ Evidence \subseteq [success : 0..100, accepted : 0..100, rollback : 0..100,
                           violation : 0..100, waste : 0..100, tasks : Nat]

AutonomyInit ==
    /\ killed = FALSE
    /\ profile = [a \in Agents |-> {}]
    /\ baseline = [m \in Recs |-> {}]
    /\ cycle = [y \in Cycles |-> [at |-> "idle"]]
    /\ plan = [y \in Cycles |-> "none"]
    /\ earned = [a \in Agents |-> "none"]
    /\ overtaken = {} /\ mixed = {}

\* set_workspace_kill_switch, in either direction.
SetKillSwitch ==
    /\ killed' = ~killed
    /\ UNCHANGED <<profile, baseline, cycle, plan, earned, overtaken, mixed>>

Running(y) == cycle[y].at \notin {"idle", "ended"}

\* evaluate_agent_trust from evidence: INSERT OR REPLACE of the profile.
EvaluateAgentTrust(a, e) ==
    /\ profile' = [profile EXCEPT ![a] = {CalculateScore(e)}]
    /\ earned' = [earned EXCEPT ![a] = CalculateScore(e).level]
    /\ overtaken' = IF \E y \in Cycles : Running(y) /\ cycle[y].agent = a
                    THEN overtaken \cup {a} ELSE overtaken \ {a}
    /\ UNCHANGED <<killed, baseline, cycle, plan, mixed>>

CycleMoves(y, to) == cycle' = [cycle EXCEPT ![y].at = to]

\* Step 0, the kill switch, and the audit entries of steps 1 to 3.
StartCycle(y, a, m, risky, before, after) ==
    /\ cycle[y].at = "idle"
    /\ cycle' = [cycle EXCEPT ![y] =
                   [at |-> IF killed THEN "ended" ELSE "policy", agent |-> a, rec |-> m,
                    risky |-> risky, before |-> before, after |-> after, verdict |-> "none"]]
    /\ UNCHANGED <<killed, profile, baseline, plan, earned, overtaken, mixed>>

\* Variant of Eligible: the tier is not asked for.
EligibleAnyTier(y, p) == ~cycle[y].risky

\* check_autonomy_eligibility: HIGH_RISK_ACTIONS never, then the tier.  The
\* cycle passes its own spend cap as both cost and limit and is_reversible.
Eligible(y, p) == ~cycle[y].risky /\ p.level = "EARNED_AUTONOMY"

\* Step 4: get_profile; a missing profile is created in a step of its own.
PolicyCheck(y) ==
    /\ cycle[y].at = "policy"
    /\ LET a == cycle[y].agent
       IN  CycleMoves(y, IF profile[a] = {} THEN "default"
                         ELSE IF Eligible(y, CHOOSE p \in profile[a] : TRUE) THEN "canary" ELSE "ended")
    /\ UNCHANGED <<killed, profile, baseline, plan, earned, overtaken, mixed>>

\* The profile that was missing is saved from an empty history, over one that
\* was saved meanwhile, and is the one that decides here.
DefaultProfile(y) ==
    /\ cycle[y].at = "default"
    /\ LET p == CalculateScore(NoHistory) IN
       /\ profile' = [profile EXCEPT ![cycle[y].agent] = {p}]
       /\ CycleMoves(y, IF Eligible(y, p) THEN "canary" ELSE "ended")
    /\ UNCHANGED <<killed, baseline, plan, earned, overtaken, mixed>>

\* Step 5: save_plan.
CanaryAct(y) ==
    /\ cycle[y].at = "canary"
    /\ plan' = [plan EXCEPT ![y] = "CANARY_ACTIVE"]
    /\ CycleMoves(y, "observe")
    /\ UNCHANGED <<killed, profile, baseline, earned, overtaken, mixed>>

\* Step 6: record_baseline raises without requests, and the plan stays active;
\* else INSERT OR REPLACE under the unique index on the recommendation.
RecordBaseline(y) ==
    /\ cycle[y].at = "observe"
    /\ LET m == cycle[y].rec IN
       IF ~cycle[y].before.enough
       THEN CycleMoves(y, "ended") /\ UNCHANGED <<baseline, mixed>>
       ELSE /\ baseline' = [baseline EXCEPT ![m] = {cycle[y].before}]
            /\ mixed' = mixed \cup {z \in Cycles \ {y} : cycle[z].at = "verify" /\ cycle[z].rec = m}
            /\ CycleMoves(y, "verify")
    /\ UNCHANGED <<killed, profile, plan, earned, overtaken>>

\* Variant of Verdict: a cheaper canary passes whatever its quality.
VerdictByCost(b, p) ==
    IF ~p.enough THEN "INCONCLUSIVE" ELSE IF p.unit >= b.unit THEN "FAIL" ELSE "PASS"

Tolerance == 300    \* max_tolerable_quality_drop, in 1/100 of a percent

\* verify_savings: sample size, then quality, then saving per request.  What
\* is rounded away, below 1/10000 dollar, is no difference of units here.
Verdict(b, p) ==
    CASE ~p.enough -> "INCONCLUSIVE"
      [] p.rate + Tolerance < b.rate -> "FAIL"
      [] p.unit >= b.unit -> "FAIL"
      [] OTHER -> "PASS"

\* Step 7.
VerifySavings(y) ==
    /\ cycle[y].at = "verify"
    /\ cycle' = [cycle EXCEPT ![y].at = "act",
                   ![y].verdict = Verdict(CHOOSE b \in baseline[cycle[y].rec] : TRUE, cycle[y].after)]
    /\ UNCHANGED <<killed, profile, baseline, plan, earned, overtaken, mixed>>

\* Step 8: update_plan_status.
ExpandOrRollback(y) ==
    /\ cycle[y].at = "act"
    /\ plan' = [plan EXCEPT ![y] = IF cycle[y].verdict = "PASS" THEN "VERIFIED_EXPANDED"
                                   ELSE "ROLLED_BACK"]
    /\ CycleMoves(y, "trust")
    /\ UNCHANGED <<killed, profile, baseline, earned, overtaken, mixed>>

\* Step 9: the profile is replaced by one from fixed rates.
TrustUpdate(y) ==
    /\ cycle[y].at = "trust"
    /\ profile' = [profile EXCEPT ![cycle[y].agent] =
                     {CalculateScore(IF cycle[y].verdict = "PASS" THEN AfterExpand ELSE AfterRollback)}]
    /\ CycleMoves(y, "ended")
    /\ UNCHANGED <<killed, baseline, plan, earned, overtaken, mixed>>

AutonomyKilled ==
    /\ \E y \in Cycles : Running(y)
    /\ cycle' = [y \in Cycles |-> IF Running(y) THEN [cycle[y] EXCEPT !.at = "ended"] ELSE cycle[y]]
    /\ UNCHANGED <<killed, profile, baseline, plan, earned, overtaken, mixed>>

AutonomyNext ==
    \/ SetKillSwitch
    \/ \E a \in Agents, e \in Evidence : EvaluateAgentTrust(a, e)
    \/ \E y \in Cycles, a \in Agents, m \in Recs, risky \in BOOLEAN, b \in Befores, p \in Afters :
          StartCycle(y, a, m, risky, b, p)
    \/ \E y \in Cycles : \/ PolicyCheck(y) \/ DefaultProfile(y) \/ CanaryAct(y) \/ RecordBaseline(y)
                         \/ VerifySavings(y) \/ ExpandOrRollback(y) \/ TrustUpdate(y)
    \/ AutonomyKilled

(***************************************************************************)
(* Properties.                                                             *)
(***************************************************************************)
AutonomyTypeOK ==
    /\ killed \in BOOLEAN
    /\ \A a \in Agents : \A p \in profile[a] : p.score \in 0..FullScore
    /\ \A m \in Recs : Cardinality(baseline[m]) <= 1
    /\ plan \in [Cycles -> {"none", "CANARY_ACTIVE", "VERIFIED_EXPANDED", "ROLLED_BACK"}]

\* Autonomy is earned from evidence: an agent holds the tier only if the latest
\* evaluation from evidence gave it, although every cycle rewrites the profile
\* from rates nobody measured.  Only an evaluation that falls into a running
\* cycle of the agent can be overwritten by it.
EarnedByEvidence ==
    \A a \in Agents : \A p \in profile[a] :
      p.level = "EARNED_AUTONOMY" => earned[a] = "EARNED_AUTONOMY" \/ a \in overtaken

\* What a cycle measured after its change is cheaper than the baseline that
\* another (or the same) cycle recorded, and worse by the tolerance at most.
Improves(y, z) ==
    /\ cycle[z].at # "idle" /\ cycle[z].rec = cycle[y].rec /\ cycle[z].before.enough
    /\ cycle[y].after.rate + Tolerance >= cycle[z].before.rate
    /\ cycle[y].after.unit < cycle[z].before.unit

\* A canary is expanded only on a sufficient sample that is cheaper, at a
\* quality within the tolerance, than what its own cycle measured before; or,
\* if another cycle of the same recommendation replaced the snapshot in
\* between, than what such a cycle measured.
ExpandedOnEvidence ==
    \A y \in Cycles : plan[y] = "VERIFIED_EXPANDED" =>
      /\ cycle[y].after.enough
      /\ Improves(y, y) \/ (y \in mixed /\ \E z \in Cycles \ {y} : Improves(y, z))
=============================================================================
