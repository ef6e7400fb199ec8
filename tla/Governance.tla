----------------------------- MODULE Governance ------------------------------
(***************************************************************************)
(* Governance of agent actions (governance/engine.py): versioned policy    *)
(* rules with a seeded baseline, and evaluate_action, which reads the      *)
(* active rules of a workspace, decides by the strictest match and writes  *)
(* an audit record in a second transaction.  Rules are edited and the      *)
(* schema is initialised again, by another process, at any time.           *)
(***************************************************************************)
EXTENDS Naturals, FiniteSets

CONSTANTS
    Policies,       \* policy ids
    SeededRules,    \* DEFAULT_BASELINE_POLICIES: rule per seeded policy id
    RuleShapes,     \* rules an operator may save
    Questions,      \* actions asked about: workspace, action, target, costly
    Evaluators,     \* evaluations in flight
    MaxVersion,     \* bound on edits
    MaxAsked        \* bound on evaluations

Modes == {"OBSERVE", "SHADOW", "APPROVAL_REQUIRED", "ENFORCED", "AUTONOMOUS"}
Decisions == {"DENY", "REQUIRE_APPROVAL", "BUDGET_EXCEEDED", "ALLOW"}

ASSUME GovernanceAssumption ==
    /\ DOMAIN SeededRules \subseteq Policies
    /\ {MaxVersion, MaxAsked} \subseteq Nat /\ MaxVersion > 0

VARIABLES
    rules,          \* policy_rules: a set of at most one rule per id
    asking,         \* per evaluation: the question and the rules it has read
    audit,          \* policy_evaluations
    mode            \* GovernanceEngine.mode, given to its constructor

governanceVars == <<rules, asking, audit, mode>>

GovernanceInit ==
    /\ rules = [p \in Policies |-> {}]
    /\ asking = [a \in Evaluators |-> {}]
    /\ audit = {} /\ mode \in Modes

WithVersion(shape, v) == [shape |-> shape, version |-> v]

\* Variant of Seeded: the baseline is written whatever is there.
SeededAlways(p) ==
    IF p \in DOMAIN SeededRules THEN {WithVersion(SeededRules[p], 1)} ELSE rules[p]

\* Only into an empty table, and never over a row (INSERT OR IGNORE).
Seeded(p) ==
    IF p \in DOMAIN SeededRules /\ \A q \in Policies : rules[q] = {}
    THEN {WithVersion(SeededRules[p], 1)} ELSE rules[p]

\* init_governance_schema: one transaction; the tables exist or are created.
InitGovernanceSchema ==
    /\ rules' = [p \in Policies |-> Seeded(p)]
    /\ UNCHANGED <<asking, audit, mode>>

\* save_policy_rule: insert, or update with the stored version plus one.
\* Evaluations under way may have read the rule as it was.
SavePolicyRule(p, s) ==
    LET v == IF rules[p] = {} THEN 1 ELSE (CHOOSE r \in rules[p] : TRUE).version + 1 IN
    /\ v <= MaxVersion
    /\ rules' = [rules EXCEPT ![p] = {WithVersion(s, v)}]
    /\ asking' = [a \in Evaluators |-> {[q EXCEPT !.standing = @ \ rules[p]] : q \in asking[a]}]
    /\ UNCHANGED <<audit, mode>>

\* get_active_rules: the rules of the workspace and the global ones.
ActiveRules(ws) == {r \in UNION {rules[p] : p \in Policies} : r.shape.active /\ r.shape.ws \in {ws, "*"}}

\* evaluate_action up to its first await.
AskAbout(a, q) ==
    /\ asking[a] = {} /\ Cardinality(audit) < MaxAsked
    /\ asking' = [asking EXCEPT ![a] =
                    {[question |-> q, read |-> ActiveRules(q.ws), standing |-> ActiveRules(q.ws)]}]
    /\ UNCHANGED <<rules, audit, mode>>

\* The rule names the action and the target (fnmatch).
Concerns(r, q) ==
    /\ r.shape.action \in {"*", q.action}
    /\ r.shape.target \in {"*", q.target}

\* The decision of one rule that concerns q: a rule with max_cost_usd asks for
\* approval above it and says nothing below, whatever its own decision is.
Candidates(read, q) ==
    {r.shape.decision : r \in {x \in read : Concerns(x, q) /\ ~ x.shape.capped}}
      \cup {"REQUIRE_APPROVAL" : r \in {x \in read : Concerns(x, q) /\ x.shape.capped /\ q.costly}}

\* Variant of Strictest: an explicit ALLOW wins.
StrictestAllow(C) ==
    IF "ALLOW" \in C \/ C = {} THEN "ALLOW"
    ELSE IF "DENY" \in C THEN "DENY" ELSE "REQUIRE_APPROVAL"

\* sort_priority
Strictest(C) ==
    IF "DENY" \in C THEN "DENY"
    ELSE IF "REQUIRE_APPROVAL" \in C THEN "REQUIRE_APPROVAL"
    ELSE IF "BUDGET_EXCEEDED" \in C THEN "BUDGET_EXCEEDED" ELSE "ALLOW"

\* What the enforcement mode makes of the decision.
EffectiveAction(decision) ==
    CASE mode \in {"OBSERVE", "SHADOW"} -> "ALLOWED_BY_SHADOW_MODE"
      [] mode = "APPROVAL_REQUIRED" ->
           IF decision \in {"DENY", "REQUIRE_APPROVAL"} THEN "BLOCKED_PENDING_APPROVAL" ELSE "PROCEED"
      [] mode = "ENFORCED" -> IF decision = "DENY" THEN "DENIED" ELSE "PROCEED"
      [] OTHER -> "AUTONOMOUS_EXECUTE"

\* The rest of evaluate_action, record_evaluation included.
RecordEvaluation(a) ==
    /\ asking[a] # {}
    /\ LET q == CHOOSE x \in asking[a] : TRUE
           decision == Strictest(Candidates(q.read, q.question)) IN
       audit' = audit \cup {[by |-> a, question |-> q.question, standing |-> q.standing,
                             decision |-> decision, effective |-> EffectiveAction(decision)]}
    /\ asking' = [asking EXCEPT ![a] = {}]
    /\ UNCHANGED <<rules, mode>>

\* The call ends without a record: the audit write raises.
EvaluationFails(a) ==
    /\ asking[a] # {}
    /\ asking' = [asking EXCEPT ![a] = {}]
    /\ UNCHANGED <<rules, audit, mode>>

GovernanceNext ==
    \/ InitGovernanceSchema
    \/ \E p \in Policies, s \in RuleShapes : SavePolicyRule(p, s)
    \/ \E a \in Evaluators :
         \/ \E q \in Questions : AskAbout(a, q)
         \/ RecordEvaluation(a) \/ EvaluationFails(a)

(***************************************************************************)
(* Properties.                                                             *)
(***************************************************************************)
GovernanceTypeOK ==
    /\ \A p \in Policies : Cardinality(rules[p]) <= 1
    /\ \A p \in Policies : \A r \in rules[p] : r.version \in 1..MaxVersion
    /\ \A e \in audit : e.decision \in Decisions

\* A deny rule that stood during the whole evaluation of an action it concerns
\* stops it in every mode that enforces: no permissive or newer rule beside it,
\* and no edit of another rule meanwhile, lets the action proceed.
DenyHonoured ==
    \A e \in audit : \A r \in e.standing :
      (Concerns(r, e.question) /\ ~ r.shape.capped /\ r.shape.decision = "DENY"
         /\ mode \in {"APPROVAL_REQUIRED", "ENFORCED"})
      => e.effective \in {"DENIED", "BLOCKED_PENDING_APPROVAL"}

\* A rule changes only by an edit, which raises its version: starting another
\* process on the database never puts the baseline back over an edited rule.
RuleVersioned ==
    [][\A p \in Policies : \A r \in rules[p] :
         \A s \in rules'[p] : s.version > r.version \/ s = r]_rules
=============================================================================
