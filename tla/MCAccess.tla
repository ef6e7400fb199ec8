------------------------------- MODULE MCAccess -------------------------------
(***************************************************************************)
(* Who may do what, for TLC: keys, accounts, stored identities, event      *)
(* stream and connections of the hosted backend, and tokens, policies,     *)
(* guardrails, approvals and autonomy of agents.  One component runs at a  *)
(* time, part says which; the others stay in an initial state.             *)
(***************************************************************************)
EXTENDS ApiKeys, Accounts, PiiMigration, StreamIngest, ConnPool, AgentApi,
        Governance, Guardrails, Execution, Autonomy, TLC

CONSTANT SeededPolicy  \* the policy of the seeded rule

VARIABLE part       \* the component that runs

\* Two exporters an owner may save, and the first one turned off.
OtelConfig(endpoint, key, enabled) == [endpoint |-> endpoint, key |-> key, enabled |-> enabled]
AccessOtelConfigs == {OtelConfig("x", "kx", TRUE), OtelConfig("y", "ky", TRUE),
                      OtelConfig("x", "kx", FALSE)}

RuleOf(ws, action, target, decision, capped, active) ==
    [ws |-> ws, action |-> action, target |-> target, decision |-> decision,
     capped |-> capped, active |-> active]
AccessSeededRules == [p \in {SeededPolicy} |-> RuleOf("*", "iam", "*", "DENY", FALSE, TRUE)]
AccessRuleShapes ==
    {RuleOf("w", "iam", "*", "DENY", FALSE, TRUE), RuleOf("*", "*", "*", "ALLOW", FALSE, TRUE),
     RuleOf("*", "*", "*", "DENY", TRUE, TRUE), RuleOf("*", "iam", "*", "DENY", FALSE, FALSE),
     RuleOf("w", "merge", "main", "REQUIRE_APPROVAL", FALSE, TRUE)}
AccessQuestions ==
    {[ws |-> "w", action |-> "iam", target |-> "x", costly |-> TRUE],
     [ws |-> "w", action |-> "merge", target |-> "main", costly |-> FALSE]}

Telemetry(cost, retry, toolError, forbidden) ==
    [cost |-> cost, retry |-> retry, toolError |-> toolError, tool |-> TRUE, forbidden |-> forbidden]
AccessKinds == {Telemetry(1, FALSE, FALSE, FALSE), Telemetry(2, TRUE, FALSE, FALSE),
                 Telemetry(0, FALSE, TRUE, FALSE), Telemetry(2, FALSE, FALSE, TRUE)}

\* Requests of two workspaces, to a branch that may be written or to main, with
\* a change inside or outside the paths that are allowed.
Asks(ws, branch, change) == [ws |-> ws, branch |-> branch, change |-> change]
AccessContents == {Asks("a", "fix", "in"), Asks("a", "fix", "out"),
                    Asks("a", "main", "in"), Asks("b", "fix", "in")}

\* Histories that are sparse, that are good, and that break policies.
AccessEvidence == {Rates(100, 100, 0, 0, 0, 9), Rates(90, 60, 0, 0, 0, 10),
                   Rates(80, 80, 10, 10, 20, 20)}
Watch(unit, rate, enough) == [unit |-> unit, rate |-> rate, enough |-> enough]
AccessBefores == {Watch(2, 9000, TRUE), Watch(2, 8500, TRUE), Watch(2, 9000, FALSE)}
AccessAfters == {Watch(1, 8700, TRUE), Watch(1, 8699, TRUE), Watch(2, 9000, TRUE), Watch(1, 9000, FALSE)}

AccessInit ==
    /\ part \in {"api_keys", "accounts", "resets", "pii", "stream",
               "pool", "agent_api", "governance", "guardrails",
               "execution", "autonomy"}
    /\ part = "api_keys" \/ (legacyKey = NoKey /\ keyCap = CHOOSE cap \in KeyCaps : TRUE)
    /\ part = "pii" \/ (table = "users" /\ plain = [r \in Rows |-> [c \in Columns |-> 1]])
    /\ part = "stream" \/ installed = TRUE
    /\ part = "governance" \/ mode = "OBSERVE"
    /\ part = "guardrails" \/ kind = [e \in Events |-> CHOOSE k \in Kinds : TRUE]
    /\ ApiKeysInit /\ AccountsInit /\ PiiInit /\ StreamInit /\ PoolInit
    /\ AgentApiInit /\ GovernanceInit /\ GuardrailsInit /\ ExecutionInit
    /\ AutonomyInit

AccessNext ==
    \/ (part = "api_keys" /\ ApiKeysNext
        /\ UNCHANGED <<part, accountVars, piiVars, streamVars, poolVars,
                       agentApiVars, governanceVars, guardrailVars,
                       executionVars, autonomyVars>>)
    \/ (part = "accounts" /\ FactorNext
        /\ UNCHANGED <<part, apiKeyVars, piiVars, streamVars, poolVars,
                       agentApiVars, governanceVars, guardrailVars,
                       executionVars, autonomyVars>>)
    \/ (part = "resets" /\ ResetNext
        /\ UNCHANGED <<part, apiKeyVars, piiVars, streamVars, poolVars,
                       agentApiVars, governanceVars, guardrailVars,
                       executionVars, autonomyVars>>)
    \/ (part = "pii" /\ PiiNext
        /\ UNCHANGED <<part, apiKeyVars, accountVars, streamVars,
                       poolVars, agentApiVars, governanceVars,
                       guardrailVars, executionVars, autonomyVars>>)
    \/ (part = "stream" /\ StreamNext
        /\ UNCHANGED <<part, apiKeyVars, accountVars, piiVars, poolVars,
                       agentApiVars, governanceVars, guardrailVars,
                       executionVars, autonomyVars>>)
    \/ (part = "pool" /\ PoolNext
        /\ UNCHANGED <<part, apiKeyVars, accountVars, piiVars,
                       streamVars, agentApiVars, governanceVars,
                       guardrailVars, executionVars, autonomyVars>>)
    \/ (part = "agent_api" /\ AgentApiNext
        /\ UNCHANGED <<part, apiKeyVars, accountVars, piiVars,
                       streamVars, poolVars, governanceVars,
                       guardrailVars, executionVars, autonomyVars>>)
    \/ (part = "governance" /\ GovernanceNext
        /\ UNCHANGED <<part, apiKeyVars, accountVars, piiVars,
                       streamVars, poolVars, agentApiVars, guardrailVars,
                       executionVars, autonomyVars>>)
    \/ (part = "guardrails" /\ GuardrailsNext
        /\ UNCHANGED <<part, apiKeyVars, accountVars, piiVars,
                       streamVars, poolVars, agentApiVars,
                       governanceVars, executionVars, autonomyVars>>)
    \/ (part = "execution" /\ ExecutionNext
        /\ UNCHANGED <<part, apiKeyVars, accountVars, piiVars,
                       streamVars, poolVars, agentApiVars,
                       governanceVars, guardrailVars, autonomyVars>>)
    \/ (part = "autonomy" /\ AutonomyNext
        /\ UNCHANGED <<part, apiKeyVars, accountVars, piiVars,
                       streamVars, poolVars, agentApiVars,
                       governanceVars, guardrailVars, executionVars>>)

accessVars == <<part, apiKeyVars, accountVars, piiVars, streamVars,
    poolVars, agentApiVars, governanceVars, guardrailVars, executionVars,
    autonomyVars>>
AccessSpec == AccessInit /\ [][AccessNext]_accessVars

\* The component that runs keeps to the types its module declares.
AccessTypeOK ==
    /\ part = "api_keys" => ApiKeysTypeOK
    /\ part \in {"accounts", "resets"} => AccountsTypeOK
    /\ part = "pii" => PiiTypeOK
    /\ part = "stream" => StreamTypeOK
    /\ part = "pool" => PoolTypeOK
    /\ part = "agent_api" => AgentApiTypeOK
    /\ part = "governance" => GovernanceTypeOK
    /\ part = "guardrails" => GuardrailsTypeOK
    /\ part = "execution" => ExecutionTypeOK
    /\ part = "autonomy" => AutonomyTypeOK

\* What is single-use is used once: a recovery code, the code of a time step,
\* a reset link, a telemetry event, an approval, presented by two requests at
\* the same time or again after a kill.
SingleUse ==
    /\ part = "accounts" => RecoveryCodeOnce /\ StepOnce
    /\ part = "resets" => ResetOnce
    /\ part = "guardrails" => CountedOnce
    /\ part = "execution" => OnePullRequest

\* Limits that are checked before they are enforced are passed by a bounded
\* amount: the keys of a plan, wrong codes before a lock-out, spend that was
\* only advised on, the hard budget of a task, copies in the topic; and the
\* pool is worn out through get_db only.
Bounded ==
    /\ part = "api_keys" => KeysBounded
    /\ part = "accounts" => GuessesBounded
    /\ part = "agent_api" => AdviceOvershoot
    /\ part = "guardrails" => AllowedWithinBudget
    /\ part = "stream" => CopiesBounded
    /\ part = "pool" => StarvedOnlyByGetDb

\* Nothing accepted is dropped: a stored identity is encrypted before its
\* plaintext goes, a drop that was killed is completed, and a record of an
\* accepted batch is in the topic or in the queue of the one producer.
NothingDropped ==
    /\ part = "pii" => NothingLost /\ DropCompletes
    /\ part = "stream" => AcceptedHeld /\ OneProducer

\* What an agent or a server does was permitted when it mattered: tokens and
\* workspaces, deny rules, approvals, earned autonomy and verified canaries,
\* and spans sent with the key of their endpoint, although each is read
\* before and used after an await.
Authorised ==
    /\ part = "agent_api" => RevokedStaysRevoked /\ TenantsApart
    /\ part = "stream" => ForwardedAsSaved
    /\ part = "governance" => DenyHonoured
    /\ part = "execution" => OpenedAsApproved
    /\ part = "autonomy" => EarnedByEvidence /\ ExpandedOnEvidence

\* Steps that are never taken: a look-up that finds a revoked key, a start
\* that undoes an edited rule, a writer that revives a stopped task, a call
\* that overwrites a completed result.
AccessStepsSafe ==
    /\ RevokedNotFound
    /\ RuleVersioned
    /\ StoppedStays
    /\ CompletedStays

\* Requests, workers and the like are interchangeable.  The components share
\* their model values: one symmetry serves them all.
AccessSymmetry == Permutations(Creators) \cup Permutations(Tenants)
=============================================================================
