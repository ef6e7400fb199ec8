------------------------------ MODULE AgentApi -------------------------------
(***************************************************************************)
(* The API agents call over HTTP and MCP (api/agent_security.py,           *)
(* agent_router.py, mcp_adapter.py, agent_service.py): bearer tokens held  *)
(* in memory by a TokenManager, scopes and a workspace per token, and      *)
(* seven read-only operations.  check_budget tells an agent whether the    *)
(* spend it plans still fits; nothing is reserved.  Time is a tick, spend  *)
(* a count.                                                                *)
(***************************************************************************)
EXTENDS Naturals, FiniteSets

CONSTANTS
    Bearers,        \* token strings
    Tenants,        \* workspaces
    ApiCalls,       \* calls in flight
    Limit,          \* budget_limit_usd that the agents pass
    Planned,        \* planned_spend_usd that the agents pass
    MaxTick         \* bound on time

ASSUME AgentApiAssumption ==
    /\ IsFiniteSet(ApiCalls) /\ ApiCalls # {}
    /\ {Limit, Planned, MaxTick} \subseteq Nat

Scopes == {"economics:read", "budget:check", "simulation:execute"}

VARIABLES
    tick,
    tokenOf,        \* TokenManager._tokens: a set of at most one context
    revokedTokens,  \* TokenManager._revoked_tokens
    apiCall,        \* per call: its step and the context it was given
    spendOf,        \* requests table: spend per workspace
    barred          \* history: calls authenticated with a token already revoked

agentApiVars == <<tick, tokenOf, revokedTokens, apiCall, spendOf, barred>>

AgentApiInit ==
    /\ tick = 0
    /\ tokenOf = [b \in Bearers |-> {}] /\ revokedTokens = {}
    /\ apiCall = [c \in ApiCalls |-> [at |-> "idle"]]
    /\ spendOf = [w \in Tenants |-> 0] /\ barred = {}

ApiTick ==
    /\ tick < MaxTick /\ tick' = tick + 1
    /\ UNCHANGED <<tokenOf, revokedTokens, apiCall, spendOf, barred>>

\* register_token: also over a token that exists.
RegisterToken(b, w, S, ttl) ==
    /\ tokenOf' = [tokenOf EXCEPT ![b] =
                     {[ws |-> w, scopes |-> S, expires |-> tick + ttl, revoked |-> FALSE]}]
    /\ UNCHANGED <<tick, revokedTokens, apiCall, spendOf, barred>>

\* revoke_token: the set outlives the context.
RevokeToken(b) ==
    /\ revokedTokens' = revokedTokens \cup {b}
    /\ tokenOf' = [tokenOf EXCEPT ![b] = {[x EXCEPT !.revoked = TRUE] : x \in @}]
    /\ UNCHANGED <<tick, apiCall, spendOf, barred>>

\* is_valid
IsValid(x) == ~ x.revoked /\ x.expires >= tick

\* Variant of Authenticate: only the context is looked at.
AuthenticateByContext(b) == {x \in tokenOf[b] : IsValid(x)}

\* authenticate
Authenticate(b) == IF b \in revokedTokens THEN {} ELSE {x \in tokenOf[b] : IsValid(x)}

\* get_current_agent_context; 401 leaves the call where it is.
Enter(c, b) ==
    /\ apiCall[c].at = "idle"
    /\ \E x \in Authenticate(b) :
         apiCall' = [apiCall EXCEPT ![c] = [at |-> "authenticated", ctx |-> x]]
    /\ barred' = IF b \in revokedTokens THEN barred \cup {c} ELSE barred
    /\ UNCHANGED <<tick, tokenOf, revokedTokens, spendOf>>

\* Variant of Authorize: the workspace is the caller's word.
AuthorizeAnywhere(x, scope, w) == IsValid(x) /\ scope \in x.scopes

\* _authorize, on the context as it was at authentication: still unexpired, has
\* the scope, asks about its own workspace.
Authorize(x, scope, w) == IsValid(x) /\ scope \in x.scopes /\ w = x.ws

Back(c) == apiCall' = [apiCall EXCEPT ![c] = [at |-> "idle"]]

\* get_agent_economics, get_task_economics, find_waste, estimate_cost,
\* get_cost_per_outcome: read and answer, or 403.
ReadEconomics(c, w) ==
    /\ apiCall[c].at = "authenticated"
    /\ apiCall' = [apiCall EXCEPT ![c] =
                  IF Authorize(apiCall[c].ctx, "economics:read", w)
                  THEN [at |-> "answered", of |-> w, ws |-> apiCall[c].ctx.ws]
                  ELSE [at |-> "idle"]]
    /\ UNCHANGED <<tick, tokenOf, revokedTokens, spendOf, barred>>

\* simulate_change: 403, an unknown type is refused, and each known type calls
\* its simulator with arguments that it does not take, which raises.
SimulateChange(c) ==
    /\ apiCall[c].at = "authenticated"
    /\ Back(c)
    /\ UNCHANGED <<tick, tokenOf, revokedTokens, spendOf, barred>>

\* Variant of FitsBudget: the planned spend is left out.
FitsBudgetNow(w) == spendOf[w] <= Limit

\* projected_spend <= limit
FitsBudget(w) == spendOf[w] + Planned <= Limit

\* check_budget: one query, then the answer.
CheckBudget(c, w) ==
    /\ apiCall[c].at = "authenticated"
    /\ apiCall' = [apiCall EXCEPT ![c] =
                  IF Authorize(apiCall[c].ctx, "budget:check", w) /\ FitsBudget(w)
                  THEN [at |-> "allowed", of |-> w, ws |-> apiCall[c].ctx.ws]
                  ELSE [at |-> "idle"]]
    /\ UNCHANGED <<tick, tokenOf, revokedTokens, spendOf, barred>>

\* tools/list, initialize, an unknown method or tool.
Describe(c) ==
    /\ apiCall[c].at \in {"authenticated", "answered"}
    /\ Back(c)
    /\ UNCHANGED <<tick, tokenOf, revokedTokens, spendOf, barred>>

\* An agent that was told allowed spends what it planned, or nothing.
AgentSpends(c, spends) ==
    /\ apiCall[c].at = "allowed"
    /\ spendOf' = [spendOf EXCEPT ![apiCall[c].of] = @ + (IF spends THEN Planned ELSE 0)]
    /\ Back(c)
    /\ UNCHANGED <<tick, tokenOf, revokedTokens, barred>>

AgentApiNext ==
    \/ ApiTick
    \/ \E b \in Bearers :
         \/ \E w \in Tenants, S \in {{"economics:read"}, Scopes}, ttl \in {0, 1} : RegisterToken(b, w, S, ttl)
         \/ RevokeToken(b)
    \/ \E c \in ApiCalls :
         \/ \E b \in Bearers : Enter(c, b)
         \/ \E w \in Tenants : ReadEconomics(c, w) \/ CheckBudget(c, w)
         \/ SimulateChange(c) \/ Describe(c)
         \/ \E spends \in BOOLEAN : AgentSpends(c, spends)

(***************************************************************************)
(* Properties.                                                             *)
(***************************************************************************)
AgentApiTypeOK ==
    /\ tick \in 0..MaxTick /\ revokedTokens \subseteq Bearers
    /\ \A b \in Bearers : Cardinality(tokenOf[b]) <= 1
    /\ \A c \in ApiCalls : apiCall[c].at \in {"idle", "authenticated", "answered", "allowed"}

\* Revocation is for good: registering the token again does not bring it back;
\* only calls that were past authentication go on.
RevokedStaysRevoked == barred = {}

\* Each tenant sees its own numbers: an answer is about the workspace of the
\* context, whatever workspace the call names and however the token was
\* registered since.
TenantsApart ==
    \A c \in ApiCalls : apiCall[c].at \in {"answered", "allowed"} => apiCall[c].of = apiCall[c].ws

\* Agents that obey check_budget overshoot the limit by less than one planned
\* spend for each of them: nothing is reserved between the answer and the spend.
AdviceOvershoot ==
    \A w \in Tenants : spendOf[w] <= Limit + (Cardinality(ApiCalls) - 1) * Planned
=============================================================================
