------------------------------ MODULE Routing ------------------------------
(***************************************************************************)
(* The budget-aware model downgrade of the proxy (burnlens/proxy/router.py *)
(* and its call in handle_request).  decide_route reads the month's spend  *)
(* of the customer, the team or the whole proxy, compares what remains of  *)
(* the budget with two thresholds and names a cheaper model.  A team's     *)
(* spend is kept for 60 seconds in a dictionary of the process; the entry  *)
(* is stamped after the query's await, so a slow query stores an old sum   *)
(* under a new stamp.  Requests are interleaved at that await.             *)
(***************************************************************************)
EXTENDS Integers, FiniteSets

CONSTANTS
    Routed,         \* requests being routed at once
    Pricey,         \* models with an entry in DOWNGRADE_MAP
    Cheaper,        \* DOWNGRADE_MAP and its suffix rule: Pricey -> model
    Price,          \* what a request to a model costs, for every model
    BudgetUsd,      \* the budget that applies, in units
    ThresholdPct,   \* routing.downgrade_threshold_pct
    ThresholdUsd,   \* routing.downgrade_threshold_usd
    TeamTTL,        \* _TEAM_CACHE_TTL
    MaxTicks, MaxSpent  \* bounds

ASSUME RoutingAssumption ==
    /\ Price \in [DOMAIN Price -> Nat] /\ Cheaper \in [Pricey -> DOMAIN Price]
    /\ {BudgetUsd, ThresholdPct, ThresholdUsd, TeamTTL, MaxTicks, MaxSpent} \subseteq Nat

VARIABLES
    spentMonth,     \* SUM(cost_usd) of the month for the team
    teamEntry,      \* _team_spend_cache[team]: {} or one [spend, at]
    routes,         \* the requests inside decide_route
    ticks,          \* time.monotonic()
    slowest,        \* history: the longest a query of the spend has taken
    lastHeld,       \* history: when the table last held each sum, or never
    decision        \* the decision of the last step: {} or one record

routingVars == <<spentMonth, teamEntry, routes, ticks, slowest, lastHeld, decision>>

Models == DOMAIN Price
NotRouting == [pc |-> "idle"]
Never == -1

RoutingInit ==
    /\ spentMonth = 0
    /\ teamEntry = {}
    /\ routes = [r \in Routed |-> NotRouting]
    /\ ticks = 0
    /\ slowest = 0
    /\ lastHeld = [v \in 0..MaxSpent |-> IF v = 0 THEN 0 ELSE Never]
    /\ decision = {}

(* Remaining budget below the percentage, or below the amount.             *)
Remaining(spend) == IF spend < BudgetUsd THEN BudgetUsd - spend ELSE 0
Short(spend) ==
    \/ Remaining(spend) * 100 < ThresholdPct * BudgetUsd
    \/ Remaining(spend) < ThresholdUsd

(* _decide_route_inner: the model that goes upstream.                      *)
RouteFor(model, spend) ==
    IF Short(spend) /\ model \in Pricey THEN Cheaper[model] ELSE model

(* handle_request rewrites path and body and forwards: the request is      *)
(* then on its way to the routed model, which bills it.                    *)
Decided(r, spend) ==
    LET model == RouteFor(routes[r].model, spend)
    IN  /\ decision' = {[model |-> routes[r].model, routed |-> model,
                         spend |-> spend]}
        /\ routes' = [routes EXCEPT ![r] = [pc |-> "sent", model |-> model]]

(* A request with a team or a customer tag enters decide_route.            *)
RouteStart(r) ==
    /\ routes[r].pc = "idle"
    /\ \E m \in Models, level \in {"customer", "team"} :
          routes' = [routes EXCEPT ![r] =
                        [pc |-> "resolve", model |-> m, level |-> level]]
    /\ decision' = {}
    /\ UNCHANGED <<spentMonth, teamEntry, ticks, slowest, lastHeld>>

(* An entry of the team's spend that may still be used.                    *)
UsableForever(entry) == TRUE
Usable(entry) == ticks - entry.at <= TeamTTL

(* _get_team_spend finds a fresh entry: no await at all.                   *)
TeamSpendCached(r) ==
    /\ routes[r].pc = "resolve" /\ routes[r].level = "team"
    /\ \E e \in teamEntry : Usable(e) /\ Decided(r, e.spend)
    /\ UNCHANGED <<spentMonth, teamEntry, ticks, slowest, lastHeld>>

(* Otherwise the sum is queried; the customer's and the global budget are  *)
(* queried every time.                                                     *)
SpendQueried(r) ==
    /\ routes[r].pc = "resolve"
    /\ routes[r].level = "team" => \A e \in teamEntry : ~Usable(e)
    /\ routes' = [routes EXCEPT ![r] = [pc |-> "queried",
                     model |-> routes[r].model, level |-> routes[r].level,
                     spend |-> spentMonth, since |-> ticks]]
    /\ decision' = {}
    /\ UNCHANGED <<spentMonth, teamEntry, ticks, slowest, lastHeld>>

SpendReturned(r) ==
    /\ routes[r].pc = "queried"
    /\ Decided(r, routes[r].spend)
    /\ teamEntry' = IF routes[r].level = "team"
                    THEN {[spend |-> routes[r].spend, at |-> ticks]}
                    ELSE teamEntry
    /\ slowest' = IF ticks - routes[r].since > slowest
                  THEN ticks - routes[r].since ELSE slowest
    /\ UNCHANGED <<spentMonth, ticks, lastHeld>>

(* The query raises: decide_route passes the request through unchanged.    *)
RouteFails(r) ==
    /\ routes[r].pc = "queried"
    /\ routes' = [routes EXCEPT ![r] =
                     [pc |-> "sent", model |-> routes[r].model]]
    /\ decision' = {}
    /\ UNCHANGED <<spentMonth, teamEntry, ticks, slowest, lastHeld>>

(* The request's row is inserted, billed at the model that answered.       *)
RouteBilled(r) ==
    /\ routes[r].pc = "sent"
    /\ spentMonth + Price[routes[r].model] <= MaxSpent
    /\ spentMonth' = spentMonth + Price[routes[r].model]
    /\ lastHeld' = [lastHeld EXCEPT ![spentMonth] = ticks,
                                    ![spentMonth'] = ticks]
    /\ routes' = [routes EXCEPT ![r] = NotRouting]
    /\ decision' = {}
    /\ UNCHANGED <<teamEntry, ticks, slowest>>

(* Time passes, possibly into a new month, whose sum starts at zero.       *)
TimePasses ==
    /\ ticks < MaxTicks
    /\ ticks' = ticks + 1
    /\ spentMonth' \in {0, spentMonth}
    /\ lastHeld' = [lastHeld EXCEPT ![spentMonth] = ticks,
                                    ![spentMonth'] = ticks + 1]
    /\ decision' = {}
    /\ UNCHANGED <<teamEntry, routes, slowest>>

RoutingNext ==
    \/ \E r \in Routed :
          \/ RouteStart(r) \/ TeamSpendCached(r)
          \/ SpendQueried(r) \/ SpendReturned(r) \/ RouteFails(r)
          \/ RouteBilled(r)
    \/ TimePasses

-----------------------------------------------------------------------------
(* What each variable may hold.                                            *)
RoutingTypeOK ==
    /\ spentMonth \in 0..MaxSpent
    /\ teamEntry \subseteq [spend : 0..MaxSpent, at : 0..MaxTicks]
    /\ Cardinality(teamEntry) <= 1
    /\ \A r \in Routed :
          /\ routes[r].pc \in {"idle", "resolve", "queried", "sent"}
          /\ routes[r].pc # "idle" => routes[r].model \in Models
    /\ ticks \in 0..MaxTicks /\ slowest \in 0..MaxTicks
    /\ lastHeld \in [0..MaxSpent -> Never..MaxTicks]

(* Every decision of decide_route rests on a sum the table really held     *)
(* within the last 60 seconds and the longest query: an older sum is never *)
(* used, although a slow query refreshes the stamp of an old sum and two   *)
(* queries may store their sums out of order (_get_team_spend).            *)
RoutedOnRecentSpend ==
    \A d \in decision :
       /\ lastHeld[d.spend] # Never
       /\ ticks - lastHeld[d.spend] <= TeamTTL + slowest
=============================================================================
