------------------------------- MODULE MCLocal --------------------------------
(***************************************************************************)
(* The local proxy and its tools for TLC.  One component runs at a time,   *)
(* part says which; the others stay in an initial state.                   *)
(***************************************************************************)
EXTENDS Discovery, LocalAlerts, Outcomes, SemanticCache, Routing,
        ScanImport, Migrations, Anomaly, UsagePricing, AgentRuns, TLC

CONSTANTS
    FewTicks,       \* bound: the clock while the inventory is kept on its own
    FewAssetIds,    \* bounds: rows and identities where events are announced too
    FewIdentities

VARIABLE part       \* the component that runs

\* Two questions above the similarity threshold of each other.
LocalAlike == Asked \X Asked
Manner(noStore, sampled) == [noStore |-> noStore, sampled |-> sampled]
LocalModality == {Manner(FALSE, FALSE), Manner(TRUE, FALSE), Manner(FALSE, TRUE)}

LocalCheaper == [m \in {"big"} |-> "small"]
LocalPrice == [m \in {"big", "small"} |-> 1]

\* Hours of an agent: silent, ordinary, dear and full of retries, and a loop.
HourOf(c, n, r, l) ==
    [cost |-> c, calls |-> n, retries |-> r, loop |-> l]
LocalHours == {HourOf(0, 0, 0, 0), HourOf(1, 2, 0, 1), HourOf(4, 2, 2, 1), HourOf(4, 4, 0, 4)}

\* Rates of a model, a scheduled change and a tier of the pricing tables.
RatesOf(i, o, r, w) == [in |-> i, out |-> o, read |-> r, write |-> w]
Priced(name, rates, scheduled, tiered) ==
    [name |-> name, rates |-> rates, scheduled |-> scheduled, tiered |-> tiered]
From(d, rates) == [effective |-> d, rates |-> rates]
Above(n, rates) == [over |-> n, rates |-> rates]
OpenAITable == <<Priced(<<"gpt">>, RatesOf(1, 2, 1, 0), <<>>, <<>>),
    Priced(<<"gpt", "four">>, RatesOf(2, 3, 1, 0), <<>>,
           <<Above(3, [in |-> 5]), Above(2, [in |-> 4, out |-> 6])>>)>>
BedrockTable == <<Priced(<<"anthropic", "c">>, RatesOf(2, 4, 1, 3),
           <<From(2, RatesOf(3, 5, 1, 4)), From(3, [in |-> 7])>>, <<>>)>>
GoogleTable == <<Priced(<<"gem">>, RatesOf(2, 3, 1, 0), <<>>, <<Above(3, [in |-> 4, out |-> 5])>>)>>
Release(more) ==
    [p \in Providers |->
       CASE p = "openai" -> OpenAITable \o more
         [] p = "bedrock" -> BedrockTable
         [] p = "google" -> GoogleTable
         [] OTHER -> <<Priced(<<"c">>, RatesOf(2, 4, 1, 3), <<>>, <<>>)>>]
\* The second release prices a model the first one does not know.
LocalReleases == <<Release(<<>>), Release(<<Priced(<<"new">>, RatesOf(1, 1, 1, 1), <<>>, <<>>)>>)>>
TurnOf(prompt, cached, written, completion, reasoning) ==
    [prompt |-> prompt, cached |-> cached, written |-> written,
     completion |-> completion, reasoning |-> reasoning]
LocalTurns == {TurnOf(2, 0, 0, 1, 0), TurnOf(3, 2, 0, 2, 1), TurnOf(1, 2, 1, 2, 0),
               TurnOf(4, 0, 0, 3, 0)}
CallOf(provider, model) == [provider |-> provider, model |-> model]
LocalPricedCalls ==
    {CallOf("openai", <<"gpt", "four", "dated">>), CallOf("openai", <<"gpt", "four">>),
     CallOf("openai", <<"new">>), CallOf("bedrock", <<"us", "anthropic", "c">>),
     CallOf("google", <<"gem">>), CallOf("anthropic", <<"c", "dated">>)}

\* Bounds of the part in which the events of the inventory are announced.
FewAssets ==
    /\ KnownAssets \subseteq FewAssetIds
    /\ \A d \in Detectors : detector[d].at = "new" => detector[d].ident \in FewIdentities

LocalInit ==
    /\ part \in {"inventory", "discovery", "alerts", "outcomes", "cache", "routing",
               "scan_logs", "scan_cursor", "migrations", "anomaly",
               "deviation", "usage", "run_trees", "request_links"}
    /\ part = "scan_logs" \/ keyedBy = "id"
    /\ part = "migrations" \/ (columns = ColumnsUpTo(CHOOSE n \in FirstVersions : TRUE) /\ downgraded = {})
    /\ part = "anomaly" \/ traffic = <<CHOOSE h \in Hours : TRUE>>
    /\ part = "usage" \/ upstream = (CHOOSE u \in UpstreamCalls : TRUE)
    /\ DiscoveryInit /\ LocalAlertsInit /\ OutcomesInit /\ CacheInit
    /\ RoutingInit /\ ScanInit /\ MigrationsInit /\ AnomalyInit
    /\ UsageInit /\ AgentRunsInit

LocalNext ==
    \/ (part = "inventory" /\ InventoryNext /\ now' <= FewTicks
        /\ UNCHANGED <<part, localAlertVars, outcomeVars, cacheVars,
                       routingVars, scanVars, migrationVars, anomalyVars,
                       usageVars, agentRunVars>>)
    \/ (part = "discovery" /\ DiscoveryNext /\ FewAssets'
        /\ UNCHANGED <<part, localAlertVars, outcomeVars, cacheVars,
                       routingVars, scanVars, migrationVars, anomalyVars,
                       usageVars, agentRunVars>>)
    \/ (part = "alerts" /\ LocalAlertsNext
        /\ UNCHANGED <<part, discoveryVars, outcomeVars, cacheVars,
                       routingVars, scanVars, migrationVars, anomalyVars,
                       usageVars, agentRunVars>>)
    \/ (part = "outcomes" /\ OutcomesNext
        /\ UNCHANGED <<part, discoveryVars, localAlertVars, cacheVars,
                       routingVars, scanVars, migrationVars, anomalyVars,
                       usageVars, agentRunVars>>)
    \/ (part = "cache" /\ CacheNext
        /\ UNCHANGED <<part, discoveryVars, localAlertVars, outcomeVars,
                       routingVars, scanVars, migrationVars, anomalyVars,
                       usageVars, agentRunVars>>)
    \/ (part = "routing" /\ RoutingNext
        /\ UNCHANGED <<part, discoveryVars, localAlertVars, outcomeVars,
                       cacheVars, scanVars, migrationVars, anomalyVars,
                       usageVars, agentRunVars>>)
    \/ (part = "scan_logs" /\ LogNext
        /\ UNCHANGED <<part, cursorVars, discoveryVars, localAlertVars,
                       outcomeVars, cacheVars, routingVars,
                       migrationVars, anomalyVars, usageVars,
                       agentRunVars>>)
    \/ (part = "scan_cursor" /\ CursorNext
        /\ UNCHANGED <<part, logVars, discoveryVars, localAlertVars,
                       outcomeVars, cacheVars, routingVars,
                       migrationVars, anomalyVars, usageVars,
                       agentRunVars>>)
    \/ (part = "migrations" /\ MigrationsNext
        /\ UNCHANGED <<part, discoveryVars, localAlertVars, outcomeVars,
                       cacheVars, routingVars, scanVars, anomalyVars,
                       usageVars, agentRunVars>>)
    \/ (part = "anomaly" /\ DetectNext
        /\ UNCHANGED <<part, discoveryVars, localAlertVars, outcomeVars,
                       cacheVars, routingVars, scanVars, migrationVars,
                       usageVars, agentRunVars>>)
    \/ (part = "deviation" /\ DrawSample
        /\ UNCHANGED <<part, detectVars, discoveryVars, localAlertVars,
                       outcomeVars, cacheVars, routingVars, scanVars,
                       migrationVars, usageVars, agentRunVars>>)
    \/ (part = "usage" /\ UsageNext
        /\ UNCHANGED <<part, discoveryVars, localAlertVars, outcomeVars,
                       cacheVars, routingVars, scanVars, migrationVars,
                       anomalyVars, agentRunVars>>)
    \/ (part = "run_trees" /\ TreeNext
        /\ UNCHANGED <<part, linkVars, discoveryVars, localAlertVars,
                       outcomeVars, cacheVars, routingVars, scanVars,
                       migrationVars, anomalyVars, usageVars>>)
    \/ (part = "request_links" /\ LinkNext
        /\ UNCHANGED <<part, treeVars, discoveryVars, localAlertVars,
                       outcomeVars, cacheVars, routingVars, scanVars,
                       migrationVars, anomalyVars, usageVars>>)

localVars == <<part, discoveryVars, localAlertVars, outcomeVars, cacheVars,
    routingVars, scanVars, migrationVars, anomalyVars, usageVars,
    agentRunVars>>
LocalSpec == LocalInit /\ [][LocalNext]_localVars

\* The component that runs keeps to the types its module declares.
LocalTypeOK ==
    /\ part \in {"inventory", "discovery"} => DiscoveryTypeOK
    /\ part = "alerts" => LocalAlertsTypeOK
    /\ part = "outcomes" => OutcomesTypeOK
    /\ part = "cache" => CacheTypeOK
    /\ part = "routing" => RoutingTypeOK
    /\ part \in {"scan_logs", "scan_cursor"} => ScanTypeOK
    /\ part = "migrations" => MigrationsTypeOK
    /\ part \in {"anomaly", "deviation"} => AnomalyTypeOK
    /\ part = "usage" => UsageTypeOK
    /\ part \in {"run_trees", "request_links"} => AgentRunsTypeOK

\* What is worth an alert is detected and announced, no crossing, event or
\* anomaly is swallowed by a dedup entry, and repeats are bounded by the
\* checks that overlap; the statistics behind it are right on every small
\* sample.
DetectedOnce ==
    /\ part \in {"inventory", "discovery"} => Announced /\ NoShadowTwin
    /\ part = "alerts" => BudgetCrossingSent /\ KeyCrossingSent /\ RepeatsBounded
    /\ part = "anomaly" => KnownMeansAnnounced /\ SignalRepeatsBounded
    /\ part = "deviation" => SpanCountRight /\ AlarmMonotone

\* A request is answered from its own customer's fresh entries, routed on
\* recent spend, and billed for what the provider reported at the rate that
\* applied, however its stream was cut.
ServedAndBilled ==
    /\ part = "cache" => RepliesOwn /\ RepliesFresh
    /\ part = "routing" => RoutedOnRecentSpend
    /\ part = "usage" => UsageExact /\ CutNeverOverbills /\ BilledRight /\ SameRateTwice

\* The ledger is brought up to date completely and once: by the importers,
\* over logs that grow while they are read, and by the migrations, in
\* processes that overlap and are killed.
LedgerFilled ==
    /\ part = "scan_logs" => ImportedOnce /\ ScanComplete
    /\ part = "scan_cursor" => CachedMeansImported
    /\ part = "migrations" => ReadyMeansComplete /\ RequestedModelFilled /\ NothingInvented

\* What the ledger links stays consistent: trees of runs keep to a workspace
\* and count once, links of requests have no cycle, the history of an outcome
\* has no gap, and a caller's outcome is nobody else's.
LedgerLinked ==
    /\ part = "run_trees" => RunTreesApart /\ RollupCountsOnce
    /\ part = "request_links" => LinksAcyclic
    /\ part = "outcomes" => HistoryComplete /\ CallerOwned

\* Steps that are never taken: a replayed delivery that overwrites a newer
\* outcome, an upsert that moves a run to another workspace.
LocalStepsSafe ==
    /\ ReplayHarmless
    /\ RunKeepsSpace

\* Requests, workers and the like are interchangeable.  The components share
\* their model values: one symmetry serves them all.
LocalSymmetry == Permutations(Askers) \cup Permutations(Customers)
=============================================================================
