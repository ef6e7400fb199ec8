------------------------------ MODULE Discovery ------------------------------
(***************************************************************************)
(* Shadow-asset discovery of the local proxy: detectors (the billing       *)
(* parsers of detection/billing.py and the SDK transport of                *)
(* detection/wrapper.py) record AI assets and discovery events, and the    *)
(* hourly DiscoveryAlertEngine (alerts/discovery.py) turns new events and  *)
(* spend spikes into alerts.  The detectors look up, insert the asset and  *)
(* insert the event in three transactions; the engine remembers in memory  *)
(* when it last looked.                                                    *)
(***************************************************************************)
EXTENDS Naturals, FiniteSets

CONSTANTS
    Detectors,      \* billing parser, SDK transports in client processes
    Identities,     \* model and endpoint, of one provider
    AssetIds,       \* row ids of ai_assets
    PageLimit,      \* assets that get_assets returns when not asked for more (50)
    ShadowWindow,   \* ticks a shadow alert stays fired (24 hours)
    MaxNow          \* bound on the clock

ASSUME DiscoveryAssumption ==
    /\ {ShadowWindow, MaxNow} \subseteq Nat /\ PageLimit \in Nat \ {0}
    /\ IsFiniteSet(AssetIds)

VARIABLES
    now,
    asset,          \* ai_assets: identity, status, first_seen_at per row id; a set of at most one
    event,          \* discovery_events (new_asset_detected): asset and detected_at
    archived,       \* discovery_events_archive
    detector,       \* per detector: step, identity, first_seen_at, row id, detected_at
    lastCheck,      \* DiscoveryAlertEngine._last_check
    engine,         \* step of run_all_checks
    pending,        \* events the engine has read and not handled
    fired,          \* fired_alerts: time per asset; a set of at most one
    sending,        \* the asset whose alert was sent and not yet marked, if any
    alerted,        \* history: assets a shadow alert was sent for
    gap,            \* history: events the engine could not see, or gave up
    twin            \* history: identities two detectors looked up before either inserted

discoveryVars == <<now, asset, event, archived, detector, lastCheck, engine, pending,
                   fired, sending, alerted, gap, twin>>

DiscoveryInit ==
    /\ now = 0
    /\ asset = [i \in AssetIds |-> {}]
    /\ event = {} /\ archived = {}
    /\ detector = [d \in Detectors |-> [at |-> "idle"]]
    /\ lastCheck = 0 /\ engine = "idle" /\ pending = {}
    /\ fired = [i \in AssetIds |-> {}]
    /\ sending = {} /\ alerted = {}
    /\ gap = {} /\ twin = {}

Tick ==
    /\ now < MaxNow /\ now' = now + 1
    /\ UNCHANGED <<asset, event, archived, detector, lastCheck, engine, pending, fired, sending, alerted, gap, twin>>

Of(i) == CHOOSE a \in asset[i] : TRUE

KnownAssets == {i \in AssetIds : asset[i] # {}}

\* get_assets of a provider: the rows first seen last, PageLimit of them.
Pages ==
    {P \in SUBSET KnownAssets :
        /\ Cardinality(P) <= PageLimit /\ (Cardinality(P) = PageLimit \/ P = KnownAssets)
        /\ \A i \in P, j \in KnownAssets \ P : Of(i).seen >= Of(j).seen}

\* Variant of Match: an approved asset is not looked for.
MatchShadow(x, P) == {i \in P : Of(i).ident = x /\ Of(i).status = "shadow"}

\* The rows of a page whose model and endpoint agree, of any status.
Match(x, P) == {i \in P : Of(i).ident = x}

EngineSame == UNCHANGED <<lastCheck, engine, pending, fired, sending, alerted>>

\* upsert_asset_from_detection, run_all_parsers: an asset that is found only
\* gets a new last_active_at; else the row of a new one is made up here.
Detect(d, x) ==
    /\ detector[d].at = "idle"
    /\ \E P \in Pages : Match(x, P) = {}
    /\ detector' = [detector EXCEPT ![d] = [at |-> "new", ident |-> x, seen |-> now]]
    /\ twin' = IF \E e \in Detectors : detector[e].at = "new" /\ detector[e].ident = x
               THEN twin \cup {x} ELSE twin
    /\ UNCHANGED <<now, asset, event, archived, gap>> /\ EngineSame

\* insert_asset as shadow, then the event object with its detected_at.
InsertAsset(d, i) ==
    /\ detector[d].at = "new" /\ asset[i] = {}
    /\ asset' = [asset EXCEPT ![i] = {[ident |-> detector[d].ident, status |-> "shadow",
                                     seen |-> detector[d].seen]}]
    /\ detector' = [detector EXCEPT ![d] = [at |-> "inserted", ident |-> detector[d].ident,
                                            row |-> i, stamp |-> now]]
    /\ UNCHANGED <<now, event, archived, gap, twin>> /\ EngineSame

\* insert_discovery_event.  The engine has read past it if a run is under way
\* or began after the stamp.
InsertDiscoveryEvent(d) ==
    /\ detector[d].at = "inserted"
    /\ LET e == [asset |-> detector[d].row, at |-> detector[d].stamp] IN
       /\ event' = event \cup {e}
       /\ gap' = IF engine # "idle" \/ e.at < lastCheck THEN gap \cup {e} ELSE gap
    /\ detector' = [detector EXCEPT ![d] = [at |-> "idle"]]
    /\ UNCHANGED <<now, asset, archived, twin>> /\ EngineSame

\* The process of a detector ends between its transactions.
DetectorDies(d) ==
    /\ detector[d].at # "idle"
    /\ detector' = [detector EXCEPT ![d] = [at |-> "idle"]]
    /\ UNCHANGED <<now, asset, event, archived, gap, twin>> /\ EngineSame

\* update_asset_status and update_asset_fields, one transaction with its
\* model_changed event.
UpdateAssetStatus(i, s) ==
    /\ asset[i] # {} /\ Of(i).status # s
    /\ asset' = [asset EXCEPT ![i] = {[Of(i) EXCEPT !.status = s]}]
    /\ UNCHANGED <<now, event, archived, detector, gap, twin>> /\ EngineSame

\* Variant of Since: an event of the very instant of the last check is left out.
SinceAfter(t) == {e \in event : e.at > t}

\* get_new_shadow_events_since
Since(t) == {e \in event : e.at >= t}

\* check_shadow_alerts reads the events.
RunAllChecks ==
    /\ engine = "idle"
    /\ pending' = Since(lastCheck)
    /\ engine' = "shadow"
    /\ UNCHANGED <<now, asset, event, archived, detector, lastCheck, fired, sending, alerted, gap, twin>>

\* was_alert_fired within the window.
WasAlertFired(i) == \E t \in fired[i] : t + ShadowWindow >= now

\* One event: skipped if its alert fired, else sent to Slack and e-mail.
CheckShadowAlert(e) ==
    /\ engine = "shadow" /\ sending = {} /\ e \in pending
    /\ pending' = pending \ {e}
    /\ IF WasAlertFired(e.asset)
       THEN UNCHANGED <<sending, alerted>>
       ELSE sending' = {e.asset} /\ alerted' = alerted \cup {e.asset}
    /\ UNCHANGED <<now, asset, event, archived, detector, lastCheck, engine, fired, gap, twin>>

\* mark_alert_fired.
MarkAlertFired(i) ==
    /\ i \in sending /\ sending' = {}
    /\ fired' = [fired EXCEPT ![i] = {now}]
    /\ UNCHANGED <<now, asset, event, archived, detector, lastCheck, engine, pending, alerted, gap, twin>>

\* A check raises: the rest of it is given up, the run goes on.
CheckRaises ==
    /\ engine = "shadow" /\ pending \cup sending # {}
    /\ gap' = gap \cup pending
    /\ pending' = {} /\ sending' = {} /\ engine' = "spikes"
    /\ UNCHANGED <<now, asset, event, archived, detector, lastCheck, fired, alerted, twin>>

\* The provider check finds nothing, as no code writes provider_changed; the
\* spike check has fired_alerts rows of its own.  Then _last_check is set.
FinishChecks ==
    /\ \/ engine = "shadow" /\ pending = {} /\ sending = {}
       \/ engine = "spikes"
    /\ lastCheck' = now /\ engine' = "idle"
    /\ UNCHANGED <<now, asset, event, archived, detector, pending, fired, sending, alerted, gap, twin>>

\* The proxy restarts: the engine begins at the present, what is older is unseen.
RestartEngine ==
    /\ lastCheck' = now /\ engine' = "idle" /\ pending' = {} /\ sending' = {}
    /\ gap' = gap \cup {e \in event \cup archived : e.asset \notin alerted}
    /\ UNCHANGED <<now, asset, event, archived, detector, fired, alerted, twin>>

\* purge_old_fired_alerts, later than any window.
PurgeOldFiredAlerts(i) ==
    /\ \E t \in fired[i] : t + ShadowWindow < now
    /\ fired' = [fired EXCEPT ![i] = {}]
    /\ UNCHANGED <<now, asset, event, archived, detector, lastCheck, engine, pending, sending, alerted, gap, twin>>

\* Variant of ArchiveOldDiscoveryEvents: the DELETE of the transaction is missing.
ArchiveKeepsEvents ==
    LET old == {e \in event : e.at + ShadowWindow < now} IN
    /\ engine = "idle" /\ old # {}
    /\ archived' = archived \cup old
    /\ gap' = gap \cup {e \in old : e.at >= lastCheck}
    /\ UNCHANGED <<event, now, asset, detector, lastCheck, engine, pending, fired, sending, alerted, twin>>

\* archive_old_discovery_events: one transaction, events older than any window.
ArchiveOldDiscoveryEvents ==
    LET old == {e \in event : e.at + ShadowWindow < now} IN
    /\ engine = "idle" /\ old # {}
    /\ event' = event \ old /\ archived' = archived \cup old
    /\ gap' = gap \cup {e \in old : e.at >= lastCheck}
    /\ UNCHANGED <<now, asset, detector, lastCheck, engine, pending, fired, sending, alerted, twin>>

\* The steps that keep the inventory.
InventoryNext ==
    \/ Tick
    \/ \E d \in Detectors, x \in Identities : Detect(d, x)
    \/ \E d \in Detectors, i \in AssetIds : InsertAsset(d, i)
    \/ \E d \in Detectors : DetectorDies(d)
    \/ \E i \in AssetIds, s \in {"approved", "inactive"} : UpdateAssetStatus(i, s)

DiscoveryNext ==
    \/ InventoryNext
    \/ \E d \in Detectors : InsertDiscoveryEvent(d)
    \/ RunAllChecks \/ \E e \in pending : CheckShadowAlert(e)
    \/ \E i \in sending : MarkAlertFired(i)
    \/ CheckRaises \/ FinishChecks \/ RestartEngine
    \/ \E i \in AssetIds : PurgeOldFiredAlerts(i)
    \/ ArchiveOldDiscoveryEvents

(***************************************************************************)
(* Properties.                                                             *)
(***************************************************************************)
DiscoveryTypeOK ==
    /\ now \in 0..MaxNow /\ lastCheck \in 0..now
    /\ \A i \in AssetIds : Cardinality(asset[i]) <= 1 /\ Cardinality(fired[i]) <= 1
    /\ pending \subseteq event \cup archived
    /\ event \cap archived = {}

\* What is discovered is announced: an event older than the last check has been
\* alerted, unless it was recorded beside a run, before the proxy started, or
\* handed to a check that raised.
Announced ==
    \A e \in event \cup archived :
      e.at < lastCheck /\ engine = "idle" => e.asset \in alerted \/ e \in gap

\* Assets first seen from one time to another, without two given ones.
SeenBetween(i, j) ==
    {k \in KnownAssets \ {i, j} : Of(i).seen <= Of(k).seen /\ Of(k).seen <= Of(j).seen}

\* One row per asset, whatever status an operator gave it.  Two things leave a
\* shadow twin: detectors that looked the asset up before either inserted it,
\* and PageLimit other assets first seen since, which push the row off the one
\* page that the look-up reads.
NoShadowTwin ==
    \A i, j \in KnownAssets :
      i # j /\ Of(i).ident = Of(j).ident =>
        \/ Of(i).ident \in twin
        \/ Cardinality(SeenBetween(i, j)) >= PageLimit
        \/ Cardinality(SeenBetween(j, i)) >= PageLimit
=============================================================================
