# A TLA+ model of BurnLens

BurnLens is a local proxy between applications and LLM providers. It counts
tokens and cost of every request, stores them in SQLite, refuses requests whose
budget is used up, and can push the cost records to a hosted backend that meters
a workspace's usage. Around the two grew alerts, importers, outcomes, agent
governance, billing, accounts and teams. This directory models the parts of it
that keep state under concurrency and failure, checks them with TLC, and proves
the central safety properties with TLAPS.

`PROJECT.json` is the index: components, runs, the source lines behind every
definition, findings, hazards and theorems.

1. [Inventory](#1-inventory)
2. [Modules](#2-modules)
3. [Runs](#3-runs)
4. [Findings](#4-findings)
5. [Proofs](#5-proofs)
6. [What is not modelled](#6-what-is-not-modelled)
7. [Plan](#7-plan)

## 1. Inventory

### How a request travels

    client --> proxy/interceptor.handle_request
                 | virtual key     virtual_keys.py          team spend, read from SQLite
                 | daily cap       key_budget.py            SpendCache, 30 s
                 | customer cap    interceptor.py           _customer_spend_cache, 60 s
                 | cache lookup    cache/manager.py
                 | downgrade       proxy/router.py
                 | policies        budget_engine.py         reserve an estimate
                 v
              provider --> answer --> reconcile the reservation
                                  --> logging task --> wal.jsonl --> queue --> worker --> requests table
                                                                                             |
              `burnlens sync --now` and the sync loop  <-- rows with synced_at IS NULL  <----+
                 | POST /v1/ingest
                 v
              burnlens_cloud/ingest.py: key, quota, insert, usage cycle, threshold mail

The proxy is one asyncio process: every `await` is a point where other requests
run. SQLite is shared with the CLI processes (`burnlens wal ...`, `burnlens sync
--now`). The backend is a FastAPI service over PostgreSQL with many handlers.

### Components with state of their own

| Component (source) | State | Operations | Hard part | Correct when |
|---|---|---|---|---|
| Write-ahead log and worker (`storage/wal.py`, lifespan in `proxy/server.py`) | `wal.jsonl`, `wal_dlq.jsonl`, queue, active record | append, enqueue, worker loop, recover, stop, truncate, repair, replay dead letters | kills between any two steps; failing disk and database; the CLI editing the same file | no accepted event is lost, none is stored twice, each is stored in the end |
| Budget policies (`budget_engine.py`, `handle_request`) | `budget_counters`, reservations | check and reserve, reconcile | checks of many requests interleave statement by statement; SQLite's write lock is held across awaits; period changes | counters are the sum of the reservations; limits are overshot by a bounded amount; nobody waits forever |
| Admission (`interceptor.py`, `key_budget.py`, `virtual_keys.py`) | two spend caches, rows of `requests` | three cap checks, cache lookup, upstream call, recording | cached, queried and in-flight values lag; midnight | refusals are justified; a cap takes effect and lets go |
| Sync client (`cloud/sync.py`) | `synced_at`, backoff, running flag, applied routing | loop, push of cost rows and of outcomes, `sync_now`, mark | lost and late answers; two syncers; kills | a marked row is in the backend; every row is delivered |
| Ingest and metering (`burnlens_cloud/ingest.py`, `outcomes_api.py`) | stored rows, usage cycles, threshold claims | key and quota check, deduplicated insert, count, claim and mail | concurrent handlers; crashes half way; a new cycle under a handler | stored once, counted, quota overshoot bounded, each threshold mailed once |
| Virtual keys and registry (`virtual_keys.py`, `keys.py`) | key records, allow-lists | create, revoke, resolve | a key that changes under a request | a refusal is over the key's own budget (part of admission) |
| Semantic cache (`cache/manager.py`) | entries per question and customer | two lookups, save in the background | saves overlap lookups; the embedding service fails | a reply belongs to its customer and is fresh |
| Router (`proxy/router.py`) | 60 s team cache | downgrade a model | a slow query stores an old sum under a new stamp | decisions rest on recent spend |
| Usage and price (`proxy/streaming.py`, `providers/`, `cost/`) | buffered bytes, price lists | read usage, price, classify | chunks cut anywhere, clients that leave, midnight and upgrades before the row is stored | every token is billed once, at its rate |
| Alerts (`alerts/engine.py`, `analysis/budget.py`) | `_fired` | check, dispatch | filter before an await, mark after it; midnight | no crossing is swallowed, repeats are bounded |
| Discovery (`alerts/discovery.py`, `detection/`) | assets, events, fired alerts, last check | detect, check, archive | three transactions per detection | what is found is announced, one row per asset |
| Anomalies (`detection/anomaly.py`) | hours, dedup rows | judge, ask, insert, mark | checks of one key overlap; flat baselines | no repeats, no false silence |
| Schema (`storage/database.py`) | columns, rows | `init_db` | processes that start at once; kills | a process that came through has every column |
| Agent runs (`storage/agent_economics.py`) | run trees, causal links | register, roll up, link | look-ups before the upsert; trees that move | workspaces stay apart, nothing counts twice, links are acyclic |
| Outcomes (`outcomes.py`, `outcomes_api.py`) | outcomes and their history, on both sides | record, derive, correct, push | late derivations and replays | a complete history; callers own what they record |
| Importers (`scan/`) | imported rows, scan cache | scan | logs grow while they are read | every call once |
| Execution (`execution/`) | approvals, results, branches | approve, validate, execute | check-then-act over a git provider, kills | one pull request per approval, as approved |
| Governance, guardrails, autonomy, agent API | rules, task states, trust, tokens | decide, stop, expand, revoke | decisions on what was read earlier | denials, stops and revocations stand |
| Billing (`burnlens_cloud/billing.py`) | subscription, cycles, claimed events | webhooks, console calls | duplicated, late and lost events beside a console | no plan without a purchase; the cache agrees with Paddle |
| Accounts, teams, keys (`burnlens_cloud/auth.py`, `totp_api.py`, `team_api.py`, `api_keys_api.py`) | users, members, invitations, keys | sign in, reset, invite, accept, revoke | count then write, on many servers | single use of what is single-use; an owner remains |
| Mailed actions, alerts, digests (`actions_api.py`, `alert_engine.py`, `digest.py`) | tokens, overrides, rules, stamps | consume, raise, revert, dispatch | links opened twice; overlapping jobs | each acts once; quiet times are kept |
| Findings, reconciliation, retention | findings, runs, rows | refresh, decide, reconcile, prune | passes beside operators; late rows | decisions stand; what is reported is backed by rows |
| Streaming, schema and pool of the backend (`streaming.py`, `database.py`) | producer, queue, columns, connections | send, forward, migrate, acquire | lazily started producer; kills half way through a drop; lost connections | nothing accepted or encrypted is lost |

Read-only reports, dashboards, exports, price tables, provider adapters, mail and
Slack delivery, OTEL emission and the web frontend keep no state of their own or
are pure I/O; `PROJECT.json` lists each of them with its reason.

## 2. Modules

| Module | What it is |
|---|---|
| `EventStore` | abstract: an event goes from unknown to accepted to stored, once |
| `WalPipeline` | the persistence pipeline; implements `EventStore` |
| `BudgetEngine` | `check_and_reserve` and `reconcile` over SQLite |
| `RequestPipeline` | admission, upstream call, recording |
| `CloudSync` | sync client, network and ingest together |
| `Routing`, `SemanticCache`, `UsagePricing` | what a request passes through in the proxy besides admission |
| `LocalAlerts`, `Discovery`, `Anomaly` | what the proxy tells its owner |
| `Migrations`, `AgentRuns`, `Outcomes`, `ScanImport` | the local ledger and what is written to it |
| `Execution`, `Governance`, `Guardrails`, `Autonomy`, `AgentApi` | control over agents |
| `Billing`, `Team`, `Actions`, `Ledger`, `HostedAlerts`, `Findings` | the hosted backend: money and messages |
| `ApiKeys`, `Accounts`, `PiiMigration`, `StreamIngest`, `ConnPool` | the hosted backend: access and infrastructure |
| `MCWal`, `MCBudget`, `MCRequest`, `MCCloud` | instances of the first four for TLC |
| `MCHosted`, `MCAccess`, `MCLocal` | instances of the others, several in one run |
| `WalPipeline_proofs`, `BudgetEngine_proofs`, `RequestPipeline_proofs`, `CloudSync_proofs` | theorems about these four modules |
| `Access_proofs`, `Hosted_proofs`, `Local_proofs` | theorems about all components of `MCAccess`, `MCHosted` and `MCLocal` |
| `SumTheorems` | lemmas about sums over finite sets, largest values and the first *n* of a set |

A definition whose comment begins "Variant of" is a plausible mistake in the
definition below it. No specification uses it: it takes the place of the real
one when the sensitivity of a property, or of a part of one, is tested (`mutants`
in `PROJECT.json`).

### WalPipeline

State. A log line is the set of events written into it, whether `json.loads`
accepts it and whether its newline is there: that is all recovery and repair can
tell about a line, and enough for a line cut by a kill and for a line glued to
such a rest. `rows[e]` counts rows with that `event_id`; `phase` is where
`lifespan()` is; `task[e]` where the logging task of the event is. `acked` is a
history variable: `append_event` has returned.

Actions. `AppendEvent`, `AppendFails`, `Enqueue`, `LogRecord` are `_log_via_wal`
and its fallback; `WorkerGet`, `WorkerInsert` the worker's loop, whose retries
after a failing insert change nothing; `Start`, `RecoverLine`,
`RecoverTruncate`, `RecoverFails` are `recover_wal`; `StopCancel`, `StopActive`,
`StopDrain`, `StopDone`, `StopTruncate` are `worker.stop` and the truncation in
`lifespan`; the `Repair...` actions and `ReplayDlq` are the CLI. `Crash` may
happen anywhere and may cut the line being written.

Faults. Some failures go beyond a kill and a refused insert, and the constant
`Faults` says which the environment may produce: `recovery_fail`,
`partial_append`, `stop_race`, `cli_race`, `cli_kill`. Each of them alone can lose
an accepted event; the module states them one by one so that what the pipeline
promises, and under which assumption, is explicit.

### BudgetEngine

Every statement of `check_and_reserve` that can wait or that other requests can
observe is an action: the SELECT of a counter, the SUM over `requests` for a
missing one, the INSERT OR IGNORE, and the UPDATEs with their commit.
`handle_request` builds a `BudgetEngine`, and with it an `asyncio.Lock`, per
request, so the only exclusion in the model is SQLite's: `lock` is the holder of
the write lock and `fresh` the rows it inserted and has not committed. A
reservation remembers its period (`since`), and `Reconcile` corrects that period
whatever the current one is. `CheckRaises`, `ReconcileRaises` and the failing
SUM are the `except` branches. Cost estimates are constants.

`recorded[p][k]` is what the SUM would return for period `k`: a row counts for
every period that began before it. Its filter differs from the policy match in
the code (an org policy sums all rows), which is why `CountedBy` is a constant
of its own. `seed` is a history variable: the value a row was created with.

### RequestPipeline

A client sends one request after another with fixed key, tags and mode. `pc`
follows `handle_request` from check to check; a check that does not apply is
passed without an await and has no step. A cap check decides on the cached value
(`CapHit`) or queries SQLite (`CapQuery`) and, in a later step, stores what it
read and decides (`CapStore`): the lock of `SpendCache` is not held in between.
The recording task goes through the log and the worker, which leave the cache
alone, or inserts directly and invalidates the label's entry. `Expire` is the
TTL, `Midnight` the start of a new day for the daily window. Spend is counted in
answers and saturates at the cap, since every comparison is against the cap.

### CloudSync

Client and backend meet in `posts`: a post carries the ids of a batch and is at a
stage of its handler. The handler is not tied to the client that sent it, so a
client may time out, be killed, or push the same rows again while the handler
goes on. `Push`, `Receive`, `MarkSynced` are `_sync_once` and its counterpart
for outcomes; `After` is the order of the loop (outcomes, then cost rows) and of
`sync_now` (drain the outcomes, then alternate while batches are full). `Admit`,
`InsertRows`, `ReadCycle`, `CountUsage`, `Notify`, `Respond` are the handler,
split at its database calls. `counted`, `waived`, `muted` are history variables.

### The proxy beside admission

`Routing` is `decide_route`: the entry of the 60 s cache is stamped after the
query's await, so `SpendQueried`, `SpendReturned` and `TeamSpendCached` are steps
of their own and two requests' sums can be stored out of order. The history keeps
what the table held and when.

`SemanticCache` has the exact and the similarity lookup of each request, the
answer, and the save that runs after the client has been served. A question
stands for system prompt and user text; `Alike` is the external embedding.

`UsagePricing` follows one streamed call: the provider's events as they are cut
into chunks, streams without readable usage (OpenAI's unless asked for, Bedrock's
`invoke-with-response-stream`), an end at any point, the splitting and accumulation of each provider,
the look-up of the rate (scheduled change, tier, longest prefix), and the row that
is written later, on another day or by another release. `Reported` and `MeantRates`,
stated without the code's algorithm, are what its result is compared with;
`KindsRead` names what the Gemini plugin leaves unread.

`LocalAlerts` has the two alert tasks of every finished request and `_fired`, which
dies with the process; `Discovery` the detectors and the hourly engine, with the
three transactions of a detection and the one page of assets (`PageLimit`, the 50
rows of `get_assets`) that it looks through; `Anomaly` the checks that overlap on one key,
and the statistics of `max_requests_in_span` and of the deviation test as functions
over all small samples (`SpanCountRight`, `AlarmMonotone`).

### The local ledger

`Migrations` runs the migrations of `init_db` column by column, in two processes,
on files of several old versions; `AddColumnFails` is the duplicate column that
another process added. `AgentRuns` has the look-ups and the upsert of
`insert_agent_run` as separate steps, the roll-up that reads tree and spend at
different times, and `insert_request` under BEGIN IMMEDIATE. `Outcomes` holds the
outcome on both sides with its history; derivations read GitHub and write later.
`ScanImport` lets the tool that owns a log write it while two scans read it, as the
Claude Code importer (keyed by message id) or the Codex importer (keyed by position)
does; a scan of Cursor's database may meet the lock or any other error, be limited
by `--since`, or be a dry run.

### Control over agents

`Execution` is `execute()`, await by await, with the provider's branches and pull
requests as external state, kills anywhere, and a table of results that replaces by
idempotency key and by the caller's `execution_id`. `Governance` evaluates an action on
rules read earlier; `Guardrails` is `evaluate_runtime_event` with deduplication, task and
metrics in separate transactions; `Autonomy` runs two optimisation cycles beside
evaluations from evidence and the kill switch, with the default profile saved in a
step of its own and the tolerated drop in quality of three points; `AgentApi` holds the tokens, and an
agent that spends what `check_budget` advised.

### The hosted backend

`Billing` keeps Paddle's truth, the events in flight and the cached row apart;
console calls read the row, wait for Paddle and write. `Team`, `ApiKeys`,
`Accounts` and `Actions` split each handler into its check and its write, and keep
the single statements that claim something (`UPDATE ... RETURNING`, `INSERT ... ON
CONFLICT`) whole. Every other statement commits by itself, so a handler may be cut
off between any two: `AcceptCut` in `Team` leaves a member without the mark on the
invitation, `RequestCut` in `Accounts` a second factor without recovery codes,
`StoreReset` a user without a live reset link. `Ledger` puts late rows, reconciliation and pruning over one set
of rows. `HostedAlerts` are the cron jobs; `Findings` the passes and operators.
`PiiMigration` is one start after another, killed at any statement; `StreamIngest`
the producer, its queue and the topic; `ConnPool` who holds a connection and who
waits.

Many properties of these modules name an exception: an overlap of two requests, or
a failure, after which the code does not keep the promise. A history variable
records that it happened, and the property says that nothing else breaks the
promise. The exceptions are listed under [Findings](#4-findings).

### Composition

`MCHosted`, `MCAccess` and `MCLocal` each EXTEND a group of modules. The
components of a group share no variable, so their interleavings would only
multiply the states: `part`, chosen in the initial state, names the component that
runs, and the others stay in one initial state. Each run is therefore the
exhaustive check of every component of its group by itself. Parts that the code
makes interact are in one module each (client and backend in `CloudSync`, both
sides of an outcome in `Outcomes`, webhook and console in `Billing`, rows,
reconciliation and prune in `Ledger`). The components of a group draw on the same
model values: `p1`, `p2` are processes or requests, `q1`, `q2` the things they
work on, both interchangeable.

## 3. Runs

All checks are exhaustive within their bounds. Safety runs use symmetry where the
values are interchangeable; runs with temporal properties use none.

| Run | Module, configuration | Expected | Shows |
|---|---|---|---|
| `wal_durable` | `MCWal`, `MCWal_durable.cfg` | pass | type, durability, refinement of `EventStore` (single storage included), eventual storage |
| `wal_faults` | `MCWal`, `MCWal_faults.cfg` | pass | single storage under all five faults at once |
| `wal_recovery_fails` | `MCWal`, `MCWal_recovery_fails.cfg` | violation | finding 1 |
| `budget_books` | `MCBudget`, `MCBudget_books.cfg` | pass | the counters balance; a refused request leaves nothing behind |
| `budget_live` | `MCBudget`, `MCBudget_live.cfg` | pass | overshoot is bounded; every request ends; answered requests are settled |
| `caps` | `MCRequest`, `MCRequest_caps.cfg` | pass | refusals are justified; a cap takes effect and lets go |
| `cloud_safety` | `MCCloud`, `MCCloud_safety.cfg` | pass | no loss, no duplicates, no uncounted row, bounded quota overshoot, one mail per threshold |
| `cloud_live` | `MCCloud`, `MCCloud_live.cfg` | pass | every row is delivered |
| `cloud_replay` | `MCCloud`, `MCCloud_replay.cfg` | violation | finding 2 |
| `hosted` | `MCHosted`, `MCHosted.cfg` | pass | billing, team, mailed actions, ledger, alert and digest jobs, findings |
| `access` | `MCAccess`, `MCAccess.cfg` | pass | keys, sign-in, encryption of stored identities, event stream, pool, agents' tokens, rules, guardrails, execution, autonomy |
| `local` | `MCLocal`, `MCLocal.cfg` | pass | discovery, alerts, outcomes, semantic cache, routing, importers, schema, anomalies, usage and price, agent runs |

The properties of the three last runs are conjunctions of the named promises of
their components; a part is stated, with its exceptions, in the module of the
component it is about. Every part has a variant of its own in that module (see
section 2) under which TLC refutes it; `mutants` lists one for each property.

| Property | Its parts, by module |
|---|---|
| `SubscriptionTrue` (hosted) | `Billing`: `EntitlementBought` no paid plan that Paddle did not sell, `CacheAgrees` at rest the row agrees with Paddle |
| `ActsOnce` (hosted) | `Billing`: `ReceiptOnce`. `Team`: `InviteSpent`. `Actions`: `ActionOnce` a mailed link acts once. `HostedAlerts`: `QuietKept` no second message in a quiet time |
| `DecisionsStand` (hosted) | `Team`: `OwnerRemains`. `Actions`: `RaiseRaises` raising a cap never lowers it. `Findings`: `DecisionStands`, `VerifiedIsSaving`. `Ledger`: `ReconciledBacked` reconciled days agree with the bill, `KeptRowsStay` the prune deletes nothing the plan keeps |
| `HostedStepsSafe` (hosted) | `Billing`: `CountersOnlyGrow` no webhook sets a usage counter back. `Findings`: `AnchorKept` |
| `SingleUse` (access) | `Accounts`: `RecoveryCodeOnce`, `StepOnce`, `ResetOnce`. `Guardrails`: `CountedOnce`. `Execution`: `OnePullRequest` |
| `Bounded` (access) | `ApiKeys`: `KeysBounded`. `Accounts`: `GuessesBounded`. `AgentApi`: `AdviceOvershoot`. `Guardrails`: `AllowedWithinBudget`. `StreamIngest`: `CopiesBounded`. `ConnPool`: `StarvedOnlyByGetDb` |
| `NothingDropped` (access) | `PiiMigration`: `NothingLost`, `DropCompletes`. `StreamIngest`: `AcceptedHeld`, `OneProducer` |
| `Authorised` (access) | `AgentApi`: `RevokedStaysRevoked`, `TenantsApart`. `StreamIngest`: `ForwardedAsSaved`. `Governance`: `DenyHonoured`. `Execution`: `OpenedAsApproved`. `Autonomy`: `EarnedByEvidence`, `ExpandedOnEvidence` |
| `AccessStepsSafe` (access) | `ApiKeys`: `RevokedNotFound`. `Governance`: `RuleVersioned`. `Guardrails`: `StoppedStays`. `Execution`: `CompletedStays` |
| `DetectedOnce` (local) | `Discovery`: `Announced`, `NoShadowTwin`. `LocalAlerts`: `BudgetCrossingSent`, `KeyCrossingSent`, `RepeatsBounded`. `Anomaly`: `KnownMeansAnnounced`, `SignalRepeatsBounded`, `SpanCountRight`, `AlarmMonotone` |
| `ServedAndBilled` (local) | `SemanticCache`: `RepliesOwn`, `RepliesFresh`. `Routing`: `RoutedOnRecentSpend`. `UsagePricing`: `UsageExact`, `CutNeverOverbills`, `BilledRight`, `SameRateTwice` |
| `LedgerFilled` (local) | `ScanImport`: `ImportedOnce`, `ScanComplete`, `CachedMeansImported`. `Migrations`: `ReadyMeansComplete`, `RequestedModelFilled`, `NothingInvented` |
| `LedgerLinked` (local) | `AgentRuns`: `RunTreesApart`, `RollupCountsOnce`, `LinksAcyclic`. `Outcomes`: `HistoryComplete`, `CallerOwned` |
| `LocalStepsSafe` (local) | `Outcomes`: `ReplayHarmless`. `AgentRuns`: `RunKeepsSpace` |

### Bounds

* WAL: three events, a queue of one and two kills. With a queue of one, two tasks
  can wait in `enqueue` while the worker holds a record; two kills allow a kill
  during the recovery from the first one. The runs with faults use two events and
  one kill.
* Budget: the books run has two requests matching a team and an org policy, one
  matching the org policy only, an unpriced one, one period change, failing
  statements, and three overlapping checks. The limits admit one team request, and
  two requests of the organisation. The live run has four requests and two
  overlapping checks, so that the bound on the overshoot is about passing through
  in sequence and not just about the number of requests.
* Caps: one streaming client with a capped API key and one with a virtual key and
  a customer; every cap is one answer; two failures, so that a log write and the
  direct insert after it can both fail; one midnight. The recording task of a
  client runs beside its next request, so a query, a late store, an insert and an
  invalidation of one scope meet in every order, a cap can be overshot, and a
  midnight can fall between any two steps. Refusals among any number of clients
  that share a key are covered by the theorem `RefusalsJust`.
* Cloud: two posts in flight, two cost rows in batches of up to two, both
  syncers, two faults, two usage cycles; the caps (5 requests, 5 tokens of rows
  weighing 1 and 2) are reached only through repeated pushes, and 80 % and 100 %
  can be crossed separately or together. The live run stays in one
  cycle, to keep it small without symmetry, and adds outcomes, one of
  which the backend refuses with 422 (the local code bounds neither the length of
  an `outcome_id` nor that of its type), seats, key revocation and routing
  overrides.

* Hosted, access, local: two processes (requests, jobs, cycles, scans, starters) of
  each kind, which is what every race in this code needs, and two of the things
  they compete for. Three keys for two creators, so that the bound on keys can be
  passed; one server looks keys up, since servers share only the tables. Two wrong
  codes lock an account, five guesses go past that; four deliveries of three events
  overrun a guardrail of two; three Paddle events can overtake each other; logs of
  two lines with a half-written one; files of four old schema versions (before
  and after the column groups that matter); samples of four values up to three
  for the statistics, which reach the empty, the flat and the skewed baseline.
  Two people, each invited once, as an
  administrator; one join whose mark is cut off (`MaxUnmarked`), which is enough to use
  a link twice. The page of `get_assets` holds one asset instead of 50 (`PageLimit`):
  in the part `inventory`, which keeps assets without announcing them, all assets and
  identities are there within one tick (`FewTicks`) and a known one is pushed off the
  page; the part `discovery`, with announcements and the full clock, is kept to
  `FewAssetIds` and `FewIdentities`. Quality after a change is within, on and past
  the tolerance, in steps of 1/100 of a percent.
  Times to live, quiet times and windows are one or two ticks, so that a step can
  fall inside, on and past their edge. Counters that the code does not bound
  (`MaxEvents`, `MaxClock`, `MaxTicks`, `MaxTries`, ...) are bounded by constants
  of their own.

### Fairness

* WAL. Weak fairness of the steps the event loop runs when ready. Strong fairness
  of `Enqueue` (asyncio queues wake waiting producers in order, so a slot that
  frees up again and again reaches each), of `WorkerInsert` (the worker retries
  without limit, and SQLite is assumed not to refuse for ever, although kills and
  shutdowns interrupt it), and of `Start` (a stopped proxy is started again even if
  its log is repaired in between). No fairness of arrivals, kills, failures,
  shutdowns or repairs.
* Budget. Weak fairness of each request's steps: statements return and upstream
  calls end, all of which have timeouts in the code. A request waiting for the write
  lock has no enabled step until the lock is free.
* Caps. Weak fairness of each client's next step, of its recording task and of `Expire`: cache entries have
  a TTL. Clients keep asking, without which a refused client would simply stop.
  Nothing is assumed about failures or midnights.
* Cloud. The loop's interval elapses, event loops run what is ready, a post
  without an answer times out after 30 s (`WF` of the timeout of a dead post
  only: the timeouts of live posts are faults and bounded), and a backoff ends.

* Hosted, access, local: no fairness. The properties are invariants and action
  properties; jobs, handlers and processes may stop at any step.

### Deadlock

`RequestPipeline` is checked for deadlock: clients always ask again. The other
instances are finite (all requests done, all rows delivered, all bounds used), and
their end is not a deadlock, so the check is off; that nobody is stuck before the
end is what `AckedStored`, `EveryRequestEnds` and `Delivered` say.

## 4. Findings

Two statements of the repository that the code does not keep. Each is a run whose
only property is that statement.

1. **A failed recovery is forgotten** (`wal_recovery_fails`,
   `TruncateOnlyPersisted`). `proxy/server.py` promises to truncate the log "ONLY
   if clean shutdown persisted all records successfully". `recover_wal` swallows
   an exception and leaves the old lines in the log; the worker knows nothing of
   them, so the next clean shutdown reports success and truncates them.
2. **A replayed batch counts twice** (`cloud_replay`, `UsageExact` of
   `CloudSync`). The rows are deduplicated, the usage of the month is not.

Deviations that a passing property carries as a bound or an exception. Each is
stated in the comment of its property; where a sentence of the repository says
otherwise, it is quoted here.

* The policy check is not atomic, since each request has a lock of its own:
  `OvershootBounded` grants one estimate for each further overlapping check. An
  upstream exception keeps its reservation until the period ends; `BooksBalance`
  counts it as open.
* Only the direct insert invalidates the spend cache, the path through the log does
  not; `CapTakesEffect` holds one time to live later.
* A webhook whose handler fails after the claim is never applied, an old event or a
  console write may win over a newer one (`CacheAgrees`).
* An acceptance joins and marks the invitation in separate statements
  (`auth.py:1022`), and the unique index on members is about active rows only. When
  the mark is lost, the link stays good, also after the member was removed:
  `InviteSpent` allows one join more for each lost mark (`unmarked`), and one for each
  request that had read the invitation while it was open.
* `request_password_reset` ends the old links in one statement and stores the new one
  in the next (`auth.py:1098`, 1107): two requests that overlap leave two live links.
  `ResetOnce` says that nothing else does, and that each link sets one password.
* Confirming and disabling the second factor are several statements
  (`totp_api.py:192`, 262), and what was read before them may have changed: a factor
  that was turned off may be confirmed without a secret (`bare`), and a code of a time
  step may be accepted again after a slower request set the consumed step back.
  `StepOnce` counts these writes (`setback`).
* The last owner, an invitation, a time step of the second factor, the number of
  keys and the count of wrong codes are checked and written in separate statements;
  the properties bound what an overlap can do (`OwnerRemains`, `InviteSpent`,
  `StepOnce`, `KeysBounded`, `GuessesBounded`). A wrong code counted from a row read
  earlier sets the count back, so the number of guesses before the lock is not one
  more per overlapping request but up to `Threshold` more for each such failure;
  the attempt to prove the smaller bound, which holds for two requests, showed this.
* A revocation that is killed between its statements leaves the legacy key usable;
  `RevokedNotFound` is about completed ones.
* A cycle that found no trust profile saves the default one over whatever was saved
  meanwhile (`trust/engine.py:80`); `EarnedByEvidence` holds regardless, since the
  default is no earned tier. An expansion may lose up to three points of quality, as
  the docstring of `verify_savings` says; `ExpandedOnEvidence` has that tolerance.
* Connections taken with `get_db` are not released (`StarvedOnlyByGetDb`).
* A detection pass or an evaluation that read before a decision may undo it
  (`DecisionStands`, `StoppedStays`, `EarnedByEvidence`, `CompletedStays`).
* A half-read log line shifts the ordinals of Codex records (`ImportedOnce`).
* A Cursor scan that met the lock or another error, or was limited by `--since`, is
  recorded in the cache like a complete one (`partial` in `CachedMeansImported`),
  although `scan_cursor`'s docstring speaks of "the last successful scan"
  (`scan/cursor.py:353`). The same docstring says that a dry run "still updates the
  cache" (360); the code writes it only `if not dry_run` (415), and so does
  `CursorCached`.
* `AlertEngine` says that an alert is "only alerted once per proxy process lifetime"
  (`alerts/engine.py:76`). Alerts are filtered before an await and marked after it,
  so checks that overlap each send it: `RepeatsBounded` grants one per check in
  flight. (A variant of the property with one alert per start is refuted by TLC; the
  sentence is true of checks that do not overlap.)
* `get_assets` returns 50 rows unless asked for more, and `upsert_asset_from_detection`
  does not ask. An asset older than 50 others of its provider is not found and is
  inserted again, as a shadow (`NoShadowTwin` counts the assets seen in between).
* The Gemini plugin reads neither `thoughtsTokenCount` nor `cachedContentTokenCount`
  (`providers/google.py:87`), which the repository names as what Gemini reports
  (`providers/google.py:21`, `scan/gemini_cli.py:13`): thoughts are not billed and
  cached tokens are billed in full. `UsageExact` is about the kinds that are read,
  and `BilledRight` says what a Gemini call comes to. A Bedrock
  `invoke-with-response-stream` (`providers/bedrock.py:41`) has no usage that
  `extract_usage_from_stream_chunk` finds, and is stored with no tokens and no cost,
  as is an OpenAI stream that was not asked for usage.
* `save_execution` is INSERT OR REPLACE on a primary key that the caller gives
  (`execution/storage.py:37`, 212): a call with a used `execution_id` and another
  idempotency key deletes the earlier result. `CompletedStays` names this beside the
  overlap.
* A kill between the ALTER and the UPDATE leaves `requested_model` empty for good
  (`RequestedModelFilled`).
* Records queued in the Kafka producer are lost with the process, after the answer
  200 (`AcceptedHeld` is about a process that lives).

## 5. Proofs

Checked by TLAPS for every value of the constants that the named assumptions
admit: any number of events, requests, clients, policies, rows, posts, keys,
agents, jobs, runs, days, kills and faults.

| Theorem | Statement | Beyond the modules' assumptions on constants |
|---|---|---|
| `WalPipeline_proofs!TypeCorrect` | `Spec => []TypeOK` | any faults |
| `WalPipeline_proofs!NoDoubleRows` | `Spec => []StoredOnce` | any faults |
| `WalPipeline_proofs!Durability` | `Spec => []Durable` | `Faults = {}` |
| `WalPipeline_proofs!InHandAlways` | `Spec => []LogInHand` | `Faults = {}` |
| `WalPipeline_proofs!TruncateSafe` | `Spec => TruncateOnlyPersisted` | `Faults = {}` |
| `WalPipeline_proofs!Implements` | `Spec => ImplementsEventStore` | `Faults = {}` |
| `BudgetEngine_proofs!BudgetTypes` | `Spec => []TypeOK` | |
| `BudgetEngine_proofs!RefusedClean` | `Spec => []RefusedLeavesNothing` | |
| `BudgetEngine_proofs!BooksAddUp` | `Spec => []BooksBalance` | |
| `BudgetEngine_proofs!OvershootIsBounded` | `Spec => []OvershootBounded` | `EstimatesHigh` |
| `RequestPipeline_proofs!RequestTypes` | `Spec => []TypeOK` | |
| `RequestPipeline_proofs!RefusalsJust` | `Spec => []JustRefusal` | |
| `CloudSync_proofs!CloudTypes` | `Spec => []TypeOK` | |
| `CloudSync_proofs!NoLoss` | `Spec => []MarkedDelivered` | |
| `CloudSync_proofs!NoDuplicates` | `Spec => []StoredOnce` | |
| `CloudSync_proofs!NoFreeUsage` | `Spec => []SyncedCounted` | |
| `CloudSync_proofs!EveryThresholdMailed` | `Spec => []ThresholdsMailed` | |
| `CloudSync_proofs!QuotaOvershootBounded` | `Spec => []QuotaOvershoot` | |
| `Access_proofs!AccessTypes` | `AccessSpec => []AccessTypeOK` | |
| `Access_proofs!UsedOnce` | `AccessSpec => []SingleUse` | |
| `Access_proofs!LimitsHold` | `AccessSpec => []Bounded` | |
| `Access_proofs!NothingIsDropped` | `AccessSpec => []NothingDropped` | |
| `Access_proofs!ActsAuthorised` | `AccessSpec => []Authorised` | |
| `Access_proofs!StepsNeverTaken` | `AccessSpec => AccessStepsSafe` | |
| `Hosted_proofs!HostedTypes` | `HostedSpec => []HostedTypeOK` | |
| `Hosted_proofs!SubscriptionFollows` | `HostedSpec => []SubscriptionTrue` | |
| `Hosted_proofs!ActedOnce` | `HostedSpec => []ActsOnce` | |
| `Hosted_proofs!DecisionsHold` | `HostedSpec => []DecisionsStand` | |
| `Hosted_proofs!HostedStepsNeverTaken` | `HostedSpec => HostedStepsSafe` | |
| `Local_proofs!LocalTypes` | `LocalSpec => []LocalTypeOK` | |
| `Local_proofs!AnnouncedAlways` | `LocalSpec => [](part # "deviation" => DetectedOnce)` | |
| `Local_proofs!ServedRight` | `LocalSpec => []((part # "usage" => ServedAndBilled) /\ (part = "usage" => SameRateTwice))` | |
| `Local_proofs!LedgerComplete` | `LocalSpec => []LedgerFilled` | |
| `Local_proofs!LedgerConsistent` | `LocalSpec => []LedgerLinked` | |
| `Local_proofs!LocalStepsNeverTaken` | `LocalSpec => LocalStepsSafe` | |

### The persistence pipeline

`Durable` is not inductive: the truncations at the end of a
recovery and of a shutdown empty the log, and only bookkeeping that is not in the
log says that all its events are in the table. `Tracked(e)` is that bookkeeping:
an accepted event is in the table; or the process is down and a good line holds
it; or recovery has still to read the line; or the running process has the event
in a task, the queue or the worker, or knows that a flush failed. `MemoryInv`
relates these to the phase (a proxy that truncates has flushed and holds
nothing), and `CliInv` and `FileInv` are about `wal repair` and newlines: an append
onto a line without its newline would swallow a good line, and the only such line
is the last one of a stopped proxy's log, which recovery truncates before the
first append. Kills at any point, failing appends, failing inserts and repairs of a
stopped proxy are covered. The five named faults are excluded by the assumption;
`recovery_fail` is finding 1. `TruncateSafe` is the statement that finding 1
refutes, proved for a process without these faults: the sentence in `server.py` is
true as long as recovery does not fail.

`Implements` uses the same invariant: an event is accepted in `EventStore` when
its append has returned and stored when it has a row, so a step may store an event
only if its line was accepted, and may never store it twice. `NoDoubleRows` needs
no bookkeeping at all, since every insert is `INSERT OR IGNORE` on `event_id`, and
so holds under all faults together.

### The policy engine

`PlaceInv` says where a request can be while it holds a reservation or the write
lock; `RefusedClean` follows. For the books, `FreshInv` says of the rows that a
check has inserted and not committed that they belong to the holder of the lock,
that no committed row is in their place and that they leave room for its estimate;
`RowInv` that a request sees a row for each policy it has passed. Without it an
UPDATE could meet no row, and the reservation would be in no counter.

`OvershootBounded` is not inductive either: between its SELECT and its UPDATE a
request will add its estimate without looking again. `LooseInv` bounds what the
counter would be if all of these requests reserved, a sum over them: it grows only
when a request finds the counter within its limit, and then at most `Overlap - 1`
other estimates stand beside the counter it has read. `EstimatesHigh` says that no
actual cost exceeds the estimate, since a reconciliation may otherwise raise a
counter by any amount. `estimate_cost` takes the request's `max_tokens` for the
length of the answer and a quarter of its characters for the length of the prompt;
a request without `max_tokens` (1000 are assumed) can cost more, and the code then
bounds nothing.

### Admission

Caches and pending queries are behind SQLite and midnight sets
the daily window back, so they agree with nothing current. What holds is that each
is bounded by the month's recorded spend of the same scope, which only grows
(`Behind`, `Counted`); a refusal compares such a value with the cap. `AtOwnCheck`
says that a request is only at checks that apply to it.

### Cloud sync

*No loss.* The post carries the fact from the backend to the mark: a handler past
its insert has stored the ids of its post (`HandlerInv`); a syncer waits for the
post with its own batch, and for no one else's (`WaitInv`); so what it marks is
stored (`MarkInv`). Late handlers, the two syncers and kills are all covered,
since none of them changes the ids of a post that someone waits for.

*No free usage* is the same argument for the count (`TallyInv`, `BatchBilled`),
with the history variables `counted` and `waived`. *Thresholds*: `MailInv` says
that a threshold was mailed exactly if it was claimed, and `ReachInv` that a
threshold which the usage of a cycle has reached is claimed, or muted by a handler
that was cut short, or still to be claimed by a handler that has counted and has
not reached its claim. *Quota*: a handler that was admitted and has not counted
will add its batch whatever the others do, so `RoomInv` is about the usage plus
these weights, and `SizeInv` bounds each of them by `BatchSize` rows.
`FutureInv` says that nothing is counted in a cycle that has not begun.

### The components of MCAccess

One component runs in each behaviour, and `AccessInv` is the conjunction of its
component's invariant under the condition that `part` names it. Each component's
own step lemma is about its own variables, so the composition is a case
distinction. The invariants, and why the properties alone are not enough:

| Component | Invariant | Why |
|---|---|---|
| `Accounts` | `CodesInv`, `StepsInv`, `LinksInv`, `GuessInv` | the row a request has read says little about the row it writes to; a code in the table is unused, and so is one that an enrolment holds to insert, which nobody else holds; a step above the last one has opened no session but for the writes that set it back; of two links that are live or about to be, one was under way at the other's invalidation; the failures counted and the outdated ones together keep up with the guesses |
| `Guardrails` | `CountInv`, `PledgeInv`, `StopInv` | an evaluation that said ALLOW has yet to add its cost, so the bound is about the cost so far and the sum of these pledges; whoever may still write over STOPPED read before it |
| `Execution` | `CallsInv`, `OpenedInv`, `PullInv`, `SavedInv` | a call that has a slot with a saved result had looked before it was saved; the provider refuses a second branch of a name, so at most one call works on a branch; an approval is bound to one content and so to one branch |
| `StreamIngest` | `ProducerInv`, `AttemptsInv`, `AnswerInv`, `ConfigInv` | the holder of the start lock is the only one who starts a producer; copies of a record and posts on their way add up to the attempts |
| `ConnPool` | `HoldsInv`, `BooksInv` | free, leaked and held connections add up to the pool, so when nobody can go on the missing ones are leaked or held by pricing updates |
| `AgentApi` | `AdviceInv` | the calls that were told `allowed` and have not spent yet count with what they planned |
| `ApiKeys` | `GoneInv`, `RoomInv` | live keys and creators that have counted and not inserted, together; a completed revocation leaves neither row nor legacy key |
| `Governance` | `RulesInv`, `AskingInv` | a rule that stood during the whole evaluation is among those it read |
| `Autonomy` | `StandingInv`, `SnapshotInv`, `BackedInv` | the tier of a cycle past its policy check, whether the profile was read or created; the baseline between its record and its use, and which cycle measured it; the verdict, with its tolerance, between measurement and expansion |
| `PiiMigration` | `OrderInv`, `CopyInv`, `WholeInv`, `OpenInv`, `GoneColumns` | columns go in the order of the statements; the gate looks at one column of a row and the drop relies on all of them |

### The components of MCHosted

The composition is the same, and `HostedInv` the conjunction of the components'
invariants. Nearly every property here names an exception that a history variable
records; the invariants say what holds of the requests that are under way until
the exception, if there is one, is recorded.

| Component | Invariant | Why |
|---|---|---|
| `Billing` | `HistoryInv`, `SoldInv`, `ReceiptInv`, `CallInv`, `FollowInv` | the last event of a subscription is a snapshot of it at Paddle, so the row agrees with Paddle if it agrees with the last event; a plan in an event, at Paddle or in the row was bought; a claimed event is seen and has no receipt yet; as long as no event overtook another, the row agrees with the event it handled last, or Paddle has sent an update since |
| `Team` | `OwnerInv`, `JoinInv` | until a race is recorded there is an owner, and a change about to take the role from one has another to leave behind; each join is charged to an invitation and a request that read it, whose mark is still to come or has closed the invitation, or is counted as unmarked: a sum over invitations |
| `Actions` | `UseInv`, `CapInv` | a link that acted is used, one request at most is between its use and the act, and it has not acted yet; a cap that was read, unless it has gone stale, is the one in force |
| `Ledger` | `SumInv` | the cost a reconciliation has read, or recorded, is that of the day's rows, unless the day is among those whose rows moved since |
| `HostedAlerts` | `AlertInv`, `DigestInv` | until runs overlap or a record is lost, one run is between its decision and its record, and the last mail is on record or that run has sent it |
| `Findings` | `EvidenceInv` | a row that was resolved has its baseline, of its own scope unless it was rewritten since |

### The components of MCLocal

| Component | Invariant | Why |
|---|---|---|
| `Discovery` | `TwinInv`, `OneEventInv`, `AnnounceInv` | a detector about to insert an asset that has a row looked it up beside the one that inserted it, or enough other assets were seen since to push the row off its page; an asset and its event are written in different transactions: an event is announced, or lost in a gap the history records, or still to be read or handled by the hourly engine |
| `LocalAlerts` | `BudgetAlertsInv`, `KeyAlertsInv` | the times a budget alert was sent and the checks that hold it are together at most the tasks; a key's entry of a day was sent or taken by a check that had read before midnight |
| `Outcomes` | `LocalSideInv`, `CloudSideInv` | histories are chained and end at the row; without a row there is neither a history nor a person's judgement |
| `SemanticCache` | `CacheInv` | no row, and no answer on its way to the table, comes from a request that keeps away from the cache |
| `Routing` | `RoutingInv` | a cached sum was held by the table no longer ago than its stamp less the slowest query |
| `ScanImport` | `RowsInv`, `ReaderOK`, `CursorOK` | a key belongs to one row; a reader knows the ordinal and the model of its line unless it resumed inside one, and all it has passed is imported; a scan of Cursor's database that read every bubble has imported, or has still to do, all up to the state it will record |
| `Migrations` | `Progress`, `FillInv` | a process has the columns of all migrations before the one it is at, and of that one those it does not mean to add; once `requested_model` is there it is filled, unless the process that added it has yet to, or was killed |
| `Anomaly` | `AnnouncedInv`, `RepeatsInv` | a row of the deduplication table, and a check about to write one, has an event; until the row of the hour exists, events are those of checks about to write it and of failures |
| `AgentRuns` | `ApartInv`, `RollupInv`, `LockInv` | what an upsert looked up still holds unless another came in between; what a roll-up has added is the spend of distinct runs, and what is left to add, its own root included until that is read, is of others; only the holder of the write lock is between the check of a link and its insert, and that link closes no cycle |
| `UsagePricing` | `PricedOnce` | the record keeps the rates of the day and the release that priced it |

`LinksAcyclic` is about a recursive query (`WITH RECURSIVE`) in the code.
`Reachable` states its result as the least set that contains the start and is
closed under the links: a new link can close a cycle only if its source was
reachable from its target, which the check under BEGIN IMMEDIATE rules out.

The proof of `KeyCrossingSent` changed the property. Its exception for an alert
whose entry was taken by a check that had read before midnight was too narrow once
there is more than one midnight: TLC finds the counterexample with `MaxDay = 2`.
The exception is now any later day, checked with `MaxDay = 2` and `MaxUnits = 2`
(3.2 million states) before it was proved; the run keeps `MaxDay = 1`, and the
theorem covers all values.

### Sums

The properties with a bound are about sums over sets of any size. The library's
induction theorems take the induction predicate as an operator, which the provers
do not instantiate; `SumTheorems` states induction over the subsets of a finite set
with the predicate as a *set* (`SubsetInduction`), which is first-order, and proves
from it that the recursion behind `SumFunctionOnSet` has exactly one solution, that
any summand may be taken out first, how a sum changes with one summand, and how it
is bounded. The modules use `SumFunctionOnSet` for that reason.

### Only model-checked

* Everything temporal beyond invariants and steps: `AckedStored`,
  `EveryRequestEnds`, `AnsweredSettled`, `CapTakesEffect`, `CapLetsGo`,
  `Delivered`. Liveness under fairness is out of the prover's reach.
* What `UsagePricing` computes (`UsageExact`, `CutNeverOverbills`, `BilledRight`: folds
  and selections over sequences of events, chunks and table entries) and the
  statistics of `Anomaly` (`SpanCountRight`, `AlarmMonotone`: functions recursive
  over samples). They are compared with reference definitions over bounded inputs;
  for every input it would take induction over data. This is why `AnnouncedAlways`
  leaves out the part `"deviation"`, and `ServedRight` states only `SameRateTwice`
  of the part `"usage"`.
* `UsageExact` of `CloudSync` and `TruncateOnlyPersisted` under faults are false
  (section 4).

## 6. What is not modelled

* The allow-list of a virtual key; the text of cached answers (a streamed answer is
  rebuilt from its usage-bearing events); and audio tokens. In `RequestPipeline` a lookup hits or misses at will and
  every model has a price: lookups, routing and prices have modules of their own.
* OAuth sign-in, sign-up, mail verification, invoices, the billing portal, provider
  adapters of the reconciliation, and the contents of digests and reports.
* The Gemini importer (`scan/gemini_cli.py`): its two file formats, its tolerant
  `_parse_json` and its ordinals. The Claude Code, Codex and Cursor importers are
  modelled. `use_cache=False` of `scan_cursor`, which only tests pass.
* Discovery's checks for new providers, models and spikes, which repeat the shadow
  check, and workflow runs and actions, which are inserted like agent runs.
* The roll-over of the month for customer and team budgets: `spent` only grows.
  `RefusalsJust` is about one month.
* Shutdown and kills in `RequestPipeline`; they are in `WalPipeline`.
* A failing look-up of a key's label, after which the request skips the daily cap
  and its row carries no label; and a virtual key whose own label equals that of a
  registered key, so that its rows count towards a cap it is not checked against.
* Payloads: anonymisation, and which fields make the backend reject a row with 422.
  `Refused` is the set of such rows; they and those behind them are the exception
  of `Delivered`.
* Cryptography, configuration, dashboards, exports, the command line apart from the
  commands that write, the legacy API and the frontend.
* Durability of SQLite, PostgreSQL and the file system below `fsync`: a committed
  row and a written line are assumed to survive a kill of the process.
* Floating-point amounts: costs are small integers.

## 7. Plan

The order followed what would hurt most when wrong: losing or double-counting
spend first, then enforcement, then the cloud, then the control plane. The modules
for all of these are there, and every invariant and step property of the runs that
does not rest on induction over data is proved. What is next:

1. **Allow-lists** in `Routing`: no forwarded model outside the key's list.
2. **Liveness** of the queues in the hosted jobs: an alert that is due is sent if
   the scheduler keeps firing.
