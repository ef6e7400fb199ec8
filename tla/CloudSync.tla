----------------------------- MODULE CloudSync -----------------------------
(***************************************************************************)
(* Delivery of local cost records and outcomes to the hosted backend.      *)
(*                                                                         *)
(* Two syncers read the same SQLite file: the background loop of the proxy *)
(* and `burnlens sync --now`.  Each fetches the oldest unsynced rows, posts *)
(* them, and marks them when the answer is 200.  The backend handles every *)
(* post in a task of its own, which goes on when the client has given up:  *)
(* check key and quota, insert, count usage, send threshold mails, answer. *)
(***************************************************************************)
EXTENDS Integers, FiniteSets, FiniteSetsExt

CONSTANTS
    Slots,        \* posts the network and the backend hold at a time
    NoSlot,       \* a syncer waits for no answer
    MaxRows,      \* MaxRows[k]: bound on the local rows of kind k
    BatchSize,    \* _BATCH_SIZE
    Refused,      \* Refused[k]: local rows that the backend's models refuse
    Dims,         \* quota dimensions; "requests" is one of them
    Weight,       \* Weight[d][r]: what cost record r adds to dimension d
    Cap,          \* Cap[d]: monthly cap, 0 for none
    SeatCount,    \* seats of the plan
    MaxMembers,   \* bound on the members of the workspace
    MaxCycle,     \* bound on usage cycles
    KeyMayEnd,    \* the API key may be revoked
    MaxOverride,  \* bound on changes of routing_overrides
    MaxCli,       \* bound on runs of `burnlens sync --now`
    MaxFaults     \* bound on timeouts, kills, lost posts and failing queries

Kinds == {"cost", "outcomes"}
Syncers == {"loop", "cli"}
Cycles == 0..MaxCycle
Ids == UNION {1..MaxRows[k] : k \in Kinds}

ASSUME SlotsAssumption == IsFiniteSet(Slots)
ASSUME NoSlotAssumption == NoSlot \notin Slots
ASSUME MaxRowsAssumption == MaxRows \in [Kinds -> Nat]
ASSUME BatchSizeAssumption == BatchSize \in Nat \ {0}
ASSUME RefusedAssumption == Refused \in [Kinds -> SUBSET Ids]
ASSUME DimsAssumption == "requests" \in Dims
ASSUME WeightAssumption == Weight \in [Dims -> [Ids -> Nat]]
ASSUME CapAssumption == Cap \in [Dims -> Nat]
ASSUME BoundsAssumption ==
    /\ SeatCount \in Nat /\ MaxMembers \in Nat /\ MaxCycle \in Nat
    /\ KeyMayEnd \in BOOLEAN
    /\ MaxOverride \in Nat /\ MaxCli \in Nat /\ MaxFaults \in Nat

VARIABLES
    \* the proxy's SQLite file
    local,     \* local[k]: rows of kind k so far; their ids are 1..local[k]
    synced,    \* synced[k]: rows with synced_at set
    \* the syncers
    pc,        \* what each syncer is pushing
    wait,      \* the post whose answer it awaits
    batch,     \* the ids it has read
    marking,   \* the answer was 200; the rows are to be marked
    running,   \* _running
    backoff,   \* _backoff_until lies ahead
    routing,   \* version of the routing overrides the proxy applies
    \* the backend
    posts,     \* the posts in the network or being handled
    tally,     \* the cycle and the new request_count a handler counts with
    keyValid,  \* the API key resolves to the workspace
    members,   \* active members of the workspace
    override,  \* version of limits.routing_overrides, 0 for none
    stored,    \* stored[k][r]: number of backend rows for local row r
    cycle,     \* the usage cycle a handler finds now
    usage,     \* usage[c][d]: counters of workspace_usage_cycles
    notified,  \* notified[c]: thresholds claimed
    mails,     \* mails[c][t]: usage warnings sent
    \* history
    counted,   \* cost records counted in a cycle at least once
    waived,    \* cost records whose count failed
    muted,     \* cycles in which a notification was cut short
    cliRuns,
    faults

syncVars == <<pc, wait, batch, marking, running, backoff, routing>>
countVars == <<tally, waived, muted>>
cloudVars == <<keyValid, members, override, stored, cycle, usage, notified,
               mails, counted, countVars>>
vars == <<local, synced, syncVars, posts, cloudVars, cliRuns, faults>>

Stages == {"free", "sent", "insert", "cycle", "count", "notify", "respond",
           "replied", "dead"}
Statuses == {200, 401, 422, 429, 500}
Thresholds == {80, 100}

Post ==
    [stage : Stages, kind : Kinds, ids : SUBSET Ids,
     status : Statuses, ov : 0..MaxOverride]

Free == [stage |-> "free", kind |-> "cost", ids |-> {}, status |-> 200, ov |-> 0]

NoTally == [cyc |-> 0, new |-> 0]

TypeOK ==
    /\ local \in [Kinds -> Nat] /\ \A k \in Kinds : local[k] <= MaxRows[k]
    /\ synced \in [Kinds -> SUBSET Ids]
    /\ \A k \in Kinds : synced[k] \subseteq 1..local[k]
    /\ pc \in [Syncers -> {"idle", "drain", "out", "cost"}]
    /\ wait \in [Syncers -> Slots \cup {NoSlot}]
    /\ batch \in [Syncers -> SUBSET Ids]
    /\ marking \in [Syncers -> BOOLEAN]
    /\ running \in [Syncers -> BOOLEAN]
    /\ backoff \in [Syncers -> BOOLEAN]
    /\ routing \in Nat
    /\ posts \in [Slots -> Post]
    /\ tally \in [Slots -> [cyc : Cycles, new : Nat]]
    /\ keyValid \in BOOLEAN
    /\ members \in 0..MaxMembers
    /\ override \in 0..MaxOverride
    /\ stored \in [Kinds -> [Ids -> Nat]]
    /\ cycle \in Cycles
    /\ usage \in [Cycles -> [Dims -> Nat]]
    /\ notified \in [Cycles -> SUBSET Thresholds]
    /\ mails \in [Cycles -> [Thresholds -> Nat]]
    /\ counted \subseteq Ids /\ waived \subseteq Ids /\ muted \subseteq Cycles
    /\ cliRuns \in 0..MaxCli
    /\ faults \in 0..MaxFaults

Init ==
    /\ local = [k \in Kinds |-> 0]
    /\ synced = [k \in Kinds |-> {}]
    /\ pc = [s \in Syncers |-> "idle"]
    /\ wait = [s \in Syncers |-> NoSlot]
    /\ batch = [s \in Syncers |-> {}]
    /\ marking = [s \in Syncers |-> FALSE]
    /\ running = [s \in Syncers |-> TRUE]
    /\ backoff = [s \in Syncers |-> FALSE]
    /\ routing = 0
    /\ posts = [i \in Slots |-> Free]
    /\ tally = [i \in Slots |-> NoTally]
    /\ keyValid = TRUE
    /\ members = 0
    /\ override = 0
    /\ stored = [k \in Kinds |-> [r \in Ids |-> 0]]
    /\ cycle = 0
    /\ usage = [c \in Cycles |-> [d \in Dims |-> 0]]
    /\ notified = [c \in Cycles |-> {}]
    /\ mails = [c \in Cycles |-> [t \in Thresholds |-> 0]]
    /\ counted = {} /\ waived = {} /\ muted = {}
    /\ cliRuns = 0
    /\ faults = 0

Fault == faults < MaxFaults /\ faults' = faults + 1

-----------------------------------------------------------------------------
(* The local database and the environment.                                 *)

\* insert_request() or an outcome recorded by the user.
LocalRow(k) ==
    /\ local[k] < MaxRows[k]
    /\ local' = [local EXCEPT ![k] = @ + 1]
    /\ UNCHANGED <<synced, syncVars, posts, cloudVars, cliRuns, faults>>

\* The month ends, or a billing webhook seeds a later cycle.
NewCycle ==
    /\ cycle < MaxCycle
    /\ cycle' = cycle + 1
    /\ UNCHANGED <<local, synced, syncVars, posts, keyValid, members, override,
                   stored, usage, notified, mails, counted, countVars,
                   cliRuns, faults>>

RevokeKey ==
    /\ KeyMayEnd
    /\ keyValid
    /\ keyValid' = FALSE
    /\ UNCHANGED <<local, synced, syncVars, posts, members, override, stored,
                   cycle, usage, notified, mails, counted, countVars,
                   cliRuns, faults>>

MemberJoins ==
    /\ members < MaxMembers
    /\ members' = members + 1
    /\ UNCHANGED <<local, synced, syncVars, posts, keyValid, override, stored,
                   cycle, usage, notified, mails, counted, countVars,
                   cliRuns, faults>>

SetOverride ==
    /\ override < MaxOverride
    /\ override' = override + 1
    /\ UNCHANGED <<local, synced, syncVars, posts, keyValid, members, stored,
                   cycle, usage, notified, mails, counted, countVars,
                   cliRuns, faults>>

-----------------------------------------------------------------------------
(* A syncer: start_sync_loop(), _sync_once(), sync_now().                  *)

\* The interval of the loop is over.
Tick ==
    /\ pc["loop"] = "idle"
    /\ running["loop"]
    /\ pc' = [pc EXCEPT !["loop"] = "out"]
    /\ UNCHANGED <<local, synced, wait, batch, marking, running, backoff,
                   routing, posts, cloudVars, cliRuns, faults>>

\* `burnlens sync --now`: a new process, which drains the outcomes first.
SyncNow ==
    /\ pc["cli"] = "idle"
    /\ cliRuns < MaxCli
    /\ cliRuns' = cliRuns + 1
    /\ pc' = [pc EXCEPT !["cli"] = "drain"]
    /\ running' = [running EXCEPT !["cli"] = TRUE]
    /\ backoff' = [backoff EXCEPT !["cli"] = FALSE]
    /\ UNCHANGED <<local, synced, wait, batch, marking, routing, posts,
                   cloudVars, faults>>

\* The rows a syncer pushes now: outcomes before cost records.
Kind(s) == IF pc[s] = "cost" THEN "cost" ELSE "outcomes"

Unsynced(k) == (1..local[k]) \ synced[k]

\* ORDER BY id ASC LIMIT n.
Oldest(ids, n) == {r \in ids : Cardinality({q \in ids : q < r}) < n}

FetchUnsynced(k) == Oldest(Unsynced(k), BatchSize)

\* Variant of After: cost records wait for a full batch of outcomes.
AfterStalls(s, full) ==
    CASE pc[s] = "drain" -> IF full THEN "drain" ELSE "out"
      [] pc[s] = "out" -> IF full THEN "cost" ELSE "idle"
      [] OTHER -> "idle"

\* What comes after the push of one kind; full: a whole batch went through.
After(s, full) ==
    CASE pc[s] = "drain" -> IF full THEN "drain" ELSE "out"
      [] pc[s] = "out" -> "cost"
      [] pc[s] = "cost" -> IF s = "cli" /\ full THEN "out" ELSE "idle"
      [] OTHER -> "idle"

Ready(s) == pc[s] # "idle" /\ wait[s] = NoSlot /\ ~marking[s]

\* Nothing to push, or still in backoff.
Skip(s) ==
    /\ Ready(s)
    /\ backoff[s] \/ FetchUnsynced(Kind(s)) = {}
    /\ pc' = [pc EXCEPT ![s] = After(s, FALSE)]
    /\ UNCHANGED <<local, synced, wait, batch, marking, running, backoff,
                   routing, posts, cloudVars, cliRuns, faults>>

Push(s) ==
    /\ Ready(s)
    /\ ~backoff[s]
    /\ FetchUnsynced(Kind(s)) # {}
    /\ batch' = [batch EXCEPT ![s] = FetchUnsynced(Kind(s))]
    /\ \E i \in Slots :
          /\ posts[i].stage = "free"
          /\ posts' = [posts EXCEPT ![i] =
                [Free EXCEPT !.stage = "sent", !.kind = Kind(s),
                             !.ids = FetchUnsynced(Kind(s))]]
          /\ wait' = [wait EXCEPT ![s] = i]
    /\ UNCHANGED <<local, synced, pc, marking, running, backoff, routing,
                   cloudVars, cliRuns, faults>>

\* The answer.  401 stops the loop, 429 starts a backoff (both for cost
\* records only), anything else but 200 ends this push.
Receive(s) ==
    /\ wait[s] # NoSlot
    /\ LET p == posts[wait[s]]
           cost == p.kind = "cost"
       IN  /\ p.stage = "replied"
           /\ posts' = [posts EXCEPT ![wait[s]] = Free]
           /\ marking' = [marking EXCEPT ![s] = p.status = 200]
           /\ IF p.status = 200
              THEN UNCHANGED <<pc, batch>>
              ELSE /\ pc' = [pc EXCEPT ![s] = After(s, FALSE)]
                   /\ batch' = [batch EXCEPT ![s] = {}]
           /\ routing' = IF cost /\ s = "loop" /\ p.status = 200 /\ p.ov # 0
                         THEN p.ov ELSE routing
           /\ running' = IF cost /\ p.status = 401
                         THEN [running EXCEPT ![s] = FALSE] ELSE running
           /\ backoff' = IF cost /\ p.status = 429
                         THEN [backoff EXCEPT ![s] = TRUE] ELSE backoff
    /\ wait' = [wait EXCEPT ![s] = NoSlot]
    /\ UNCHANGED <<local, synced, cloudVars, cliRuns, faults>>

\* Variant of MarkSynced: ids counted from zero.
MarkShifted(s) ==
    /\ marking[s]
    /\ synced' = [synced EXCEPT ![Kind(s)] = @ \cup {r - 1 : r \in batch[s]}]
    /\ marking' = [marking EXCEPT ![s] = FALSE]
    /\ pc' = [pc EXCEPT ![s] = After(s, Cardinality(batch[s]) = BatchSize)]
    /\ batch' = [batch EXCEPT ![s] = {}]
    /\ UNCHANGED <<local, wait, running, backoff, routing, posts, cloudVars,
                   cliRuns, faults>>

\* Variant of MarkSynced: whatever is unsynced by now is marked.
MarkAllSynced(s) ==
    /\ marking[s]
    /\ synced' = [synced EXCEPT ![Kind(s)] = 1..local[Kind(s)]]
    /\ marking' = [marking EXCEPT ![s] = FALSE]
    /\ pc' = [pc EXCEPT ![s] = After(s, Cardinality(batch[s]) = BatchSize)]
    /\ batch' = [batch EXCEPT ![s] = {}]
    /\ UNCHANGED <<local, wait, running, backoff, routing, posts, cloudVars,
                   cliRuns, faults>>

MarkSynced(s) ==
    /\ marking[s]
    /\ synced' = [synced EXCEPT ![Kind(s)] = @ \cup batch[s]]
    /\ marking' = [marking EXCEPT ![s] = FALSE]
    /\ pc' = [pc EXCEPT ![s] = After(s, Cardinality(batch[s]) = BatchSize)]
    /\ batch' = [batch EXCEPT ![s] = {}]
    /\ UNCHANGED <<local, wait, running, backoff, routing, posts,
                   cloudVars, cliRuns, faults>>

\* The UPDATE raises: the rows stay unsynced.
MarkFails(s) ==
    /\ Fault
    /\ marking[s]
    /\ marking' = [marking EXCEPT ![s] = FALSE]
    /\ pc' = [pc EXCEPT ![s] = After(s, FALSE)]
    /\ batch' = [batch EXCEPT ![s] = {}]
    /\ UNCHANGED <<local, synced, wait, running, backoff, routing, posts,
                   cloudVars, cliRuns>>

\* No answer within 30 s.  The backend may still be at work.
Timeout(s) ==
    /\ wait[s] # NoSlot
    /\ \/ posts[wait[s]].stage = "dead" /\ UNCHANGED faults
       \/ posts[wait[s]].stage # "dead" /\ Fault
    /\ wait' = [wait EXCEPT ![s] = NoSlot]
    /\ pc' = [pc EXCEPT ![s] = After(s, FALSE)]
    /\ batch' = [batch EXCEPT ![s] = {}]
    /\ UNCHANGED <<local, synced, marking, running, backoff, routing, posts,
                   cloudVars, cliRuns>>

\* Retry-After is 60 s, which a syncer spends asleep and not between the
\* statements of one cycle.
BackoffEnds(s) ==
    /\ backoff[s]
    /\ pc[s] = "idle"
    /\ backoff' = [backoff EXCEPT ![s] = FALSE]
    /\ UNCHANGED <<local, synced, pc, wait, batch, marking, running, routing,
                   posts, cloudVars, cliRuns, faults>>

\* The process of the syncer ends at any point; the proxy is started again.
Killed(s) ==
    /\ Fault
    /\ pc[s] # "idle"
    /\ pc' = [pc EXCEPT ![s] = "idle"]
    /\ wait' = [wait EXCEPT ![s] = NoSlot]
    /\ marking' = [marking EXCEPT ![s] = FALSE]
    /\ running' = [running EXCEPT ![s] = TRUE]
    /\ backoff' = [backoff EXCEPT ![s] = FALSE]
    /\ batch' = [batch EXCEPT ![s] = {}]
    /\ routing' = IF s = "loop" THEN 0 ELSE routing
    /\ UNCHANGED <<local, synced, posts, cloudVars, cliRuns>>

-----------------------------------------------------------------------------
(* The backend: ingest() and ingest_outcomes().                            *)

Goto(i, stage) == posts' = [posts EXCEPT ![i].stage = stage]

Reply(i, status) ==
    posts' = [posts EXCEPT ![i] = [@ EXCEPT !.stage = "replied", !.status = status]]

\* Variant of OverQuota: only the request cap is checked.
RequestsOverQuota ==
    Cap["requests"] > 0 /\ usage[cycle]["requests"] >= Cap["requests"]

\* _check_quota_or_raise().
OverQuota ==
    \/ \E d \in Dims : Cap[d] > 0 /\ usage[cycle][d] >= Cap[d]
    \/ SeatCount > 0 /\ members > SeatCount

\* IngestRequest and OutcomeIngestRequest: one bad row refuses the whole post,
\* before the handler looks at the key.
Invalid(i) == posts[i].ids \cap Refused[posts[i].kind] # {}

Admit(i) ==
    /\ posts[i].stage = "sent"
    /\ \/ Invalid(i) /\ Reply(i, 422)
       \/ ~Invalid(i) /\ ~keyValid /\ Reply(i, 401)
       \/ /\ ~Invalid(i) /\ keyValid /\ posts[i].kind = "cost" /\ OverQuota
          /\ Reply(i, 429)
       \/ /\ ~Invalid(i) /\ keyValid /\ (posts[i].kind = "cost" => ~OverQuota)
          /\ Goto(i, "insert")
    /\ UNCHANGED <<local, synced, syncVars, cloudVars, cliRuns, faults>>

\* Variant of Insert: the table has no unique index.
InsertAgain(tbl, ids) ==
    [r \in Ids |-> IF r \in ids THEN tbl[r] + 1 ELSE tbl[r]]

\* ON CONFLICT DO NOTHING.
Insert(tbl, ids) == [r \in Ids |-> IF r \in ids /\ tbl[r] = 0 THEN 1 ELSE tbl[r]]

\* Variant of InsertRows: records already stored end the handler early.
InsertNew(i) ==
    /\ posts[i].stage = "insert"
    /\ stored' = [stored EXCEPT ![posts[i].kind] = Insert(@, posts[i].ids)]
    /\ Goto(i, IF posts[i].kind = "cost"
                  /\ \E r \in posts[i].ids : stored["cost"][r] = 0
               THEN "cycle" ELSE "respond")
    /\ UNCHANGED <<local, synced, syncVars, keyValid, members, override, cycle,
                   usage, notified, mails, counted, countVars, cliRuns,
                   faults>>

InsertRows(i) ==
    /\ posts[i].stage = "insert"
    /\ stored' = [stored EXCEPT ![posts[i].kind] = Insert(@, posts[i].ids)]
    /\ Goto(i, IF posts[i].kind = "cost" THEN "cycle" ELSE "respond")
    /\ UNCHANGED <<local, synced, syncVars, keyValid, members, override, cycle,
                   usage, notified, mails, counted, countVars,
                   cliRuns, faults>>

\* The database fails.  Cost records are one statement; outcomes are inserted
\* one by one, and the first ones stay.
InsertFails(i) ==
    /\ Fault
    /\ posts[i].stage = "insert"
    /\ \E n \in 0..(Cardinality(posts[i].ids) - 1) :
          /\ posts[i].kind = "cost" => n = 0
          /\ stored' = [stored EXCEPT ![posts[i].kind] =
                           Insert(@, Oldest(posts[i].ids, n))]
    /\ Reply(i, 500)
    /\ UNCHANGED <<local, synced, syncVars, keyValid, members, override, cycle,
                   usage, notified, mails, counted, countVars,
                   cliRuns>>

\* _record_usage_and_maybe_notify(): the cycle it finds is not the one the
\* quota was checked against when a new one begins in between.
ReadCycle(i) ==
    /\ posts[i].stage = "cycle"
    /\ Goto(i, "count")
    /\ tally' = [tally EXCEPT ![i].cyc = cycle]
    /\ UNCHANGED <<local, synced, syncVars, keyValid, members, override, stored,
                   cycle, usage, notified, mails, counted, waived, muted,
                   cliRuns, faults>>

Total(d, ids) == SumFunctionOnSet(Weight[d], ids)

\* The UPSERT counts every record of the post, also those already stored.
CountUsage(i) ==
    /\ posts[i].stage = "count"
    /\ LET c == tally[i].cyc
           now == [d \in Dims |-> usage[c][d] + Total(d, posts[i].ids)]
       IN  /\ usage' = [usage EXCEPT ![c] = now]
           /\ \/ /\ Cap["requests"] > 0
                 /\ Goto(i, "notify")
                 /\ tally' = [tally EXCEPT ![i].new = now["requests"]]
              \/ /\ Cap["requests"] = 0
                 /\ Goto(i, "respond")
                 /\ tally' = [tally EXCEPT ![i] = NoTally]
    /\ counted' = counted \cup posts[i].ids
    /\ UNCHANGED <<local, synced, syncVars, keyValid, members, override, stored,
                   cycle, notified, mails, waived, muted, cliRuns, faults>>

\* Variant of Crossed: a cap that is met exactly is not yet reached.
CrossedStrictly(i) ==
    LET new == tally[i].new
        prev == new - Total("requests", posts[i].ids)
        cap == Cap["requests"]
    IN  IF prev < cap /\ cap < new THEN {100}
        ELSE IF 10 * prev < 8 * cap /\ 8 * cap < 10 * new THEN {80}
        ELSE {}

\* The threshold that this post has crossed; 100 hides 80.
Crossed(i) ==
    LET new == tally[i].new
        prev == new - Total("requests", posts[i].ids)
        cap == Cap["requests"]
    IN  IF prev < cap /\ cap <= new THEN {100}
        ELSE IF 10 * prev < 8 * cap /\ 8 * cap <= 10 * new THEN {80}
        ELSE {}

\* UPDATE ... WHERE notified_x_at IS NULL: only the winner sends the mail.
Notify(i) ==
    /\ posts[i].stage = "notify"
    /\ LET c == tally[i].cyc
           claims == Crossed(i) \ notified[c]
       IN  /\ notified' = [notified EXCEPT ![c] = @ \cup claims]
           /\ mails' = [mails EXCEPT ![c] =
                 [t \in Thresholds |-> IF t \in claims THEN @[t] + 1 ELSE @[t]]]
    /\ tally' = [tally EXCEPT ![i] = NoTally]
    /\ Goto(i, "respond")
    /\ UNCHANGED <<local, synced, syncVars, keyValid, members, override, stored,
                   cycle, usage, counted, waived, muted, cliRuns, faults>>

\* The handler stops counting; a threshold it has crossed goes unclaimed.
CutShort(i) ==
    /\ tally' = [tally EXCEPT ![i] = NoTally]
    /\ muted' = IF posts[i].stage = "notify" THEN muted \cup {tally[i].cyc}
                ELSE muted

\* Usage recording never raises: whatever fails in it, the answer is 200.
UsageFails(i) ==
    /\ Fault
    /\ posts[i].stage \in {"cycle", "count", "notify"}
    /\ Goto(i, "respond")
    /\ waived' = IF posts[i].stage = "notify" THEN waived
                 ELSE waived \cup posts[i].ids
    /\ CutShort(i)
    /\ UNCHANGED <<local, synced, syncVars, keyValid, members, override, stored,
                   cycle, usage, notified, mails, counted, cliRuns>>

Respond(i) ==
    /\ posts[i].stage = "respond"
    /\ posts' = [posts EXCEPT ![i] =
          [@ EXCEPT !.stage = "replied", !.status = 200, !.ov = override]]
    /\ UNCHANGED <<local, synced, syncVars, cloudVars, cliRuns, faults>>

\* The post is lost on its way, or the backend goes down under it.
HandlerDies(i) ==
    /\ Fault
    /\ posts[i].stage \notin {"free", "replied", "dead"}
    /\ Goto(i, "dead")
    /\ CutShort(i)
    /\ UNCHANGED <<local, synced, syncVars, keyValid, members, override, stored,
                   cycle, usage, notified, mails, counted, waived, cliRuns>>

\* Nobody waits for the answer any more.
Discard(i) ==
    /\ posts[i].stage \in {"replied", "dead"}
    /\ \A s \in Syncers : wait[s] # i
    /\ posts' = [posts EXCEPT ![i] = Free]
    /\ UNCHANGED <<local, synced, syncVars, cloudVars, cliRuns, faults>>

-----------------------------------------------------------------------------
SyncerStep(s) == Skip(s) \/ Push(s) \/ Receive(s) \/ MarkSynced(s)

HandlerStep(i) ==
    \/ Admit(i) \/ InsertRows(i) \/ ReadCycle(i) \/ CountUsage(i) \/ Notify(i)
    \/ Respond(i) \/ Discard(i)

Next ==
    \/ \E k \in Kinds : LocalRow(k)
    \/ NewCycle \/ RevokeKey \/ MemberJoins \/ SetOverride
    \/ Tick \/ SyncNow
    \/ \E s \in Syncers :
          \/ SyncerStep(s) \/ BackoffEnds(s)
          \/ MarkFails(s) \/ Timeout(s) \/ Killed(s)
    \/ \E i \in Slots :
          HandlerStep(i) \/ InsertFails(i) \/ UsageFails(i) \/ HandlerDies(i)

Spec == Init /\ [][Next]_vars

\* The event loops run what is ready, the interval of the loop elapses, and
\* a request without an answer times out.
Fairness ==
    /\ WF_vars(Tick)
    /\ \A s \in Syncers :
          /\ WF_vars(SyncerStep(s)) /\ SF_vars(BackoffEnds(s))
          /\ WF_vars(Timeout(s) /\ UNCHANGED faults)
    /\ \A i \in Slots : WF_vars(HandlerStep(i))

FairSpec == Spec /\ Fairness

-----------------------------------------------------------------------------
(* Properties.                                                             *)

\* No loss: a row that is marked synced is stored in the backend, whatever
\* answers were lost or late, whichever of the two syncers marked it
\* (_sync_once and ingest together).
MarkedDelivered ==
    \A k \in Kinds : \A r \in synced[k] : stored[k][r] > 0

\* No duplicates: retried, late and concurrent posts of the same row store
\* it once ("A replayed batch is deduped by ON CONFLICT above", ingest.py).
StoredOnce == \A k \in Kinds, r \in Ids : stored[k][r] <= 1

\* No free usage: a cost record the proxy will not push again has been
\* counted in some usage cycle, unless the counting query itself failed.
SyncedCounted == synced["cost"] \subseteq counted \cup waived

\* Usage is what is stored: "A replayed batch is deduped by ON CONFLICT above
\* and still reports accepted" (ingest.py), so that every record counts once
\* against the monthly cap.
UsageExact ==
    SumFunction([c \in Cycles |-> usage[c]["requests"]])
        <= Cardinality({r \in Ids : stored["cost"][r] > 0})

\* Handlers admitted before the cap was reached can overshoot it, by no more
\* than the posts the backend handles at a time ("small overshoot window",
\* _check_quota_or_raise).
MaxBatch ==
    [d \in Dims |-> Max({Total(d, b) : b \in {ids \in SUBSET Ids :
                                            Cardinality(ids) <= BatchSize}})]

QuotaOvershoot ==
    \A c \in Cycles, d \in Dims :
        Cap[d] > 0 => usage[c][d] < Cap[d] + Cardinality(Slots) * MaxBatch[d]

\* Every threshold a cycle has crossed was mailed, and mailed once, even when
\* concurrent posts cross it together; a crash or a failing query between the
\* count and the claim loses the mail for good (_record_usage_and_maybe_notify).
ThresholdsMailed ==
    \A c \in Cycles :
        LET cap == Cap["requests"]
            used == usage[c]["requests"]
            open == \E i \in Slots : posts[i].stage = "notify" /\ tally[i].cyc = c
        IN  /\ \A t \in Thresholds : mails[c][t] <= 1
            /\ cap > 0 /\ ~open /\ c \notin muted =>
                  /\ used >= cap => mails[c][100] = 1
                  /\ 10 * used >= 8 * cap => mails[c][80] + mails[c][100] >= 1

\* A refused row is among the oldest: no later post of its kind can succeed.
Blocked(k) == FetchUnsynced(k) \cap Refused[k] # {}

\* Every local row reaches the backend and is marked, unless the key is
\* revoked, a quota is used up (for cost records), or a refused row of the same
\* kind has come to the front; a refused outcome holds back no cost record, a
\* refused row no batch before its own, and a quota no outcome
\* (start_sync_loop, _sync_once).
Delivered ==
    \A k \in Kinds, r \in Ids :
        (r <= local[k]) ~>
            \/ r \in synced[k]
            \/ ~keyValid
            \/ k = "cost" /\ OverQuota
            \/ Blocked(k)
=============================================================================
