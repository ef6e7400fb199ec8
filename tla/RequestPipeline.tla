--------------------------- MODULE RequestPipeline ---------------------------
(***************************************************************************)
(* The admission pipeline of the BurnLens proxy: what handle_request does  *)
(* between the arrival of a request and its answer, and how the recorded   *)
(* spend finds its way back to the checks that the next request meets.     *)
(*                                                                         *)
(* Many requests share one event loop, so every `await` is a point where   *)
(* the others run.  A cap check reads a cached spend when there is one,    *)
(* and otherwise queries SQLite and stores what it read in a later step.   *)
(* The cost of an answer is recorded after the answer went out, by a task  *)
(* of its own, through the write-ahead log and its worker (module          *)
(* WalPipeline), or by a direct insert when the log fails.                 *)
(*                                                                         *)
(* A client stands for one caller that sends its requests one after the    *)
(* other, always with the same key, tags and mode; every answer costs one  *)
(* unit.  Models are priced and not downgraded; the budget policies, which *)
(* are checked right before the upstream call, are module BudgetEngine.    *)
(***************************************************************************)
EXTENDS Naturals, FiniteSets

CONSTANTS
    Clients,      \* callers of the proxy
    Labels,       \* labels of registered API keys that have a daily cap
    Customers,    \* customers that have a monthly budget
    Teams,        \* teams of virtual keys that have a monthly budget
    NoScope,      \* "no label", "no customer" or "no virtual key"
    Label,        \* client -> label of its key
    Customer,     \* client -> its customer tag
    Team,         \* client -> team of its virtual key
    Streaming,    \* clients that ask for a stream
    Cap,          \* scope -> its limit, in answers; spend is counted up to it
    Absent,       \* no cache entry
    MaxFaults,    \* bound on failing queries, log writes and lookups
    MaxDays       \* bound on the midnights that pass

Scopes == Labels \cup Customers \cup Teams

ASSUME ScopesAssumption ==
    /\ Label \in [Clients -> Labels \cup {NoScope}]
    /\ Customer \in [Clients -> Customers \cup {NoScope}]
    /\ Team \in [Clients -> Teams \cup {NoScope}]
    /\ NoScope \notin Scopes
    /\ Labels \cap (Customers \cup Teams) = {}
    /\ Streaming \subseteq Clients

ASSUME BoundsAssumption ==
    /\ Cap \in [Scopes -> Nat]
    /\ MaxFaults \in Nat
    /\ MaxDays \in Nat
    /\ Absent \notin Nat

VARIABLES
    pc,       \* where the request of each client is
    seen,     \* the spend a client's pending query returned
    cached,   \* spend_cache (labels) and _customer_spend_cache (customers)
    today,    \* cost of today's rows of each label in SQLite
    spent,    \* cost of this month's rows of each scope in SQLite
    log,      \* the task that records the last answer of each client
    faults,   \* failures so far
    day       \* midnights passed

vars == <<pc, seen, cached, today, spent, log, faults, day>>

\* Between two requests, after a 429 or after any other answer.
Resting == {"idle", "refused"}

CapStages == {"daily", "customer"}

Stages ==
    Resting \cup CapStages
        \cup {"vkey", "dailyStore", "customerStore", "lookup", "forward", "stream"}

NoTask == [stage |-> "none", cost |-> 0, day |-> 0]

Tasks ==
    {NoTask} \cup [stage : {"append", "queued", "direct", "inserted"},
                   cost : {0, 1}, day : 0..MaxDays]

TypeOK ==
    /\ pc \in [Clients -> Stages]
    /\ seen \in [Clients -> Nat]
    /\ cached \in [Labels \cup Customers -> Nat \cup {Absent}]
    /\ today \in [Labels -> Nat]
    /\ spent \in [Scopes -> Nat]
    /\ log \in [Clients -> Tasks]
    /\ faults \in 0..MaxFaults
    /\ day \in 0..MaxDays

Init ==
    /\ pc = [c \in Clients |-> "idle"]
    /\ seen = [c \in Clients |-> 0]
    /\ cached = [s \in Labels \cup Customers |-> Absent]
    /\ today = [l \in Labels |-> 0]
    /\ spent = [s \in Scopes |-> 0]
    /\ log = [c \in Clients |-> NoTask]
    /\ faults = 0
    /\ day = 0

-----------------------------------------------------------------------------
(* Helpers.                                                                *)

Goto(c, stage) == pc' = [pc EXCEPT ![c] = stage]

Fault ==
    /\ faults < MaxFaults
    /\ faults' = faults + 1

\* The scopes whose spend an answer to c adds to: the tags of its row.
ScopesOf(c) == {Label[c], Customer[c], Team[c]} \ {NoScope}

\* The scope a cap stage checks.
Scope(c, stage) == IF stage = "daily" THEN Label[c] ELSE Customer[c]

\* A check that does not apply to the request is passed without an await, so
\* a request goes straight to the next one that does, or to the lookup.
FromCustomer(c) == IF Customer[c] # NoScope THEN "customer" ELSE "lookup"

FromDaily(c) == IF Label[c] # NoScope THEN "daily" ELSE FromCustomer(c)

FromVirtualKey(c) == IF Team[c] # NoScope THEN "vkey" ELSE FromDaily(c)

After(c, stage) == IF stage = "daily" THEN FromCustomer(c) ELSE "lookup"

Storing(stage) == IF stage = "daily" THEN "dailyStore" ELSE "customerStore"

\* What the query of a cap check returns: today's rows of the label
\* (get_spend_by_key_label_today), this month's rows of the customer
\* (get_spend_by_customer_this_month).
Recorded(s) == IF s \in Labels THEN today[s] ELSE spent[s]

\* Variant of Verdict: the request counts itself before it is forwarded.
VerdictEager(c, s, amount, next) ==
    IF amount + 1 >= Cap[s] THEN Goto(c, "refused") ELSE Goto(c, next)

\* spent >= daily_cap refuses; spent < limit admits.
Verdict(c, s, amount, next) ==
    IF amount >= Cap[s] THEN Goto(c, "refused") ELSE Goto(c, next)

-----------------------------------------------------------------------------
(* handle_request, up to the upstream call.                                *)

Arrive(c) ==
    /\ pc[c] \in Resting
    /\ Goto(c, FromVirtualKey(c))
    /\ UNCHANGED <<seen, cached, today, spent, log, faults, day>>

\* The virtual-key gateway: the team's spend is read from SQLite every time.
VirtualKey(c) ==
    /\ pc[c] = "vkey"
    /\ Verdict(c, Team[c], spent[Team[c]], FromDaily(c))
    /\ UNCHANGED <<seen, cached, today, spent, log, faults, day>>

\* A failing lookup of the key answers 503; a failing query of the team's
\* spend counts as no spend.
VirtualKeyFails(c) ==
    /\ pc[c] = "vkey"
    /\ Fault
    /\ \/ Goto(c, "idle")
       \/ Verdict(c, Team[c], 0, FromDaily(c))
    /\ UNCHANGED <<seen, cached, today, spent, log, day>>

\* The cache holds an entry that has not expired: decide at once.
CapHit(c, stage) ==
    LET s == Scope(c, stage) IN
    /\ pc[c] = stage
    /\ cached[s] # Absent
    /\ Verdict(c, s, cached[s], After(c, stage))
    /\ UNCHANGED <<seen, cached, today, spent, log, faults, day>>

\* Variant of CapQuery: the sum over no rows is NULL, and nothing turns it
\* into zero.
CapQueryNull(c, stage) ==
    LET s == Scope(c, stage) IN
    /\ pc[c] = stage
    /\ cached[s] = Absent
    /\ seen' = [seen EXCEPT ![c] = IF Recorded(s) = 0 THEN Absent ELSE Recorded(s)]
    /\ Goto(c, Storing(stage))
    /\ UNCHANGED <<cached, today, spent, log, faults, day>>

\* No entry: query SQLite, holding no lock.
CapQuery(c, stage) ==
    LET s == Scope(c, stage) IN
    /\ pc[c] = stage
    /\ cached[s] = Absent
    /\ seen' = [seen EXCEPT ![c] = Recorded(s)]
    /\ Goto(c, Storing(stage))
    /\ UNCHANGED <<cached, today, spent, log, faults, day>>

\* The query returned: store what it read, whatever happened since, and decide.
CapStore(c, stage) ==
    LET s == Scope(c, stage) IN
    /\ pc[c] = Storing(stage)
    /\ cached' = [cached EXCEPT ![s] = seen[c]]
    /\ seen' = [seen EXCEPT ![c] = 0]
    /\ Verdict(c, s, seen[c], After(c, stage))
    /\ UNCHANGED <<today, spent, log, faults, day>>

\* The query raised: fail open.
CapFails(c, stage) ==
    /\ pc[c] = stage
    /\ cached[Scope(c, stage)] = Absent
    /\ Fault
    /\ Goto(c, After(c, stage))
    /\ UNCHANGED <<seen, cached, today, spent, log, day>>

\* The semantic cache has the answer: it goes out without an upstream call,
\* and its row costs nothing.  What the cache holds is not modelled here.
CacheHit(c) ==
    /\ pc[c] = "lookup"
    /\ Goto(c, "idle")
    /\ UNCHANGED <<seen, cached, today, spent, log, faults, day>>

\* No answer, a lookup or an embedding that failed, or a request that
\* bypasses the cache.
CacheMiss(c) ==
    /\ pc[c] = "lookup"
    /\ Goto(c, "forward")
    /\ UNCHANGED <<seen, cached, today, spent, log, faults, day>>

-----------------------------------------------------------------------------
(* The upstream call.  A client has one recording task at a time: that     *)
(* bounds the answers whose cost is not in SQLite yet.                     *)

\* The task that records an answer of this cost, stamped with today's date.
StartLog(c, cost) ==
    /\ log[c] = NoTask
    /\ log' = [log EXCEPT ![c] = [stage |-> "append", cost |-> cost, day |-> day]]

\* Status 200, not a stream: record the cost, save the answer, answer.
Answer(c) ==
    /\ pc[c] = "forward"
    /\ c \notin Streaming
    /\ StartLog(c, 1)
    /\ Goto(c, "idle")
    /\ UNCHANGED <<seen, cached, today, spent, faults, day>>

\* Status 200, a stream: usage is only known when the stream has ended.
AnswerStream(c) ==
    /\ pc[c] = "forward"
    /\ c \in Streaming
    /\ Goto(c, "stream")
    /\ UNCHANGED <<seen, cached, today, spent, log, faults, day>>

\* The stream ended, or the client left: the generator's finally block.
StreamEnds(c) ==
    /\ pc[c] = "stream"
    /\ StartLog(c, 1)
    /\ Goto(c, "idle")
    /\ UNCHANGED <<seen, cached, today, spent, faults, day>>

\* Status >= 400 once the retries are used up: a row without cost, but no
\* row at all for a stream.
ErrorStatus(c) ==
    /\ pc[c] = "forward"
    /\ IF c \in Streaming THEN UNCHANGED log ELSE StartLog(c, 0)
    /\ Goto(c, "idle")
    /\ UNCHANGED <<seen, cached, today, spent, faults, day>>

\* The connection failed and the retries are used up: the error propagates.
ConnectError(c) ==
    /\ pc[c] = "forward"
    /\ Goto(c, "idle")
    /\ UNCHANGED <<seen, cached, today, spent, log, faults, day>>

-----------------------------------------------------------------------------
(* The recording task and the worker.                                      *)

\* One row committed: it counts for each scope of its tags, and for today's
\* spend of its label if it is stamped with today's date.
InsertRow(c) ==
    LET Add(s, n) == IF n + log[c].cost > Cap[s] THEN Cap[s] ELSE n + log[c].cost IN
    /\ spent' = [s \in Scopes |->
                    IF s \in ScopesOf(c) THEN Add(s, spent[s]) ELSE spent[s]]
    /\ today' = [l \in Labels |->
                    IF l = Label[c] /\ log[c].day = day THEN Add(l, today[l]) ELSE today[l]]

LogStage(c, stage) == log' = [log EXCEPT ![c].stage = stage]

LogEnds(c) == log' = [log EXCEPT ![c] = NoTask]

\* _log_via_wal: append to the log and enqueue; if that fails, insert directly.
Append(c) ==
    /\ log[c].stage = "append"
    /\ \/ LogStage(c, "queued") /\ UNCHANGED faults
       \/ Fault /\ LogStage(c, "direct")
    /\ UNCHANGED <<pc, seen, cached, today, spent, day>>

\* The worker inserts the row.
WorkerInsert(c) ==
    /\ log[c].stage = "queued"
    /\ InsertRow(c)
    /\ LogEnds(c)
    /\ UNCHANGED <<pc, seen, cached, faults, day>>

\* _log_record inserts the row; if that fails the row is given up.
DirectInsert(c) ==
    /\ log[c].stage = "direct"
    /\ \/ InsertRow(c) /\ LogStage(c, "inserted") /\ UNCHANGED faults
       \/ Fault /\ LogEnds(c) /\ UNCHANGED <<today, spent>>
    /\ UNCHANGED <<pc, seen, cached, day>>

\* ... and drops the cached spend of the label.
Invalidate(c) ==
    /\ log[c].stage = "inserted"
    /\ LogEnds(c)
    /\ cached' = IF Label[c] = NoScope THEN cached
                                       ELSE [cached EXCEPT ![Label[c]] = Absent]
    /\ UNCHANGED <<pc, seen, today, spent, faults, day>>

-----------------------------------------------------------------------------
(* Time.                                                                   *)

\* Variant of Expire: an entry that admits is kept until it is invalidated.
ExpireRefusals(s) ==
    /\ cached[s] # Absent
    /\ cached[s] >= Cap[s]
    /\ cached' = [cached EXCEPT ![s] = Absent]
    /\ UNCHANGED <<pc, seen, today, spent, log, faults, day>>

\* Variant of Expire: an entry that refuses is kept until it is invalidated.
ExpireAdmissions(s) ==
    /\ cached[s] # Absent
    /\ cached[s] < Cap[s]
    /\ cached' = [cached EXCEPT ![s] = Absent]
    /\ UNCHANGED <<pc, seen, today, spent, log, faults, day>>

\* The entry of s is older than its TTL (30 s for labels, 60 s for customers).
Expire(s) ==
    /\ cached[s] # Absent
    /\ cached' = [cached EXCEPT ![s] = Absent]
    /\ UNCHANGED <<pc, seen, today, spent, log, faults, day>>

\* Midnight in the configured timezone: today's window starts again, the
\* caches keep what they hold.
Midnight ==
    /\ day < MaxDays
    /\ day' = day + 1
    /\ today' = [l \in Labels |-> 0]
    /\ UNCHANGED <<pc, seen, cached, spent, log, faults>>

-----------------------------------------------------------------------------
Check(c, stage) ==
    CapHit(c, stage) \/ CapQuery(c, stage) \/ CapStore(c, stage)

Upstream(c) ==
    Answer(c) \/ AnswerStream(c) \/ StreamEnds(c) \/ ErrorStatus(c) \/ ConnectError(c)

Record(c) == Append(c) \/ WorkerInsert(c) \/ DirectInsert(c) \/ Invalidate(c)

\* The next step of the request of c, failures left aside.
Serve(c) ==
    \/ Arrive(c) \/ VirtualKey(c)
    \/ \E stage \in CapStages : Check(c, stage)
    \/ CacheHit(c) \/ CacheMiss(c)
    \/ Upstream(c)

Next ==
    \/ \E c \in Clients :
          \/ Serve(c) \/ Record(c)
          \/ VirtualKeyFails(c)
          \/ \E stage \in CapStages : CapFails(c, stage)
    \/ \E s \in Labels \cup Customers : Expire(s)
    \/ Midnight

Spec == Init /\ [][Next]_vars

\* The event loop runs every task that can go on, upstream calls end, time
\* passes, and clients keep asking.
Fairness ==
    /\ \A c \in Clients : WF_vars(Serve(c)) /\ WF_vars(Record(c))
    /\ \A s \in Labels \cup Customers : WF_vars(Expire(s))

FairSpec == Spec /\ Fairness

-----------------------------------------------------------------------------
(* Properties.                                                             *)

\* SQLite holds enough spend for one of c's caps to refuse it.
OverCap(c) ==
    \/ \E s \in ScopesOf(c) \cap Labels : today[s] >= Cap[s]
    \/ \E s \in ScopesOf(c) \ Labels : spent[s] >= Cap[s]

\* A request is only refused over spend that its own label, customer or team
\* really has on record this month: neither a slow query, an entry kept past
\* midnight nor another client's entry refuses a client that never came near
\* a cap (the 429 answers of handle_request).
JustRefusal ==
    \A c \in Clients :
        pc[c] = "refused" => \E s \in ScopesOf(c) : spent[s] >= Cap[s]

\* A cap takes effect: a client whose recorded spend stays at a cap is in the
\* end never forwarded again, although cached and in-flight values lag behind
\* (SpendCache, check_customer_budget, the virtual-key budget).
CapTakesEffect ==
    \A c \in Clients : <>[]OverCap(c) => <>[](pc[c] # "forward")

\* A cap lets go: a client that keeps asking and whose caps are not reached,
\* after midnight say, is in the end not refused any more.
CapLetsGo ==
    \A c \in Clients : <>[]~OverCap(c) => <>[](pc[c] # "refused")
=============================================================================
