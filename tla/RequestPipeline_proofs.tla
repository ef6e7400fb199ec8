------------------------ MODULE RequestPipeline_proofs ------------------------
(***************************************************************************)
(* JustRefusal for any number of clients, keys, customers and teams.       *)
(*                                                                         *)
(* The caches and the pending queries lag behind SQLite, and midnight sets *)
(* today's window back; what they hold is still bounded by the month's     *)
(* recorded spend of the same scope, which only grows.  That bound is the  *)
(* inductive invariant: a refusal compares such a value with the cap.      *)
(***************************************************************************)
EXTENDS RequestPipeline, TLAPS

\* A request is only at a check that applies to it.
AtOwnCheck ==
    \A c \in Clients :
        /\ pc[c] = "vkey" => Team[c] # NoScope
        /\ pc[c] \in {"daily", "dailyStore"} => Label[c] # NoScope
        /\ pc[c] \in {"customer", "customerStore"} => Customer[c] # NoScope

\* Spend is counted up to the cap, and today's is part of the month's.
Counted ==
    /\ \A s \in Scopes : spent[s] <= Cap[s]
    /\ \A l \in Labels : today[l] <= spent[l]

\* No cache entry and no pending query is ahead of the month's spend.
Behind ==
    /\ \A s \in Labels \cup Customers : cached[s] # Absent => cached[s] <= spent[s]
    /\ \A c \in Clients :
          /\ pc[c] = "dailyStore" => seen[c] <= spent[Label[c]]
          /\ pc[c] = "customerStore" => seen[c] <= spent[Customer[c]]

IndInv == TypeOK /\ AtOwnCheck /\ Counted /\ Behind /\ JustRefusal

\* The scopes of a client, where it has them, are scopes with a cap.
LEMMA ScopeFacts ==
    ASSUME NEW c \in Clients
    PROVE  /\ Label[c] # NoScope => Label[c] \in Labels /\ Label[c] \in ScopesOf(c)
           /\ Customer[c] # NoScope => Customer[c] \in Customers /\ Customer[c] \in ScopesOf(c)
           /\ Team[c] # NoScope => Team[c] \in Teams /\ Team[c] \in ScopesOf(c)
           /\ ScopesOf(c) \subseteq Scopes
           /\ Label[c] \in Labels \cup {NoScope}
           /\ Customer[c] \in Customers \cup {NoScope}
           /\ Team[c] \in Teams \cup {NoScope}
    BY ScopesAssumption DEF ScopesOf, Scopes

\* Init satisfies the invariant.
LEMMA InitInd == Init => IndInv
    BY ScopesAssumption, BoundsAssumption
    DEF Init, IndInv, TypeOK, AtOwnCheck, Counted, Behind, JustRefusal, Stages, Resting,
        Tasks, NoTask, Scopes

\* A request that goes to its next check is at a check that applies to it.
LEMMA NextCheck ==
    ASSUME NEW c \in Clients
    PROVE  /\ FromCustomer(c) \in {"customer", "lookup"}
           /\ FromDaily(c) \in {"daily", "customer", "lookup"}
           /\ FromVirtualKey(c) \in {"vkey", "daily", "customer", "lookup"}
           /\ FromCustomer(c) = "customer" => Customer[c] # NoScope
           /\ FromDaily(c) = "customer" => Customer[c] # NoScope
           /\ FromDaily(c) = "daily" => Label[c] # NoScope
           /\ FromVirtualKey(c) = "customer" => Customer[c] # NoScope
           /\ FromVirtualKey(c) = "daily" => Label[c] # NoScope
           /\ FromVirtualKey(c) = "vkey" => Team[c] # NoScope
    BY DEF FromCustomer, FromDaily, FromVirtualKey

\* A step that only moves one request, to a check that applies to it or to a
\* justified refusal, keeps the invariant.
LEMMA MoveInd ==
    ASSUME IndInv, NEW c \in Clients, NEW to \in Stages,
           Goto(c, to),
           to \notin {"dailyStore", "customerStore"},
           to = "vkey" => Team[c] # NoScope,
           to = "daily" => Label[c] # NoScope,
           to = "customer" => Customer[c] # NoScope,
           to = "refused" => \E s \in ScopesOf(c) : spent[s] >= Cap[s],
           UNCHANGED <<today, spent>>,
           seen' \in [Clients -> Nat],
           \A x \in Clients : x # c => seen'[x] = seen[x],
           cached' \in [Labels \cup Customers -> Nat \cup {Absent}],
           \A s \in Labels \cup Customers : cached'[s] # Absent => cached'[s] <= spent[s],
           log' \in [Clients -> Tasks],
           faults' \in 0..MaxFaults,
           UNCHANGED day
    PROVE  IndInv'
    BY DEF IndInv, TypeOK, AtOwnCheck, Counted, Behind, JustRefusal, Goto, Stages, Resting,
           CapStages

\* Constants and the tasks that recording uses.
LEMMA TaskFacts ==
    ASSUME TypeOK, NEW c \in Clients
    PROVE  /\ NoTask \in Tasks
           /\ \A cost \in {0, 1} :
                 [stage |-> "append", cost |-> cost, day |-> day] \in Tasks
           /\ log[c].cost \in {0, 1}
           /\ \A st \in {"queued", "direct", "inserted"} :
                 log[c].stage # "none" => [log[c] EXCEPT !.stage = st] \in Tasks
    BY BoundsAssumption DEF TypeOK, Tasks, NoTask

\* The checks before the upstream call keep the invariant.
LEMMA CheckInd ==
    ASSUME IndInv, NEW c \in Clients,
           \/ Arrive(c) \/ VirtualKey(c) \/ VirtualKeyFails(c)
           \/ CacheHit(c) \/ CacheMiss(c)
    PROVE  IndInv'
    <1> USE ScopeFacts, NextCheck
    <1>0. /\ TypeOK /\ AtOwnCheck /\ Counted /\ Behind
        BY DEF IndInv
    <1>1. CASE Arrive(c)
        BY <1>0, <1>1, MoveInd
        DEF Arrive, TypeOK, Behind, Stages, Resting, CapStages
    <1>2. CASE VirtualKey(c)
        BY <1>0, <1>2, MoveInd
        DEF VirtualKey, Verdict, TypeOK, AtOwnCheck, Behind, Stages, Resting, CapStages
    <1>3. CASE VirtualKeyFails(c)
        <2>1. Counted /\ Cap[Team[c]] \in Nat /\ Team[c] \in Scopes /\ Team[c] \in ScopesOf(c)
            BY <1>0, <1>3, BoundsAssumption DEF VirtualKeyFails, AtOwnCheck, Scopes
        <2>2. faults' \in 0..MaxFaults
            BY <1>0, <1>3, BoundsAssumption DEF VirtualKeyFails, Fault, TypeOK
        <2>3. 0 >= Cap[Team[c]] => spent[Team[c]] >= Cap[Team[c]]
            BY <2>1, <1>0 DEF TypeOK
        <2> QED
            BY <1>0, <1>3, <2>1, <2>2, <2>3, MoveInd
            DEF VirtualKeyFails, Verdict, TypeOK, AtOwnCheck, Behind, Stages, Resting, CapStages
    <1>4. CASE CacheHit(c)
        BY <1>0, <1>4, MoveInd DEF CacheHit, TypeOK, Behind, Stages, Resting, CapStages
    <1>5. CASE CacheMiss(c)
        BY <1>0, <1>5, MoveInd DEF CacheMiss, TypeOK, Behind, Stages, Resting, CapStages
    <1> QED
        BY <1>1, <1>2, <1>3, <1>4, <1>5

\* The cap checks keep the invariant: a hit and a query read no more than the
\* month's spend, a store keeps the bound, since spend only grew meanwhile.
LEMMA CapInd ==
    ASSUME IndInv, NEW c \in Clients, NEW stage \in CapStages,
           Check(c, stage) \/ CapFails(c, stage)
    PROVE  IndInv'
    <1> USE ScopeFacts, NextCheck
    <1> DEFINE s == Scope(c, stage)
    <1>0. /\ TypeOK /\ AtOwnCheck /\ Counted /\ Behind
        BY DEF IndInv
    <1>1. stage = "daily" \/ stage = "customer"
        BY DEF CapStages
    <1>2. pc[c] = stage \/ pc[c] = Storing(stage) =>
             /\ s \in Labels \cup Customers
             /\ s \in ScopesOf(c) /\ s \in Scopes
        BY <1>0, <1>1 DEF AtOwnCheck, Scope, Storing, Scopes
    <1>3. /\ After(c, stage) \in {"customer", "lookup"}
          /\ After(c, stage) = "customer" => Customer[c] # NoScope
        BY <1>1 DEF After
    <1>4. CASE CapHit(c, stage)
        <2>1. cached[s] \in Nat /\ cached[s] <= spent[s] /\ spent[s] \in Nat
            BY <1>0, <1>2, <1>4 DEF CapHit, TypeOK, Behind
        <2>2. cached[s] >= Cap[s] => \E x \in ScopesOf(c) : spent[x] >= Cap[x]
            BY <1>2, <1>4, <2>1, BoundsAssumption DEF CapHit
        <2> QED
            BY <1>0, <1>3, <1>4, <2>2, MoveInd
            DEF CapHit, Verdict, TypeOK, Behind, Stages, Resting, CapStages
    <1>5. CASE CapQuery(c, stage)
        <2>1. /\ Recorded(s) \in Nat
              /\ Recorded(s) <= spent[s]
            BY <1>0, <1>2, <1>5, ScopesAssumption
            DEF CapQuery, Recorded, TypeOK, Counted, Scopes
        <2>2. Storing(stage) \in {"dailyStore", "customerStore"}
            BY DEF Storing
        <2>3. TypeOK'
            BY <1>0, <1>5, <2>1, <2>2 DEF CapQuery, Goto, TypeOK, Stages
        <2>4. AtOwnCheck'
            BY <1>0, <1>1, <1>5 DEF CapQuery, Goto, TypeOK, AtOwnCheck, Storing
        <2>5. Behind'
            BY <1>0, <1>1, <1>5, <2>1
            DEF CapQuery, Goto, TypeOK, AtOwnCheck, Behind, Storing, Scope
        <2>6. Counted' /\ JustRefusal'
            BY <1>0, <1>5, <2>2
            DEF CapQuery, Goto, TypeOK, IndInv, Counted, JustRefusal
        <2> QED
            BY <2>3, <2>4, <2>5, <2>6 DEF IndInv
    <1>6. CASE CapStore(c, stage)
        <2>1. seen[c] \in Nat /\ seen[c] <= spent[s]
            BY <1>0, <1>1, <1>6 DEF CapStore, TypeOK, Behind, Storing, Scope
        <2>2. /\ cached' \in [Labels \cup Customers -> Nat \cup {Absent}]
              /\ \A x \in Labels \cup Customers : cached'[x] # Absent => cached'[x] <= spent[x]
            BY <1>0, <1>2, <1>6, <2>1 DEF CapStore, TypeOK, Behind
        <2>3. /\ seen' \in [Clients -> Nat]
              /\ \A x \in Clients : x # c => seen'[x] = seen[x]
            BY <1>0, <1>6 DEF CapStore, TypeOK
        <2>4. seen[c] >= Cap[s] => \E x \in ScopesOf(c) : spent[x] >= Cap[x]
            BY <1>0, <1>2, <1>6, <2>1, BoundsAssumption DEF CapStore, TypeOK
        <2> QED
            BY <1>0, <1>3, <1>6, <2>2, <2>3, <2>4, MoveInd
            DEF CapStore, Verdict, TypeOK, Stages, Resting, CapStages
    <1>7. CASE CapFails(c, stage)
        <2>1. faults' \in 0..MaxFaults
            BY <1>0, <1>7, BoundsAssumption DEF CapFails, Fault, TypeOK
        <2> QED
            BY <1>0, <1>3, <1>7, <2>1, MoveInd
            DEF CapFails, TypeOK, Behind, Stages, Resting, CapStages
    <1> QED
        BY <1>4, <1>5, <1>6, <1>7 DEF Check

\* The outcomes of the upstream call keep the invariant.
LEMMA UpstreamInd ==
    ASSUME IndInv, NEW c \in Clients, Upstream(c)
    PROVE  IndInv'
    <1>0. TypeOK /\ Behind
        BY DEF IndInv
    <1>1. /\ "idle" \in Stages /\ "stream" \in Stages
        BY DEF Stages, Resting
    <1>2. \E to \in {"idle", "stream"} : Goto(c, to)
        BY DEF Upstream, Answer, AnswerStream, StreamEnds, ErrorStatus, ConnectError
    <1>3. log' \in [Clients -> Tasks]
        BY <1>0, TaskFacts
        DEF Upstream, Answer, AnswerStream, StreamEnds, ErrorStatus, ConnectError, StartLog, TypeOK
    <1>4. UNCHANGED <<seen, cached, today, spent, faults, day>>
        BY DEF Upstream, Answer, AnswerStream, StreamEnds, ErrorStatus, ConnectError
    <1> QED
        BY <1>0, <1>1, <1>2, <1>3, <1>4, MoveInd DEF TypeOK, Behind

\* A row only adds to the recorded spend, up to the cap, and to today's no
\* more than to the month's.
LEMMA InsertFacts ==
    ASSUME TypeOK, Counted, NEW c \in Clients, InsertRow(c)
    PROVE  /\ spent' \in [Scopes -> Nat]
           /\ today' \in [Labels -> Nat]
           /\ \A s \in Scopes : spent[s] <= spent'[s] /\ spent'[s] <= Cap[s]
           /\ \A l \in Labels : today'[l] <= spent'[l]
    <1> DEFINE k == log[c].cost
               Add(s, n) == IF n + k > Cap[s] THEN Cap[s] ELSE n + k
    <1>1. k \in {0, 1}
        BY TaskFacts
    <1>2. /\ spent' = [s \in Scopes |->
                         IF s \in ScopesOf(c) THEN Add(s, spent[s]) ELSE spent[s]]
          /\ today' = [l \in Labels |->
                         IF l = Label[c] /\ log[c].day = day THEN Add(l, today[l]) ELSE today[l]]
        BY DEF InsertRow
    <1>3. \A s \in Scopes : /\ spent[s] \in Nat /\ Cap[s] \in Nat
                            /\ spent[s] <= Cap[s]
        BY BoundsAssumption DEF TypeOK, Counted
    <1>4. \A l \in Labels : /\ l \in Scopes
                            /\ today[l] \in Nat
                            /\ today[l] <= spent[l]
                            /\ l = Label[c] => l \in ScopesOf(c)
        BY ScopeFacts, ScopesAssumption DEF TypeOK, Counted, Scopes
    <1> HIDE DEF k
    <1>5. \A s \in Scopes : /\ Add(s, spent[s]) \in Nat
                            /\ spent[s] <= Add(s, spent[s]) /\ Add(s, spent[s]) <= Cap[s]
        BY <1>1, <1>3
    <1>6. \A l \in Labels : /\ Add(l, today[l]) \in Nat
                            /\ Add(l, today[l]) <= Add(l, spent[l])
        BY <1>1, <1>3, <1>4
    <1> HIDE DEF Add
    <1>7. \A s \in Scopes : /\ spent'[s] \in Nat
                            /\ spent[s] <= spent'[s] /\ spent'[s] <= Cap[s]
        BY <1>2, <1>3, <1>5
    <1>8. \A l \in Labels : today'[l] \in Nat /\ today'[l] <= spent'[l]
        <2> TAKE l \in Labels
        <2>1. CASE l = Label[c] /\ log[c].day = day
            BY <1>2, <1>4, <1>6, <2>1
        <2>2. CASE ~(l = Label[c] /\ log[c].day = day)
            <3>1. today'[l] = today[l]
                BY <1>2, <2>2
            <3> QED
                BY <1>3, <1>4, <1>7, <3>1
        <2> QED
            BY <2>1, <2>2
    <1> QED
        BY <1>2, <1>7, <1>8

\* Recording an answer keeps the invariant: what lags behind now lags further.
LEMMA RecordInd ==
    ASSUME IndInv, NEW c \in Clients, Record(c)
    PROVE  IndInv'
    <1> USE ScopeFacts
    <1>0. /\ TypeOK /\ AtOwnCheck /\ Counted /\ Behind /\ JustRefusal
        BY DEF IndInv
    <1>1. UNCHANGED <<pc, seen, day>>
        BY DEF Record, Append, WorkerInsert, DirectInsert, Invalidate
    <1>2. faults' \in 0..MaxFaults
        BY <1>0, BoundsAssumption
        DEF Record, Append, WorkerInsert, DirectInsert, Invalidate, Fault, TypeOK
    <1>3. log' \in [Clients -> Tasks]
        BY <1>0, TaskFacts
        DEF Record, Append, WorkerInsert, DirectInsert, Invalidate, LogStage, LogEnds, TypeOK
    <1>4. /\ cached' \in [Labels \cup Customers -> Nat \cup {Absent}]
          /\ \A s \in Labels \cup Customers : cached'[s] # Absent => cached'[s] = cached[s]
        BY <1>0 DEF Record, Append, WorkerInsert, DirectInsert, Invalidate, TypeOK
    <1>5. /\ spent' \in [Scopes -> Nat]
          /\ today' \in [Labels -> Nat]
          /\ \A s \in Scopes : spent[s] <= spent'[s] /\ spent'[s] <= Cap[s]
          /\ \A l \in Labels : today'[l] <= spent'[l]
        <2>1. CASE InsertRow(c)
            BY <1>0, <2>1, InsertFacts
        <2>2. CASE UNCHANGED <<today, spent>>
            BY <1>0, <2>2, BoundsAssumption DEF TypeOK, Counted
        <2> QED
            BY <2>1, <2>2 DEF Record, Append, WorkerInsert, DirectInsert, Invalidate
    <1>6. TypeOK'
        BY <1>0, <1>1, <1>2, <1>3, <1>4, <1>5 DEF TypeOK
    <1>7. AtOwnCheck' /\ Counted'
        BY <1>0, <1>1, <1>5 DEF AtOwnCheck, Counted
    <1>8. Behind'
        <2>1. \A s \in Labels \cup Customers : cached'[s] # Absent => cached'[s] <= spent'[s]
            <3> SUFFICES ASSUME NEW s \in Labels \cup Customers, cached'[s] # Absent
                         PROVE  cached'[s] <= spent'[s]
                OBVIOUS
            <3>1. s \in Scopes /\ cached'[s] = cached[s] /\ cached[s] \in Nat
                BY <1>0, <1>4 DEF Scopes, TypeOK
            <3>2. cached[s] <= spent[s] /\ spent[s] \in Nat /\ spent'[s] \in Nat
                BY <1>0, <1>4, <1>5, <3>1 DEF Behind, TypeOK
            <3> QED
                BY <1>5, <3>1, <3>2
        <2>2. ASSUME NEW x \in Clients
              PROVE  /\ pc'[x] = "dailyStore" => seen'[x] <= spent'[Label[x]]
                     /\ pc'[x] = "customerStore" => seen'[x] <= spent'[Customer[x]]
            <3>1. /\ pc[x] = "dailyStore" => Label[x] \in Scopes
                  /\ pc[x] = "customerStore" => Customer[x] \in Scopes
                BY <1>0 DEF AtOwnCheck, Scopes
            <3> QED
                BY <1>0, <1>1, <1>5, <3>1 DEF Behind, TypeOK
        <2> QED
            BY <2>1, <2>2 DEF Behind
    <1>9. JustRefusal'
        <2> SUFFICES ASSUME NEW x \in Clients, pc'[x] = "refused"
                     PROVE  \E s \in ScopesOf(x) : spent'[s] >= Cap[s]
            BY DEF JustRefusal
        <2>1. PICK s \in ScopesOf(x) : spent[s] >= Cap[s]
            BY <1>0, <1>1 DEF JustRefusal
        <2> QED
            BY <1>0, <1>5, <2>1, BoundsAssumption DEF TypeOK
    <1> QED
        BY <1>6, <1>7, <1>8, <1>9 DEF IndInv

\* Time keeps the invariant: an entry is dropped, or today's spend set back.
LEMMA TimeInd ==
    ASSUME IndInv, Midnight \/ \E s \in Labels \cup Customers : Expire(s)
    PROVE  IndInv'
    <1>0. TypeOK
        BY DEF IndInv
    <1>1. CASE Midnight
        <2>1. TypeOK'
            BY <1>0, <1>1, BoundsAssumption DEF Midnight, TypeOK, Tasks, NoTask
        <2>2. Counted'
            BY <1>0, <1>1 DEF IndInv, Midnight, TypeOK, Counted, Scopes
        <2> QED
            BY <1>1, <2>1, <2>2 DEF IndInv, Midnight, AtOwnCheck, Behind, JustRefusal
    <1>2. CASE \E s \in Labels \cup Customers : Expire(s)
        BY <1>0, <1>2 DEF IndInv, Expire, TypeOK, AtOwnCheck, Counted, Behind, JustRefusal
    <1> QED
        BY <1>1, <1>2

\* Every step keeps the invariant.
LEMMA NextInd == IndInv /\ [Next]_vars => IndInv'
    <1> SUFFICES ASSUME IndInv, [Next]_vars
                 PROVE  IndInv'
        OBVIOUS
    <1>1. CASE Next
        <2>1. CASE \E c \in Clients : Serve(c)
            BY <2>1, CheckInd, CapInd, UpstreamInd DEF Serve
        <2>2. CASE \E c \in Clients : Record(c)
            BY <2>2, RecordInd
        <2>3. CASE \E c \in Clients : VirtualKeyFails(c)
            BY <2>3, CheckInd
        <2>4. CASE \E c \in Clients, stage \in CapStages : CapFails(c, stage)
            BY <2>4, CapInd
        <2>5. CASE Midnight \/ \E s \in Labels \cup Customers : Expire(s)
            BY <2>5, TimeInd
        <2> QED
            BY <1>1, <2>1, <2>2, <2>3, <2>4, <2>5 DEF Next
    <1>2. CASE UNCHANGED vars
        BY <1>2 DEF IndInv, TypeOK, AtOwnCheck, Counted, Behind, JustRefusal, vars
    <1> QED
        BY <1>1, <1>2

\* handle_request only answers 429 over spend that the request's own label,
\* customer or team has on record, however late caches and queries are.
THEOREM RefusalsJust == Spec => []JustRefusal
    <1>1. IndInv => JustRefusal
        BY DEF IndInv
    <1> QED
        BY <1>1, InitInd, NextInd, PTL DEF Spec

\* Type correctness of the request pipeline: what handle_request, the spend
\* caches and the queries hold between any two awaits.
THEOREM RequestTypes == Spec => []TypeOK
    <1>1. IndInv => TypeOK
        BY DEF IndInv
    <1> QED
        BY <1>1, InitInd, NextInd, PTL DEF Spec
=============================================================================
