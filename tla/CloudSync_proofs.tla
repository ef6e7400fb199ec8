-------------------------- MODULE CloudSync_proofs --------------------------
(***************************************************************************)
(* What holds of the delivery for any number of rows, posts, cycles,       *)
(* faults and runs of `burnlens sync --now`: a row that is marked synced   *)
(* is stored, once, and counted; every threshold is mailed; and the quota  *)
(* is overshot by no more than the posts handled at a time.                *)
(*                                                                         *)
(* None of these is inductive.  What carries the first from the backend to *)
(* the mark is the post: a handler past its insert has stored the ids of   *)
(* its post (HandlerInv), a syncer waits for the post that carries its own *)
(* batch (WaitInv), so the batch it marks is stored (MarkInv).  The other  *)
(* arguments stand on this one and are introduced where they begin.        *)
(***************************************************************************)
EXTENDS CloudSync, SumTheorems

\* The part of the type invariant that the argument needs.
Shape ==
    /\ local \in [Kinds -> Nat] /\ \A k \in Kinds : local[k] <= MaxRows[k]
    /\ synced \in [Kinds -> SUBSET Ids]
    /\ pc \in [Syncers -> {"idle", "drain", "out", "cost"}]
    /\ wait \in [Syncers -> Slots \cup {NoSlot}]
    /\ batch \in [Syncers -> SUBSET Ids]
    /\ marking \in [Syncers -> BOOLEAN]
    /\ stored \in [Kinds -> [Ids -> Nat]]
    /\ posts \in [Slots -> Post]
    /\ override \in 0..MaxOverride

\* All rows of a set are stored.
AllStored(k, ids) == \A r \in ids : stored[k][r] > 0

\* The handler of the post is past its insert.
Inserted(p) ==
    \/ p.stage \in {"cycle", "count", "notify", "respond"}
    \/ p.stage = "replied" /\ p.status = 200

HandlerInv == \A i \in Slots : Inserted(posts[i]) => AllStored(posts[i].kind, posts[i].ids)

WaitInv ==
    \A s \in Syncers :
        wait[s] # NoSlot =>
            /\ posts[wait[s]].stage # "free"
            /\ posts[wait[s]].kind = Kind(s)
            /\ posts[wait[s]].ids = batch[s]
            /\ \A t \in Syncers : wait[t] = wait[s] => t = s

MarkInv ==
    \A s \in Syncers :
        marking[s] => wait[s] = NoSlot /\ AllStored(Kind(s), batch[s])

IndInv == Shape /\ HandlerInv /\ WaitInv /\ MarkInv /\ MarkedDelivered

-----------------------------------------------------------------------------
\* ON CONFLICT DO NOTHING keeps what is stored and stores the rest.
LEMMA InsertStores ==
    ASSUME NEW tbl \in [Ids -> Nat], NEW ids \in SUBSET Ids
    PROVE  /\ Insert(tbl, ids) \in [Ids -> Nat]
           /\ \A r \in Ids : tbl[r] > 0 => Insert(tbl, ids)[r] > 0
           /\ \A r \in ids : Insert(tbl, ids)[r] > 0
  BY DEF Insert

\* A fetch reads rows of the local table.
LEMMA FetchIds ==
    ASSUME Shape, NEW k \in Kinds
    PROVE  FetchUnsynced(k) \subseteq Ids
  BY MaxRowsAssumption DEF Shape, FetchUnsynced, Oldest, Unsynced, Ids

\* The backend's table only grows, so what was stored stays stored.
LEMMA StoredGrows ==
    ASSUME Shape, NEW k \in Kinds, NEW ids \in SUBSET Ids,
           stored' = [stored EXCEPT ![k] = Insert(@, ids)]
    PROVE  /\ stored' \in [Kinds -> [Ids -> Nat]]
           /\ \A j \in Kinds : \A r \in Ids : stored[j][r] > 0 => stored'[j][r] > 0
           /\ \A r \in ids : stored'[k][r] > 0
<1>1. stored[k] \in [Ids -> Nat]
  BY DEF Shape
<1>2. stored' = [stored EXCEPT ![k] = Insert(stored[k], ids)]
  OBVIOUS
<1>3. /\ Insert(stored[k], ids) \in [Ids -> Nat]
      /\ \A r \in Ids : stored[k][r] > 0 => Insert(stored[k], ids)[r] > 0
      /\ \A r \in ids : Insert(stored[k], ids)[r] > 0
  BY <1>1, InsertStores
<1> QED
  BY <1>2, <1>3 DEF Shape

\* The first state has nothing marked, posted or awaited.
LEMMA InitInv == Init => IndInv
<1> SUFFICES ASSUME Init PROVE IndInv
  OBVIOUS
<1>1. Shape
  BY MaxRowsAssumption, BoundsAssumption DEF Init, Shape, Post, Stages, Statuses, Free, Kinds
<1>2. HandlerInv /\ WaitInv /\ MarkInv /\ MarkedDelivered
  BY DEF Init, HandlerInv, Inserted, Free, WaitInv, MarkInv, MarkedDelivered
<1> QED
  BY <1>1, <1>2 DEF IndInv

-----------------------------------------------------------------------------
\* What the invariant speaks of.
core == <<synced, pc, wait, batch, marking, posts, stored>>

\* Steps of the environment change nothing of it, but for new local rows.
LEMMA EnvironmentStep ==
    ASSUME IndInv, UNCHANGED core,
           local' \in [Kinds -> Nat], \A k \in Kinds : local'[k] <= MaxRows[k],
           override' \in 0..MaxOverride
    PROVE  IndInv'
  BY DEF IndInv, core, Shape, HandlerInv, Inserted, WaitInv, MarkInv,
         MarkedDelivered, AllStored, Kind

\* The handler of post i writes a stage and a status, and keeps the rows.
Moved(i, stage, status) ==
    /\ posts' \in [Slots -> Post]
    /\ \A j \in Slots : j # i => posts'[j] = posts[j]
    /\ posts'[i].kind = posts[i].kind /\ posts'[i].ids = posts[i].ids
    /\ posts'[i].stage = stage /\ posts'[i].status = status

\* Goto(), Reply() and the assignment of Respond() are such moves.
LEMMA Moves ==
    ASSUME posts \in [Slots -> Post], override \in 0..MaxOverride, NEW i \in Slots
    PROVE  /\ \A st \in Stages : Goto(i, st) => Moved(i, st, posts[i].status)
           /\ \A code \in Statuses :
                 Reply(i, code) => Moved(i, "replied", code)
           /\ Respond(i) => Moved(i, "replied", 200)
<1>0. posts[i] \in Post
  OBVIOUS
<1>1. ASSUME NEW st \in Stages, Goto(i, st)
      PROVE  Moved(i, st, posts[i].status)
  <2>1. posts' = [posts EXCEPT ![i] = [posts[i] EXCEPT !.stage = st]]
    BY <1>1 DEF Goto
  <2>2. [posts[i] EXCEPT !.stage = st] \in Post
    BY <1>0 DEF Post
  <2> QED
    BY <1>0, <2>1, <2>2 DEF Moved, Post
<1>2. ASSUME NEW code \in Statuses, Reply(i, code)
      PROVE  Moved(i, "replied", code)
  <2> DEFINE q == [posts[i] EXCEPT !.stage = "replied", !.status = code]
  <2>1. posts' = [posts EXCEPT ![i] = q]
    BY <1>2 DEF Reply
  <2>2. q \in Post
    <3>1. "replied" \in Stages /\ 200 \in Statuses
      BY DEF Stages, Statuses
    <3> QED
      BY <1>0, <3>1 DEF Post
  <2>3. q.stage = "replied" /\ q.status = code
    BY <1>0 DEF Post
  <2>4. q.kind = posts[i].kind /\ q.ids = posts[i].ids
    BY <1>0 DEF Post
  <2> HIDE DEF q
  <2> QED
    BY <2>1, <2>2, <2>3, <2>4 DEF Moved
<1>3. ASSUME Respond(i)
      PROVE  Moved(i, "replied", 200)
  <2> DEFINE q == [posts[i] EXCEPT !.stage = "replied", !.status = 200, !.ov = override]
  <2>1. posts' = [posts EXCEPT ![i] = q]
    BY <1>3 DEF Respond
  <2>2. q \in Post
    <3>1. "replied" \in Stages /\ 200 \in Statuses
      BY DEF Stages, Statuses
    <3> QED
      BY <1>0, <3>1 DEF Post
  <2>3. q.stage = "replied" /\ q.status = 200
    BY <1>0 DEF Post
  <2>4. q.kind = posts[i].kind /\ q.ids = posts[i].ids
    BY <1>0 DEF Post
  <2> HIDE DEF q
  <2> QED
    BY <2>1, <2>2, <2>3, <2>4 DEF Moved
<1> QED
  BY <1>1, <1>2, <1>3

\* A free slot holds a post that no handler has inserted.
LEMMA FreePost == Free \in Post /\ Free.stage = "free" /\ ~Inserted(Free)
  BY BoundsAssumption DEF Free, Post, Stages, Statuses, Kinds, Inserted

\* A syncer that waits, waits for a post.
LEMMA WaitsForSlot ==
    ASSUME IndInv, NEW s \in Syncers, wait[s] # NoSlot
    PROVE  wait[s] \in Slots
  BY DEF IndInv, Shape

\* A move that does not free the slot does not disturb who waits for what.
LEMMA MoveKeepsWaits ==
    ASSUME IndInv, NEW i \in Slots, NEW st, NEW code, Moved(i, st, code),
           st # "free", UNCHANGED <<pc, wait, batch>>
    PROVE  WaitInv'
<1>1. SUFFICES ASSUME NEW s \in Syncers, wait[s] # NoSlot
               PROVE  /\ posts'[wait[s]].stage # "free"
                      /\ posts'[wait[s]].kind = Kind(s)
                      /\ posts'[wait[s]].ids = batch[s]
                      /\ \A t \in Syncers : wait[t] = wait[s] => t = s
  BY DEF WaitInv, Kind
<1>2. wait[s] \in Slots
  BY <1>1, WaitsForSlot
<1> QED
  BY <1>1, <1>2 DEF IndInv, WaitInv, Moved

\* A handler that moves on, and is past its insert only if it was before.
LEMMA HandlerMoves ==
    ASSUME IndInv, NEW i \in Slots, NEW st, NEW code, Moved(i, st, code),
           st # "free", Inserted(posts'[i]) => Inserted(posts[i]),
           UNCHANGED <<local, synced, pc, wait, batch, marking, stored, override>>
    PROVE  IndInv'
<1>1. Shape'
  BY DEF IndInv, Shape, Moved
<1>2. HandlerInv'
  BY DEF IndInv, HandlerInv, Inserted, AllStored, Moved
<1>3. WaitInv'
  BY MoveKeepsWaits
<1>4. MarkInv' /\ MarkedDelivered'
  BY DEF IndInv, MarkInv, MarkedDelivered, AllStored, Kind
<1> QED
  BY <1>1, <1>2, <1>3, <1>4 DEF IndInv

\* A handler that inserts rows of its post and then moves on.
LEMMA HandlerInserts ==
    ASSUME IndInv, NEW i \in Slots, NEW st, NEW code, Moved(i, st, code),
           st # "free", NEW ids \in SUBSET posts[i].ids,
           stored' = [stored EXCEPT ![posts[i].kind] = Insert(@, ids)],
           Inserted(posts'[i]) => ids = posts[i].ids,
           UNCHANGED <<local, synced, pc, wait, batch, marking, override>>
    PROVE  IndInv'
<1>1. \A j \in Slots : posts[j].kind \in Kinds /\ posts[j].ids \in SUBSET Ids
  BY DEF IndInv, Shape, Post
<1>2. /\ stored' \in [Kinds -> [Ids -> Nat]]
      /\ \A j \in Kinds : \A r \in Ids : stored[j][r] > 0 => stored'[j][r] > 0
      /\ \A r \in ids : stored'[posts[i].kind][r] > 0
  BY <1>1, StoredGrows DEF IndInv
<1>3. Shape'
  BY <1>2 DEF IndInv, Shape, Moved
<1>4. HandlerInv'
  <2>1. SUFFICES ASSUME NEW j \in Slots, Inserted(posts'[j]),
                        NEW r \in posts'[j].ids
                 PROVE  stored'[posts'[j].kind][r] > 0
    BY DEF HandlerInv, AllStored, Inserted
  <2>2. CASE j = i
    BY <1>2, <2>1, <2>2 DEF Moved
  <2>3. CASE j # i
    <3>1. posts'[j] = posts[j]
      BY <2>3 DEF Moved
    <3>2. stored[posts[j].kind][r] > 0
      BY <2>1, <3>1 DEF IndInv, HandlerInv, AllStored
    <3> QED
      BY <1>1, <1>2, <2>1, <3>1, <3>2
  <2> QED
    BY <2>2, <2>3
<1>5. WaitInv'
  BY MoveKeepsWaits
<1>6. \A s \in Syncers : Kind(s) \in Kinds /\ batch[s] \subseteq Ids
  BY DEF IndInv, Shape, Kind, Kinds
<1>7. MarkInv'
  BY <1>2, <1>6 DEF IndInv, MarkInv, AllStored, Kind
<1>8. MarkedDelivered'
  BY <1>2 DEF IndInv, MarkedDelivered, Shape
<1> QED
  BY <1>3, <1>4, <1>5, <1>7, <1>8 DEF IndInv

\* Every step of the backend keeps the invariant.
LEMMA BackendStep ==
    ASSUME IndInv, NEW i \in Slots,
           \/ HandlerStep(i) \/ InsertFails(i) \/ UsageFails(i) \/ HandlerDies(i)
    PROVE  IndInv'
<1>0. /\ posts \in [Slots -> Post] /\ posts[i] \in Post
      /\ override \in 0..MaxOverride
  BY DEF IndInv, Shape
<1>1. /\ \A st \in Stages : Goto(i, st) => Moved(i, st, posts[i].status)
      /\ \A code \in Statuses :
            Reply(i, code) => Moved(i, "replied", code)
      /\ Respond(i) => Moved(i, "replied", 200)
  BY <1>0, Moves
<1>2. CASE Admit(i)
  <2>1. UNCHANGED <<local, synced, pc, wait, batch, marking, stored, override>>
    BY <1>2 DEF Admit, syncVars, cloudVars
  <2>2. CASE Goto(i, "insert")
    <3>1. Moved(i, "insert", posts[i].status)
      BY <1>1, <2>2 DEF Stages
    <3> QED
      BY <2>1, <3>1, HandlerMoves DEF Moved, Inserted
  <2>3. CASE \E code \in {401, 422, 429} : Reply(i, code)
    <3>1. PICK code \in {401, 422, 429} : Reply(i, code)
      BY <2>3
    <3>2. Moved(i, "replied", code)
      BY <1>1, <3>1 DEF Statuses
    <3> QED
      BY <2>1, <3>2, HandlerMoves DEF Moved, Inserted
  <2> QED
    BY <1>2, <2>2, <2>3 DEF Admit
<1>3. CASE InsertRows(i)
  <2>1. PICK st \in {"cycle", "respond"} : Goto(i, st)
    BY <1>3 DEF InsertRows
  <2>2. /\ stored' = [stored EXCEPT ![posts[i].kind] = Insert(@, posts[i].ids)]
        /\ UNCHANGED <<local, synced, pc, wait, batch, marking, override>>
    BY <1>3 DEF InsertRows, syncVars
  <2>3. Moved(i, st, posts[i].status)
    BY <1>1, <2>1 DEF Stages
  <2> QED
    BY <2>2, <2>3, HandlerInserts
<1>4. CASE InsertFails(i)
  <2>1. PICK n \in 0..(Cardinality(posts[i].ids) - 1) :
          stored' = [stored EXCEPT ![posts[i].kind] =
                        Insert(@, Oldest(posts[i].ids, n))]
    BY <1>4 DEF InsertFails
  <2>2. Oldest(posts[i].ids, n) \in SUBSET posts[i].ids
    BY DEF Oldest
  <2>3. UNCHANGED <<local, synced, pc, wait, batch, marking, override>>
    BY <1>4 DEF InsertFails, syncVars
  <2>4. Moved(i, "replied", 500)
    BY <1>1, <1>4 DEF InsertFails, Statuses
  <2>5. ~Inserted(posts'[i])
    BY <2>4 DEF Moved, Inserted
  <2> QED
    BY <2>1, <2>2, <2>3, <2>4, <2>5, HandlerInserts
<1>5. CASE ReadCycle(i) \/ CountUsage(i) \/ Notify(i) \/ UsageFails(i) \/ HandlerDies(i)
  <2>1. UNCHANGED <<local, synced, pc, wait, batch, marking, stored, override>>
    BY <1>5 DEF ReadCycle, CountUsage, Notify, UsageFails, HandlerDies, syncVars
  <2>2. PICK st \in {"count", "notify", "respond", "dead"} :
          /\ Goto(i, st)
          /\ st # "dead" => posts[i].stage \in {"cycle", "count", "notify"}
    BY <1>5 DEF ReadCycle, CountUsage, Notify, UsageFails, HandlerDies
  <2>3. Moved(i, st, posts[i].status)
    BY <1>1, <2>2 DEF Stages
  <2>4. Inserted(posts'[i]) => Inserted(posts[i])
    BY <2>2, <2>3 DEF Moved, Inserted
  <2> QED
    BY <2>1, <2>2, <2>3, <2>4, HandlerMoves
<1>6. CASE Respond(i)
  <2>1. UNCHANGED <<local, synced, pc, wait, batch, marking, stored, override>>
    BY <1>6 DEF Respond, syncVars, cloudVars
  <2>2. Moved(i, "replied", 200) /\ Inserted(posts[i])
    BY <1>1, <1>6 DEF Respond, Inserted
  <2> QED
    BY <2>1, <2>2, HandlerMoves
<1>7. CASE Discard(i)
  <2>1. /\ posts' = [posts EXCEPT ![i] = Free]
        /\ \A s \in Syncers : wait[s] # i
        /\ UNCHANGED <<local, synced, pc, wait, batch, marking, stored, override>>
    BY <1>7 DEF Discard, syncVars, cloudVars
  <2>2. /\ posts' \in [Slots -> Post]
        /\ \A j \in Slots : posts'[j] = IF j = i THEN Free ELSE posts[j]
    BY <1>0, <2>1, FreePost
  <2>3. Shape'
    BY <2>1, <2>2 DEF IndInv, Shape
  <2>4. HandlerInv'
    BY <2>1, <2>2, FreePost DEF IndInv, HandlerInv, AllStored
  <2>5. WaitInv'
    BY <2>1, <2>2, WaitsForSlot DEF IndInv, WaitInv, Kind
  <2>6. MarkInv' /\ MarkedDelivered'
    BY <2>1 DEF IndInv, MarkInv, MarkedDelivered, AllStored, Kind
  <2> QED
    BY <2>3, <2>4, <2>5, <2>6 DEF IndInv
<1> QED
  BY <1>2, <1>3, <1>4, <1>5, <1>6, <1>7 DEF HandlerStep
-----------------------------------------------------------------------------
\* The other syncer, and every other post, stay as they are.
OthersKeep(s) ==
    \A t \in Syncers : t # s =>
        /\ pc'[t] = pc[t] /\ wait'[t] = wait[t]
        /\ batch'[t] = batch[t] /\ marking'[t] = marking[t]

\* The syncer has nothing in flight and nothing to mark.
AtRest(s) == wait'[s] = NoSlot /\ ~marking'[s]

SyncTypes ==
    /\ pc \in [Syncers -> {"idle", "drain", "out", "cost"}]
    /\ wait \in [Syncers -> Slots \cup {NoSlot}]
    /\ batch \in [Syncers -> SUBSET Ids]
    /\ marking \in [Syncers -> BOOLEAN]

\* A push ends in one of the four places.
LEMMA AfterType ==
    ASSUME NEW s, NEW full
    PROVE  After(s, full) \in {"idle", "drain", "out", "cost"}
  BY DEF After

\* A syncer that comes to rest, having marked only rows that are stored.
LEMMA SyncerRests ==
    ASSUME IndInv, NEW s \in Syncers, SyncTypes', OthersKeep(s), AtRest(s),
           synced' \in [Kinds -> SUBSET Ids], MarkedDelivered',
           UNCHANGED <<local, posts, stored, override>>
    PROVE  IndInv'
<1>1. Shape'
  BY DEF IndInv, Shape, SyncTypes
<1>2. HandlerInv'
  BY DEF IndInv, HandlerInv, Inserted, AllStored
<1>3. WaitInv'
  BY DEF IndInv, WaitInv, OthersKeep, AtRest, Kind
<1>4. MarkInv'
  BY DEF IndInv, MarkInv, AllStored, OthersKeep, AtRest, Kind
<1> QED
  BY <1>1, <1>2, <1>3, <1>4 DEF IndInv

\* Nothing to push, a failed mark, a timeout or a kill.
LEMMA GivesUp ==
    ASSUME IndInv, NEW s \in Syncers,
           Skip(s) \/ MarkFails(s) \/ Timeout(s) \/ Killed(s)
    PROVE  IndInv'
<1>0. /\ SyncTypes /\ synced \in [Kinds -> SUBSET Ids]
      /\ MarkedDelivered /\ WaitInv /\ MarkInv
  BY DEF IndInv, Shape, SyncTypes
<1>1. UNCHANGED <<local, posts, stored, override, synced>>
  BY DEF Skip, MarkFails, Timeout, Killed, cloudVars
<1>2. MarkedDelivered'
  BY <1>0, <1>1 DEF MarkedDelivered
<1>3. CASE Skip(s)
  <2>1. SyncTypes' /\ OthersKeep(s) /\ AtRest(s)
    BY <1>0, <1>3, AfterType DEF Skip, Ready, SyncTypes, OthersKeep, AtRest
  <2> QED
    BY <1>0, <1>1, <1>2, <2>1, SyncerRests
<1>4. CASE MarkFails(s)
  <2>1. SyncTypes' /\ OthersKeep(s) /\ AtRest(s)
    BY <1>0, <1>4, AfterType DEF MarkFails, SyncTypes, OthersKeep, AtRest, MarkInv
  <2> QED
    BY <1>0, <1>1, <1>2, <2>1, SyncerRests
<1>5. CASE Timeout(s)
  <2>1. SyncTypes' /\ OthersKeep(s) /\ AtRest(s)
    BY <1>0, <1>5, AfterType DEF Timeout, SyncTypes, OthersKeep, AtRest, MarkInv
  <2> QED
    BY <1>0, <1>1, <1>2, <2>1, SyncerRests
<1>6. CASE Killed(s)
  <2>1. SyncTypes' /\ OthersKeep(s) /\ AtRest(s)
    BY <1>0, <1>6 DEF Killed, SyncTypes, OthersKeep, AtRest
  <2> QED
    BY <1>0, <1>1, <1>2, <2>1, SyncerRests
<1> QED
  BY <1>3, <1>4, <1>5, <1>6

\* Marking the batch: MarkInv says that it is stored.
LEMMA Marks ==
    ASSUME IndInv, NEW s \in Syncers, MarkSynced(s)
    PROVE  IndInv'
<1>0. /\ SyncTypes /\ synced \in [Kinds -> SUBSET Ids]
      /\ MarkedDelivered /\ MarkInv /\ Kind(s) \in Kinds /\ batch[s] \subseteq Ids
  BY DEF IndInv, Shape, SyncTypes, Kind, Kinds
<1>1. UNCHANGED <<local, posts, stored, override>>
  BY DEF MarkSynced, cloudVars
<1>2. SyncTypes' /\ OthersKeep(s) /\ AtRest(s)
  BY <1>0, AfterType DEF MarkSynced, SyncTypes, OthersKeep, AtRest, MarkInv
<1>3. synced' = [synced EXCEPT ![Kind(s)] = synced[Kind(s)] \cup batch[s]]
  BY DEF MarkSynced
<1>4. synced' \in [Kinds -> SUBSET Ids]
  BY <1>0, <1>3
<1>5. AllStored(Kind(s), batch[s])
  BY <1>0 DEF MarkSynced, MarkInv
<1>6. MarkedDelivered'
  BY <1>0, <1>1, <1>3, <1>5 DEF MarkedDelivered, AllStored
<1> QED
  BY <1>1, <1>2, <1>4, <1>6, SyncerRests

\* Posting a batch: the slot is free, so no other syncer waits for it.
LEMMA Pushes ==
    ASSUME IndInv, NEW s \in Syncers, Push(s)
    PROVE  IndInv'
<1>0. /\ SyncTypes /\ posts \in [Slots -> Post] /\ WaitInv /\ HandlerInv /\ MarkInv
      /\ Kind(s) \in Kinds
  BY DEF IndInv, Shape, SyncTypes, Kind, Kinds
<1> DEFINE ids == FetchUnsynced(Kind(s))
           q == [Free EXCEPT !.stage = "sent", !.kind = Kind(s), !.ids = ids]
<1>1. PICK i \in Slots :
        /\ posts[i].stage = "free"
        /\ posts' = [posts EXCEPT ![i] = q]
        /\ wait' = [wait EXCEPT ![s] = i]
  BY DEF Push
<1>2. ids \in SUBSET Ids
  BY <1>0, FetchIds DEF IndInv
<1>3. /\ batch' = [batch EXCEPT ![s] = ids] /\ ~marking[s]
      /\ UNCHANGED <<local, synced, pc, marking, stored, override>>
  BY DEF Push, Ready, cloudVars
<1>4. /\ q \in Post /\ q.stage = "sent" /\ q.kind = Kind(s) /\ q.ids = ids
  <2>1. "sent" \in Stages
    BY DEF Stages
  <2> HIDE DEF ids
  <2>2. q \in Post
    BY <1>0, <1>2, <2>1, FreePost DEF Post
  <2>3. q.stage = "sent"
    BY FreePost DEF Post
  <2>4. q.kind = Kind(s)
    BY FreePost DEF Post
  <2>5. q.ids = ids
    BY FreePost DEF Post
  <2> QED
    BY <2>2, <2>3, <2>4, <2>5
<1> HIDE DEF q, ids
<1>5. /\ posts' \in [Slots -> Post] /\ posts'[i] = q
      /\ \A j \in Slots : j # i => posts'[j] = posts[j]
  BY <1>0, <1>1, <1>4
<1>6. SyncTypes'
  BY <1>0, <1>1, <1>2, <1>3 DEF SyncTypes
<1>7. Shape'
  BY <1>3, <1>5, <1>6 DEF IndInv, Shape, SyncTypes
<1>8. HandlerInv'
  BY <1>0, <1>3, <1>4, <1>5 DEF HandlerInv, Inserted, AllStored
<1>9. WaitInv'
  <2>1. \A t \in Syncers : t # s => wait'[t] = wait[t] /\ batch'[t] = batch[t]
    BY <1>0, <1>1, <1>3 DEF SyncTypes
  <2>2. wait'[s] = i /\ batch'[s] = ids
    BY <1>0, <1>1, <1>3 DEF SyncTypes
  <2>3. \A t \in Syncers : wait[t] # NoSlot => wait[t] \in Slots /\ wait[t] # i
    BY <1>0, <1>1 DEF SyncTypes, WaitInv
  <2>4. \A t \in Syncers : t # s /\ wait'[t] # NoSlot =>
           /\ posts'[wait'[t]].stage # "free"
           /\ posts'[wait'[t]].kind = Kind(t)
           /\ posts'[wait'[t]].ids = batch'[t]
    BY <1>0, <1>5, <2>1, <2>3 DEF WaitInv
  <2>5. /\ posts'[wait'[s]].stage # "free"
        /\ posts'[wait'[s]].kind = Kind(s)
        /\ posts'[wait'[s]].ids = batch'[s]
    BY <1>4, <1>5, <2>2
  <2>6. \A t, u \in Syncers : wait'[t] # NoSlot /\ wait'[u] = wait'[t] => u = t
    BY <1>0, <1>1, <2>1, <2>2, <2>3, NoSlotAssumption DEF WaitInv
  <2>7. \A t \in Syncers : Kind(t)' = Kind(t)
    BY <1>3 DEF Kind
  <2> QED
    BY <2>4, <2>5, <2>6, <2>7 DEF WaitInv
<1>10. MarkInv'
  <2>1. \A t \in Syncers : t # s => wait'[t] = wait[t] /\ batch'[t] = batch[t]
    BY <1>0, <1>1, <1>3 DEF SyncTypes
  <2> QED
    BY <1>0, <1>3, <2>1 DEF MarkInv, AllStored, Kind
<1>11. MarkedDelivered'
  BY <1>3 DEF IndInv, MarkedDelivered
<1> QED
  BY <1>7, <1>8, <1>9, <1>10, <1>11 DEF IndInv

\* The answer: a 200 comes from a handler that has inserted the batch.
LEMMA Receives ==
    ASSUME IndInv, NEW s \in Syncers, Receive(s)
    PROVE  IndInv'
<1>0. /\ SyncTypes /\ posts \in [Slots -> Post] /\ WaitInv /\ HandlerInv /\ MarkInv
  BY DEF IndInv, Shape, SyncTypes
<1> DEFINE w == wait[s]
<1>1. /\ w # NoSlot /\ posts[w].stage = "replied"
      /\ posts' = [posts EXCEPT ![w] = Free]
      /\ wait' = [wait EXCEPT ![s] = NoSlot]
      /\ marking' = [marking EXCEPT ![s] = posts[w].status = 200]
      /\ UNCHANGED <<local, synced, stored, override>>
  BY DEF Receive, cloudVars
<1>2. w \in Slots
  BY <1>1, WaitsForSlot
<1>3. \/ posts[w].status = 200 /\ UNCHANGED <<pc, batch>>
      \/ /\ posts[w].status # 200
         /\ pc' = [pc EXCEPT ![s] = After(s, FALSE)]
         /\ batch' = [batch EXCEPT ![s] = {}]
  BY DEF Receive
<1>4. posts[w].kind = Kind(s) /\ posts[w].ids = batch[s]
  BY <1>0, <1>1 DEF WaitInv
<1> HIDE DEF w
<1>5. SyncTypes' /\ OthersKeep(s) /\ wait'[s] = NoSlot
  <2> DEFINE ok == posts[w].status = 200
  <2>1. ok \in BOOLEAN
    OBVIOUS
  <2>2. marking' = [marking EXCEPT ![s] = ok]
    BY <1>1
  <2> HIDE DEF ok
  <2>3. /\ marking' \in [Syncers -> BOOLEAN]
        /\ \A t \in Syncers : t # s => marking'[t] = marking[t]
    BY <1>0, <2>1, <2>2 DEF SyncTypes
  <2>4. /\ wait' \in [Syncers -> Slots \cup {NoSlot}] /\ wait'[s] = NoSlot
        /\ \A t \in Syncers : t # s => wait'[t] = wait[t]
    BY <1>0, <1>1 DEF SyncTypes
  <2>5. /\ pc' \in [Syncers -> {"idle", "drain", "out", "cost"}]
        /\ batch' \in [Syncers -> SUBSET Ids]
        /\ \A t \in Syncers : t # s => pc'[t] = pc[t] /\ batch'[t] = batch[t]
    <3>1. CASE UNCHANGED <<pc, batch>>
      BY <1>0, <3>1 DEF SyncTypes
    <3>2. CASE /\ pc' = [pc EXCEPT ![s] = After(s, FALSE)]
               /\ batch' = [batch EXCEPT ![s] = {}]
      <4>1. After(s, FALSE) \in {"idle", "drain", "out", "cost"}
        BY AfterType
      <4> QED
        BY <1>0, <3>2, <4>1 DEF SyncTypes
    <3> QED
      BY <1>3, <3>1, <3>2
  <2> QED
    BY <2>3, <2>4, <2>5 DEF SyncTypes, OthersKeep
<1>6. /\ posts' \in [Slots -> Post] /\ posts'[w] = Free
      /\ \A j \in Slots : j # w => posts'[j] = posts[j]
  BY <1>0, <1>1, <1>2, FreePost
<1>7. Shape'
  BY <1>1, <1>5, <1>6 DEF IndInv, Shape, SyncTypes
<1>8. HandlerInv'
  <2>1. \A j \in Slots : Inserted(posts'[j]) => j # w
    BY <1>6, FreePost
  <2> QED
    BY <1>0, <1>1, <1>6, <2>1 DEF HandlerInv, AllStored, Inserted
<1>9. WaitInv'
  <2>1. \A t \in Syncers : t # s /\ wait[t] # NoSlot => wait[t] \in Slots /\ wait[t] # w
    BY <1>0, <1>1 DEF SyncTypes, WaitInv, w
  <2>2. \A t \in Syncers : t # s => Kind(t)' = Kind(t)
    BY <1>5 DEF OthersKeep, Kind
  <2>3. \A t \in Syncers : wait'[t] # NoSlot => t # s /\ wait[t] = wait'[t]
    BY <1>5 DEF OthersKeep
  <2> QED
    BY <1>0, <1>5, <1>6, <2>1, <2>2, <2>3 DEF WaitInv, OthersKeep
<1>10. MarkInv'
  <2>1. \A t \in Syncers : t # s /\ marking'[t] =>
           wait'[t] = NoSlot /\ AllStored(Kind(t), batch'[t]) /\ Kind(t)' = Kind(t)
    BY <1>0, <1>5 DEF OthersKeep, MarkInv, Kind
  <2>2. marking'[s] => AllStored(Kind(s), batch[s]) /\ batch'[s] = batch[s] /\ Kind(s)' = Kind(s)
    <3>1. ASSUME marking'[s]
          PROVE  posts[w].status = 200 /\ UNCHANGED <<pc, batch>>
      BY <1>0, <1>1, <1>3, <3>1 DEF SyncTypes
    <3> QED
      BY <1>0, <1>1, <1>2, <1>4, <3>1 DEF HandlerInv, Inserted, Kind
  <2> QED
    BY <1>1, <1>5, <2>1, <2>2 DEF MarkInv, AllStored
<1>11. MarkedDelivered'
  BY <1>1 DEF IndInv, MarkedDelivered
<1> QED
  BY <1>7, <1>8, <1>9, <1>10, <1>11 DEF IndInv

\* Starting a push changes which rows are next, never their kind.
LEMMA Begins ==
    ASSUME IndInv, Tick \/ SyncNow
    PROVE  IndInv'
<1>1. /\ pc' \in [Syncers -> {"idle", "drain", "out", "cost"}]
      /\ \A s \in Syncers : Kind(s)' = Kind(s)
  BY DEF IndInv, Shape, Tick, SyncNow, Kind, Syncers
<1>2. UNCHANGED <<local, synced, wait, batch, marking, posts, stored, override>>
  BY DEF Tick, SyncNow, cloudVars
<1>3. Shape'
  BY <1>1, <1>2 DEF IndInv, Shape
<1>4. HandlerInv' /\ MarkedDelivered'
  BY <1>2 DEF IndInv, HandlerInv, MarkedDelivered, Inserted, AllStored
<1>5. WaitInv' /\ MarkInv'
  BY <1>1, <1>2 DEF IndInv, WaitInv, MarkInv, AllStored
<1> QED
  BY <1>3, <1>4, <1>5 DEF IndInv

\* IndInv is inductive.
LEMMA NextInv == IndInv /\ [Next]_vars => IndInv'
<1> SUFFICES ASSUME IndInv, [Next]_vars PROVE IndInv'
  OBVIOUS
<1>0. /\ local \in [Kinds -> Nat] /\ \A k \in Kinds : local[k] <= MaxRows[k]
      /\ override \in 0..MaxOverride
  BY DEF IndInv, Shape
<1>1. CASE \E k \in Kinds : LocalRow(k)
  <2>1. PICK k \in Kinds : LocalRow(k)
    BY <1>1
  <2>2. /\ local' \in [Kinds -> Nat] /\ \A j \in Kinds : local'[j] <= MaxRows[j]
    <3>1. /\ local' = [local EXCEPT ![k] = local[k] + 1] /\ local[k] < MaxRows[k]
          /\ local[k] \in Nat /\ MaxRows[k] \in Nat
      BY <1>0, <2>1, MaxRowsAssumption DEF LocalRow
    <3>2. local[k] + 1 \in Nat /\ local[k] + 1 <= MaxRows[k]
      BY <3>1
    <3> QED
      BY <1>0, <3>1, <3>2
  <2>3. UNCHANGED <<core, override>>
    BY <2>1 DEF LocalRow, core, syncVars, cloudVars
  <2> QED
    BY <1>0, <2>2, <2>3, EnvironmentStep
<1>2. CASE \/ NewCycle \/ RevokeKey \/ MemberJoins \/ UNCHANGED vars
           \/ \E s \in Syncers : BackoffEnds(s)
  <2>1. UNCHANGED <<core, local, override>>
    BY <1>2 DEF NewCycle, RevokeKey, MemberJoins, BackoffEnds, vars, core,
                syncVars, cloudVars
  <2> QED
    BY <1>0, <2>1, EnvironmentStep
<1>3. CASE SetOverride
  <2>1. UNCHANGED <<core, local>> /\ override' \in 0..MaxOverride
    BY <1>0, <1>3, BoundsAssumption DEF SetOverride, core, syncVars
  <2> QED
    BY <1>0, <2>1, EnvironmentStep
<1>4. CASE Tick \/ SyncNow
  BY <1>4, Begins
<1>5. CASE \E s \in Syncers :
              SyncerStep(s) \/ MarkFails(s) \/ Timeout(s) \/ Killed(s)
  BY <1>5, GivesUp, Pushes, Receives, Marks DEF SyncerStep
<1>6. CASE \E i \in Slots :
              HandlerStep(i) \/ InsertFails(i) \/ UsageFails(i) \/ HandlerDies(i)
  BY <1>6, BackendStep
<1> QED
  BY <1>1, <1>2, <1>3, <1>4, <1>5, <1>6 DEF Next

\* No loss, for every number of rows, posts, kills and faults: what either
\* syncer has marked synced is stored in the backend (_mark_synced is called
\* for the batch of a post that ingest answered with 200 after its insert).
THEOREM NoLoss == Spec => []MarkedDelivered
<1>1. IndInv => MarkedDelivered
  BY DEF IndInv
<1> QED
  BY <1>1, InitInv, NextInv, PTL DEF Spec

-----------------------------------------------------------------------------
(* Types.                                                                  *)

\* What Shape leaves out, on the side of the syncers ...
SyncRest ==
    /\ running \in [Syncers -> BOOLEAN]
    /\ backoff \in [Syncers -> BOOLEAN]
    /\ routing \in Nat
    /\ cliRuns \in 0..MaxCli
    /\ faults \in 0..MaxFaults

\* ... and of the backend.
CloudRest ==
    /\ tally \in [Slots -> [cyc : Cycles, new : Nat]]
    /\ keyValid \in BOOLEAN
    /\ members \in 0..MaxMembers
    /\ cycle \in Cycles
    /\ usage \in [Cycles -> [Dims -> Nat]]
    /\ notified \in [Cycles -> SUBSET Thresholds]
    /\ mails \in [Cycles -> [Thresholds -> Nat]]
    /\ counted \subseteq Ids /\ waived \subseteq Ids /\ muted \subseteq Cycles

\* A batch consists of rows that exist, and so do the rows that are marked.
LocalInv ==
    /\ \A k \in Kinds : synced[k] \subseteq 1..local[k]
    /\ \A s \in Syncers :
          wait[s] # NoSlot \/ marking[s] => batch[s] \subseteq 1..local[Kind(s)]

TypeInv == IndInv /\ SyncRest /\ CloudRest /\ LocalInv

\* There are finitely many rows, and a post adds an amount to a dimension.
LEMMA TotalType ==
    /\ IsFiniteSet(Ids)
    /\ \A d \in Dims, ids \in SUBSET Ids : IsFiniteSet(ids) /\ Total(d, ids) \in Nat
<1>1. IsFiniteSet(Ids)
  <2>1. Ids = (1..MaxRows["cost"]) \cup (1..MaxRows["outcomes"])
    BY DEF Ids, Kinds
  <2>2. MaxRows["cost"] \in Nat /\ MaxRows["outcomes"] \in Nat
    BY MaxRowsAssumption DEF Kinds
  <2>3. IsFiniteSet(1..MaxRows["cost"]) /\ IsFiniteSet(1..MaxRows["outcomes"])
    <3>1. ASSUME NEW n \in Nat PROVE IsFiniteSet(1..n)
      <4>1. 1 \in Int /\ n \in Int
        OBVIOUS
      <4>. QED
        BY <4>1, FS_Interval, Zenon
    <3>. QED
      BY <2>2, <3>1
  <2>. QED
    BY <2>1, <2>3, FS_Union
<1>2. ASSUME NEW d \in Dims, NEW ids \in SUBSET Ids
      PROVE  IsFiniteSet(ids) /\ Total(d, ids) \in Nat
  <2>1. IsFiniteSet(ids)
    BY <1>1, FS_Subset
  <2>2. \A x \in ids : Weight[d][x] \in Nat
    BY WeightAssumption
  <2>. QED
    BY <2>1, <2>2, SumNat DEF Total
<1>. QED
  BY <1>1, <1>2

\* The initial state has the remaining types.
LEMMA InitRest == Init => SyncRest /\ CloudRest /\ LocalInv
<1>. SUFFICES ASSUME Init PROVE SyncRest /\ CloudRest /\ LocalInv
  OBVIOUS
<1>1. 0 \in Cycles
  BY BoundsAssumption DEF Cycles
<1>2. SyncRest
  BY BoundsAssumption DEF Init, SyncRest
<1>3. NoTally \in [cyc : Cycles, new : Nat]
  BY <1>1 DEF NoTally
<1>4. CloudRest
  BY <1>1, <1>3, BoundsAssumption DEF Init, CloudRest
<1>5. LocalInv
  BY DEF Init, LocalInv
<1>. QED
  BY <1>2, <1>4, <1>5

\* Every step keeps the types on the side of the syncers.
LEMMA NextSyncRest == ASSUME IndInv, SyncRest, [Next]_vars PROVE SyncRest'
<1>1. CASE \E k \in Kinds : LocalRow(k)
  BY <1>1 DEF LocalRow, SyncRest, syncVars
<1>2. CASE NewCycle \/ RevokeKey \/ MemberJoins \/ SetOverride \/ Tick
  BY <1>2 DEF NewCycle, RevokeKey, MemberJoins, SetOverride, Tick, SyncRest, syncVars
<1>3. CASE SyncNow
  BY <1>3, BoundsAssumption DEF SyncNow, SyncRest, Syncers
<1>4. ASSUME NEW s \in Syncers,
             \/ SyncerStep(s) \/ BackoffEnds(s) \/ MarkFails(s) \/ Timeout(s) \/ Killed(s)
      PROVE  SyncRest'
  <2>1. CASE Skip(s) \/ Push(s) \/ MarkSynced(s) \/ BackoffEnds(s)
    BY <2>1 DEF Skip, Push, MarkSynced, BackoffEnds, SyncRest
  <2>2. CASE Receive(s)
    <3>1. posts[wait[s]].ov \in Nat
      <4>1. wait[s] \in Slots
        BY <2>2, WaitsForSlot DEF Receive
      <4>. QED
        BY <4>1, BoundsAssumption DEF IndInv, Shape, Post
    <3>2. routing' \in Nat
      BY <2>2, <3>1 DEF Receive, SyncRest
    <3>. QED
      BY <2>2, <3>2 DEF Receive, SyncRest
  <2>3. CASE MarkFails(s) \/ Timeout(s) \/ Killed(s)
    <3>1. faults' \in 0..MaxFaults
      <4>1. faults' = faults \/ (faults < MaxFaults /\ faults' = faults + 1)
        BY <2>3 DEF MarkFails, Timeout, Killed, Fault
      <4>. QED
        BY <4>1, BoundsAssumption DEF SyncRest
    <3>2. CASE MarkFails(s) \/ Timeout(s)
      BY <3>1, <3>2 DEF MarkFails, Timeout, SyncRest
    <3>3. CASE Killed(s)
      BY <3>1, <3>3 DEF Killed, SyncRest
    <3>. QED
      BY <2>3, <3>2, <3>3
  <2>. QED
    BY <1>4, <2>1, <2>2, <2>3 DEF SyncerStep
<1>5. ASSUME NEW i \in Slots,
             HandlerStep(i) \/ InsertFails(i) \/ UsageFails(i) \/ HandlerDies(i)
      PROVE  SyncRest'
  BY <1>5, BoundsAssumption DEF HandlerStep, Admit, InsertRows, ReadCycle, CountUsage,
     Notify, Respond, Discard, InsertFails, UsageFails, HandlerDies, Fault, SyncRest, syncVars
<1>6. CASE UNCHANGED vars
  BY <1>6 DEF vars, syncVars, SyncRest
<1>. QED
  BY <1>1, <1>2, <1>3, <1>4, <1>5, <1>6 DEF Next

\* The steps that leave the books of the backend alone.
LEMMA BooksRest ==
    /\ \A k \in Kinds : LocalRow(k) => UNCHANGED cloudVars
    /\ SetOverride => UNCHANGED <<keyValid, members, cycle, usage, notified, mails,
                                  counted, countVars>>
    /\ Tick \/ SyncNow => UNCHANGED cloudVars
    /\ \A s \in Syncers :
          \/ SyncerStep(s) \/ BackoffEnds(s) \/ MarkFails(s) \/ Timeout(s) \/ Killed(s)
          => UNCHANGED cloudVars
    /\ \A i \in Slots :
          Admit(i) \/ InsertRows(i) \/ InsertFails(i) \/ Respond(i) \/ Discard(i)
          => UNCHANGED <<keyValid, members, cycle, usage, notified, mails, counted,
                         countVars>>
BY DEF LocalRow, SetOverride, Tick, SyncNow, SyncerStep, Skip, Push, Receive, MarkSynced,
       BackoffEnds, MarkFails, Timeout, Killed, Admit, InsertRows, InsertFails, Respond,
       Discard, cloudVars

\* Counting and notifying keep the types of the backend's books.
LEMMA CountRest ==
    ASSUME IndInv, CloudRest, NEW i \in Slots,
           \/ ReadCycle(i) \/ CountUsage(i) \/ Notify(i) \/ UsageFails(i) \/ HandlerDies(i)
    PROVE  CloudRest'
<1>0. /\ tally[i] \in [cyc : Cycles, new : Nat] /\ tally[i].cyc \in Cycles
      /\ posts[i].ids \in SUBSET Ids
  BY DEF CloudRest, IndInv, Shape, Post
<1>1. NoTally \in [cyc : Cycles, new : Nat]
  BY BoundsAssumption DEF NoTally, Cycles
<1>2. CASE ReadCycle(i)
  <2>1. tally' = [tally EXCEPT ![i] = [tally[i] EXCEPT !.cyc = cycle]]
    BY <1>2 DEF ReadCycle
  <2>2. [tally[i] EXCEPT !.cyc = cycle] \in [cyc : Cycles, new : Nat]
    BY <1>0 DEF CloudRest
  <2>3. tally' \in [Slots -> [cyc : Cycles, new : Nat]]
    BY <2>1, <2>2 DEF CloudRest
  <2>. QED
    BY <1>2, <2>3 DEF ReadCycle, CloudRest
<1>3. CASE CountUsage(i)
  <2>. DEFINE c == tally[i].cyc
              now == [d \in Dims |-> usage[c][d] + Total(d, posts[i].ids)]
  <2>1. now \in [Dims -> Nat]
    <3>1. usage[c] \in [Dims -> Nat]
      BY <1>0 DEF CloudRest
    <3>2. \A d \in Dims : Total(d, posts[i].ids) \in Nat
      BY <1>0, TotalType
    <3>. QED
      BY <3>1, <3>2
  <2>2. now["requests"] \in Nat
    BY <2>1, DimsAssumption
  <2>3. /\ usage' = [usage EXCEPT ![c] = now]
        /\ \/ tally' = [tally EXCEPT ![i] = [tally[i] EXCEPT !.new = now["requests"]]]
           \/ tally' = [tally EXCEPT ![i] = NoTally]
    BY <1>3 DEF CountUsage
  <2>. HIDE DEF now
  <2>4. [tally[i] EXCEPT !.new = now["requests"]] \in [cyc : Cycles, new : Nat]
    BY <1>0, <2>2
  <2>5. tally' \in [Slots -> [cyc : Cycles, new : Nat]]
    BY <1>1, <2>3, <2>4 DEF CloudRest
  <2>6. usage' \in [Cycles -> [Dims -> Nat]]
    BY <1>0, <2>1, <2>3 DEF CloudRest
  <2>7. counted' \subseteq Ids
    BY <1>0, <1>3 DEF CountUsage, CloudRest
  <2>. QED
    BY <1>3, <2>5, <2>6, <2>7 DEF CountUsage, CloudRest
<1>4. CASE Notify(i)
  <2>. DEFINE c == tally[i].cyc
              claims == Crossed(i) \ notified[c]
              sent == [t \in Thresholds |-> IF t \in claims THEN mails[c][t] + 1 ELSE mails[c][t]]
  <2>1. claims \subseteq Thresholds
    BY DEF Crossed, Thresholds
  <2>2. /\ notified' = [notified EXCEPT ![c] = notified[c] \cup claims]
        /\ mails' = [mails EXCEPT ![c] = sent]
        /\ tally' = [tally EXCEPT ![i] = NoTally]
    BY <1>4 DEF Notify
  <2>3. sent \in [Thresholds -> Nat]
    BY <1>0 DEF CloudRest
  <2>. HIDE DEF claims, sent
  <2>4. /\ notified' \in [Cycles -> SUBSET Thresholds]
        /\ mails' \in [Cycles -> [Thresholds -> Nat]]
        /\ tally' \in [Slots -> [cyc : Cycles, new : Nat]]
    BY <1>0, <1>1, <2>1, <2>2, <2>3 DEF CloudRest
  <2>. QED
    BY <1>4, <2>4 DEF Notify, CloudRest
<1>5. CASE UsageFails(i)
  BY <1>0, <1>1, <1>5 DEF UsageFails, CutShort, CloudRest
<1>6. CASE HandlerDies(i)
  BY <1>0, <1>1, <1>6 DEF HandlerDies, CutShort, CloudRest
<1>. QED
  BY <1>2, <1>3, <1>4, <1>5, <1>6

\* Every step keeps the types on the side of the backend.
LEMMA NextCloudRest == ASSUME IndInv, CloudRest, [Next]_vars PROVE CloudRest'
<1>0. CASE NewCycle
  <2>1. cycle' \in Cycles
    BY <1>0, BoundsAssumption DEF NewCycle, CloudRest, Cycles
  <2>. QED
    BY <1>0, <2>1 DEF NewCycle, CloudRest, countVars
<1>1. CASE RevokeKey \/ MemberJoins
  <2>1. CASE RevokeKey
    BY <2>1 DEF RevokeKey, CloudRest, countVars
  <2>2. CASE MemberJoins
    <3>1. members' \in 0..MaxMembers
      BY <2>2, BoundsAssumption DEF MemberJoins, CloudRest
    <3>. QED
      BY <2>2, <3>1 DEF MemberJoins, CloudRest, countVars
  <2>. QED
    BY <1>1, <2>1, <2>2
<1>2. CASE UNCHANGED <<keyValid, members, cycle, usage, notified, mails, counted, countVars>>
  BY <1>2 DEF CloudRest, countVars
<1>3. UNCHANGED cloudVars \/ UNCHANGED vars =>
        UNCHANGED <<keyValid, members, cycle, usage, notified, mails, counted, countVars>>
  BY DEF cloudVars, vars
<1>. QED
  BY <1>0, <1>1, <1>2, <1>3, BooksRest, CountRest DEF Next, HandlerStep

\* Rows only come to the local table, so that a batch stays in it.
LEMMA LocalGrows ==
    ASSUME IndInv, [Next]_vars
    PROVE  \A k \in Kinds : 1..local[k] \subseteq 1..local'[k]
<1>1. CASE \E k \in Kinds : LocalRow(k)
  <2>1. PICK k \in Kinds : local' = [local EXCEPT ![k] = local[k] + 1]
    BY <1>1 DEF LocalRow
  <2>2. \A j \in Kinds : local[j] \in Nat /\ (local'[j] = local[j] \/ local'[j] = local[j] + 1)
    BY <2>1 DEF IndInv, Shape
  <2>. QED
    BY <2>2
<1>2. CASE ~(\E k \in Kinds : LocalRow(k))
  <2>1. local' = local
    BY <1>2 DEF Next, NewCycle, RevokeKey, MemberJoins, SetOverride, Tick, SyncNow,
       SyncerStep, Skip, Push, Receive, MarkSynced, BackoffEnds, MarkFails, Timeout, Killed,
       HandlerStep, Admit, InsertRows, ReadCycle, CountUsage, Notify, Respond, Discard,
       InsertFails, UsageFails, HandlerDies, vars
  <2>. QED
    BY <2>1
<1>. QED
  BY <1>1, <1>2

\* What a syncer has in flight or is about to mark it read from the table.
LEMMA NextLocal == ASSUME IndInv, LocalInv, [Next]_vars PROVE LocalInv'
<1>0. /\ SyncTypes /\ \A k \in Kinds : 1..local[k] \subseteq 1..local'[k]
      /\ \A s \in Syncers : Kind(s) \in Kinds
  BY LocalGrows DEF IndInv, Shape, SyncTypes, Kind, Kinds
<1>. DEFINE Ok(s) == wait[s] # NoSlot \/ marking[s] => batch[s] \subseteq 1..local[Kind(s)]
<1>1. ASSUME UNCHANGED <<synced, pc, wait, batch, marking>> PROVE LocalInv'
  BY <1>0, <1>1 DEF LocalInv, Kind
<1>2. CASE Tick \/ SyncNow
  <2>1. \A s \in Syncers : Kind(s)' = Kind(s)
    BY <1>2 DEF IndInv, Shape, Tick, SyncNow, Kind, Syncers
  <2>2. UNCHANGED <<synced, wait, batch, marking>>
    BY <1>2 DEF Tick, SyncNow
  <2>. QED
    BY <1>0, <2>1, <2>2 DEF LocalInv
<1>3. ASSUME NEW s \in Syncers,
             SyncerStep(s) \/ MarkFails(s) \/ Timeout(s) \/ Killed(s)
      PROVE  LocalInv'
  <2>1. local' = local /\ OthersKeep(s)
    <3>1. local' = local
      BY <1>3 DEF SyncerStep, Skip, Push, Receive, MarkSynced, MarkFails, Timeout, Killed
    <3>2. CASE Receive(s)
      <4>. DEFINE ok == posts[wait[s]].status = 200
      <4>1. marking' = [marking EXCEPT ![s] = ok]
        BY <3>2 DEF Receive
      <4>. HIDE DEF ok
      <4>2. \A t \in Syncers : t # s => marking'[t] = marking[t]
        BY <1>0, <4>1 DEF SyncTypes
      <4>3. \A t \in Syncers : t # s => pc'[t] = pc[t] /\ wait'[t] = wait[t] /\ batch'[t] = batch[t]
        BY <1>0, <3>2 DEF SyncTypes, Receive
      <4>. QED
        BY <3>1, <4>2, <4>3 DEF OthersKeep
    <3>3. CASE Push(s)
      <4>1. PICK i \in Slots : wait' = [wait EXCEPT ![s] = i]
        BY <3>3 DEF Push
      <4>2. PICK b : batch' = [batch EXCEPT ![s] = b]
        BY <3>3 DEF Push
      <4>3. UNCHANGED <<pc, marking>>
        BY <3>3 DEF Push
      <4>. QED
        BY <1>0, <3>1, <4>1, <4>2, <4>3 DEF SyncTypes, OthersKeep
    <3>4. CASE Skip(s) \/ MarkSynced(s) \/ MarkFails(s) \/ Timeout(s) \/ Killed(s)
      BY <1>0, <3>1, <3>4 DEF Skip, MarkSynced, MarkFails, Timeout, Killed, SyncTypes, OthersKeep
    <3>. QED
      BY <1>3, <3>2, <3>3, <3>4 DEF SyncerStep
  <2>2. \A t \in Syncers : t # s => Ok(t)'
    BY <2>1 DEF LocalInv, OthersKeep, Kind
  <2>3. Ok(s)' /\ \A k \in Kinds : synced'[k] \subseteq 1..local[k]
    <3>1. CASE Push(s)
      <4>1. /\ batch' = [batch EXCEPT ![s] = FetchUnsynced(Kind(s))] /\ UNCHANGED <<synced, pc>>
        BY <3>1 DEF Push
      <4>2. batch'[s] = FetchUnsynced(Kind(s))
        BY <1>0, <4>1 DEF SyncTypes
      <4>3. FetchUnsynced(Kind(s)) \subseteq 1..local[Kind(s)]
        BY DEF FetchUnsynced, Oldest, Unsynced
      <4>. QED
        BY <2>1, <4>1, <4>2, <4>3 DEF LocalInv, Kind
    <3>2. CASE Receive(s)
      <4>1. synced' = synced
        BY <3>2 DEF Receive
      <4>2. wait[s] # NoSlot /\ (UNCHANGED <<pc, batch>> \/ batch'[s] = {})
        BY <1>0, <3>2 DEF Receive, SyncTypes
      <4>. QED
        BY <2>1, <4>1, <4>2 DEF LocalInv, Kind
    <3>3. CASE MarkSynced(s)
      <4>1. batch'[s] = {} /\ marking[s]
        BY <1>0, <3>3 DEF MarkSynced, SyncTypes
      <4>2. synced' = [synced EXCEPT ![Kind(s)] = synced[Kind(s)] \cup batch[s]]
        BY <3>3 DEF MarkSynced
      <4>3. batch[s] \subseteq 1..local[Kind(s)]
        BY <4>1 DEF LocalInv
      <4>4. \A k \in Kinds : synced'[k] \subseteq 1..local[k]
        BY <1>0, <4>2, <4>3 DEF LocalInv, IndInv, Shape
      <4>. QED
        BY <4>1, <4>4
    <3>4. CASE Skip(s)
      <4>1. wait'[s] = NoSlot /\ ~marking'[s] /\ synced' = synced
        BY <3>4 DEF Skip, Ready
      <4>. QED
        BY <4>1 DEF LocalInv
    <3>5. CASE MarkFails(s) \/ Timeout(s) \/ Killed(s)
      <4>1. batch'[s] = {} /\ synced' = synced
        BY <1>0, <3>5 DEF MarkFails, Timeout, Killed, SyncTypes
      <4>. QED
        BY <4>1 DEF LocalInv
    <3>. QED
      BY <1>3, <3>1, <3>2, <3>3, <3>4, <3>5 DEF SyncerStep
  <2>. QED
    BY <2>1, <2>2, <2>3 DEF LocalInv
<1>4. CASE \/ \E k \in Kinds : LocalRow(k)
           \/ NewCycle \/ RevokeKey \/ MemberJoins \/ SetOverride
           \/ \E s \in Syncers : BackoffEnds(s)
           \/ \E i \in Slots :
                 HandlerStep(i) \/ InsertFails(i) \/ UsageFails(i) \/ HandlerDies(i)
           \/ UNCHANGED vars
  <2>1. UNCHANGED <<synced, pc, wait, batch, marking>>
    BY <1>4 DEF LocalRow, NewCycle, RevokeKey, MemberJoins, SetOverride, BackoffEnds,
       HandlerStep, Admit, InsertRows, ReadCycle, CountUsage, Notify, Respond, Discard,
       InsertFails, UsageFails, HandlerDies, vars, syncVars
  <2>. QED
    BY <1>1, <2>1
<1>. QED
  BY <1>2, <1>3, <1>4 DEF Next

\* All of it is inductive.
LEMMA NextTypes == TypeInv /\ [Next]_vars => TypeInv'
BY NextInv, NextSyncRest, NextCloudRest, NextLocal DEF TypeInv

\* TypeInv is the type invariant and more.
LEMMA TypesOk == TypeInv => TypeOK
BY DEF TypeInv, IndInv, Shape, SyncRest, CloudRest, LocalInv, TypeOK

\* Type correctness of both syncers and of the backend's tables.
THEOREM CloudTypes == Spec => []TypeOK
<1>1. Init => TypeInv
  BY InitInv, InitRest DEF TypeInv
<1>. QED
  BY <1>1, NextTypes, TypesOk, PTL DEF Spec

-----------------------------------------------------------------------------
(* Duplicates.                                                             *)

\* The unique index: an insert never makes two rows of one.
LEMMA InsertOnce ==
    ASSUME NEW tbl \in [Ids -> Nat], NEW ids \in SUBSET Ids, \A r \in Ids : tbl[r] <= 1
    PROVE  \A r \in Ids : Insert(tbl, ids)[r] <= 1
BY DEF Insert

\* Only the handlers write the backend's tables, and with Insert() alone.
LEMMA NextOnce == ASSUME IndInv, StoredOnce, [Next]_vars PROVE StoredOnce'
<1>1. ASSUME NEW k \in Kinds, NEW ids \in SUBSET Ids,
             stored' = [stored EXCEPT ![k] = Insert(@, ids)]
      PROVE  StoredOnce'
  <2>1. stored[k] \in [Ids -> Nat]
    BY DEF IndInv, Shape
  <2>2. stored' = [stored EXCEPT ![k] = Insert(stored[k], ids)]
    BY <1>1
  <2>3. \A r \in Ids : Insert(stored[k], ids)[r] <= 1
    BY <2>1, InsertOnce DEF StoredOnce
  <2>. QED
    BY <2>2, <2>3 DEF StoredOnce, IndInv, Shape
<1>2. ASSUME NEW i \in Slots, InsertRows(i) \/ InsertFails(i) PROVE StoredOnce'
  <2>1. posts[i].kind \in Kinds /\ posts[i].ids \subseteq Ids
    BY DEF IndInv, Shape, Post
  <2>2. \A n : Oldest(posts[i].ids, n) \subseteq posts[i].ids
    BY DEF Oldest
  <2>3. \E ids \in SUBSET Ids : stored' = [stored EXCEPT ![posts[i].kind] = Insert(@, ids)]
    BY <1>2, <2>1, <2>2 DEF InsertRows, InsertFails
  <2>. QED
    BY <1>1, <2>1, <2>3
<1>3. CASE ~(\E i \in Slots : InsertRows(i) \/ InsertFails(i))
  <2>1. stored' = stored
    BY <1>3 DEF Next, LocalRow, NewCycle, RevokeKey, MemberJoins, SetOverride, Tick, SyncNow,
       SyncerStep, Skip, Push, Receive, MarkSynced, BackoffEnds, MarkFails, Timeout, Killed,
       HandlerStep, Admit, ReadCycle, CountUsage, Notify, Respond, Discard, UsageFails,
       HandlerDies, vars, cloudVars
  <2>. QED
    BY <2>1 DEF StoredOnce
<1>. QED
  BY <1>2, <1>3

\* No duplicates, for every number of posts, retries and faults: the backend
\* has at most one row for each local row (ON CONFLICT DO NOTHING).
THEOREM NoDuplicates == Spec => []StoredOnce
<1>1. Init => StoredOnce
  BY DEF Init, StoredOnce
<1>. QED
  BY <1>1, InitInv, NextInv, NextOnce, PTL DEF Spec

-----------------------------------------------------------------------------
(* Usage: what is marked synced was counted.                               *)

\* The handler is past the count of its post.
Tallied(p) ==
    \/ p.stage \in {"notify", "respond"}
    \/ p.stage = "replied" /\ p.status = 200

Billed == counted \cup waived

TallyInv == \A i \in Slots :
    posts[i].kind = "cost" /\ Tallied(posts[i]) => posts[i].ids \subseteq Billed

BatchBilled == \A s \in Syncers :
    marking[s] /\ Kind(s) = "cost" => batch[s] \subseteq Billed

BilledInv == IndInv /\ TallyInv /\ BatchBilled /\ SyncedCounted

\* One post changes, and its rows are billed if its handler is past the count.
LEMMA TallyByPost ==
    ASSUME TallyInv, Billed \subseteq Billed', NEW i \in Slots,
           \A j \in Slots : j # i => posts'[j] = posts[j],
           posts'[i].kind = "cost" /\ Tallied(posts'[i]) => posts'[i].ids \subseteq Billed'
    PROVE  TallyInv'
<1>. SUFFICES ASSUME NEW j \in Slots
              PROVE  posts'[j].kind = "cost" /\ Tallied(posts'[j]) => posts'[j].ids \subseteq Billed'
  BY DEF TallyInv, Tallied
<1>1. CASE j = i
  BY <1>1
<1>2. CASE j # i
  BY <1>2 DEF TallyInv
<1>. QED
  BY <1>1, <1>2

\* A step of the backend bills before it answers 200.
LEMMA BackendBills ==
    ASSUME BilledInv, NEW i \in Slots,
           HandlerStep(i) \/ InsertFails(i) \/ UsageFails(i) \/ HandlerDies(i)
    PROVE  TallyInv' /\ BatchBilled' /\ SyncedCounted'
<1>0. /\ posts \in [Slots -> Post] /\ posts[i] \in Post /\ override \in 0..MaxOverride
      /\ TallyInv /\ BatchBilled /\ SyncedCounted
  BY DEF BilledInv, IndInv, Shape
<1>1. /\ \A st \in Stages : Goto(i, st) => Moved(i, st, posts[i].status)
      /\ \A code \in Statuses : Reply(i, code) => Moved(i, "replied", code)
      /\ Respond(i) => Moved(i, "replied", 200)
  BY <1>0, Moves
<1>2. /\ Billed \subseteq Billed'
      /\ UNCHANGED <<synced, pc, batch, marking>>
  BY DEF HandlerStep, Admit, InsertRows, ReadCycle, CountUsage, Notify, Respond, Discard,
     InsertFails, UsageFails, HandlerDies, syncVars, cloudVars, countVars, Billed
<1>3. BatchBilled' /\ SyncedCounted'
  BY <1>0, <1>2 DEF BatchBilled, SyncedCounted, Billed, Kind
<1>4. CASE Admit(i)
  <2>1. \/ Moved(i, "insert", posts[i].status)
        \/ \E code \in {401, 422, 429} : Moved(i, "replied", code)
    BY <1>1, <1>4 DEF Admit, Stages, Statuses
  <2>. QED
    BY <1>0, <1>2, <1>3, <2>1, TallyByPost DEF Moved, Tallied
<1>5. CASE InsertRows(i)
  <2>1. PICK st \in {"cycle", "respond"} :
          Goto(i, st) /\ (st = "respond" => posts[i].kind # "cost")
    BY <1>5 DEF InsertRows
  <2>2. Moved(i, st, posts[i].status)
    BY <1>1, <2>1 DEF Stages
  <2>. QED
    BY <1>0, <1>2, <1>3, <2>1, <2>2, TallyByPost DEF Moved, Tallied
<1>6. CASE InsertFails(i)
  <2>1. Moved(i, "replied", 500)
    BY <1>1, <1>6 DEF InsertFails, Statuses
  <2>. QED
    BY <1>0, <1>2, <1>3, <2>1, TallyByPost DEF Moved, Tallied
<1>7. CASE ReadCycle(i)
  <2>1. Moved(i, "count", posts[i].status)
    BY <1>1, <1>7 DEF ReadCycle, Stages
  <2>. QED
    BY <1>0, <1>2, <1>3, <2>1, TallyByPost DEF Moved, Tallied
<1>8. CASE CountUsage(i)
  <2>1. PICK st \in {"notify", "respond"} : Goto(i, st)
    BY <1>8 DEF CountUsage
  <2>2. Moved(i, st, posts[i].status)
    BY <1>1, <2>1 DEF Stages
  <2>3. posts[i].ids \subseteq Billed'
    BY <1>8 DEF CountUsage, Billed
  <2>. QED
    BY <1>0, <1>2, <1>3, <2>2, <2>3, TallyByPost DEF Moved, Tallied
<1>9. CASE Notify(i)
  <2>1. Moved(i, "respond", posts[i].status) /\ posts[i].stage = "notify"
    BY <1>1, <1>9 DEF Notify, Stages
  <2>. QED
    BY <1>0, <1>2, <1>3, <2>1, TallyByPost DEF Moved, Tallied, TallyInv
<1>10. CASE UsageFails(i)
  <2>1. Moved(i, "respond", posts[i].status)
    BY <1>1, <1>10 DEF UsageFails, Stages
  <2>2. posts[i].kind = "cost" => posts[i].ids \subseteq Billed'
    BY <1>0, <1>2, <1>10 DEF UsageFails, Billed, TallyInv, Tallied
  <2>. QED
    BY <1>0, <1>2, <1>3, <2>1, <2>2, TallyByPost DEF Moved
<1>11. CASE Respond(i)
  <2>1. Moved(i, "replied", 200) /\ posts[i].stage = "respond"
    BY <1>1, <1>11 DEF Respond
  <2>. QED
    BY <1>0, <1>2, <1>3, <2>1, TallyByPost DEF Moved, Tallied, TallyInv
<1>12. CASE HandlerDies(i)
  <2>1. Moved(i, "dead", posts[i].status)
    BY <1>1, <1>12 DEF HandlerDies, Stages
  <2>. QED
    BY <1>0, <1>2, <1>3, <2>1, TallyByPost DEF Moved, Tallied
<1>13. CASE Discard(i)
  <2>1. /\ posts'[i] = Free
        /\ \A j \in Slots : j # i => posts'[j] = posts[j]
    BY <1>0, <1>13 DEF Discard
  <2>2. ~Tallied(posts'[i])
    BY <2>1 DEF Tallied, Free
  <2>. QED
    BY <1>0, <1>2, <1>3, <2>1, <2>2, TallyByPost
<1>. QED
  BY <1>4, <1>5, <1>6, <1>7, <1>8, <1>9, <1>10, <1>11, <1>12, <1>13 DEF HandlerStep

\* A syncer marks the rows of a post that was billed: those it waits for.
LEMMA SyncerBills ==
    ASSUME BilledInv, IndInv', NEW s \in Syncers,
           SyncerStep(s) \/ MarkFails(s) \/ Timeout(s) \/ Killed(s)
    PROVE  TallyInv' /\ BatchBilled' /\ SyncedCounted'
<1>0. /\ SyncTypes /\ posts \in [Slots -> Post] /\ WaitInv
      /\ TallyInv /\ BatchBilled /\ SyncedCounted /\ synced \in [Kinds -> SUBSET Ids]
  BY DEF BilledInv, IndInv, Shape, SyncTypes
<1>1. Billed' = Billed
  BY BooksRest DEF cloudVars, countVars, Billed
<1>2. CASE Push(s)
  <2>. DEFINE ids == FetchUnsynced(Kind(s))
  <2>1. PICK i \in Slots : posts' = [posts EXCEPT ![i] =
            [Free EXCEPT !.stage = "sent", !.kind = Kind(s), !.ids = ids]]
    BY <1>2 DEF Push
  <2>. HIDE DEF ids
  <2>2. ~Tallied(posts'[i])
    BY <1>0, <2>1, FreePost DEF Tallied, Free
  <2>3. \A j \in Slots : j # i => posts'[j] = posts[j]
    BY <1>0, <2>1
  <2>4. TallyInv'
    BY <1>0, <1>1, <2>2, <2>3, TallyByPost
  <2>5. UNCHANGED <<synced, pc, marking>> /\ ~marking[s]
    BY <1>2 DEF Push, Ready
  <2>6. \A t \in Syncers : t # s => batch'[t] = batch[t]
    <3>1. PICK b : batch' = [batch EXCEPT ![s] = b]
      BY <1>2 DEF Push
    <3>. QED
      BY <1>0, <3>1 DEF SyncTypes
  <2>. QED
    BY <1>0, <1>1, <2>4, <2>5, <2>6 DEF BatchBilled, SyncedCounted, Billed, Kind
<1>3. CASE Receive(s)
  <2>. DEFINE w == wait[s]
              ok == posts[w].status = 200
  <2>1. /\ w # NoSlot /\ posts[w].stage = "replied" /\ posts' = [posts EXCEPT ![w] = Free]
        /\ synced' = synced
        /\ ok => UNCHANGED <<pc, batch>>
    BY <1>3 DEF Receive
  <2>2. w \in Slots /\ posts[w].kind = Kind(s) /\ posts[w].ids = batch[s]
    BY <1>0, <2>1, WaitsForSlot DEF WaitInv, BilledInv
  <2>3. TallyInv'
    <3>1. posts'[w] = Free /\ \A j \in Slots : j # w => posts'[j] = posts[j]
      BY <1>0, <2>1, <2>2
    <3>2. ~Tallied(posts'[w])
      BY <3>1 DEF Tallied, Free
    <3>. QED
      BY <1>0, <1>1, <2>2, <3>1, <3>2, TallyByPost
  <2>4. BatchBilled'
    <3>1. marking' = [marking EXCEPT ![s] = ok]
      BY <1>3 DEF Receive
    <3>2. ok /\ Kind(s) = "cost" => batch[s] \subseteq Billed
      BY <1>0, <2>1, <2>2 DEF TallyInv, Tallied
    <3>3. ok => Kind(s)' = Kind(s) /\ batch'[s] = batch[s]
      BY <2>1 DEF Kind
    <3>. HIDE DEF ok
    <3>4. marking'[s] = ok /\ \A t \in Syncers : t # s => marking'[t] = marking[t]
      BY <1>0, <3>1 DEF SyncTypes
    <3>5. \A t \in Syncers : t # s => Kind(t)' = Kind(t) /\ batch'[t] = batch[t]
      BY <1>0, <1>3 DEF SyncTypes, Receive, Kind
    <3>. QED
      BY <1>0, <1>1, <3>2, <3>3, <3>4, <3>5 DEF BatchBilled
  <2>. QED
    BY <1>0, <1>1, <2>1, <2>3, <2>4 DEF SyncedCounted, Billed
<1>4. CASE MarkSynced(s)
  <2>1. /\ marking[s] /\ posts' = posts
        /\ synced' = [synced EXCEPT ![Kind(s)] = synced[Kind(s)] \cup batch[s]]
    BY <1>4 DEF MarkSynced
  <2>2. ~marking'[s] /\ \A t \in Syncers : t # s =>
           marking'[t] = marking[t] /\ Kind(t)' = Kind(t) /\ batch'[t] = batch[t]
    BY <1>0, <1>4 DEF SyncTypes, MarkSynced, Kind
  <2>3. TallyInv' /\ BatchBilled'
    BY <1>0, <1>1, <2>1, <2>2 DEF TallyInv, Tallied, BatchBilled
  <2>4. Kind(s) \in Kinds /\ "cost" \in Kinds
    BY DEF Kind, Kinds
  <2>5. SyncedCounted'
    BY <1>0, <1>1, <2>1, <2>4 DEF SyncedCounted, BatchBilled, Billed
  <2>. QED
    BY <2>3, <2>5
<1>5. CASE Skip(s) \/ MarkFails(s) \/ Timeout(s) \/ Killed(s)
  <2>1. posts' = posts /\ synced' = synced
    BY <1>5 DEF Skip, MarkFails, Timeout, Killed
  <2>2. ~marking'[s] /\ \A t \in Syncers : t # s =>
           marking'[t] = marking[t] /\ Kind(t)' = Kind(t) /\ batch'[t] = batch[t]
    <3>1. wait[s] # NoSlot => ~marking[s]
      BY DEF BilledInv, IndInv, MarkInv
    <3>. QED
      BY <1>0, <1>5, <3>1 DEF SyncTypes, Skip, Ready, MarkFails, Timeout, Killed, Kind
  <2>. QED
    BY <1>0, <1>1, <2>1, <2>2 DEF TallyInv, Tallied, BatchBilled, SyncedCounted, Billed
<1>. QED
  BY <1>2, <1>3, <1>4, <1>5 DEF SyncerStep

\* Billing is inductive.
LEMMA NextBilled == BilledInv /\ [Next]_vars => BilledInv'
<1>. SUFFICES ASSUME BilledInv, [Next]_vars PROVE BilledInv'
  OBVIOUS
<1>1. IndInv /\ IndInv' /\ TallyInv /\ BatchBilled /\ SyncedCounted
  BY NextInv DEF BilledInv
<1>2. ASSUME UNCHANGED <<synced, posts, batch, marking, counted, waived>>,
             \A s \in Syncers : Kind(s)' = Kind(s)
      PROVE  BilledInv'
  BY <1>1, <1>2 DEF BilledInv, TallyInv, Tallied, BatchBilled, SyncedCounted, Billed
<1>3. CASE \/ \E k \in Kinds : LocalRow(k)
           \/ NewCycle \/ RevokeKey \/ MemberJoins \/ SetOverride
           \/ \E s \in Syncers : BackoffEnds(s)
           \/ UNCHANGED vars
  <2>1. UNCHANGED <<synced, posts, batch, marking, counted, waived, pc>>
    BY <1>3 DEF LocalRow, NewCycle, RevokeKey, MemberJoins, SetOverride, BackoffEnds, vars,
       syncVars, cloudVars, countVars
  <2>. QED
    BY <1>2, <2>1 DEF Kind
<1>4. CASE Tick \/ SyncNow
  <2>1. UNCHANGED <<synced, posts, batch, marking, counted, waived>>
    BY <1>4 DEF Tick, SyncNow, cloudVars, countVars
  <2>2. \A s \in Syncers : Kind(s)' = Kind(s)
    BY <1>1, <1>4 DEF IndInv, Shape, Tick, SyncNow, Kind, Syncers
  <2>. QED
    BY <1>2, <2>1, <2>2
<1>5. CASE \E s \in Syncers : SyncerStep(s) \/ MarkFails(s) \/ Timeout(s) \/ Killed(s)
  BY <1>1, <1>5, SyncerBills DEF BilledInv
<1>6. CASE \E i \in Slots : HandlerStep(i) \/ InsertFails(i) \/ UsageFails(i) \/ HandlerDies(i)
  BY <1>1, <1>6, BackendBills DEF BilledInv
<1>. QED
  BY <1>3, <1>4, <1>5, <1>6 DEF Next

\* No free usage: ingest() counts the rows of a post before it answers 200,
\* so that every cost record marked synced was counted in some cycle or its
\* counting query failed, whatever is lost, late or repeated.
THEOREM NoFreeUsage == Spec => []SyncedCounted
<1>1. Init => BilledInv
  <2>. SUFFICES ASSUME Init PROVE BilledInv
    OBVIOUS
  <2>1. TallyInv /\ BatchBilled /\ SyncedCounted
    BY DEF Init, TallyInv, Tallied, Free, BatchBilled, SyncedCounted, Kinds
  <2>. QED
    BY <2>1, InitInv DEF BilledInv
<1>2. BilledInv => SyncedCounted
  BY DEF BilledInv
<1>. QED
  BY <1>1, <1>2, NextBilled, PTL DEF Spec

-----------------------------------------------------------------------------
(* Usage: the threshold mails.                                             *)

\* A threshold is mailed when it is claimed.
MailInv ==
    \A c \in Cycles, t \in Thresholds : mails[c][t] = IF t \in notified[c] THEN 1 ELSE 0

\* The handlers between the count and the claim.
Open(c) == {i \in Slots : posts[i].stage = "notify" /\ tally[i].cyc = c}

\* A threshold that the usage has reached is claimed, or one of these
\* handlers has seen it crossed.
ReachInv ==
    Cap["requests"] > 0 =>
        \A c \in Cycles \ muted :
            /\ usage[c]["requests"] >= Cap["requests"] =>
                  100 \in notified[c] \/ \E i \in Open(c) : 100 \in Crossed(i)
            /\ 10 * usage[c]["requests"] >= 8 * Cap["requests"] =>
                  notified[c] # {} \/ \E i \in Open(c) : Crossed(i) # {}

\* The same for one cycle.
ReachAt(c) ==
    /\ usage[c]["requests"] >= Cap["requests"] =>
          100 \in notified[c] \/ \E i \in Open(c) : 100 \in Crossed(i)
    /\ 10 * usage[c]["requests"] >= 8 * Cap["requests"] =>
          notified[c] # {} \/ \E i \in Open(c) : Crossed(i) # {}

\* The handlers that count, claim or die.
Counts(i) == CountUsage(i) \/ Notify(i) \/ UsageFails(i) \/ HandlerDies(i)

\* Every other step leaves the usage, the claims and the handlers between
\* count and claim alone.
LEMMA OthersQuiet ==
    ASSUME TypeInv, [Next]_vars, ~(\E i \in Slots : Counts(i))
    PROVE  /\ UNCHANGED <<usage, notified, mails, muted>>
           /\ \A j \in Slots : posts[j].stage = "notify" =>
                 posts'[j] = posts[j] /\ tally'[j] = tally[j]
<1>. DEFINE Quiet == /\ UNCHANGED <<usage, notified, mails, muted>>
                     /\ \A j \in Slots : posts[j].stage = "notify" =>
                           posts'[j] = posts[j] /\ tally'[j] = tally[j]
<1>0. posts \in [Slots -> Post] /\ tally \in [Slots -> [cyc : Cycles, new : Nat]]
  BY DEF TypeInv, IndInv, Shape, CloudRest
<1>1. CASE \/ \E k \in Kinds : LocalRow(k)
           \/ NewCycle \/ RevokeKey \/ MemberJoins \/ SetOverride \/ Tick \/ SyncNow
           \/ \E s \in Syncers : \/ Skip(s) \/ MarkSynced(s) \/ BackoffEnds(s)
                                 \/ MarkFails(s) \/ Timeout(s) \/ Killed(s)
           \/ UNCHANGED vars
  BY <1>1 DEF LocalRow, NewCycle, RevokeKey, MemberJoins, SetOverride, Tick, SyncNow, Skip,
     MarkSynced, BackoffEnds, MarkFails, Timeout, Killed, vars, cloudVars, countVars
<1>2. ASSUME NEW i \in Slots, NEW q, posts' = [posts EXCEPT ![i] = q],
             posts[i].stage # "notify",
             UNCHANGED <<usage, notified, mails, muted>>,
             tally' = tally \/ \E v : tally' = [tally EXCEPT ![i] = v]
      PROVE  Quiet
  BY <1>0, <1>2
<1>3. ASSUME NEW s \in Syncers, Push(s) PROVE Quiet
  <2>1. PICK i \in Slots :
          posts[i].stage = "free" /\ \E q : posts' = [posts EXCEPT ![i] = q]
    BY <1>3 DEF Push
  <2>2. UNCHANGED <<usage, notified, mails, muted, tally>>
    BY <1>3 DEF Push, cloudVars, countVars
  <2>. QED
    BY <1>2, <2>1, <2>2
<1>4. ASSUME NEW s \in Syncers, Receive(s) PROVE Quiet
  <2>1. /\ wait[s] \in Slots /\ posts[wait[s]].stage = "replied"
        /\ posts' = [posts EXCEPT ![wait[s]] = Free]
    BY <1>4, WaitsForSlot DEF Receive, TypeInv
  <2>2. UNCHANGED <<usage, notified, mails, muted, tally>>
    BY <1>4 DEF Receive, cloudVars, countVars
  <2>. QED
    BY <1>2, <2>1, <2>2
<1>5. ASSUME NEW i \in Slots,
             \/ Admit(i) \/ InsertRows(i) \/ InsertFails(i) \/ ReadCycle(i)
             \/ Respond(i) \/ Discard(i)
      PROVE  Quiet
  <2>1. \E q : posts' = [posts EXCEPT ![i] = q]
    BY <1>5 DEF Admit, InsertRows, InsertFails, ReadCycle, Respond, Discard, Goto, Reply
  <2>2. posts[i].stage # "notify"
    BY <1>5 DEF Admit, InsertRows, InsertFails, ReadCycle, Respond, Discard
  <2>3. /\ UNCHANGED <<usage, notified, mails, muted>>
        /\ tally' = tally \/ \E v : tally' = [tally EXCEPT ![i] = v]
    BY <1>5 DEF Admit, InsertRows, InsertFails, ReadCycle, Respond, Discard, cloudVars, countVars
  <2>. QED
    BY <1>2, <2>1, <2>2, <2>3
<1>. QED
  BY <1>1, <1>3, <1>4, <1>5 DEF Next, SyncerStep, HandlerStep, Counts

\* A handler that has not moved has crossed what it had crossed.
LEMMA CrossedStays ==
    ASSUME NEW j \in Slots, posts'[j] = posts[j], tally'[j] = tally[j]
    PROVE  /\ Crossed(j)' = Crossed(j)
           /\ \A c : j \in Open(c)' <=> j \in Open(c)
BY DEF Crossed, Open, Total

\* What a step of the counting handler i does to the posts.
LEMMA CountsMoves ==
    ASSUME TypeInv, NEW i \in Slots, Counts(i)
    PROVE  /\ \A j \in Slots : j # i => posts'[j] = posts[j] /\ tally'[j] = tally[j]
           /\ posts'[i].ids = posts[i].ids
           /\ tally[i].cyc \in Cycles /\ posts[i].ids \in SUBSET Ids
<1>0. /\ posts \in [Slots -> Post] /\ tally \in [Slots -> [cyc : Cycles, new : Nat]]
      /\ posts[i] \in Post
  BY DEF TypeInv, IndInv, Shape, CloudRest
<1>1. PICK st \in Stages : Goto(i, st)
  BY DEF Counts, CountUsage, Notify, UsageFails, HandlerDies, Stages
<1>2. posts' = [posts EXCEPT ![i] = [posts[i] EXCEPT !.stage = st]]
  BY <1>1 DEF Goto
<1>3. \E v : tally' = [tally EXCEPT ![i] = v]
  BY DEF Counts, CountUsage, Notify, UsageFails, HandlerDies, CutShort
<1>4. [posts[i] EXCEPT !.stage = st].ids = posts[i].ids
  BY <1>0 DEF Post
<1>. QED
  BY <1>0, <1>2, <1>3, <1>4 DEF Post

\* Only a claim sends a mail, and it claims what was not claimed.
LEMMA NextMail == ASSUME TypeInv, MailInv, [Next]_vars PROVE MailInv'
<1>1. CASE \E i \in Slots : Notify(i)
  <2>1. PICK i \in Slots : Notify(i)
    BY <1>1
  <2>. DEFINE c == tally[i].cyc
              claims == Crossed(i) \ notified[c]
              sent == [t \in Thresholds |-> IF t \in claims THEN mails[c][t] + 1 ELSE mails[c][t]]
  <2>2. /\ notified' = [notified EXCEPT ![c] = notified[c] \cup claims]
        /\ mails' = [mails EXCEPT ![c] = sent]
    BY <2>1 DEF Notify
  <2>3. c \in Cycles
    BY DEF TypeInv, CloudRest
  <2>4. \A t \in Thresholds : sent[t] = IF t \in notified[c] \cup claims THEN 1 ELSE 0
    BY <2>3 DEF MailInv
  <2>. HIDE DEF claims, sent
  <2>5. notified \in [Cycles -> SUBSET Thresholds] /\ mails \in [Cycles -> [Thresholds -> Nat]]
    BY DEF TypeInv, CloudRest
  <2>. QED
    BY <2>2, <2>3, <2>4, <2>5 DEF MailInv
<1>2. CASE ~(\E i \in Slots : Notify(i))
  <2>1. UNCHANGED <<notified, mails>>
    BY <1>2, OthersQuiet DEF Counts, CountUsage, UsageFails, HandlerDies
  <2>. QED
    BY <2>1 DEF MailInv
<1>. QED
  BY <1>1, <1>2

\* A cycle whose usage and claims stay, and whose open handlers stay open.
LEMMA ReachStays ==
    ASSUME NEW c \in Cycles, ReachAt(c), usage'[c] = usage[c], notified[c] \subseteq notified'[c],
           \A j \in Open(c) : posts'[j] = posts[j] /\ tally'[j] = tally[j]
    PROVE  ReachAt(c)'
<1>1. \A j \in Open(c) : j \in Slots /\ j \in Open(c)' /\ Crossed(j)' = Crossed(j)
  BY CrossedStays DEF Open
<1>2. ASSUME 100 \in notified[c] \/ \E i \in Open(c) : 100 \in Crossed(i)
      PROVE  100 \in notified'[c] \/ \E i \in Open(c)' : 100 \in Crossed(i)'
  BY <1>1, <1>2
<1>3. ASSUME notified[c] # {} \/ \E i \in Open(c) : Crossed(i) # {}
      PROVE  notified'[c] # {} \/ \E i \in Open(c)' : Crossed(i)' # {}
  BY <1>1, <1>3
<1>. QED
  BY <1>2, <1>3 DEF ReachAt

\* A post that crosses a threshold is counted and then open: the count before
\* it was below the threshold exactly when the handler sees it crossed.
LEMMA CountReaches ==
    ASSUME TypeInv, Cap["requests"] > 0, NEW i \in Slots, CountUsage(i),
           NEW c \in Cycles, c = tally[i].cyc, ReachAt(c)
    PROVE  ReachAt(c)'
<1>. DEFINE old == usage[c]["requests"]
            w == Total("requests", posts[i].ids)
            cap == Cap["requests"]
            now == [d \in Dims |-> usage[c][d] + Total(d, posts[i].ids)]
<1>0. /\ \A j \in Slots : j # i => posts'[j] = posts[j] /\ tally'[j] = tally[j]
      /\ posts'[i].ids = posts[i].ids
      /\ c \in Cycles /\ posts[i].ids \in SUBSET Ids
  BY CountsMoves DEF Counts
<1>1. old \in Nat /\ w \in Nat /\ cap \in Nat
  BY <1>0, DimsAssumption, CapAssumption, TotalType DEF TypeInv, CloudRest
<1>2. now["requests"] = old + w
  BY DimsAssumption
<1>3. /\ usage' = [usage EXCEPT ![c] = now] /\ notified' = notified
      /\ posts[i].stage = "count" /\ Goto(i, "notify")
      /\ tally' = [tally EXCEPT ![i] = [tally[i] EXCEPT !.new = now["requests"]]]
  BY DEF CountUsage
<1>4. usage'[c]["requests"] = old + w
  BY <1>0, <1>2, <1>3 DEF TypeInv, CloudRest
<1>5. tally'[i].cyc = c /\ tally'[i].new = old + w
  <2>. DEFINE n == now["requests"]
  <2>1. tally' = [tally EXCEPT ![i] = [tally[i] EXCEPT !.new = n]] /\ n = old + w
    BY <1>2, <1>3
  <2>. HIDE DEF n
  <2>. QED
    BY <2>1 DEF TypeInv, CloudRest
<1>6. posts'[i].stage = "notify"
  <2>1. posts' = [posts EXCEPT ![i] = [posts[i] EXCEPT !.stage = "notify"]] /\ posts[i] \in Post
    BY <1>3 DEF Goto, TypeInv, IndInv, Shape
  <2>. QED
    BY <2>1 DEF Post, TypeInv, IndInv, Shape
<1>7. i \in Open(c)'
  BY <1>5, <1>6 DEF Open
<1>8. Total("requests", posts[i].ids)' = w
  BY <1>0 DEF Total
<1>9. Crossed(i)' = IF old < cap /\ cap <= old + w THEN {100}
                    ELSE IF 10 * old < 8 * cap /\ 8 * cap <= 10 * (old + w) THEN {80}
                    ELSE {}
  <2>1. Crossed(i)' = IF (old + w) - w < cap /\ cap <= old + w THEN {100}
                      ELSE IF 10 * ((old + w) - w) < 8 * cap /\ 8 * cap <= 10 * (old + w)
                           THEN {80} ELSE {}
    BY <1>5, <1>8 DEF Crossed
  <2>2. (old + w) - w = old
    <3>. HIDE DEF old, w
    <3>. QED
      BY <1>1
  <2>. QED
    BY <2>1, <2>2
<1>10. \A j \in Open(c) : j # i
  BY <1>3 DEF Open
<1>11. \A j \in Open(c) : j \in Open(c)' /\ Crossed(j)' = Crossed(j)
  BY <1>0, <1>10, CrossedStays DEF Open
<1>12. usage[c]["requests"] = old /\ usage'[c]["requests"] = old + w /\ Cap["requests"] = cap
  BY <1>4
<1>. HIDE DEF old, w, cap
<1>13. ASSUME old + w >= cap
       PROVE  100 \in notified'[c] \/ \E j \in Open(c)' : 100 \in Crossed(j)'
  <2>1. CASE old >= cap
    BY <1>3, <1>11, <1>12, <2>1 DEF ReachAt
  <2>2. CASE ~(old >= cap)
    <3>1. 100 \in Crossed(i)'
      BY <1>1, <1>9, <1>13, <2>2
    <3>. QED
      BY <1>7, <3>1
  <2>. QED
    BY <2>1, <2>2
<1>14. ASSUME 10 * (old + w) >= 8 * cap
       PROVE  notified'[c] # {} \/ \E j \in Open(c)' : Crossed(j)' # {}
  <2>1. CASE 10 * old >= 8 * cap
    BY <1>3, <1>11, <1>12, <2>1 DEF ReachAt
  <2>2. CASE ~(10 * old >= 8 * cap)
    <3>1. Crossed(i)' # {}
      BY <1>1, <1>9, <1>14, <2>2
    <3>. QED
      BY <1>7, <3>1
  <2>. QED
    BY <2>1, <2>2
<1>15. ReachAt(c)' <=>
         /\ usage'[c]["requests"] >= cap =>
              100 \in notified'[c] \/ \E j \in Open(c)' : 100 \in Crossed(j)'
         /\ 10 * usage'[c]["requests"] >= 8 * cap =>
              notified'[c] # {} \/ \E j \in Open(c)' : Crossed(j)' # {}
  BY <1>12 DEF ReachAt
<1>. QED
  BY <1>12, <1>13, <1>14, <1>15

\* Every step keeps the claims up with the usage.
LEMMA NextReach == ASSUME TypeInv, ReachInv, [Next]_vars PROVE ReachInv'
<1>. SUFFICES ASSUME Cap["requests"] > 0, NEW c \in Cycles, c \notin muted'
              PROVE  ReachAt(c)'
  BY DEF ReachInv, ReachAt
<1>0. muted \subseteq muted'
  <2>1. CASE \E i \in Slots : Counts(i)
    BY <2>1 DEF Counts, CountUsage, Notify, UsageFails, HandlerDies, CutShort
  <2>2. CASE ~(\E i \in Slots : Counts(i))
    BY <2>2, OthersQuiet
  <2>. QED
    BY <2>1, <2>2
<1>1. ReachAt(c)
  BY <1>0 DEF ReachInv, ReachAt
<1>2. CASE ~(\E i \in Slots : Counts(i))
  <2>1. /\ UNCHANGED <<usage, notified>>
        /\ \A j \in Slots : posts[j].stage = "notify" =>
              posts'[j] = posts[j] /\ tally'[j] = tally[j]
    BY <1>2, OthersQuiet
  <2>2. \A j \in Open(c) : posts'[j] = posts[j] /\ tally'[j] = tally[j]
    BY <2>1 DEF Open
  <2>. QED
    BY <1>1, <2>1, <2>2, ReachStays
<1>3. ASSUME NEW i \in Slots, Counts(i) PROVE ReachAt(c)'
  <2>0. /\ \A j \in Slots : j # i => posts'[j] = posts[j] /\ tally'[j] = tally[j]
        /\ posts'[i].ids = posts[i].ids /\ tally[i].cyc \in Cycles
    BY <1>3, CountsMoves
  <2>1. ASSUME i \notin Open(c), usage'[c] = usage[c], notified[c] \subseteq notified'[c]
        PROVE  ReachAt(c)'
    <3>1. \A j \in Open(c) : posts'[j] = posts[j] /\ tally'[j] = tally[j]
      BY <2>0, <2>1 DEF Open
    <3>. QED
      BY <1>1, <2>1, <3>1, ReachStays
  <2>2. CASE CountUsage(i)
    <3>1. CASE c = tally[i].cyc
      BY <1>1, <2>2, <3>1, CountReaches
    <3>2. CASE c # tally[i].cyc
      <4>1. usage'[c] = usage[c] /\ notified' = notified /\ i \notin Open(c)
        BY <2>2, <3>2 DEF CountUsage, Open, TypeInv, CloudRest
      <4>. QED
        BY <2>1, <4>1
    <3>. QED
      BY <3>1, <3>2
  <2>3. CASE Notify(i)
    <3>1. /\ usage' = usage /\ posts[i].stage = "notify"
          /\ notified' = [notified EXCEPT ![tally[i].cyc] =
                notified[tally[i].cyc] \cup (Crossed(i) \ notified[tally[i].cyc])]
      BY <2>3 DEF Notify
    <3>2. CASE c # tally[i].cyc
      <4>1. notified'[c] = notified[c] /\ i \notin Open(c)
        BY <3>1, <3>2 DEF Open, TypeInv, CloudRest
      <4>. QED
        BY <2>1, <3>1, <4>1
    <3>3. CASE c = tally[i].cyc
      <4>1. notified'[c] = notified[c] \cup Crossed(i)
        BY <3>1, <3>3 DEF TypeInv, CloudRest
      <4>2. \A j \in Open(c) : j # i => j \in Open(c)' /\ Crossed(j)' = Crossed(j)
        BY <2>0, CrossedStays DEF Open
      <4>3. ASSUME 100 \in notified[c] \/ \E j \in Open(c) : 100 \in Crossed(j)
            PROVE  100 \in notified'[c] \/ \E j \in Open(c)' : 100 \in Crossed(j)'
        BY <4>1, <4>2, <4>3
      <4>4. ASSUME notified[c] # {} \/ \E j \in Open(c) : Crossed(j) # {}
            PROVE  notified'[c] # {} \/ \E j \in Open(c)' : Crossed(j)' # {}
        BY <4>1, <4>2, <4>4
      <4>. QED
        BY <1>1, <3>1, <4>3, <4>4 DEF ReachAt
    <3>. QED
      BY <3>2, <3>3
  <2>4. CASE UsageFails(i) \/ HandlerDies(i)
    <3>1. UNCHANGED <<usage, notified>> /\ CutShort(i)
      BY <2>4 DEF UsageFails, HandlerDies
    <3>2. i \notin Open(c)
      BY <3>1 DEF CutShort, Open
    <3>. QED
      BY <2>1, <3>1, <3>2
  <2>. QED
    BY <1>3, <2>2, <2>3, <2>4 DEF Counts
<1>. QED
  BY <1>2, <1>3

\* Every threshold that the usage of a cycle reaches is mailed once, however
\* many handlers of ingest() cross it together, unless a handler was cut
\* short between its count and its claim.
THEOREM EveryThresholdMailed == Spec => []ThresholdsMailed
<1>1. Init => TypeInv /\ MailInv /\ ReachInv
  <2>. SUFFICES ASSUME Init PROVE TypeInv /\ MailInv /\ ReachInv
    OBVIOUS
  <2>1. TypeInv
    BY InitInv, InitRest DEF TypeInv
  <2>2. MailInv
    BY DEF Init, MailInv
  <2>3. \A c \in Cycles : usage[c]["requests"] = 0
    BY DimsAssumption DEF Init
  <2>4. ReachInv
    BY <2>3, CapAssumption, DimsAssumption DEF ReachInv
  <2>. QED
    BY <2>1, <2>2, <2>4
<1>2. TypeInv /\ MailInv /\ ReachInv /\ [Next]_vars => TypeInv' /\ MailInv' /\ ReachInv'
  BY NextTypes, NextMail, NextReach
<1>3. TypeInv /\ MailInv /\ ReachInv => ThresholdsMailed
  <2>. SUFFICES ASSUME TypeInv, MailInv, ReachInv, NEW c \in Cycles
                PROVE  /\ \A t \in Thresholds : mails[c][t] <= 1
                       /\ (/\ Cap["requests"] > 0
                           /\ ~(\E i \in Slots : posts[i].stage = "notify" /\ tally[i].cyc = c)
                           /\ c \notin muted) =>
                            /\ usage[c]["requests"] >= Cap["requests"] => mails[c][100] = 1
                            /\ 10 * usage[c]["requests"] >= 8 * Cap["requests"] =>
                                  mails[c][80] + mails[c][100] >= 1
    BY DEF ThresholdsMailed
  <2>1. \A t \in Thresholds : mails[c][t] = IF t \in notified[c] THEN 1 ELSE 0
    BY DEF MailInv
  <2>2. \A t \in Thresholds : mails[c][t] <= 1
    BY <2>1
  <2>3. ASSUME Cap["requests"] > 0, c \notin muted,
               ~(\E i \in Slots : posts[i].stage = "notify" /\ tally[i].cyc = c)
        PROVE  /\ usage[c]["requests"] >= Cap["requests"] => mails[c][100] = 1
               /\ 10 * usage[c]["requests"] >= 8 * Cap["requests"] =>
                     mails[c][80] + mails[c][100] >= 1
    <3>1. Open(c) = {}
      BY <2>3 DEF Open
    <3>2. /\ usage[c]["requests"] >= Cap["requests"] => 100 \in notified[c]
          /\ 10 * usage[c]["requests"] >= 8 * Cap["requests"] => notified[c] # {}
      BY <2>3, <3>1 DEF ReachInv
    <3>3. notified[c] \subseteq {80, 100}
      BY DEF TypeInv, CloudRest, Thresholds
    <3>4. mails[c][80] \in {0, 1} /\ mails[c][100] \in {0, 1}
      BY <2>1 DEF Thresholds
    <3>5. notified[c] # {} => mails[c][80] = 1 \/ mails[c][100] = 1
      BY <2>1, <3>3 DEF Thresholds
    <3>6. notified[c] # {} => mails[c][80] + mails[c][100] >= 1
      BY <3>4, <3>5
    <3>7. 100 \in notified[c] => mails[c][100] = 1
      BY <2>1 DEF Thresholds
    <3>. QED
      BY <3>2, <3>6, <3>7
  <2>. QED
    BY <2>2, <2>3
<1>. QED
  BY <1>1, <1>2, <1>3, PTL DEF Spec

-----------------------------------------------------------------------------
(* Usage: the overshoot of the quota.  Between the check and the count of  *)
(* a handler the usage may pass the cap, so that the bound is not on the   *)
(* usage alone but on the usage and what the admitted handlers will add    *)
(* (RoomInv).  A handler counts in the cycle that it reads after its       *)
(* insert, which may be later than the one it was checked against, and so  *)
(* it is pending for all cycles from the current one on.                   *)

\* What the post of each slot adds to dimension d.
Weigh(d) == [i \in Slots |-> Total(d, posts[i].ids)]

\* The handlers admitted and not yet counted that may count in cycle c.
Pending(c) ==
    {i \in Slots :
        \/ posts[i].stage = "insert" /\ posts[i].kind = "cost" /\ c >= cycle
        \/ posts[i].stage = "cycle" /\ c >= cycle
        \/ posts[i].stage = "count" /\ tally[i].cyc = c}

SizeInv == \A i \in Slots : Cardinality(posts[i].ids) <= BatchSize

\* Nothing is counted in a cycle that has not begun.
FutureInv ==
    /\ \A c \in Cycles, d \in Dims : c > cycle => usage[c][d] = 0
    /\ \A i \in Slots : posts[i].stage = "count" => tally[i].cyc <= cycle

\* What the usage would be if all of them counted.
RoomInv ==
    \A c \in Cycles, d \in Dims :
        Cap[d] > 0 =>
            usage[c][d] + SumFunctionOnSet(Weigh(d), Pending(c))
                < Cap[d] + Cardinality(Slots) * MaxBatch[d]

\* The same for one cycle and one dimension.
RoomAt(c, d) ==
    usage[c][d] + SumFunctionOnSet(Weigh(d), Pending(c))
        < Cap[d] + Cardinality(Slots) * MaxBatch[d]

\* No post of at most BatchSize rows weighs more than MaxBatch.
LEMMA BatchBound ==
    ASSUME NEW d \in Dims
    PROVE  /\ MaxBatch[d] \in Nat
           /\ \A ids \in SUBSET Ids :
                 Cardinality(ids) <= BatchSize => Total(d, ids) <= MaxBatch[d]
<1>. DEFINE Bs == {ids \in SUBSET Ids : Cardinality(ids) <= BatchSize}
            f == [b \in Bs |-> Total(d, b)]
<1>1. IsFiniteSet(Bs)
  <2>1. IsFiniteSet(SUBSET Ids)
    BY TotalType, FS_SUBSET
  <2>. QED
    BY <2>1, FS_Subset
<1>2. {} \in Bs
  BY FS_EmptySet, BatchSizeAssumption
<1>3. \A b \in Bs : f[b] \in Nat
  BY TotalType
<1>4. MaxBatch[d] = Max({f[b] : b \in Bs})
  <2>1. {f[b] : b \in Bs} = {Total(d, b) : b \in Bs}
    OBVIOUS
  <2>. QED
    BY <2>1 DEF MaxBatch
<1>5. \A b \in Bs : f[b] = Total(d, b)
  OBVIOUS
<1>6. \A ids \in SUBSET Ids : Cardinality(ids) <= BatchSize => ids \in Bs
  OBVIOUS
<1>. HIDE DEF f, Bs
<1>7. /\ Max({f[x] : x \in Bs}) \in {f[x] : x \in Bs}
      /\ \A y \in Bs : f[y] <= Max({f[x] : x \in Bs})
  <2>1. Bs # {} /\ \A x \in Bs : f[x] \in Int
    BY <1>2, <1>3
  <2>. QED
    BY <1>1, <2>1, MaxValue
<1>8. MaxBatch[d] \in Nat
  BY <1>3, <1>4, <1>7
<1>. QED
  BY <1>4, <1>5, <1>6, <1>7, <1>8

\* What any set of posts of at most BatchSize rows adds up to.
LEMMA PostsBound ==
    ASSUME NEW d \in Dims, NEW S \in SUBSET Slots, NEW w,
           \A i \in S : \E ids \in SUBSET Ids :
               w[i] = Total(d, ids) /\ Cardinality(ids) <= BatchSize
    PROVE  /\ SumFunctionOnSet(w, S) \in Nat
           /\ SumFunctionOnSet(w, S) <= Cardinality(Slots) * MaxBatch[d]
<1>. DEFINE m == MaxBatch[d]
            n == Cardinality(S)
            all == Cardinality(Slots)
            sum == SumFunctionOnSet(w, S)
<1>1. IsFiniteSet(S) /\ n \in Nat /\ all \in Nat /\ n <= all
  BY SlotsAssumption, FS_Subset, FS_CardinalityType
<1>2. m \in Nat /\ \A i \in S : w[i] \in Nat /\ w[i] <= m
  BY BatchBound, TotalType
<1>3. sum \in Nat /\ sum <= n * m
  <2>. HIDE DEF m
  <2>. QED
    BY <1>1, <1>2, SumBound
<1>. HIDE DEF m, n, all, sum
<1>4. n * m <= all * m
  BY <1>1, <1>2, TimesLess
<1>5. n * m \in Nat /\ all * m \in Nat
  BY <1>1, <1>2
<1>6. sum \in Nat /\ sum <= all * m
  BY <1>3, <1>4, <1>5
<1>. QED
  BY <1>6 DEF sum, all, m

\* A cycle that is below its cap after a step has room for all of them.
LEMMA RoomBelowCap ==
    ASSUME Shape', SizeInv', NEW c, NEW d \in Dims, usage'[c][d] \in Nat, usage'[c][d] < Cap[d]
    PROVE  RoomAt(c, d)'
<1>. DEFINE sum == SumFunctionOnSet(Weigh(d)', Pending(c)')
            room == Cardinality(Slots) * MaxBatch[d]
            u == usage'[c][d]
            cap == Cap[d]
<1>1. sum \in Nat /\ sum <= room
  <2>1. Pending(c)' \in SUBSET Slots
    BY DEF Pending
  <2>2. \A i \in Slots : /\ Weigh(d)'[i] = Total(d, posts'[i].ids)
                         /\ posts'[i].ids \in SUBSET Ids /\ Cardinality(posts'[i].ids) <= BatchSize
    BY DEF Weigh, SizeInv, Shape, Post, Total
  <2>. QED
    BY <2>1, <2>2, PostsBound
<1>2. u \in Nat /\ cap \in Nat /\ u < cap
  BY CapAssumption
<1>3. room \in Nat
  <2>1. Cardinality(Slots) \in Nat /\ MaxBatch[d] \in Nat
    BY SlotsAssumption, FS_CardinalityType, BatchBound
  <2>. QED
    BY <2>1
<1>4. RoomAt(c, d)' <=> u + sum < cap + room
  BY DEF RoomAt, MaxBatch, Total
<1>. HIDE DEF sum, room, u, cap
<1>. QED
  BY <1>1, <1>2, <1>3, <1>4

\* No handler joins those that may count in cycle c.
NoneJoins(c) ==
    \A j \in Slots :
        j \in Pending(c)' => j \in Pending(c) /\ posts'[j].ids = posts[j].ids

\* The pending weight of a state, and of the next one when none joins.
LEMMA PendingShrinks ==
    ASSUME Shape, NEW c, NEW d \in Dims, NEW S \in SUBSET Pending(c),
           \A j \in S : posts'[j].ids = posts[j].ids
    PROVE  /\ SumFunctionOnSet(Weigh(d), Pending(c)) \in Nat
           /\ SumFunctionOnSet(Weigh(d), S) \in Nat
           /\ SumFunctionOnSet(Weigh(d), S) <= SumFunctionOnSet(Weigh(d), Pending(c))
           /\ SumFunctionOnSet(Weigh(d)', S) = SumFunctionOnSet(Weigh(d), S)
<1>1. Pending(c) \in SUBSET Slots /\ S \in SUBSET Slots
  BY DEF Pending
<1>2. IsFiniteSet(Pending(c)) /\ IsFiniteSet(S)
  BY <1>1, SlotsAssumption, FS_Subset
<1>3. \A j \in Slots : Weigh(d)[j] \in Nat
  <2>1. \A j \in Slots : posts[j].ids \in SUBSET Ids
    BY DEF Shape, Post
  <2>. QED
    BY <2>1, TotalType DEF Weigh
<1>4. \A j \in S : Weigh(d)'[j] = Weigh(d)[j]
  BY <1>1 DEF Weigh, Total
<1>5. \A j \in Pending(c) : Weigh(d)[j] \in Nat
  BY <1>1, <1>3
<1>6. SumFunctionOnSet(Weigh(d), Pending(c)) \in Nat
  BY <1>2, <1>5, SumNat
<1>7. SumFunctionOnSet(Weigh(d), S) \in Nat
  BY <1>1, <1>2, <1>3, SumNat
<1>8. SumFunctionOnSet(Weigh(d), S) <= SumFunctionOnSet(Weigh(d), Pending(c))
  BY <1>2, <1>5, SumSubset
<1>9. SumFunctionOnSet(Weigh(d)', S) = SumFunctionOnSet(Weigh(d), S)
  BY <1>2, <1>4, SumSame
<1>. QED
  BY <1>6, <1>7, <1>8, <1>9

\* When none joins and nothing is counted the room remains.
LEMMA RoomStays ==
    ASSUME TypeInv, NEW c \in Cycles, NEW d \in Dims, RoomAt(c, d),
           usage'[c] = usage[c], NoneJoins(c)
    PROVE  RoomAt(c, d)'
<1>. DEFINE old == SumFunctionOnSet(Weigh(d), Pending(c))
            new == SumFunctionOnSet(Weigh(d)', Pending(c)')
            room == Cap[d] + Cardinality(Slots) * MaxBatch[d]
            u == usage[c][d]
<1>1. old \in Nat /\ new \in Nat /\ new <= old
  <2>1. Pending(c)' \in SUBSET Pending(c)
    BY DEF NoneJoins, Pending
  <2>2. \A j \in Pending(c)' : posts'[j].ids = posts[j].ids
    BY DEF NoneJoins, Pending
  <2>3. Shape
    BY DEF TypeInv, IndInv
  <2>. QED
    BY <2>1, <2>2, <2>3, PendingShrinks
<1>2. u \in Nat /\ room \in Nat
  <2>1. Cardinality(Slots) \in Nat /\ MaxBatch[d] \in Nat /\ Cap[d] \in Nat
    BY SlotsAssumption, FS_CardinalityType, BatchBound, CapAssumption
  <2>2. room \in Nat
    BY <2>1
  <2>. QED
    BY <2>2 DEF TypeInv, CloudRest
<1>3. RoomAt(c, d) <=> u + old < room
  BY DEF RoomAt
<1>4. RoomAt(c, d)' <=> u + new < room
  BY DEF RoomAt, MaxBatch, Total
<1>. HIDE DEF old, new, room, u
<1>. QED
  BY <1>1, <1>2, <1>3, <1>4

\* A handler that counts leaves the pending ones with what it adds.
LEMMA RoomCounted ==
    ASSUME TypeInv, NEW i \in Slots, CountUsage(i), NEW c \in Cycles, c = tally[i].cyc,
           NEW d \in Dims, RoomAt(c, d)
    PROVE  RoomAt(c, d)'
<1>. DEFINE S == Pending(c) \ {i}
            old == SumFunctionOnSet(Weigh(d), Pending(c))
            rest == SumFunctionOnSet(Weigh(d), S)
            room == Cap[d] + Cardinality(Slots) * MaxBatch[d]
            u == usage[c][d]
            w == Total(d, posts[i].ids)
<1>0. /\ \A j \in Slots : j # i => posts'[j] = posts[j] /\ tally'[j] = tally[j]
      /\ posts'[i].ids = posts[i].ids /\ posts[i].ids \in SUBSET Ids
  BY CountsMoves DEF Counts
<1>1. posts[i].stage = "count" /\ i \in Pending(c) /\ cycle' = cycle
  BY DEF CountUsage, Pending
<1>2. posts'[i].stage \in {"notify", "respond"}
  <2>1. PICK st \in {"notify", "respond"} : Goto(i, st)
    BY DEF CountUsage
  <2>2. posts' = [posts EXCEPT ![i] = [posts[i] EXCEPT !.stage = st]] /\ posts[i] \in Post
    BY <2>1 DEF Goto, TypeInv, IndInv, Shape
  <2>. QED
    BY <2>2 DEF Post, TypeInv, IndInv, Shape
<1>3. Pending(c)' = S
  BY <1>0, <1>1, <1>2 DEF Pending
<1>4. old = w + rest /\ rest \in Nat /\ SumFunctionOnSet(Weigh(d)', S) = rest
  <2>1. Shape
    BY DEF TypeInv, IndInv
  <2>2. IsFiniteSet(Pending(c)) /\ \A j \in Pending(c) : Weigh(d)[j] \in Int
    <3>1. Pending(c) \in SUBSET Slots
      BY DEF Pending
    <3>2. \A j \in Slots : posts[j].ids \in SUBSET Ids
      BY <2>1 DEF Shape, Post
    <3>3. \A j \in Slots : Weigh(d)[j] \in Nat
      BY <3>2, TotalType DEF Weigh
    <3>. QED
      BY <3>1, <3>3, SlotsAssumption, FS_Subset
  <2>3. old = Weigh(d)[i] + rest
    BY <1>1, <2>2, SumRemove
  <2>4. Weigh(d)[i] = w
    BY DEF Weigh
  <2>5. S \in SUBSET Pending(c) /\ \A j \in S : posts'[j].ids = posts[j].ids
    BY <1>0 DEF Pending
  <2>. HIDE DEF S
  <2>6. rest \in Nat /\ SumFunctionOnSet(Weigh(d)', S) = rest
    BY <2>1, <2>5, PendingShrinks
  <2>. QED
    BY <2>3, <2>4, <2>6
<1>5. usage'[c][d] = u + w
  <2>. DEFINE now == [e \in Dims |-> usage[c][e] + Total(e, posts[i].ids)]
  <2>1. usage' = [usage EXCEPT ![c] = now]
    BY DEF CountUsage
  <2>2. now[d] = u + w
    OBVIOUS
  <2>. HIDE DEF now
  <2>. QED
    BY <2>1, <2>2 DEF TypeInv, CloudRest
<1>6. u \in Nat /\ w \in Nat /\ room \in Nat
  <2>1. Cardinality(Slots) \in Nat /\ MaxBatch[d] \in Nat /\ Cap[d] \in Nat
    BY SlotsAssumption, FS_CardinalityType, BatchBound, CapAssumption
  <2>2. room \in Nat
    BY <2>1
  <2>3. w \in Nat
    BY <1>0, TotalType
  <2>. QED
    BY <2>2, <2>3 DEF TypeInv, CloudRest
<1>7. RoomAt(c, d) <=> u + old < room
  BY DEF RoomAt
<1>8. RoomAt(c, d)' <=> (u + w) + rest < room
  <2>1. RoomAt(c, d)' <=> usage'[c][d] + SumFunctionOnSet(Weigh(d)', Pending(c)') < room
    BY DEF RoomAt, MaxBatch, Total
  <2>. QED
    BY <1>3, <1>4, <1>5, <2>1
<1>. HIDE DEF S, old, rest, room, u, w
<1>. QED
  BY <1>4, <1>6, <1>7, <1>8

\* A fetch reads no more than a batch.
LEMMA FetchSize ==
    ASSUME Shape, NEW k \in Kinds
    PROVE  Cardinality(FetchUnsynced(k)) <= BatchSize
<1>1. Unsynced(k) \in SUBSET Int /\ Unsynced(k) \subseteq Ids
  BY MaxRowsAssumption DEF Shape, Unsynced, Ids
<1>2. IsFiniteSet(Unsynced(k))
  BY <1>1, TotalType, FS_Subset
<1>3. BatchSize \in Nat
  BY BatchSizeAssumption
<1>. QED
  BY <1>1, <1>2, <1>3, FirstN DEF FetchUnsynced, Oldest

\* Which slot a step writes: nobody's, a freed one, a fresh one, or its own.
LEMMA SlotWritten ==
    ASSUME TypeInv, [Next]_vars
    PROVE  \/ posts' = posts /\ (tally' = tally)
           \/ \E i \in Slots :
                 /\ \A j \in Slots : j # i => posts'[j] = posts[j] /\ tally'[j] = tally[j]
                 /\ \/ posts'[i].ids = posts[i].ids
                    \/ posts'[i] = Free
                    \/ /\ posts'[i].stage = "sent"
                       /\ \E k \in Kinds : posts'[i].ids = FetchUnsynced(k)
<1>0. /\ posts \in [Slots -> Post] /\ tally \in [Slots -> [cyc : Cycles, new : Nat]]
      /\ override \in 0..MaxOverride
  BY DEF TypeInv, IndInv, Shape, CloudRest
<1>1. CASE \/ \E k \in Kinds : LocalRow(k)
           \/ NewCycle \/ RevokeKey \/ MemberJoins \/ SetOverride \/ Tick \/ SyncNow
           \/ \E s \in Syncers : \/ Skip(s) \/ MarkSynced(s) \/ BackoffEnds(s)
                                 \/ MarkFails(s) \/ Timeout(s) \/ Killed(s)
           \/ UNCHANGED vars
  BY <1>1 DEF LocalRow, NewCycle, RevokeKey, MemberJoins, SetOverride, Tick, SyncNow, Skip,
     MarkSynced, BackoffEnds, MarkFails, Timeout, Killed, vars, cloudVars, countVars
<1>2. ASSUME NEW s \in Syncers, Push(s)
      PROVE  \E i \in Slots :
                /\ \A j \in Slots : j # i => posts'[j] = posts[j] /\ tally'[j] = tally[j]
                /\ posts'[i].stage = "sent" /\ \E k \in Kinds : posts'[i].ids = FetchUnsynced(k)
  <2>. DEFINE k == Kind(s)
              ids == FetchUnsynced(k)
              q == [Free EXCEPT !.stage = "sent", !.kind = k, !.ids = ids]
  <2>1. PICK i \in Slots : posts' = [posts EXCEPT ![i] = q]
    BY <1>2 DEF Push
  <2>2. tally' = tally
    BY <1>2 DEF Push, cloudVars, countVars
  <2>3. q.stage = "sent" /\ q.ids = ids
    BY DEF Free
  <2>4. k \in Kinds
    BY DEF Kind, Kinds
  <2>. HIDE DEF q
  <2>5. posts'[i] = q /\ \A j \in Slots : j # i => posts'[j] = posts[j]
    BY <1>0, <2>1
  <2>. QED
    BY <2>2, <2>3, <2>4, <2>5
<1>3. ASSUME NEW s \in Syncers, Receive(s)
      PROVE  \E i \in Slots :
                /\ \A j \in Slots : j # i => posts'[j] = posts[j] /\ tally'[j] = tally[j]
                /\ posts'[i] = Free
  <2>1. wait[s] \in Slots /\ posts' = [posts EXCEPT ![wait[s]] = Free]
    BY <1>3, WaitsForSlot DEF Receive, TypeInv
  <2>2. tally' = tally
    BY <1>3 DEF Receive, cloudVars, countVars
  <2>. QED
    BY <1>0, <2>1, <2>2
<1>4. ASSUME NEW i \in Slots, Discard(i)
      PROVE  /\ \A j \in Slots : j # i => posts'[j] = posts[j] /\ tally'[j] = tally[j]
             /\ posts'[i] = Free
  BY <1>0, <1>4 DEF Discard, cloudVars, countVars
<1>5. ASSUME NEW i \in Slots,
             \/ Admit(i) \/ InsertRows(i) \/ InsertFails(i) \/ ReadCycle(i) \/ CountUsage(i)
             \/ Notify(i) \/ UsageFails(i) \/ HandlerDies(i) \/ Respond(i)
      PROVE  /\ \A j \in Slots : j # i => posts'[j] = posts[j] /\ tally'[j] = tally[j]
             /\ posts'[i].ids = posts[i].ids
  <2>1. \/ \E st \in Stages : Goto(i, st)
        \/ \E code \in Statuses : Reply(i, code)
        \/ Respond(i)
    BY <1>5 DEF Admit, InsertRows, InsertFails, ReadCycle, CountUsage, Notify, UsageFails,
       HandlerDies, Stages, Statuses
  <2>2. \E st, code : Moved(i, st, code)
    BY <1>0, <2>1, Moves
  <2>3. tally' = tally \/ \E v : tally' = [tally EXCEPT ![i] = v]
    BY <1>5 DEF Admit, InsertRows, InsertFails, ReadCycle, CountUsage, Notify, UsageFails,
       HandlerDies, Respond, CutShort, cloudVars, countVars
  <2>. QED
    BY <1>0, <2>2, <2>3 DEF Moved
<1>. QED
  BY <1>1, <1>2, <1>3, <1>4, <1>5 DEF Next, SyncerStep, HandlerStep

\* No post ever carries more than a batch.
LEMMA NextSize == ASSUME TypeInv, SizeInv, [Next]_vars PROVE SizeInv'
<1>1. Shape
  BY DEF TypeInv, IndInv
<1>2. \A k \in Kinds : Cardinality(FetchUnsynced(k)) <= BatchSize
  BY <1>1, FetchSize
<1>3. Free.ids = {} /\ Cardinality({}) <= BatchSize
  BY FS_EmptySet, BatchSizeAssumption DEF Free
<1>. QED
  BY <1>2, <1>3, SlotWritten DEF SizeInv

\* When only slot i moves, whether a handler joins depends on its post.
LEMMA JoinsBySlot ==
    ASSUME NEW i \in Slots, NEW c \in Cycles, cycle' = cycle,
           \A j \in Slots : j # i => posts'[j] = posts[j] /\ tally'[j] = tally[j],
           i \in Pending(c)' => i \in Pending(c) /\ posts'[i].ids = posts[i].ids
    PROVE  NoneJoins(c)
<1>. SUFFICES ASSUME NEW j \in Slots, j \in Pending(c)'
              PROVE  j \in Pending(c) /\ posts'[j].ids = posts[j].ids
  BY DEF NoneJoins
<1>1. CASE j = i
  BY <1>1
<1>2. CASE j # i
  BY <1>2 DEF Pending
<1>. QED
  BY <1>1, <1>2

\* Nobody joins but a handler that the quota admits; nobody counts but a
\* handler that has joined, in the cycle that it read.
LEMMA WhoJoins ==
    ASSUME TypeInv, [Next]_vars,
           ~(\E i \in Slots : CountUsage(i)),
           ~(\E i \in Slots : Admit(i) /\ ~OverQuota)
    PROVE  /\ usage' = usage /\ cycle' >= cycle
           /\ \A c \in Cycles : NoneJoins(c)
           /\ \A i \in Slots : posts'[i].stage = "count" =>
                 tally'[i].cyc = cycle \/ (posts[i].stage = "count" /\ tally'[i].cyc = tally[i].cyc)
<1>. DEFINE Counting == \A i \in Slots : posts'[i].stage = "count" =>
                 tally'[i].cyc = cycle \/ (posts[i].stage = "count" /\ tally'[i].cyc = tally[i].cyc)
            Goal == /\ usage' = usage /\ cycle' >= cycle
                    /\ \A c \in Cycles : NoneJoins(c)
                    /\ Counting
<1>0. /\ posts \in [Slots -> Post] /\ tally \in [Slots -> [cyc : Cycles, new : Nat]]
      /\ override \in 0..MaxOverride /\ cycle \in Nat
  BY BoundsAssumption DEF TypeInv, IndInv, Shape, CloudRest, Cycles
<1>1. ASSUME posts' = posts, tally' = tally, usage' = usage, cycle' >= cycle, cycle' \in Nat
      PROVE  Goal
  <2>1. \A c \in Cycles : c >= cycle' => c >= cycle
    BY <1>0, <1>1, BoundsAssumption DEF Cycles
  <2>2. \A c \in Cycles : NoneJoins(c)
    BY <1>1, <2>1 DEF NoneJoins, Pending
  <2>. QED
    BY <1>1, <2>2
<1>2. ASSUME NEW i \in Slots, usage' = usage, cycle' = cycle,
             \A j \in Slots : j # i => posts'[j] = posts[j] /\ tally'[j] = tally[j],
             \A c \in Cycles : i \in Pending(c)' => i \in Pending(c) /\ posts'[i].ids = posts[i].ids,
             posts'[i].stage = "count" => tally'[i].cyc = cycle
      PROVE  Goal
  <2>1. \A c \in Cycles : NoneJoins(c)
    BY <1>2, JoinsBySlot
  <2>2. Counting
    BY <1>2
  <2>3. cycle' >= cycle
    BY <1>0, <1>2
  <2>. QED
    BY <1>2, <2>1, <2>2, <2>3
<1>3. ASSUME NEW i \in Slots, usage' = usage, cycle' = cycle,
             \A j \in Slots : j # i => posts'[j] = posts[j] /\ tally'[j] = tally[j],
             posts'[i].stage \notin {"insert", "cycle", "count"}
      PROVE  Goal
  BY <1>2, <1>3 DEF Pending
<1>4. CASE \/ \E k \in Kinds : LocalRow(k)
           \/ RevokeKey \/ MemberJoins \/ SetOverride \/ Tick \/ SyncNow
           \/ \E s \in Syncers : \/ Skip(s) \/ MarkSynced(s) \/ BackoffEnds(s)
                                 \/ MarkFails(s) \/ Timeout(s) \/ Killed(s)
           \/ UNCHANGED vars
  <2>1. posts' = posts /\ tally' = tally /\ usage' = usage /\ cycle' = cycle
    BY <1>4 DEF LocalRow, RevokeKey, MemberJoins, SetOverride, Tick, SyncNow, Skip,
       MarkSynced, BackoffEnds, MarkFails, Timeout, Killed, vars, cloudVars, countVars
  <2>2. cycle' >= cycle /\ cycle' \in Nat
    BY <1>0, <2>1
  <2>. QED
    BY <1>1, <2>1, <2>2
<1>5. CASE NewCycle
  <2>1. posts' = posts /\ tally' = tally /\ usage' = usage /\ cycle' = cycle + 1
    BY <1>5 DEF NewCycle, countVars
  <2>2. cycle' >= cycle /\ cycle' \in Nat
    BY <1>0, <2>1
  <2>. QED
    BY <1>1, <2>1, <2>2
<1>6. ASSUME NEW s \in Syncers, Push(s) PROVE Goal
  <2>. DEFINE q == [Free EXCEPT !.stage = "sent", !.kind = Kind(s), !.ids = FetchUnsynced(Kind(s))]
  <2>1. PICK i \in Slots : posts' = [posts EXCEPT ![i] = q]
    BY <1>6 DEF Push
  <2>2. tally' = tally /\ usage' = usage /\ cycle' = cycle
    BY <1>6 DEF Push, cloudVars, countVars
  <2>3. q.stage = "sent"
    BY DEF Free
  <2>. HIDE DEF q
  <2>4. posts'[i].stage = "sent" /\ \A j \in Slots : j # i => posts'[j] = posts[j]
    BY <1>0, <2>1, <2>3
  <2>. QED
    BY <1>3, <2>2, <2>4
<1>7. ASSUME NEW s \in Syncers, Receive(s) PROVE Goal
  <2>1. wait[s] \in Slots /\ posts' = [posts EXCEPT ![wait[s]] = Free]
    BY <1>7, WaitsForSlot DEF Receive, TypeInv
  <2>2. tally' = tally /\ usage' = usage /\ cycle' = cycle
    BY <1>7 DEF Receive, cloudVars, countVars
  <2>3. posts'[wait[s]].stage = "free" /\ \A j \in Slots : j # wait[s] => posts'[j] = posts[j]
    BY <1>0, <2>1, FreePost
  <2>. QED
    BY <1>3, <2>1, <2>2, <2>3
<1>8. ASSUME NEW i \in Slots, Discard(i) PROVE Goal
  <2>1. tally' = tally /\ usage' = usage /\ cycle' = cycle
    BY <1>8 DEF Discard, cloudVars, countVars
  <2>2. posts'[i].stage = "free" /\ \A j \in Slots : j # i => posts'[j] = posts[j]
    BY <1>0, <1>8, FreePost DEF Discard
  <2>. QED
    BY <1>3, <2>1, <2>2
<1>9. ASSUME NEW i \in Slots,
             InsertFails(i) \/ Notify(i) \/ UsageFails(i) \/ HandlerDies(i) \/ Respond(i)
      PROVE  Goal
  <2>1. Goto(i, "respond") \/ Goto(i, "dead") \/ Reply(i, 500) \/ Respond(i)
    BY <1>9 DEF InsertFails, Notify, UsageFails, HandlerDies
  <2>2. /\ \E code : \/ Moved(i, "respond", code) \/ Moved(i, "dead", code)
                     \/ Moved(i, "replied", code)
    BY <1>0, <2>1, Moves DEF Stages, Statuses
  <2>3. /\ usage' = usage /\ cycle' = cycle
        /\ tally' = tally \/ \E v : tally' = [tally EXCEPT ![i] = v]
    BY <1>9 DEF InsertFails, Notify, UsageFails, HandlerDies, Respond, CutShort, cloudVars, countVars
  <2>4. \A j \in Slots : j # i => posts'[j] = posts[j] /\ tally'[j] = tally[j]
    BY <1>0, <2>2, <2>3 DEF Moved
  <2>5. posts'[i].stage \notin {"insert", "cycle", "count"}
    BY <2>2 DEF Moved
  <2>. QED
    BY <1>3, <2>3, <2>4, <2>5
<1>10. ASSUME NEW i \in Slots, Admit(i) PROVE Goal
  <2>1. OverQuota
    BY <1>10
  <2>2. /\ tally' = tally /\ usage' = usage /\ cycle' = cycle
    BY <1>10 DEF Admit, cloudVars, countVars
  <2>3. CASE \E code \in Statuses : Reply(i, code)
    <3>1. \E code : Moved(i, "replied", code)
      BY <1>0, <2>3, Moves
    <3>2. /\ posts'[i].stage \notin {"insert", "cycle", "count"}
          /\ \A j \in Slots : j # i => posts'[j] = posts[j]
      BY <3>1 DEF Moved
    <3>. QED
      BY <1>3, <2>2, <3>2
  <2>4. CASE posts[i].kind # "cost" /\ Goto(i, "insert")
    <3>1. Moved(i, "insert", posts[i].status)
      BY <1>0, <2>4, Moves DEF Stages
    <3>2. /\ posts'[i].stage = "insert" /\ posts'[i].kind # "cost"
          /\ \A j \in Slots : j # i => posts'[j] = posts[j]
      BY <2>4, <3>1 DEF Moved
    <3>3. \A c \in Cycles : i \notin Pending(c)'
      BY <3>2 DEF Pending
    <3>. QED
      BY <1>2, <2>2, <3>2, <3>3
  <2>. QED
    BY <1>10, <2>1, <2>3, <2>4 DEF Admit, Statuses
<1>11. ASSUME NEW i \in Slots, InsertRows(i) PROVE Goal
  <2>1. /\ tally' = tally /\ usage' = usage /\ cycle' = cycle /\ posts[i].stage = "insert"
    BY <1>11 DEF InsertRows, countVars
  <2>2. CASE posts[i].kind = "cost"
    <3>1. Goto(i, "cycle")
      BY <1>11, <2>2 DEF InsertRows
    <3>2. Moved(i, "cycle", posts[i].status)
      BY <1>0, <3>1, Moves DEF Stages
    <3>3. /\ posts'[i].stage = "cycle" /\ posts'[i].ids = posts[i].ids
          /\ \A j \in Slots : j # i => posts'[j] = posts[j]
      BY <3>2 DEF Moved
    <3>4. \A c \in Cycles : i \in Pending(c)' => i \in Pending(c)
      BY <2>1, <2>2, <3>3 DEF Pending
    <3>. QED
      BY <1>2, <2>1, <3>3, <3>4
  <2>3. CASE posts[i].kind # "cost"
    <3>1. Goto(i, "respond")
      BY <1>11, <2>3 DEF InsertRows
    <3>2. Moved(i, "respond", posts[i].status)
      BY <1>0, <3>1, Moves DEF Stages
    <3>3. /\ posts'[i].stage = "respond"
          /\ \A j \in Slots : j # i => posts'[j] = posts[j]
      BY <3>2 DEF Moved
    <3>. QED
      BY <1>3, <2>1, <3>3
  <2>. QED
    BY <2>2, <2>3
<1>12. ASSUME NEW i \in Slots, ReadCycle(i) PROVE Goal
  <2>1. /\ usage' = usage /\ cycle' = cycle /\ posts[i].stage = "cycle"
        /\ tally' = [tally EXCEPT ![i] = [tally[i] EXCEPT !.cyc = cycle]]
    BY <1>12 DEF ReadCycle
  <2>2. tally'[i].cyc = cycle /\ \A j \in Slots : j # i => tally'[j] = tally[j]
    BY <1>0, <2>1
  <2>3. Moved(i, "count", posts[i].status)
    BY <1>0, <1>12, Moves DEF Stages, ReadCycle
  <2>4. /\ posts'[i].stage = "count" /\ posts'[i].ids = posts[i].ids
        /\ \A j \in Slots : j # i => posts'[j] = posts[j]
    BY <2>3 DEF Moved
  <2>5. \A c \in Cycles : i \in Pending(c)' => i \in Pending(c)
    BY <1>0, <2>1, <2>2, <2>4 DEF Pending
  <2>. QED
    BY <1>2, <2>1, <2>2, <2>4, <2>5
<1>. QED
  BY <1>4, <1>5, <1>6, <1>7, <1>8, <1>9, <1>10, <1>11, <1>12 DEF Next, SyncerStep, HandlerStep

\* Cycles that have not begun stay empty.
LEMMA NextFuture == ASSUME TypeInv, FutureInv, [Next]_vars PROVE FutureInv'
<1>0. /\ cycle \in Nat /\ tally \in [Slots -> [cyc : Cycles, new : Nat]]
      /\ \A c \in Cycles : c \in Nat
  BY BoundsAssumption DEF TypeInv, CloudRest, Cycles
<1>1. ASSUME NEW i \in Slots, CountUsage(i) PROVE FutureInv'
  <2>0. /\ \A j \in Slots : j # i => posts'[j] = posts[j] /\ tally'[j] = tally[j]
        /\ posts[i].stage = "count" /\ cycle' = cycle /\ tally[i].cyc \in Cycles
    BY <1>1, CountsMoves DEF Counts, CountUsage
  <2>1. posts'[i].stage # "count"
    <3>1. PICK st \in {"notify", "respond"} : Goto(i, st)
      BY <1>1 DEF CountUsage
    <3>2. posts' = [posts EXCEPT ![i] = [posts[i] EXCEPT !.stage = st]] /\ posts[i] \in Post
      BY <3>1 DEF Goto, TypeInv, IndInv, Shape
    <3>. QED
      BY <3>2 DEF Post, TypeInv, IndInv, Shape
  <2>2. \A j \in Slots : posts'[j].stage = "count" => tally'[j].cyc <= cycle'
    BY <2>0, <2>1 DEF FutureInv
  <2>3. \A c \in Cycles : c > cycle => usage'[c] = usage[c]
    <3>1. tally[i].cyc <= cycle
      BY <2>0 DEF FutureInv
    <3>2. \A c \in Cycles : c > cycle => c # tally[i].cyc
      BY <1>0, <2>0, <3>1
    <3>3. \E now : usage' = [usage EXCEPT ![tally[i].cyc] = now]
      BY <1>1 DEF CountUsage
    <3>. QED
      BY <3>2, <3>3 DEF TypeInv, CloudRest
  <2>. QED
    BY <2>0, <2>2, <2>3 DEF FutureInv
<1>2. ASSUME NEW i \in Slots, Admit(i) PROVE FutureInv'
  <2>1. /\ tally' = tally /\ usage' = usage /\ cycle' = cycle
    BY <1>2 DEF Admit, cloudVars, countVars
  <2>2. \E st, code : Moved(i, st, code) /\ st # "count"
    <3>1. Goto(i, "insert") \/ \E code \in Statuses : Reply(i, code)
      BY <1>2 DEF Admit, Statuses
    <3>. QED
      BY <3>1, Moves DEF TypeInv, IndInv, Shape, Stages
  <2>3. \A j \in Slots : posts'[j].stage = "count" => posts[j].stage = "count"
    BY <2>2 DEF Moved
  <2>. QED
    BY <2>1, <2>3 DEF FutureInv
<1>3. CASE ~(\E i \in Slots : CountUsage(i)) /\ ~(\E i \in Slots : Admit(i) /\ ~OverQuota)
  <2>1. /\ usage' = usage /\ cycle' >= cycle
        /\ \A i \in Slots : posts'[i].stage = "count" =>
             tally'[i].cyc = cycle \/ (posts[i].stage = "count" /\ tally'[i].cyc = tally[i].cyc)
    BY <1>3, WhoJoins
  <2>2. cycle' \in Nat /\ \A i \in Slots : tally[i].cyc \in Nat
    <3>1. CloudRest'
      BY NextCloudRest DEF TypeInv
    <3>. QED
      BY <1>0, <3>1, BoundsAssumption DEF CloudRest, Cycles
  <2>3. \A c \in Cycles, d \in Dims : c > cycle' => usage'[c][d] = 0
    BY <1>0, <2>1, <2>2 DEF FutureInv
  <2>4. \A i \in Slots : posts'[i].stage = "count" => tally'[i].cyc <= cycle'
    BY <1>0, <2>1, <2>2 DEF FutureInv
  <2>. QED
    BY <2>3, <2>4 DEF FutureInv
<1>. QED
  BY <1>1, <1>2, <1>3

\* A handler that the quota admits found every capped dimension of its cycle
\* below the cap, and the cycles to come are empty.
LEMMA AdmitRoom ==
    ASSUME TypeInv, SizeInv, FutureInv, RoomInv, NEW i \in Slots, Admit(i), ~OverQuota,
           Shape', SizeInv', NEW c \in Cycles, NEW d \in Dims, Cap[d] > 0
    PROVE  RoomAt(c, d)'
<1>0. /\ tally' = tally /\ usage' = usage /\ cycle' = cycle
      /\ cycle \in Nat /\ c \in Nat /\ usage[c][d] \in Nat /\ cycle \in Cycles
      /\ usage[cycle][d] \in Nat /\ Cap[d] \in Nat
  BY BoundsAssumption, CapAssumption DEF Admit, cloudVars, countVars, TypeInv, CloudRest, Cycles
<1>1. CASE c = cycle
  <2>1. usage[c][d] < Cap[d]
    BY <1>0, <1>1 DEF OverQuota
  <2>. QED
    BY <1>0, <2>1, RoomBelowCap
<1>2. CASE c > cycle
  <2>1. usage[c][d] < Cap[d]
    BY <1>0, <1>2 DEF FutureInv
  <2>. QED
    BY <1>0, <2>1, RoomBelowCap
<1>3. CASE c < cycle
  <2>1. \E st, code : Moved(i, st, code) /\ st \in {"insert", "replied"}
    <3>1. Goto(i, "insert") \/ \E code \in Statuses : Reply(i, code)
      BY DEF Admit, Statuses
    <3>. QED
      BY <3>1, Moves DEF TypeInv, IndInv, Shape, Stages
  <2>2. posts'[i].stage \in {"insert", "replied"} /\ \A j \in Slots : j # i => posts'[j] = posts[j]
    BY <2>1 DEF Moved
  <2>3. ~(c >= cycle)
    BY <1>0, <1>3
  <2>4. i \notin Pending(c)'
    BY <1>0, <2>2, <2>3 DEF Pending
  <2>5. NoneJoins(c)
    BY <1>0, <2>2, <2>4, JoinsBySlot
  <2>6. RoomAt(c, d)
    BY DEF RoomInv, RoomAt
  <2>. QED
    BY <1>0, <2>5, <2>6, RoomStays
<1>. QED
  BY <1>0, <1>1, <1>2, <1>3

\* Every step leaves room for the handlers that may still count.
LEMMA NextRoom ==
    ASSUME TypeInv, SizeInv, FutureInv, RoomInv, [Next]_vars, TypeInv', SizeInv'
    PROVE  RoomInv'
<1>. SUFFICES ASSUME NEW c \in Cycles, NEW d \in Dims, Cap[d] > 0 PROVE RoomAt(c, d)'
  BY DEF RoomInv, RoomAt
<1>0. RoomAt(c, d) /\ Shape'
  BY DEF RoomInv, RoomAt, TypeInv, IndInv
<1>1. ASSUME NEW i \in Slots, CountUsage(i) PROVE RoomAt(c, d)'
  <2>1. CASE c = tally[i].cyc
    BY <1>0, <1>1, <2>1, RoomCounted
  <2>2. CASE c # tally[i].cyc
    <3>0. /\ \A j \in Slots : j # i => posts'[j] = posts[j] /\ tally'[j] = tally[j]
          /\ cycle' = cycle
      BY <1>1, CountsMoves DEF Counts, CountUsage
    <3>1. posts'[i].stage \in {"notify", "respond"}
      <4>1. PICK st \in {"notify", "respond"} : Goto(i, st)
        BY <1>1 DEF CountUsage
      <4>2. posts' = [posts EXCEPT ![i] = [posts[i] EXCEPT !.stage = st]] /\ posts[i] \in Post
        BY <4>1 DEF Goto, TypeInv, IndInv, Shape
      <4>. QED
        BY <4>2 DEF Post, TypeInv, IndInv, Shape
    <3>2. i \notin Pending(c)'
      BY <3>1 DEF Pending
    <3>3. NoneJoins(c)
      BY <3>0, <3>2, JoinsBySlot
    <3>4. usage'[c] = usage[c]
      BY <1>1, <2>2 DEF CountUsage, TypeInv, CloudRest
    <3>. QED
      BY <1>0, <3>3, <3>4, RoomStays
  <2>. QED
    BY <2>1, <2>2
<1>2. ASSUME NEW i \in Slots, Admit(i), ~OverQuota PROVE RoomAt(c, d)'
  BY <1>0, <1>2, AdmitRoom
<1>3. CASE ~(\E i \in Slots : CountUsage(i)) /\ ~(\E i \in Slots : Admit(i) /\ ~OverQuota)
  <2>1. usage' = usage /\ NoneJoins(c)
    BY <1>3, WhoJoins
  <2>. QED
    BY <1>0, <2>1, RoomStays
<1>. QED
  BY <1>1, <1>2, <1>3

QuotaInv == TypeInv /\ SizeInv /\ FutureInv /\ RoomInv

\* The usage of a cycle exceeds its cap by less than one batch for every post
\* that the backend handles at a time: _check_quota_or_raise() and the count
\* of the same handler are far apart, and nothing holds the others back.
THEOREM QuotaOvershootBounded == Spec => []QuotaOvershoot
<1>1. Init => QuotaInv
  <2>. SUFFICES ASSUME Init PROVE QuotaInv
    OBVIOUS
  <2>1. TypeInv
    BY InitInv, InitRest DEF TypeInv
  <2>2. SizeInv
    <3>1. Cardinality({}) <= BatchSize
      BY FS_EmptySet, BatchSizeAssumption
    <3>2. \A i \in Slots : posts[i].ids = {}
      BY DEF Init, Free
    <3>. QED
      BY <3>1, <3>2 DEF SizeInv
  <2>3. FutureInv
    BY DEF Init, Free, FutureInv
  <2>4. RoomInv
    <3>. SUFFICES ASSUME NEW c \in Cycles, NEW d \in Dims, Cap[d] > 0 PROVE RoomAt(c, d)
      BY DEF RoomInv, RoomAt
    <3>1. usage[c][d] = 0
      BY DEF Init
    <3>2. Pending(c) = {}
      BY DEF Init, Free, Pending
    <3>3. SumFunctionOnSet(Weigh(d), Pending(c)) = 0
      BY <3>2, SumEmpty
    <3>. DEFINE cap == Cap[d]
                room == Cardinality(Slots) * MaxBatch[d]
    <3>4. cap \in Nat /\ cap > 0 /\ room \in Nat
      <4>1. Cardinality(Slots) \in Nat /\ MaxBatch[d] \in Nat
        BY SlotsAssumption, FS_CardinalityType, BatchBound
      <4>. QED
        BY <4>1, CapAssumption
    <3>5. RoomAt(c, d) <=> 0 + 0 < cap + room
      BY <3>1, <3>3 DEF RoomAt
    <3>. HIDE DEF cap, room
    <3>. QED
      BY <3>4, <3>5
  <2>. QED
    BY <2>1, <2>2, <2>3, <2>4 DEF QuotaInv
<1>2. QuotaInv /\ [Next]_vars => QuotaInv'
  BY NextTypes, NextSize, NextFuture, NextRoom DEF QuotaInv
<1>3. QuotaInv => QuotaOvershoot
  <2>. SUFFICES ASSUME QuotaInv, NEW c \in Cycles, NEW d \in Dims, Cap[d] > 0
                PROVE  usage[c][d] < Cap[d] + Cardinality(Slots) * MaxBatch[d]
    BY DEF QuotaOvershoot
  <2>. DEFINE sum == SumFunctionOnSet(Weigh(d), Pending(c))
              u == usage[c][d]
              room == Cap[d] + Cardinality(Slots) * MaxBatch[d]
  <2>1. u + sum < room
    BY DEF QuotaInv, RoomInv
  <2>2. u \in Nat
    BY DEF QuotaInv, TypeInv, CloudRest
  <2>3. sum \in Nat
    <3>1. Pending(c) \in SUBSET Slots
      BY DEF Pending
    <3>2. \A i \in Slots : /\ Weigh(d)[i] = Total(d, posts[i].ids)
                           /\ posts[i].ids \in SUBSET Ids /\ Cardinality(posts[i].ids) <= BatchSize
      BY DEF Weigh, QuotaInv, SizeInv, TypeInv, IndInv, Shape, Post
    <3>. QED
      BY <3>1, <3>2, PostsBound
  <2>4. room \in Nat
    <3>1. Cardinality(Slots) \in Nat /\ MaxBatch[d] \in Nat /\ Cap[d] \in Nat
      BY SlotsAssumption, FS_CardinalityType, BatchBound, CapAssumption
    <3>. QED
      BY <3>1
  <2>. HIDE DEF sum, u, room
  <2>5. u < room
    BY <2>1, <2>2, <2>3, <2>4
  <2>. QED
    BY <2>5 DEF u, room
<1>. QED
  BY <1>1, <1>2, <1>3, PTL DEF Spec

=============================================================================
