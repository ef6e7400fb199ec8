--------------------------- MODULE SemanticCache ---------------------------
(***************************************************************************)
(* The semantic cache of the proxy: the lookup in front of the routing of  *)
(* a request (burnlens/proxy/interceptor.py), the table semantic_cache     *)
(* (burnlens/cache/manager.py) and the background task that saves an       *)
(* answer once it has been forwarded.                                      *)
(*                                                                         *)
(* A question stands for the pair of a system prompt's hash and the text   *)
(* of the last user message in lower case; Alike holds of the questions    *)
(* whose embeddings reach the similarity threshold (same system prompt).   *)
(* The embedding service is external and may fail.  Every request runs     *)
(* between its awaits on its own, and a save runs after the client has     *)
(* its answer.                                                             *)
(***************************************************************************)
EXTENDS Naturals, FiniteSets

CONSTANTS
    Askers,         \* requests that are in flight at once
    Customers,      \* the X-BurnLens-Tag-Customer values (one may be "none")
    Asked,          \* the questions
    Alike,          \* pairs of questions over the similarity threshold
    Modality,       \* how a request is made: [noStore, sampled]
    CacheTTL,       \* config.cache.ttl_seconds
    MaxClock,       \* bound on the clock
    NoEntry

ASSUME CacheAssumption ==
    /\ {CacheTTL, MaxClock} \subseteq Nat
    /\ Modality \subseteq [noStore : BOOLEAN, sampled : BOOLEAN]

VARIABLES
    entries,    \* semantic_cache: the row under each primary key
    inFlight,   \* the requests being handled, each with its pc
    reply,      \* the cached answer the last step served, if it served one
    clock

cacheVars == <<entries, inFlight, reply, clock>>

CacheKeys == Customers \X Asked
NotAsking == [pc |-> "idle"]
Answer == [customer : Customers, question : Asked, barred : BOOLEAN]
Entry == [answer : Answer, expires : 0..(MaxClock + CacheTTL)]
Reply == [answer : Answer, customer : Customers, question : Asked,
          late : BOOLEAN]

ASSUME NoEntryAssumption == NoEntry \notin Entry \cup Reply

(* The row's columns and its key: the model and the provider that gave the *)
(* answer are columns only.                                                *)
CacheId(answer) == <<answer.customer, answer.question>>

CacheInit ==
    /\ entries = [k \in CacheKeys |-> NoEntry]
    /\ inFlight = [a \in Askers |-> NotAsking]
    /\ reply = NoEntry
    /\ clock = 0

(* Cache-Control: no-cache or no-store, and a temperature above zero, keep *)
(* a request away from the cache.                                          *)
Cacheable(how) == ~how.noStore /\ ~how.sampled

At(a, pc) == inFlight[a].pc = pc
Goes(a, pc) == inFlight' = [inFlight EXCEPT ![a].pc = pc]

(* A request passes the caps and reaches the cache check.                  *)
AskCached(a) ==
    /\ At(a, "idle")
    /\ \E c \in Customers, q \in Asked, how \in Modality :
          inFlight' = [inFlight EXCEPT ![a] =
              [pc |-> IF Cacheable(how) THEN "exact" ELSE "forward",
               customer |-> c, question |-> q, how |-> how]]
    /\ reply' = NoEntry
    /\ UNCHANGED <<entries, clock>>

(* The rows a lookup may return: its own customer's, not yet expired.      *)
LiveForAnyone(a) ==
    {k \in CacheKeys : entries[k] # NoEntry /\ clock < entries[k].expires}
LiveAlways(a) ==
    {k \in CacheKeys : /\ entries[k] # NoEntry
                       /\ entries[k].answer.customer = inFlight[a].customer}
Live(a) ==
    {k \in CacheKeys : /\ entries[k] # NoEntry
                       /\ entries[k].answer.customer = inFlight[a].customer
                       /\ clock < entries[k].expires}

(* A hit is returned at once, as JSON or replayed as a stream, and logged  *)
(* at cost zero in the background.                                         *)
Serve(a, k) ==
    /\ reply' = [answer |-> entries[k].answer, customer |-> inFlight[a].customer,
                 question |-> inFlight[a].question,
                 late |-> clock >= entries[k].expires]
    /\ inFlight' = [inFlight EXCEPT ![a] = NotAsking]

(* Stage 1: the same question, letter case aside.                          *)
LookupExact(a) ==
    /\ At(a, "exact")
    /\ LET same == {k \in Live(a) :
                      entries[k].answer.question = inFlight[a].question}
       IN  \/ \E k \in same : Serve(a, k)
           \/ same = {} /\ Goes(a, "embed") /\ reply' = NoEntry
    /\ UNCHANGED <<entries, clock>>

(* Stage 2: the best match among the embeddings, if it is good enough; an  *)
(* embedding that cannot be had lets the request through.                  *)
LookupSemantic(a) ==
    /\ At(a, "embed")
    /\ LET near == {k \in Live(a) :
                      <<entries[k].answer.question, inFlight[a].question>>
                         \in Alike}
       IN  \E k \in near : Serve(a, k)
    /\ UNCHANGED <<entries, clock>>

LookupMisses(a) ==
    /\ At(a, "embed")
    /\ Goes(a, "forward")
    /\ reply' = NoEntry
    /\ UNCHANGED <<entries, clock>>

(* What may be saved: a 200 answer to a cacheable request.                 *)
Storable(how) == Cacheable(how)

(* The answer has been forwarded, at once or as a stream that the client   *)
(* may have left early; ok is its status 200.                              *)
ForwardAnswers(a) ==
    /\ At(a, "forward")
    /\ \E ok \in BOOLEAN :
          inFlight' = [inFlight EXCEPT ![a] =
             IF ok /\ Storable(inFlight[a].how)
             THEN [pc |-> "save",
                   answer |-> [customer |-> inFlight[a].customer,
                               question |-> inFlight[a].question,
                               barred |-> ~Cacheable(inFlight[a].how)]]
             ELSE NotAsking]
    /\ reply' = NoEntry
    /\ UNCHANGED <<entries, clock>>

(* _save_to_cache_bg: INSERT OR REPLACE once the embedding is there.       *)
SaveToCache(a) ==
    /\ At(a, "save")
    /\ entries' = [entries EXCEPT ![CacheId(inFlight[a].answer)] =
                      [answer |-> inFlight[a].answer,
                       expires |-> clock + CacheTTL]]
    /\ inFlight' = [inFlight EXCEPT ![a] = NotAsking]
    /\ reply' = NoEntry
    /\ UNCHANGED clock

SaveFails(a) ==
    /\ At(a, "save")
    /\ inFlight' = [inFlight EXCEPT ![a] = NotAsking]
    /\ reply' = NoEntry
    /\ UNCHANGED <<entries, clock>>

ClockTicks ==
    /\ clock < MaxClock
    /\ clock' = clock + 1
    /\ reply' = NoEntry
    /\ UNCHANGED <<entries, inFlight>>

CacheNext ==
    \/ \E a \in Askers :
          \/ AskCached(a)
          \/ LookupExact(a) \/ LookupSemantic(a) \/ LookupMisses(a)
          \/ ForwardAnswers(a)
          \/ SaveToCache(a) \/ SaveFails(a)
    \/ ClockTicks

-----------------------------------------------------------------------------
(* What each variable may hold.                                            *)
CacheTypeOK ==
    /\ entries \in [CacheKeys -> Entry \union {NoEntry}]
    /\ \A a \in Askers : inFlight[a].pc \in
          {"idle", "exact", "embed", "forward", "save"}
    /\ reply \in Reply \union {NoEntry}
    /\ clock \in 0..MaxClock

(* A client gets only what was answered to a request of its own customer,  *)
(* that a client allowed to be stored and that was not sampled, to the     *)
(* same question or to one over the threshold: lookup_exact,               *)
(* lookup_semantic and the conditions in front of _save_to_cache_bg.       *)
RepliesOwn ==
    reply # NoEntry =>
       /\ reply.answer.customer = reply.customer
       /\ ~reply.answer.barred
       /\ \/ reply.answer.question = reply.question
          \/ <<reply.answer.question, reply.question>> \in Alike

(* No answer is served once its time to live has passed, however a save    *)
(* of one request overlaps the lookup of another.                          *)
RepliesFresh == reply # NoEntry => ~reply.late
=============================================================================
