---------------------------- MODULE StreamIngest ----------------------------
(***************************************************************************)
(* The streaming branch of the hosted ingest (burnlens_cloud/ingest.py     *)
(* with STREAMING_ENABLED, burnlens_cloud/streaming.py) and the forwarding *)
(* of what was ingested to the customer's OTEL collector.  The process     *)
(* holds one Kafka producer, created on first use under a lock; the        *)
(* variable is set before the producer has started, so another request     *)
(* may take it too early.  send() only queues: the handler answers 200     *)
(* while the records are in the producer's memory.  The client repeats a   *)
(* batch until it has been accepted.                                       *)
(***************************************************************************)
EXTENDS Naturals, FiniteSets, FiniteSetsExt

CONSTANTS
    Posts,          \* POST /v1/ingest handlers at once
    Batches,        \* batches of a client, each of two records
    OtelConfigs,    \* what an owner may save: endpoint, key, enabled
    MaxTries        \* bound: attempts per batch

ASSUME StreamAssumption ==
    /\ IsFiniteSet(Posts) /\ MaxTries \in Nat
    /\ OtelConfigs \subseteq [endpoint : {c.endpoint : c \in OtelConfigs},
                               key : {c.key : c \in OtelConfigs}, enabled : BOOLEAN]

VARIABLES
    installed,      \* aiokafka can be imported
    producer,       \* _producer: "none", "starting", "started"
    live,           \* started producers of this process
    startLock,      \* _producer_lock: {} or the handler that holds it
    posts,          \* the handlers
    queued,         \* records in the producer's memory, with their number
    topic,          \* records in the Kafka topic, with their number
    accepted,       \* batches answered 200: the client stops sending them
    tries,          \* attempts per batch
    faults,         \* history: the process died, or a queued record expired
    otelConfig,     \* workspaces.otel_*: {} or the saved configuration
    savedConfigs,   \* history: configurations saved so far
    forwards        \* background forward tasks: [batch, config]

streamVars == <<installed, producer, live, startLock, posts, queued, topic, accepted,
                tries, faults, otelConfig, savedConfigs, forwards>>

Parts == {1, 2}
Records == Batches \X Parts
FreePost == [pc |-> "idle"]
NoCopies == [r \in Records |-> 0]

StreamInit ==
    /\ installed \in BOOLEAN
    /\ producer = "none" /\ live = 0 /\ startLock = {}
    /\ posts = [h \in Posts |-> FreePost]
    /\ queued = NoCopies /\ topic = NoCopies
    /\ accepted = {} /\ tries = [b \in Batches |-> 0] /\ faults = FALSE
    /\ otelConfig = {} /\ savedConfigs = {} /\ forwards = {}

(* A batch not yet accepted is posted; key, quota and the OTEL settings    *)
(* are read before anything is written.                                    *)
PostBatch(h) ==
    /\ posts[h].pc = "idle"
    /\ \E b \in Batches \ accepted :
          /\ tries[b] < MaxTries
          /\ tries' = [tries EXCEPT ![b] = @ + 1]
          /\ posts' = [posts EXCEPT ![h] =
                          [pc |-> "producer", batch |-> b, config |-> otelConfig]]
    /\ UNCHANGED <<installed, producer, live, startLock, queued, topic, accepted,
                   faults, otelConfig, savedConfigs, forwards>>

(* get_streaming_producer, first look: whatever is there is taken, a       *)
(* producer that is still starting too.                                    *)
ProducerTaken(h) ==
    /\ posts[h].pc = "producer" /\ installed /\ producer # "none"
    /\ posts' = [posts EXCEPT ![h].pc =
                    IF producer = "started" THEN "send" ELSE "refused"]
    /\ UNCHANGED <<installed, producer, live, startLock, queued, topic, accepted,
                   tries, faults, otelConfig, savedConfigs, forwards>>

(* Nothing there: wait for the lock, look again, create and start.         *)
SecondLookSkipped == TRUE
SecondLook == producer = "none"

ProducerAwaited(h) ==
    /\ posts[h].pc = "producer" /\ installed /\ producer = "none"
    /\ posts' = [posts EXCEPT ![h].pc = "locking"]
    /\ UNCHANGED <<installed, producer, live, startLock, queued, topic, accepted,
                   tries, faults, otelConfig, savedConfigs, forwards>>

ProducerLocked(h) ==
    /\ posts[h].pc = "locking" /\ startLock = {}
    /\ IF SecondLook
       THEN /\ producer' = "starting" /\ startLock' = {h}
            /\ posts' = [posts EXCEPT ![h].pc = "starting"]
       ELSE /\ UNCHANGED <<producer, startLock>>
            /\ posts' = [posts EXCEPT ![h].pc = "producer"]
    /\ UNCHANGED <<installed, live, queued, topic, accepted, tries, faults,
                   otelConfig, savedConfigs, forwards>>

ProducerStarted(h) ==
    /\ posts[h].pc = "starting"
    /\ startLock' = {}
    /\ \/ /\ producer' = "started" /\ live' = live + 1
          /\ posts' = [posts EXCEPT ![h].pc = "send"]
       \/ /\ producer' = "none" /\ UNCHANGED live
          /\ posts' = [posts EXCEPT ![h].pc = "refused"]
    /\ UNCHANGED <<installed, queued, topic, accepted, tries, faults,
                   otelConfig, savedConfigs, forwards>>

(* Without aiokafka the write is skipped with a warning.                   *)
StreamSkipped(h) ==
    /\ posts[h].pc = "producer" /\ ~installed
    /\ posts' = [posts EXCEPT ![h].pc = "answer"]
    /\ UNCHANGED <<installed, producer, live, startLock, queued, topic, accepted,
                   tries, faults, otelConfig, savedConfigs, forwards>>

(* gather of the sends: all queued, or an exception after some of them.    *)
SendVerdictAnyway(parts) == "answer"
SendVerdict(parts) == IF parts = Parts THEN "answer" ELSE "refused"

RecordsQueuedAgain(parts, b) ==
    [r \in Records |-> IF r[1] = b /\ r[2] \in parts THEN queued[r] + 2
                       ELSE queued[r]]
RecordsQueued(parts, b) ==
    [r \in Records |-> IF r[1] = b /\ r[2] \in parts THEN queued[r] + 1
                       ELSE queued[r]]
RecordsSent(h) ==
    /\ posts[h].pc = "send"
    /\ \E parts \in SUBSET Parts :
          /\ queued' = RecordsQueued(parts, posts[h].batch)
          /\ posts' = [posts EXCEPT ![h].pc = SendVerdict(parts)]
    /\ UNCHANGED <<installed, producer, live, startLock, topic, accepted, tries,
                   faults, otelConfig, savedConfigs, forwards>>

(* 200: usage is metered, and with OTEL enabled in the settings read at    *)
(* the start the batch is forwarded in a background task.                  *)
Answered(h) ==
    LET p == posts[h]
    IN  /\ p.pc = "answer"
        /\ accepted' = accepted \cup {p.batch}
        /\ forwards' = forwards \cup
              {[batch |-> p.batch, config |-> c] : c \in {c \in p.config : c.enabled}}
        /\ posts' = [posts EXCEPT ![h] = FreePost]
        /\ UNCHANGED <<installed, producer, live, startLock, queued, topic, tries,
                       faults, otelConfig, savedConfigs>>

(* 500 "Please retry."                                                     *)
Refused(h) ==
    /\ posts[h].pc = "refused"
    /\ posts' = [posts EXCEPT ![h] = FreePost]
    /\ UNCHANGED <<installed, producer, live, startLock, queued, topic, accepted,
                   tries, faults, otelConfig, savedConfigs, forwards>>

(* The broker acknowledges a queued record, or the producer gives it up    *)
(* after its timeout: nobody awaits the delivery (external).               *)
Delivered(r) ==
    /\ producer = "started" /\ queued[r] > 0
    /\ queued' = [queued EXCEPT ![r] = @ - 1]
    /\ \/ topic' = [topic EXCEPT ![r] = @ + 1] /\ UNCHANGED faults
       \/ faults' = TRUE /\ UNCHANGED topic
    /\ UNCHANGED <<installed, producer, live, startLock, posts, accepted, tries,
                   otelConfig, savedConfigs, forwards>>

(* The process is killed: queue, producer and tasks are gone.              *)
IngestKilled ==
    /\ ~faults /\ faults' = TRUE
    /\ producer' = "none" /\ live' = 0 /\ startLock' = {} /\ queued' = NoCopies
    /\ posts' = [h \in Posts |-> FreePost] /\ forwards' = {}
    /\ UNCHANGED <<installed, topic, accepted, tries, otelConfig, savedConfigs>>

(* update_otel_config: one UPDATE of endpoint, key and switch, after a     *)
(* test span reached the endpoint.                                         *)
SavedConfigMixed(c) ==
    {[endpoint |-> c.endpoint,
      key |-> IF otelConfig = {} THEN c.key ELSE (CHOOSE o \in otelConfig : TRUE).key,
      enabled |-> c.enabled]}
SavedConfig(c) == {c}

OtelSaved ==
    /\ \E c \in OtelConfigs :
          /\ otelConfig # {c}
          /\ otelConfig' = SavedConfig(c)
          /\ savedConfigs' = savedConfigs \cup {c}
    /\ UNCHANGED <<installed, producer, live, startLock, posts, queued, topic,
                   accepted, tries, faults, forwards>>

(* forward_batch: the collector takes the spans, or not; never repeated.   *)
Forwarded ==
    /\ \E f \in forwards : forwards' = forwards \ {f}
    /\ UNCHANGED <<installed, producer, live, startLock, posts, queued, topic,
                   accepted, tries, faults, otelConfig, savedConfigs>>

StreamNext ==
    \/ \E h \in Posts :
          \/ PostBatch(h) \/ ProducerTaken(h) \/ ProducerAwaited(h)
          \/ ProducerLocked(h) \/ ProducerStarted(h) \/ StreamSkipped(h)
          \/ RecordsSent(h) \/ Answered(h) \/ Refused(h)
    \/ \E r \in Records : Delivered(r)
    \/ IngestKilled \/ OtelSaved \/ Forwarded

-----------------------------------------------------------------------------
(* What each variable may hold.                                            *)
StreamTypeOK ==
    /\ producer \in {"none", "starting", "started"}
    /\ Cardinality(startLock) <= 1
    /\ \A h \in Posts : posts[h].pc \in {"idle", "producer", "locking",
                           "starting", "send", "answer", "refused"}
    /\ accepted \subseteq Batches
    /\ otelConfig \subseteq [endpoint : {c.endpoint : c \in OtelConfigs},
                             key : {c.key : c \in OtelConfigs}, enabled : BOOLEAN]

(* With aiokafka installed, and as long as the process lives and Kafka     *)
(* takes what is queued, every record of an accepted batch is in the       *)
(* topic or in the queue of the producer; a batch of which a part could    *)
(* not be queued was refused.                                              *)
AcceptedHeld ==
    installed /\ ~faults =>
        \A r \in Records : r[1] \in accepted => queued[r] + topic[r] >= 1

(* The process starts one producer however many requests find none: the    *)
(* second look under the lock.                                             *)
OneProducer == live <= 1

(* The topic holds a record no oftener than its batch was posted: only the *)
(* client's repetitions make duplicates, nothing here removes them.        *)
CopiesBounded ==
    \A r \in Records : queued[r] + topic[r] <= tries[r[1]]

(* Spans go to an endpoint with the key that was saved with it, whatever   *)
(* the owner saved since the handler read the settings.                    *)
ForwardedAsSaved ==
    \A f \in forwards : f.config \in savedConfigs
=============================================================================
