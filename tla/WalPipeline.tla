---------------------------- MODULE WalPipeline ----------------------------
(***************************************************************************)
(* Telemetry persistence of the BurnLens proxy: the write-ahead log, the   *)
(* SQLite persistence worker, start-up recovery, clean shutdown, and the   *)
(* `burnlens wal` commands that edit the same files.                       *)
(*                                                                         *)
(* Each event is the record of one proxied request.  Its logging task      *)
(* appends a line to the log file and then enqueues the record; the worker *)
(* drains the queue into SQLite.  The log file, the dead-letter file and   *)
(* the table survive a crash; tasks, queue and worker do not.              *)
(***************************************************************************)
EXTENDS Naturals, Sequences

CONSTANTS
    Events,       \* the records the proxy produces, one per event_id
    NoEvent,      \* the worker holds no record
    QueueSize,    \* capacity of the worker's asyncio.Queue
    MaxCrashes,   \* bound on process kills
    Faults        \* which of AllFaults the environment may produce

(***************************************************************************)
(* recovery_fail   SQLite refuses an insert, or the file a truncation,     *)
(*                 during start-up recovery                                *)
(* partial_append  a failing append (disk full) leaves part of its line    *)
(* stop_race       shutdown begins while logging tasks are in flight       *)
(* cli_race        `burnlens wal repair` runs beside a live proxy          *)
(* cli_kill        `burnlens wal repair` is killed half way                *)
(***************************************************************************)
AllFaults ==
    {"recovery_fail", "partial_append", "stop_race", "cli_race", "cli_kill"}

ASSUME NoEventAssumption == NoEvent \notin Events
ASSUME QueueSizeAssumption == QueueSize \in Nat \ {0}
ASSUME MaxCrashesAssumption == MaxCrashes \in Nat
ASSUME FaultsAssumption == Faults \subseteq AllFaults

VARIABLES
    phase,     \* where lifespan() of the proxy is
    task,      \* task[e]: where the logging task of e is
    wal,       \* lines of wal.jsonl
    dlq,       \* set of lines of wal_dlq.jsonl
    rows,      \* rows[e]: number of rows of table requests with this event_id
    queue,     \* the worker's queue
    active,    \* _active_record
    flushed,   \* stop(): no insert has failed so far
    reading,   \* recover_wal(): lines read and not yet replayed
    cli,       \* where `burnlens wal repair` is
    cliLines,  \* lines it read
    acked,     \* history: events whose append_event() returned
    crashes    \* history: number of kills

procVars == <<phase, task, queue, active, flushed, reading>>
cliVars == <<cli, cliLines>>
vars == <<phase, task, wal, dlq, rows, queue, active, flushed, reading, cli,
          cliLines, acked, crashes>>

Phases == {"down", "recovering", "serving", "stop_active", "drain", "truncate"}
Tasks == {"idle", "append", "enqueue", "fallback", "ended"}

\* A line of the file: the events written into it, whether json.loads()
\* accepts it, and whether its newline was written.
Lines == [evs : SUBSET Events, ok : BOOLEAN, eol : BOOLEAN]

TypeOK ==
    /\ phase \in Phases
    /\ task \in [Events -> Tasks]
    /\ wal \in Seq(Lines)
    /\ dlq \subseteq Lines
    /\ rows \in [Events -> Nat]
    /\ queue \in Seq(Events)
    /\ Len(queue) <= QueueSize
    /\ active \in Events \cup {NoEvent}
    /\ flushed \in BOOLEAN
    /\ reading \in Seq(Lines)
    /\ cli \in {"idle", "read", "dlq_written", "rewriting"}
    /\ cliLines \in Seq(Lines)
    /\ acked \subseteq Events
    /\ crashes \in 0..MaxCrashes

Init ==
    /\ phase = "down"
    /\ task = [e \in Events |-> "idle"]
    /\ wal = <<>>
    /\ dlq = {}
    /\ rows = [e \in Events |-> 0]
    /\ queue = <<>>
    /\ active = NoEvent
    /\ flushed = TRUE
    /\ reading = <<>>
    /\ cli = "idle"
    /\ cliLines = <<>>
    /\ acked = {}
    /\ crashes = 0

-----------------------------------------------------------------------------
(* Files and the table.                                                    *)

\* Text written at the end of the file.  A last line without its newline
\* swallows it, and the two together are no JSON document.
AppendText(file, line) ==
    IF file # <<>> /\ ~file[Len(file)].eol
    THEN [file EXCEPT ![Len(file)] =
             [evs |-> @.evs \cup line.evs, ok |-> FALSE, eol |-> line.eol]]
    ELSE Append(file, line)

\* The line of event e, possibly cut short.
Line(e, ok, eol) == [evs |-> {e}, ok |-> ok, eol |-> eol]

LinesOf(file) == {file[i] : i \in 1..Len(file)}

\* Variant of InsertRequest: no unique index on event_id.
InsertAlways(tbl, evs) ==
    [e \in Events |-> IF e \in evs THEN tbl[e] + 1 ELSE tbl[e]]

\* INSERT OR IGNORE under the unique index on event_id.
InsertRequest(tbl, evs) ==
    [e \in Events |-> IF e \in evs /\ tbl[e] = 0 THEN 1 ELSE tbl[e]]

InGoodLine(e, file) ==
    \E i \in 1..Len(file) : file[i].ok /\ e \in file[i].evs

Alive == phase # "down"

-----------------------------------------------------------------------------
(* The logging task of a request (_log_via_wal).                           *)

\* The response is complete and its logging task is created.
RequestCompletes(e) ==
    /\ phase = "serving"
    /\ task[e] = "idle"
    /\ task' = [task EXCEPT ![e] = "append"]
    /\ UNCHANGED <<phase, wal, dlq, rows, queue, active, flushed, reading,
                   cliVars, acked, crashes>>

AppendEvent(e) ==
    /\ Alive
    /\ task[e] = "append"
    /\ wal' = AppendText(wal, Line(e, TRUE, TRUE))
    /\ acked' = acked \cup {e}
    /\ task' = [task EXCEPT ![e] = "enqueue"]
    /\ UNCHANGED <<phase, dlq, rows, queue, active, flushed, reading, cliVars,
                   crashes>>

\* append_event() raises: the fallback inserts the row itself.
AppendFails(e) ==
    /\ Alive
    /\ task[e] = "append"
    /\ \/ wal' = wal
       \/ /\ "partial_append" \in Faults
          /\ wal' = AppendText(wal, Line(e, FALSE, FALSE))
    /\ task' = [task EXCEPT ![e] = "fallback"]
    /\ UNCHANGED <<phase, dlq, rows, queue, active, flushed, reading, cliVars,
                   acked, crashes>>

\* Variant of Enqueue: put_nowait() on an unbounded queue.
EnqueueUnbounded(e) ==
    /\ Alive
    /\ task[e] = "enqueue"
    /\ queue' = Append(queue, e)
    /\ task' = [task EXCEPT ![e] = "ended"]
    /\ UNCHANGED <<phase, wal, dlq, rows, active, flushed, reading, cliVars,
                   acked, crashes>>

\* enqueue() waits while the queue is full.
Enqueue(e) ==
    /\ Alive
    /\ task[e] = "enqueue"
    /\ Len(queue) < QueueSize
    /\ queue' = Append(queue, e)
    /\ task' = [task EXCEPT ![e] = "ended"]
    /\ UNCHANGED <<phase, wal, dlq, rows, active, flushed, reading, cliVars,
                   acked, crashes>>

\* _log_record(): a failing insert is logged and the record dropped.
LogRecord(e) ==
    /\ Alive
    /\ task[e] = "fallback"
    /\ rows' \in {rows, InsertRequest(rows, {e})}
    /\ task' = [task EXCEPT ![e] = "ended"]
    /\ UNCHANGED <<phase, wal, dlq, queue, active, flushed, reading, cliVars,
                   acked, crashes>>

-----------------------------------------------------------------------------
(* The persistence worker.                                                 *)

WorkerGet ==
    /\ phase = "serving"
    /\ active = NoEvent
    /\ queue # <<>>
    /\ active' = Head(queue)
    /\ queue' = Tail(queue)
    /\ UNCHANGED <<phase, task, wal, dlq, rows, flushed, reading, cliVars,
                   acked, crashes>>

\* Variant of WorkerInsert: a failing insert drops the record.
WorkerInsertOnce ==
    /\ phase = "serving"
    /\ active # NoEvent
    /\ rows' \in {rows, InsertRequest(rows, {active})}
    /\ active' = NoEvent
    /\ UNCHANGED <<phase, task, wal, dlq, queue, flushed, reading, cliVars,
                   acked, crashes>>

\* The insert that succeeds.  A failing one sleeps and tries again, which
\* changes nothing here.
WorkerInsert ==
    /\ phase = "serving"
    /\ active # NoEvent
    /\ rows' = InsertRequest(rows, {active})
    /\ active' = NoEvent
    /\ UNCHANGED <<phase, task, wal, dlq, queue, flushed, reading, cliVars,
                   acked, crashes>>

-----------------------------------------------------------------------------
(* Start-up: recover_wal() and worker.start().                             *)

Start ==
    /\ phase = "down"
    /\ cli = "idle" \/ "cli_race" \in Faults
    /\ phase' = "recovering"
    /\ reading' = wal
    /\ UNCHANGED <<task, wal, dlq, rows, queue, active, flushed, cliVars,
                   acked, crashes>>

\* One line of the log: a corrupt one is skipped, a good one inserted.
RecoverLine ==
    /\ phase = "recovering"
    /\ reading # <<>>
    /\ rows' = IF Head(reading).ok
               THEN InsertRequest(rows, Head(reading).evs)
               ELSE rows
    /\ reading' = Tail(reading)
    /\ UNCHANGED <<phase, task, wal, dlq, queue, active, flushed, cliVars,
                   acked, crashes>>

\* Variant of RecoverTruncate: the log is emptied before it is replayed.
RecoverTruncateEarly ==
    /\ phase = "recovering"
    /\ wal' = <<>>
    /\ phase' = "serving"
    /\ reading' = <<>>
    /\ UNCHANGED <<task, dlq, rows, queue, active, flushed, cliVars, acked,
                   crashes>>

RecoverTruncate ==
    /\ phase = "recovering"
    /\ reading = <<>>
    /\ wal' = <<>>
    /\ phase' = "serving"
    /\ UNCHANGED <<task, dlq, rows, queue, active, flushed, reading, cliVars,
                   acked, crashes>>

\* Any exception ends the replay; the proxy starts all the same.
RecoverFails ==
    /\ "recovery_fail" \in Faults
    /\ phase = "recovering"
    /\ phase' = "serving"
    /\ reading' = <<>>
    /\ UNCHANGED <<task, wal, dlq, rows, queue, active, flushed, cliVars,
                   acked, crashes>>

-----------------------------------------------------------------------------
(* Clean shutdown: worker.stop(), then wal.truncate() if it succeeded.     *)

\* Variant of StopCancel: the record the worker held is forgotten.
StopCancelForgets ==
    /\ phase = "serving"
    /\ \A e \in Events : task[e] \in {"idle", "ended"}
    /\ phase' = "stop_active"
    /\ flushed' = TRUE
    /\ active' = NoEvent
    /\ UNCHANGED <<task, wal, dlq, rows, queue, reading, cliVars, acked,
                   crashes>>

\* The worker task is cancelled.  An insert it was waiting for may already
\* have been committed; the record stays active either way.
StopCancel ==
    /\ phase = "serving"
    /\ "stop_race" \in Faults \/ \A e \in Events : task[e] \in {"idle", "ended"}
    /\ phase' = "stop_active"
    /\ flushed' = TRUE
    /\ rows' \in {rows, InsertRequest(rows, {active} \ {NoEvent})}
    /\ UNCHANGED <<task, wal, dlq, queue, active, reading, cliVars, acked,
                   crashes>>

\* The record that was active when the worker was cancelled.
StopActive ==
    /\ phase = "stop_active"
    /\ phase' = "drain"
    /\ \/ /\ active = NoEvent
          /\ UNCHANGED <<rows, active, flushed>>
       \/ /\ active # NoEvent
          /\ rows' = InsertRequest(rows, {active})
          /\ active' = NoEvent
          /\ UNCHANGED flushed
       \/ /\ active # NoEvent
          /\ flushed' = FALSE
          /\ UNCHANGED <<rows, active>>
    /\ UNCHANGED <<task, wal, dlq, queue, reading, cliVars, acked, crashes>>

StopDrain ==
    /\ phase = "drain"
    /\ queue # <<>>
    /\ queue' = Tail(queue)
    /\ \/ /\ rows' = InsertRequest(rows, {Head(queue)})
          /\ UNCHANGED flushed
       \/ /\ flushed' = FALSE
          /\ UNCHANGED rows
    /\ UNCHANGED <<phase, task, wal, dlq, active, reading, cliVars, acked,
                   crashes>>

\* What is lost with the process: tasks, queue and the active record.
ProcessGone ==
    /\ phase' = "down"
    /\ task' = [e \in Events |-> IF task[e] = "idle" THEN "idle" ELSE "ended"]
    /\ queue' = <<>>
    /\ active' = NoEvent
    /\ flushed' = TRUE
    /\ reading' = <<>>

\* Variant of StopDone: the result of worker.stop() is ignored.
StopDoneAlways ==
    /\ phase = "drain"
    /\ queue = <<>>
    /\ phase' = "truncate"
    /\ UNCHANGED <<task, wal, dlq, rows, queue, active, flushed, reading,
                   cliVars, acked, crashes>>

StopDone ==
    /\ phase = "drain"
    /\ queue = <<>>
    /\ \/ /\ flushed
          /\ phase' = "truncate"
          /\ UNCHANGED <<task, queue, active, flushed, reading>>
       \/ /\ ~flushed
          /\ ProcessGone
    /\ UNCHANGED <<wal, dlq, rows, cliVars, acked, crashes>>

StopTruncate ==
    /\ phase = "truncate"
    /\ wal' = <<>>
    /\ ProcessGone
    /\ UNCHANGED <<dlq, rows, cliVars, acked, crashes>>

-----------------------------------------------------------------------------
(* The process is killed.  A line being written may be cut anywhere.       *)

Crash ==
    /\ Alive
    /\ crashes < MaxCrashes
    /\ crashes' = crashes + 1
    /\ ProcessGone
    /\ \/ wal' = wal
       \/ \E e \in Events, ok \in BOOLEAN :
             /\ task[e] = "append"
             /\ wal' = AppendText(wal, Line(e, ok, FALSE))
    /\ UNCHANGED <<dlq, rows, cliVars, acked>>

-----------------------------------------------------------------------------
(* `burnlens wal repair` and `burnlens wal replay-dlq`.                    *)

RepairRead ==
    /\ cli = "idle"
    /\ ~Alive \/ "cli_race" \in Faults
    /\ wal # <<>>
    /\ cli' = "read"
    /\ cliLines' = wal
    /\ UNCHANGED <<procVars, wal, dlq, rows, acked, crashes>>

RepairDlq ==
    /\ cli = "read"
    /\ dlq' = dlq \cup {line \in LinesOf(cliLines) : ~line.ok}
    /\ cli' = "dlq_written"
    /\ UNCHANGED <<procVars, wal, rows, cliLines, acked, crashes>>

\* open(w_path, "w") empties the file before the lines are written back.
RepairOpen ==
    /\ cli = "dlq_written"
    /\ wal' = <<>>
    /\ cli' = "rewriting"
    /\ UNCHANGED <<procVars, dlq, rows, cliLines, acked, crashes>>

\* The next valid line is written back; corrupt ones are left out.
RepairWrite ==
    /\ cli = "rewriting"
    /\ cliLines # <<>>
    /\ wal' = IF Head(cliLines).ok THEN AppendText(wal, Head(cliLines)) ELSE wal
    /\ cliLines' = Tail(cliLines)
    /\ UNCHANGED <<procVars, cli, dlq, rows, acked, crashes>>

RepairClose ==
    /\ cli = "rewriting"
    /\ cliLines = <<>>
    /\ cli' = "idle"
    /\ UNCHANGED <<procVars, wal, cliLines, dlq, rows, acked, crashes>>

RepairKilled ==
    /\ "cli_kill" \in Faults
    /\ cli # "idle"
    /\ cli' = "idle"
    /\ cliLines' = <<>>
    /\ UNCHANGED <<procVars, wal, dlq, rows, acked, crashes>>

\* The user repairs a dead-letter line by hand, then replays the file: the
\* lines that parse and insert leave it, the others stay.
ReplayDlq ==
    /\ cli = "idle"
    /\ \E fixed \in (SUBSET dlq) \ {{}} :
          /\ rows' = InsertRequest(rows, UNION {line.evs : line \in fixed})
          /\ dlq' = dlq \ fixed
    /\ UNCHANGED <<procVars, wal, cliVars, acked, crashes>>

-----------------------------------------------------------------------------
Next ==
    \/ \E e \in Events :
          \/ RequestCompletes(e) \/ AppendEvent(e) \/ AppendFails(e)
          \/ Enqueue(e) \/ LogRecord(e)
    \/ WorkerGet \/ WorkerInsert
    \/ Start \/ RecoverLine \/ RecoverTruncate \/ RecoverFails
    \/ StopCancel \/ StopActive \/ StopDrain \/ StopDone \/ StopTruncate
    \/ Crash
    \/ RepairRead \/ RepairDlq \/ RepairOpen \/ RepairWrite
    \/ RepairClose \/ RepairKilled \/ ReplayDlq

Spec == Init /\ [][Next]_vars

(***************************************************************************)
(* The event loop runs every ready task; SQLite does not refuse inserts    *)
(* forever (the worker retries without limit), and a stopped proxy is      *)
(* started again, however often its log is repaired in between.            *)
(***************************************************************************)
Fairness ==
    /\ \A e \in Events : WF_vars(AppendEvent(e)) /\ SF_vars(Enqueue(e))
    /\ WF_vars(WorkerGet) /\ SF_vars(WorkerInsert)
    /\ SF_vars(Start) /\ WF_vars(RecoverLine) /\ WF_vars(RecoverTruncate)
    /\ WF_vars(StopActive) /\ WF_vars(StopDrain) /\ WF_vars(StopDone)
    /\ WF_vars(StopTruncate)
    /\ WF_vars(RepairDlq) /\ WF_vars(RepairOpen) /\ WF_vars(RepairWrite)
    /\ WF_vars(RepairClose)

FairSpec == Spec /\ Fairness

-----------------------------------------------------------------------------
(* Properties.                                                             *)

\* Where an event can still be found by a later start of the proxy: in the
\* table, in a parseable line of the log, or in the lines that
\* `burnlens wal repair` has taken out of the file and is writing back.
Recoverable(e) ==
    \/ rows[e] > 0
    \/ InGoodLine(e, wal)
    \/ cli = "rewriting" /\ InGoodLine(e, cliLines)

\* Once append_event() has returned, no kill, replay, shutdown or repair
\* loses the event: it is in the table or a start of the proxy will replay
\* it (wal.py append_event, recover_wal, stop, repair_wal together).
Durable == \A e \in acked : Recoverable(e)

\* A live proxy still has work to do for every event that is in the log and
\* not in the table: the event is queued, held by the worker, about to be
\* enqueued, or yet to be replayed.  So shutdown, which flushes exactly
\* these, may truncate the log.
InHand(e) ==
    \/ task[e] = "enqueue"
    \/ active = e
    \/ \E i \in 1..Len(queue) : queue[i] = e
    \/ phase = "recovering" /\ InGoodLine(e, reading)
    \/ ~flushed

LogInHand ==
    Alive => \A e \in acked : rows[e] = 0 => InHand(e)

\* Replays after a crash, the re-insert of the active record on shutdown and
\* dead-letter replays never produce a second row for one event, so spend is
\* not counted twice (insert_request's INSERT OR IGNORE on event_id).
StoredOnce == \A e \in Events : rows[e] <= 1

\* "Final WAL truncate ONLY if clean shutdown persisted all records
\* successfully" (proxy/server.py): a shutdown that empties the log leaves
\* behind no parseable line whose event is not in the table.
TruncateOnlyPersisted ==
    [][StopTruncate => \A e \in acked : InGoodLine(e, wal) => rows[e] > 0]_vars

\* Every accepted event reaches the table: the worker retries until SQLite
\* takes it, and what a kill interrupts the next start replays.
AckedStored == \A e \in Events : (e \in acked) ~> (rows[e] > 0)

\* The pipeline implements the promise of EventStore.
Stage(e) ==
    IF rows[e] > 0 THEN "stored"
    ELSE IF e \in acked /\ Recoverable(e) THEN "accepted"
    ELSE "unknown"

ES == INSTANCE EventStore WITH stage <- [e \in Events |-> Stage(e)]

\* Through crashes, restarts, shutdowns and repairs each event only moves
\* forward, from unknown to accepted to stored.
ImplementsEventStore == ES!Spec
=============================================================================
