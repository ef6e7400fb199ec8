------------------------- MODULE WalPipeline_proofs -------------------------
(***************************************************************************)
(* Proofs about WalPipeline, for every set of events, queue size and       *)
(* number of crashes.  Type correctness holds under all faults,            *)
(* and so does one row per event.  Durability, the safety of truncation    *)
(* and the refinement of EventStore are proved for Faults = {}: kills at   *)
(* any point, failing appends and failing inserts are allowed; the five    *)
(* named faults, each of which alone breaks them, are not.                 *)
(***************************************************************************)
EXTENDS WalPipeline, SequenceTheorems, TLAPS

AllEol(file) == \A i \in 1..Len(file) : file[i].eol
AllButLastEol(file) == \A i \in 1..Len(file) : i < Len(file) => file[i].eol

InQueue(e) == \E i \in 1..Len(queue) : queue[i] = e

(***************************************************************************)
(* The strengthening.  What a process that is not up, or only starting,    *)
(* holds in memory; what `wal repair` holds; which lines have newlines;    *)
(* and who still has to store each event that is in the log only.          *)
(***************************************************************************)
MemoryInv ==
    /\ \A e \in Events : task[e] \notin {"idle", "ended"} => phase = "serving"
    /\ phase \in {"down", "recovering"} => queue = <<>> /\ active = NoEvent
    /\ phase \in {"down", "recovering", "serving", "stop_active"} => flushed
    /\ phase = "truncate" => flushed /\ queue = <<>>
    /\ phase \in {"drain", "truncate"} /\ flushed => active = NoEvent

CliInv ==
    /\ cli # "idle" => phase = "down"
    /\ cli \in {"read", "dlq_written"} => cliLines = wal
    /\ AllButLastEol(cliLines)

FileInv ==
    /\ AllButLastEol(wal)
    /\ phase \notin {"down", "recovering"} => AllEol(wal)
    /\ cli = "rewriting" /\ cliLines # <<>> => AllEol(wal)

Tracked(e) ==
    \/ rows[e] > 0
    \/ /\ phase = "down"
       /\ InGoodLine(e, wal) \/ (cli = "rewriting" /\ InGoodLine(e, cliLines))
    \/ phase = "recovering" /\ InGoodLine(e, wal) /\ InGoodLine(e, reading)
    \/ /\ phase \notin {"down", "recovering"}
       /\ InGoodLine(e, wal)
       /\ task[e] = "enqueue" \/ active = e \/ InQueue(e) \/ ~flushed

IndInv ==
    /\ TypeOK
    /\ MemoryInv
    /\ CliInv
    /\ FileInv
    /\ \A e \in acked : Tracked(e)

-----------------------------------------------------------------------------
(* What the helpers return.                                                *)

\* Text appended to a log file yields a log file (_sync_append).
LEMMA AppendTextType ==
    ASSUME NEW file \in Seq(Lines), NEW line \in Lines
    PROVE  AppendText(file, line) \in Seq(Lines)
<1>1. CASE file # <<>> /\ ~file[Len(file)].eol
  <2>1. Len(file) \in 1..Len(file) /\ file[Len(file)] \in Lines
    BY <1>1
  <2>2. [evs |-> file[Len(file)].evs \cup line.evs, ok |-> FALSE,
         eol |-> line.eol] \in Lines
    BY <2>1 DEF Lines
  <2>. QED
    BY <1>1, <2>1, <2>2, ExceptSeq DEF AppendText
<1>2. CASE ~(file # <<>> /\ ~file[Len(file)].eol)
  BY <1>2 DEF AppendText
<1>. QED
  BY <1>1, <1>2

\* The line a logging task writes is a line, whole or cut.
LEMMA LineType ==
    ASSUME NEW e \in Events, NEW ok \in BOOLEAN, NEW eol \in BOOLEAN
    PROVE  Line(e, ok, eol) \in Lines
BY DEF Line, Lines

\* insert_request() keeps the table a table.
LEMMA InsertType ==
    TypeOK => \A evs : InsertRequest(rows, evs) \in [Events -> Nat]
<1>. SUFFICES ASSUME TypeOK, NEW evs
              PROVE  InsertRequest(rows, evs) \in [Events -> Nat]
  OBVIOUS
<1>1. rows \in [Events -> Nat]
  BY DEF TypeOK
<1>. QED
  BY <1>1 DEF InsertRequest

\* insert_request() stores what it is given and forgets nothing.
LEMMA InsertStores ==
    ASSUME NEW tbl \in [Events -> Nat], NEW evs \in SUBSET Events, NEW e \in Events
    PROVE  /\ e \in evs => InsertRequest(tbl, evs)[e] > 0
           /\ tbl[e] > 0 => InsertRequest(tbl, evs)[e] > 0
BY DEF InsertRequest

\* A task that dies with its process has ended.
LEMMA GoneType ==
    ASSUME TypeOK, ProcessGone
    PROVE  /\ phase' \in Phases
           /\ task' \in [Events -> Tasks]
           /\ queue' \in Seq(Events) /\ Len(queue') <= QueueSize
           /\ active' \in Events \cup {NoEvent}
           /\ flushed' \in BOOLEAN
           /\ reading' \in Seq(Lines)
BY QueueSizeAssumption DEF TypeOK, ProcessGone, Phases, Tasks

-----------------------------------------------------------------------------
(* Type correctness.                                                       *)

\* The initial state has its types.
LEMMA InitTypeOK == Init => TypeOK
BY QueueSizeAssumption, MaxCrashesAssumption
   DEF Init, TypeOK, Phases, Tasks

\* The logging tasks (append_event, enqueue, the direct insert) keep the types; enqueue waits
\* while the queue is full.
LEMMA TaskStepType ==
    ASSUME TypeOK, NEW e \in Events,
           \/ RequestCompletes(e) \/ AppendEvent(e) \/ AppendFails(e)
           \/ Enqueue(e) \/ LogRecord(e)
    PROVE  TypeOK'
<1>1. CASE RequestCompletes(e)
  BY <1>1 DEF TypeOK, RequestCompletes, Tasks, cliVars
<1>2. CASE AppendEvent(e)
  <2>1. wal' \in Seq(Lines)
    BY <1>2, LineType, AppendTextType DEF TypeOK, AppendEvent
  <2>. QED
    BY <1>2, <2>1 DEF TypeOK, AppendEvent, Tasks, cliVars
<1>3. CASE AppendFails(e)
  <2>1. wal' \in Seq(Lines)
    BY <1>3, LineType, AppendTextType DEF TypeOK, AppendFails
  <2>. QED
    BY <1>3, <2>1 DEF TypeOK, AppendFails, Tasks, cliVars
<1>4. CASE Enqueue(e)
  BY <1>4, QueueSizeAssumption DEF TypeOK, Enqueue, Tasks, cliVars
<1>5. CASE LogRecord(e)
  <2>1. rows' \in [Events -> Nat]
    BY <1>5, InsertType DEF TypeOK, LogRecord
  <2>. QED
    BY <1>5, <2>1 DEF TypeOK, LogRecord, Tasks, cliVars
<1>. QED
  BY <1>1, <1>2, <1>3, <1>4, <1>5

\* The steps of the persistence worker keep the types.
LEMMA WorkerStepType ==
    ASSUME TypeOK, WorkerGet \/ WorkerInsert
    PROVE  TypeOK'
<1>1. CASE WorkerGet
  BY <1>1, QueueSizeAssumption DEF TypeOK, WorkerGet, cliVars
<1>2. CASE WorkerInsert
  <2>1. rows' \in [Events -> Nat]
    BY <1>2, InsertType DEF TypeOK, WorkerInsert
  <2>. QED
    BY <1>2, <2>1 DEF TypeOK, WorkerInsert, cliVars
<1>. QED
  BY <1>1, <1>2

\* Start-up and recovery keep the types.
LEMMA StartStepType ==
    ASSUME TypeOK, Start \/ RecoverLine \/ RecoverTruncate \/ RecoverFails
    PROVE  TypeOK'
<1>1. CASE Start
  BY <1>1 DEF TypeOK, Start, Phases, cliVars
<1>2. CASE RecoverLine
  <2>1. rows' \in [Events -> Nat]
    BY <1>2, InsertType DEF TypeOK, RecoverLine
  <2>. QED
    BY <1>2, <2>1 DEF TypeOK, RecoverLine, cliVars
<1>3. CASE RecoverTruncate
  BY <1>3 DEF TypeOK, RecoverTruncate, Phases, cliVars
<1>4. CASE RecoverFails
  BY <1>4 DEF TypeOK, RecoverFails, Phases, cliVars
<1>. QED
  BY <1>1, <1>2, <1>3, <1>4

\* Clean shutdown and a kill keep the types.
LEMMA StopStepType ==
    ASSUME TypeOK,
           \/ StopCancel \/ StopActive \/ StopDrain \/ StopDone
           \/ StopTruncate \/ Crash
    PROVE  TypeOK'
<1>1. CASE StopCancel
  <2>1. rows' \in [Events -> Nat]
    BY <1>1, InsertType DEF TypeOK, StopCancel
  <2>. QED
    BY <1>1, <2>1 DEF TypeOK, StopCancel, Phases, cliVars
<1>2. CASE StopActive
  <2>1. rows' \in [Events -> Nat]
    BY <1>2, InsertType DEF TypeOK, StopActive
  <2>. QED
    BY <1>2, <2>1 DEF TypeOK, StopActive, Phases, cliVars
<1>3. CASE StopDrain
  <2>1. rows' \in [Events -> Nat]
    BY <1>3, InsertType DEF TypeOK, StopDrain
  <2>2. queue' \in Seq(Events) /\ Len(queue') <= QueueSize
    BY <1>3, QueueSizeAssumption DEF TypeOK, StopDrain
  <2>. QED
    BY <1>3, <2>1, <2>2 DEF TypeOK, StopDrain, cliVars
<1>4. CASE StopDone
  <2>1. CASE flushed /\ phase' = "truncate"
             /\ UNCHANGED <<task, queue, active, flushed, reading>>
    BY <1>4, <2>1 DEF TypeOK, StopDone, Phases, cliVars
  <2>2. CASE ProcessGone
    BY <1>4, <2>2, GoneType DEF TypeOK, StopDone, cliVars
  <2>. QED
    BY <1>4, <2>1, <2>2 DEF StopDone
<1>5. CASE StopTruncate
  BY <1>5, GoneType DEF TypeOK, StopTruncate, cliVars
<1>6. CASE Crash
  <2>1. wal' \in Seq(Lines)
    BY <1>6, LineType, AppendTextType DEF TypeOK, Crash
  <2>2. crashes' \in 0..MaxCrashes
    BY <1>6, MaxCrashesAssumption DEF TypeOK, Crash
  <2>. QED
    BY <1>6, <2>1, <2>2, GoneType DEF TypeOK, Crash, cliVars
<1>. QED
  BY <1>1, <1>2, <1>3, <1>4, <1>5, <1>6

\* The `burnlens wal` commands keep the types.
LEMMA CliStepType ==
    ASSUME TypeOK,
           \/ RepairRead \/ RepairDlq \/ RepairOpen \/ RepairWrite
           \/ RepairClose \/ RepairKilled \/ ReplayDlq
    PROVE  TypeOK'
<1>1. CASE RepairRead
  BY <1>1 DEF TypeOK, RepairRead, procVars
<1>2. CASE RepairDlq
  BY <1>2 DEF TypeOK, RepairDlq, LinesOf, procVars
<1>3. CASE RepairOpen
  BY <1>3 DEF TypeOK, RepairOpen, procVars
<1>4. CASE RepairWrite
  <2>1. Head(cliLines) \in Lines /\ cliLines' \in Seq(Lines)
    BY <1>4 DEF TypeOK, RepairWrite
  <2>2. wal' \in Seq(Lines)
    BY <1>4, <2>1, AppendTextType DEF TypeOK, RepairWrite
  <2>. QED
    BY <1>4, <2>1, <2>2 DEF TypeOK, RepairWrite, procVars
<1>5. CASE RepairClose
  BY <1>5 DEF TypeOK, RepairClose, procVars
<1>6. CASE RepairKilled
  BY <1>6 DEF TypeOK, RepairKilled, procVars
<1>7. CASE ReplayDlq
  <2>1. rows' \in [Events -> Nat]
    BY <1>7, InsertType DEF TypeOK, ReplayDlq
  <2>. QED
    BY <1>7, <2>1 DEF TypeOK, ReplayDlq, procVars, cliVars
<1>. QED
  BY <1>1, <1>2, <1>3, <1>4, <1>5, <1>6, <1>7

\* Every step keeps the types.
LEMMA NextTypeOK == TypeOK /\ [Next]_vars => TypeOK'
<1>. SUFFICES ASSUME TypeOK, [Next]_vars PROVE TypeOK'
  OBVIOUS
<1>1. CASE UNCHANGED vars
  BY <1>1 DEF TypeOK, vars
<1>2. CASE Next
  BY <1>2, TaskStepType, WorkerStepType, StartStepType, StopStepType,
     CliStepType DEF Next
<1>. QED
  BY <1>1, <1>2

\* Type correctness of the persistence pipeline under every combination of
\* faults (queue bound of SQLitePersistenceWorker included).
THEOREM TypeCorrect == Spec => []TypeOK
BY InitTypeOK, NextTypeOK, PTL DEF Spec

-----------------------------------------------------------------------------
(* Log files under appending, reading line by line and truncation.         *)

\* A whole file keeps its parseable lines when text is appended, and the
\* new text is a line of its own.
LEMMA AppendKeepsLines ==
    ASSUME NEW file \in Seq(Lines), NEW line \in Lines, AllEol(file)
    PROVE  /\ AppendText(file, line) = Append(file, line)
           /\ AllButLastEol(Append(file, line))
           /\ line.eol => AllEol(Append(file, line))
           /\ \A e : InGoodLine(e, file) => InGoodLine(e, Append(file, line))
           /\ line.ok => \A e \in line.evs : InGoodLine(e, Append(file, line))
<1>. DEFINE new == Append(file, line)
<1>1. AppendText(file, line) = new
  BY DEF AllEol, AppendText
<1>2. /\ new \in Seq(Lines) /\ Len(new) = Len(file) + 1
      /\ \A i \in 1..Len(file) : new[i] = file[i]
      /\ new[Len(file) + 1] = line
  OBVIOUS
<1>. HIDE DEF new
<1>3. AllButLastEol(new) /\ (line.eol => AllEol(new))
  BY <1>2 DEF AllEol, AllButLastEol
<1>4. \A e : InGoodLine(e, file) => InGoodLine(e, new)
  BY <1>2 DEF InGoodLine
<1>5. line.ok => \A e \in line.evs : InGoodLine(e, new)
  BY <1>2 DEF InGoodLine
<1>. QED
  BY <1>1, <1>3, <1>4, <1>5 DEF new

\* An event of a parseable line is in the first line or in the rest.
LEMMA HeadOrTail ==
    ASSUME NEW file \in Seq(Lines), file # <<>>, AllButLastEol(file)
    PROVE  /\ \A e : InGoodLine(e, file) =>
                 \/ Head(file).ok /\ e \in Head(file).evs
                 \/ InGoodLine(e, Tail(file))
           /\ AllButLastEol(Tail(file))
           /\ Tail(file) # <<>> => Head(file).eol
<1>. DEFINE rest == Tail(file)
<1>1. /\ rest \in Seq(Lines) /\ Len(rest) = Len(file) - 1
      /\ \A i \in 1..Len(rest) : rest[i] = file[i + 1]
      /\ Head(file) = file[1] /\ Len(file) \in Nat \ {0}
      /\ rest # <<>> => Len(file) > 1
  OBVIOUS
<1>. HIDE DEF rest
<1>2. AllButLastEol(rest) /\ (rest # <<>> => Head(file).eol)
  BY <1>1 DEF AllButLastEol
<1>3. ASSUME NEW e, InGoodLine(e, file),
             ~(Head(file).ok /\ e \in Head(file).evs)
      PROVE  InGoodLine(e, rest)
  <2>1. PICK i \in 1..Len(file) : file[i].ok /\ e \in file[i].evs
    BY <1>3 DEF InGoodLine
  <2>2. i # 1 /\ i - 1 \in 1..Len(rest) /\ rest[i - 1] = file[i]
    BY <1>1, <1>3, <2>1
  <2>. QED
    BY <2>1, <2>2 DEF InGoodLine
<1>. QED
  BY <1>2, <1>3 DEF rest

\* A queued event is the first one or remains queued.
LEMMA QueueHeadOrTail ==
    ASSUME queue \in Seq(Events), queue # <<>>, queue' = Tail(queue),
           NEW e, InQueue(e)
    PROVE  e = Head(queue) \/ InQueue(e)'
<1>1. PICK i \in 1..Len(queue) : queue[i] = e
  BY DEF InQueue
<1>2. /\ Len(queue') = Len(queue) - 1 /\ Head(queue) = queue[1]
      /\ \A j \in 1..Len(queue') : queue'[j] = queue[j + 1]
  OBVIOUS
<1>3. CASE i # 1
  <2>1. i - 1 \in 1..Len(queue') /\ queue'[i - 1] = e
    BY <1>1, <1>2, <1>3
  <2>. QED
    BY <2>1 DEF InQueue
<1>. QED
  BY <1>1, <1>2, <1>3

-----------------------------------------------------------------------------
(* Durability.                                                             *)

Rest == MemoryInv /\ CliInv /\ FileInv /\ \A e \in acked : Tracked(e)

\* The initial state satisfies the inductive invariant.
LEMMA InitInv == Init => IndInv
<1>. SUFFICES ASSUME Init PROVE IndInv
  OBVIOUS
<1>1. TypeOK
  BY InitTypeOK
<1>. QED
  BY <1>1 DEF Init, IndInv, MemoryInv, CliInv, FileInv, AllEol, AllButLastEol

\* The logging tasks keep the invariant: an event is accepted only with its line in the log.
LEMMA TaskStepInv ==
    ASSUME Faults = {}, IndInv, NEW x \in Events,
           \/ RequestCompletes(x) \/ AppendEvent(x) \/ AppendFails(x)
           \/ Enqueue(x) \/ LogRecord(x)
    PROVE  Rest'
<1>1. CASE RequestCompletes(x)
  <2>1. MemoryInv'
    BY <1>1 DEF IndInv, TypeOK, RequestCompletes, MemoryInv, cliVars, procVars, ProcessGone, Alive, Tasks
  <2>2. CliInv'
    BY <1>1 DEF IndInv, TypeOK, RequestCompletes, CliInv, AllButLastEol, cliVars, procVars, ProcessGone, Alive
  <2>3. FileInv'
    BY <1>1 DEF IndInv, TypeOK, RequestCompletes, FileInv, AllEol, AllButLastEol, cliVars, procVars, ProcessGone, Alive
  <2>4. \A e \in acked' : Tracked(e)'
    BY <1>1 DEF IndInv, TypeOK, RequestCompletes, Tracked, MemoryInv, InQueue, cliVars, procVars, ProcessGone, Alive
  <2>. QED
    BY <2>1, <2>2, <2>3, <2>4 DEF Rest
<1>2. CASE AppendEvent(x)
  <2>1. phase = "serving" /\ AllEol(wal) /\ cli = "idle"
    BY <1>2 DEF IndInv, TypeOK, AppendEvent, MemoryInv, FileInv, CliInv
  <2>2. /\ AllEol(wal') /\ AllButLastEol(wal')
        /\ \A e : InGoodLine(e, wal) => InGoodLine(e, wal')
        /\ InGoodLine(x, wal')
    <3>1. Line(x, TRUE, TRUE) \in Lines
      BY LineType
    <3>2. wal \in Seq(Lines) /\ wal' = AppendText(wal, Line(x, TRUE, TRUE))
      BY <1>2 DEF IndInv, TypeOK, AppendEvent
    <3>3. /\ Line(x, TRUE, TRUE).ok /\ Line(x, TRUE, TRUE).eol
          /\ x \in Line(x, TRUE, TRUE).evs
      BY DEF Line
    <3>. QED
      BY <2>1, <3>1, <3>2, <3>3, AppendKeepsLines
  <2>3. MemoryInv'
    BY <1>2, <2>1 DEF IndInv, TypeOK, AppendEvent, MemoryInv
  <2>4. CliInv'
    BY <1>2, <2>1 DEF IndInv, AppendEvent, CliInv, AllButLastEol, cliVars
  <2>5. FileInv'
    BY <1>2, <2>1, <2>2 DEF IndInv, AppendEvent, FileInv, cliVars
  <2>6. \A e \in acked' : Tracked(e)'
    <3>. SUFFICES ASSUME NEW e \in acked' PROVE Tracked(e)'
      OBVIOUS
    <3>1. phase' = "serving" /\ UNCHANGED <<rows, active, queue, flushed>>
      BY <1>2, <2>1 DEF AppendEvent
    <3>2. CASE e = x
      <4>1. task'[e] = "enqueue"
        BY <1>2, <3>2 DEF IndInv, TypeOK, AppendEvent
      <4>. QED
        BY <2>2, <3>1, <3>2, <4>1 DEF Tracked
    <3>3. CASE e # x
      <4>1. e \in acked /\ Tracked(e) /\ task'[e] = task[e]
        BY <1>2, <3>3 DEF IndInv, TypeOK, AppendEvent
      <4>2. InQueue(e) => InQueue(e)'
        BY <3>1 DEF InQueue
      <4>. QED
        BY <2>1, <2>2, <3>1, <4>1, <4>2 DEF Tracked
    <3>. QED
      BY <3>2, <3>3
  <2>. QED
    BY <2>1, <2>2, <2>3, <2>4, <2>5, <2>6 DEF Rest
<1>3. CASE AppendFails(x)
  <2>1. MemoryInv'
    BY <1>3 DEF IndInv, TypeOK, AppendFails, MemoryInv, cliVars, procVars, ProcessGone, Alive, Tasks
  <2>2. CliInv'
    BY <1>3 DEF IndInv, TypeOK, AppendFails, CliInv, AllButLastEol, cliVars, procVars, ProcessGone, Alive
  <2>3. FileInv'
    BY <1>3 DEF IndInv, TypeOK, AppendFails, FileInv, AllEol, AllButLastEol, cliVars, procVars, ProcessGone, Alive
  <2>4. \A e \in acked' : Tracked(e)'
    BY <1>3 DEF IndInv, TypeOK, AppendFails, Tracked, MemoryInv, InQueue, cliVars, procVars, ProcessGone, Alive
  <2>. QED
    BY <2>1, <2>2, <2>3, <2>4 DEF Rest
<1>4. CASE Enqueue(x)
  <2>1. phase = "serving"
    BY <1>4 DEF IndInv, TypeOK, Enqueue, MemoryInv
  <2>2. InQueue(x)' /\ \A e : InQueue(e) => InQueue(e)'
    <3>1. /\ Len(queue') = Len(queue) + 1
          /\ queue'[Len(queue) + 1] = x
          /\ \A i \in 1..Len(queue) : queue'[i] = queue[i]
          /\ Len(queue) \in Nat
      BY <1>4 DEF IndInv, TypeOK, Enqueue
    <3>. QED
      BY <3>1 DEF InQueue
  <2>3. MemoryInv'
    BY <1>4, <2>1 DEF IndInv, TypeOK, Enqueue, MemoryInv
  <2>4. CliInv'
    BY <1>4 DEF IndInv, Enqueue, CliInv, AllButLastEol, cliVars
  <2>5. FileInv'
    BY <1>4 DEF IndInv, Enqueue, FileInv, AllEol, AllButLastEol, cliVars
  <2>6. \A e \in acked' : Tracked(e)'
    BY <1>4, <2>1, <2>2 DEF IndInv, TypeOK, Enqueue, Tracked, cliVars
  <2>. QED
    BY <2>1, <2>2, <2>3, <2>4, <2>5, <2>6 DEF Rest
<1>5. CASE LogRecord(x)
  <2>1. \A e \in Events : rows[e] > 0 => rows'[e] > 0
    BY <1>5, InsertStores DEF IndInv, TypeOK, LogRecord
  <2>2. MemoryInv'
    BY <1>5 DEF IndInv, TypeOK, LogRecord, MemoryInv
  <2>3. CliInv'
    BY <1>5 DEF IndInv, LogRecord, CliInv, AllButLastEol, cliVars
  <2>4. FileInv'
    BY <1>5 DEF IndInv, LogRecord, FileInv, AllEol, AllButLastEol, cliVars
  <2>5. \A e \in acked' : Tracked(e)'
    <3>. SUFFICES ASSUME NEW e \in acked' PROVE Tracked(e)'
      OBVIOUS
    <3>1. e \in Events /\ e \in acked /\ Tracked(e)
      BY <1>5 DEF IndInv, TypeOK, LogRecord
    <3>2. MemoryInv /\ active \in Events \cup {NoEvent}
      BY DEF IndInv, TypeOK
    <3>. QED
      BY <1>5, <2>1, <3>1, <3>2, NoEventAssumption DEF LogRecord, Tracked, MemoryInv, InQueue, cliVars
  <2>. QED
    BY <2>1, <2>2, <2>3, <2>4, <2>5 DEF Rest
<1>. QED
  BY <1>1, <1>2, <1>3, <1>4, <1>5

\* The worker keeps the invariant: a record leaves its hands only for the table.
LEMMA WorkerStepInv ==
    ASSUME Faults = {}, IndInv, WorkerGet \/ WorkerInsert
    PROVE  Rest'
<1>1. CASE WorkerGet
  <2>1. queue \in Seq(Events) /\ queue # <<>> /\ queue' = Tail(queue)
    BY <1>1 DEF IndInv, TypeOK, WorkerGet
  <2>2. \A e : InQueue(e) => e = Head(queue) \/ InQueue(e)'
    BY <2>1, QueueHeadOrTail
  <2>3. MemoryInv'
    BY <1>1 DEF IndInv, TypeOK, WorkerGet, MemoryInv
  <2>4. CliInv'
    BY <1>1 DEF IndInv, WorkerGet, CliInv, AllButLastEol, cliVars
  <2>5. FileInv'
    BY <1>1 DEF IndInv, WorkerGet, FileInv, AllEol, AllButLastEol, cliVars
  <2>6. \A e \in acked' : Tracked(e)'
    <3>. SUFFICES ASSUME NEW e \in acked' PROVE Tracked(e)'
      OBVIOUS
    <3>1. e \in Events /\ e \in acked /\ Tracked(e)
      BY <1>1 DEF IndInv, TypeOK, WorkerGet
    <3>2. MemoryInv /\ active \in Events \cup {NoEvent}
      BY DEF IndInv, TypeOK
    <3>. QED
      BY <1>1, <2>2, <3>1, <3>2, NoEventAssumption DEF WorkerGet, Tracked, MemoryInv, cliVars
  <2>. QED
    BY <2>1, <2>2, <2>3, <2>4, <2>5, <2>6 DEF Rest
<1>2. CASE WorkerInsert
  <2>1. /\ \A e \in Events : rows[e] > 0 => rows'[e] > 0
        /\ active \in Events => rows'[active] > 0
    BY <1>2, InsertStores DEF IndInv, TypeOK, WorkerInsert
  <2>2. MemoryInv'
    BY <1>2 DEF IndInv, TypeOK, WorkerInsert, MemoryInv
  <2>3. CliInv'
    BY <1>2 DEF IndInv, WorkerInsert, CliInv, AllButLastEol, cliVars
  <2>4. FileInv'
    BY <1>2 DEF IndInv, WorkerInsert, FileInv, AllEol, AllButLastEol, cliVars
  <2>5. \A e \in acked' : Tracked(e)'
    <3>. SUFFICES ASSUME NEW e \in acked' PROVE Tracked(e)'
      OBVIOUS
    <3>1. e \in Events /\ Tracked(e)
      BY <1>2 DEF IndInv, TypeOK, WorkerInsert
    <3>2. (rows[e] > 0 \/ active = e) => rows'[e] > 0
      BY <2>1, <3>1
    <3>3. phase = "serving" /\ UNCHANGED <<phase, task, wal, queue, flushed>>
      BY <1>2 DEF WorkerInsert
    <3>4. InQueue(e) => InQueue(e)'
      BY <3>3 DEF InQueue
    <3>. QED
      BY <3>1, <3>2, <3>3, <3>4 DEF Tracked
  <2>. QED
    BY <2>1, <2>2, <2>3, <2>4, <2>5 DEF Rest
<1>. QED
  BY <1>1, <1>2

\* HeadOrTail for a file about whose newlines nothing is known.
LEMMA ReadHeadOrTail ==
    ASSUME NEW file \in Seq(Lines), file # <<>>, NEW e, InGoodLine(e, file)
    PROVE  \/ Head(file).ok /\ e \in Head(file).evs
           \/ InGoodLine(e, Tail(file))
<1>1. PICK i \in 1..Len(file) : file[i].ok /\ e \in file[i].evs
  BY DEF InGoodLine
<1>2. CASE i = 1
  BY <1>1, <1>2
<1>3. CASE i # 1
  <2>1. i - 1 \in 1..Len(Tail(file)) /\ Tail(file)[i - 1] = file[i]
    BY <1>1, <1>3
  <2>. QED
    BY <1>1, <2>1 DEF InGoodLine
<1>. QED
  BY <1>2, <1>3

\* Recovery keeps the invariant: the log is emptied after its last line is replayed.
LEMMA StartStepInv ==
    ASSUME Faults = {}, IndInv, Start \/ RecoverLine \/ RecoverTruncate \/ RecoverFails
    PROVE  Rest'
<1>1. CASE Start
  <2>1. MemoryInv'
    BY <1>1 DEF IndInv, TypeOK, Start, MemoryInv
  <2>2. CliInv'
    BY <1>1 DEF IndInv, Start, CliInv, AllButLastEol, cliVars
  <2>3. FileInv'
    BY <1>1 DEF IndInv, Start, FileInv, AllEol, AllButLastEol, cliVars
  <2>4. \A e \in acked' : Tracked(e)'
    BY <1>1 DEF IndInv, TypeOK, Start, MemoryInv, CliInv, Tracked, cliVars
  <2>. QED
    BY <2>1, <2>2, <2>3, <2>4 DEF Rest
<1>2. CASE RecoverLine
  <2>1. reading \in Seq(Lines) /\ reading # <<>>
    BY <1>2 DEF IndInv, TypeOK, RecoverLine
  <2>2. Head(reading).evs \in SUBSET Events
    <3>1. Head(reading) \in Lines
      BY <2>1
    <3>. QED
      BY <3>1 DEF Lines
  <2>3. \A e : InGoodLine(e, reading) =>
            \/ Head(reading).ok /\ e \in Head(reading).evs
            \/ InGoodLine(e, reading')
    BY <1>2, <2>1, ReadHeadOrTail DEF RecoverLine
  <2>4. /\ \A e \in Events : rows[e] > 0 => rows'[e] > 0
        /\ Head(reading).ok => \A e \in Head(reading).evs : rows'[e] > 0
    BY <1>2, <2>2, InsertStores DEF IndInv, TypeOK, RecoverLine
  <2>5. MemoryInv'
    BY <1>2 DEF IndInv, TypeOK, RecoverLine, MemoryInv
  <2>6. CliInv'
    BY <1>2 DEF IndInv, RecoverLine, CliInv, AllButLastEol, cliVars
  <2>7. FileInv'
    BY <1>2 DEF IndInv, RecoverLine, FileInv, AllEol, AllButLastEol, cliVars
  <2>8. \A e \in acked' : Tracked(e)'
    <3>. SUFFICES ASSUME NEW e \in acked' PROVE Tracked(e)'
      OBVIOUS
    <3>1. e \in Events /\ Tracked(e)
      BY <1>2 DEF IndInv, TypeOK, RecoverLine
    <3>2. phase = "recovering" /\ UNCHANGED <<phase, wal>>
      BY <1>2 DEF RecoverLine
    <3>3. InGoodLine(e, reading) => rows'[e] > 0 \/ InGoodLine(e, reading')
      BY <2>3, <2>4
    <3>4. rows[e] > 0 => rows'[e] > 0
      BY <2>4, <3>1
    <3>. QED
      BY <3>1, <3>2, <3>3, <3>4 DEF Tracked
  <2>. QED
    BY <2>1, <2>2, <2>3, <2>4, <2>5, <2>6, <2>7, <2>8 DEF Rest
<1>3. CASE RecoverTruncate
  <2>1. MemoryInv'
    BY <1>3 DEF IndInv, TypeOK, RecoverTruncate, MemoryInv
  <2>2. CliInv'
    BY <1>3 DEF IndInv, RecoverTruncate, CliInv, AllButLastEol, cliVars
  <2>3. FileInv'
    BY <1>3 DEF IndInv, RecoverTruncate, FileInv, AllEol, AllButLastEol, cliVars
  <2>4. \A e \in acked' : Tracked(e)'
    BY <1>3 DEF IndInv, TypeOK, RecoverTruncate, Tracked, InGoodLine, cliVars
  <2>. QED
    BY <2>1, <2>2, <2>3, <2>4 DEF Rest
<1>4. CASE RecoverFails
  BY <1>4 DEF RecoverFails
<1>. QED
  BY <1>1, <1>2, <1>3, <1>4

\* Shutdown and a kill keep the invariant: the log is emptied only when all was flushed.
LEMMA StopStepInv ==
    ASSUME Faults = {}, IndInv, 
           \/ StopCancel \/ StopActive \/ StopDrain \/ StopDone
           \/ StopTruncate \/ Crash
    PROVE  Rest'
<1>1. CASE StopCancel
  <2>1. \A e \in Events : rows[e] > 0 => rows'[e] > 0
    <3>1. {active} \ {NoEvent} \in SUBSET Events
      BY DEF IndInv, TypeOK
    <3>. QED
      BY <1>1, <3>1, InsertStores DEF IndInv, TypeOK, StopCancel
  <2>2. MemoryInv'
    BY <1>1 DEF IndInv, TypeOK, StopCancel, MemoryInv
  <2>3. CliInv'
    BY <1>1 DEF IndInv, StopCancel, CliInv, AllButLastEol, cliVars
  <2>4. FileInv'
    BY <1>1 DEF IndInv, StopCancel, FileInv, AllEol, AllButLastEol, cliVars
  <2>5. \A e \in acked' : Tracked(e)'
    <3>. SUFFICES ASSUME NEW e \in acked' PROVE Tracked(e)'
      OBVIOUS
    <3>1. e \in Events /\ Tracked(e) /\ (rows[e] > 0 => rows'[e] > 0)
      BY <1>1, <2>1 DEF IndInv, TypeOK, StopCancel
    <3>2. /\ phase = "serving" /\ phase' = "stop_active" /\ flushed
          /\ UNCHANGED <<wal, task, active, queue>>
      BY <1>1 DEF IndInv, MemoryInv, StopCancel
    <3>3. InQueue(e) => InQueue(e)'
      BY <3>2 DEF InQueue
    <3>. QED
      BY <3>1, <3>2, <3>3 DEF Tracked
  <2>. QED
    BY <2>1, <2>2, <2>3, <2>4, <2>5 DEF Rest
<1>2. CASE StopActive
  <2>1. /\ \A e \in Events : rows[e] > 0 => rows'[e] > 0
        /\ active \in Events => rows'[active] > 0 \/ (~flushed' /\ active' = active)
    BY <1>2, InsertStores, NoEventAssumption DEF IndInv, TypeOK, StopActive
  <2>2. MemoryInv'
    BY <1>2 DEF IndInv, TypeOK, StopActive, MemoryInv
  <2>3. CliInv'
    BY <1>2 DEF IndInv, StopActive, CliInv, AllButLastEol, cliVars
  <2>4. FileInv'
    BY <1>2 DEF IndInv, StopActive, FileInv, AllEol, AllButLastEol, cliVars
  <2>5. \A e \in acked' : Tracked(e)'
    <3>. SUFFICES ASSUME NEW e \in acked' PROVE Tracked(e)'
      OBVIOUS
    <3>1. e \in Events /\ Tracked(e)
      BY <1>2 DEF IndInv, TypeOK, StopActive
    <3>2. /\ rows[e] > 0 => rows'[e] > 0
          /\ active = e => rows'[e] > 0 \/ ~flushed'
      BY <2>1, <3>1
    <3>3. /\ phase = "stop_active" /\ phase' = "drain" /\ flushed
          /\ UNCHANGED <<wal, task, queue>>
      BY <1>2 DEF IndInv, MemoryInv, StopActive
    <3>4. InQueue(e) => InQueue(e)'
      BY <3>3 DEF InQueue
    <3>. QED
      BY <3>1, <3>2, <3>3, <3>4 DEF Tracked
  <2>. QED
    BY <2>1, <2>2, <2>3, <2>4, <2>5 DEF Rest
<1>3. CASE StopDrain
  <2>1. queue \in Seq(Events) /\ queue # <<>> /\ queue' = Tail(queue)
    BY <1>3 DEF IndInv, TypeOK, StopDrain
  <2>2. \A e : InQueue(e) => e = Head(queue) \/ InQueue(e)'
    BY <2>1, QueueHeadOrTail
  <2>3. /\ \A e \in Events : rows[e] > 0 => rows'[e] > 0
        /\ rows'[Head(queue)] > 0 \/ ~flushed'
    <3>1. Head(queue) \in Events
      BY <2>1
    <3>. QED
      BY <1>3, <3>1, InsertStores DEF IndInv, TypeOK, StopDrain
  <2>4. MemoryInv'
    BY <1>3 DEF IndInv, TypeOK, StopDrain, MemoryInv
  <2>5. CliInv'
    BY <1>3 DEF IndInv, StopDrain, CliInv, AllButLastEol, cliVars
  <2>6. FileInv'
    BY <1>3 DEF IndInv, StopDrain, FileInv, AllEol, AllButLastEol, cliVars
  <2>7. \A e \in acked' : Tracked(e)'
    <3>. SUFFICES ASSUME NEW e \in acked' PROVE Tracked(e)'
      OBVIOUS
    <3>1. e \in Events /\ Tracked(e)
      BY <1>3 DEF IndInv, TypeOK, StopDrain
    <3>2. /\ rows[e] > 0 => rows'[e] > 0
          /\ InQueue(e) => rows'[e] > 0 \/ ~flushed' \/ InQueue(e)'
      BY <2>2, <2>3, <3>1
    <3>3. /\ phase = "drain" /\ UNCHANGED <<phase, wal, task, active>>
          /\ ~flushed => ~flushed'
      BY <1>3 DEF StopDrain
    <3>. QED
      BY <3>1, <3>2, <3>3 DEF Tracked
  <2>. QED
    BY <2>1, <2>2, <2>3, <2>4, <2>5, <2>6, <2>7 DEF Rest
<1>4. CASE StopDone
  <2>1. MemoryInv'
    BY <1>4 DEF IndInv, TypeOK, StopDone, ProcessGone, MemoryInv
  <2>2. CliInv'
    BY <1>4 DEF IndInv, StopDone, ProcessGone, CliInv, AllButLastEol, cliVars
  <2>3. FileInv'
    BY <1>4 DEF IndInv, CliInv, StopDone, ProcessGone, FileInv, AllEol, AllButLastEol, cliVars
  <2>4. \A e \in acked' : Tracked(e)'
    <3>. SUFFICES ASSUME NEW e \in acked' PROVE Tracked(e)'
      OBVIOUS
    <3>1. e \in Events /\ Tracked(e)
      BY <1>4 DEF IndInv, TypeOK, StopDone
    <3>. QED
      BY <1>4, <3>1 DEF StopDone, ProcessGone, Tracked, InQueue
  <2>. QED
    BY <2>1, <2>2, <2>3, <2>4 DEF Rest
<1>5. CASE StopTruncate
  <2>1. MemoryInv'
    BY <1>5 DEF IndInv, TypeOK, StopTruncate, ProcessGone, MemoryInv
  <2>2. CliInv'
    BY <1>5 DEF IndInv, StopTruncate, ProcessGone, CliInv, AllButLastEol, cliVars
  <2>3. FileInv'
    BY <1>5 DEF IndInv, StopTruncate, ProcessGone, FileInv, AllEol, AllButLastEol
  <2>4. \A e \in acked' : Tracked(e)'
    <3>. SUFFICES ASSUME NEW e \in acked' PROVE Tracked(e)'
      OBVIOUS
    <3>1. e \in Events /\ Tracked(e) /\ rows' = rows
      BY <1>5 DEF IndInv, TypeOK, StopTruncate
    <3>2. /\ phase = "truncate" /\ flushed /\ queue = <<>> /\ active # e
          /\ task[e] # "enqueue"
      BY <1>5, <3>1, NoEventAssumption DEF IndInv, MemoryInv, StopTruncate
    <3>3. ~InQueue(e)
      BY <3>2 DEF InQueue
    <3>4. rows[e] > 0
      BY <3>1, <3>2, <3>3 DEF Tracked
    <3>. QED
      BY <3>1, <3>4 DEF Tracked
  <2>. QED
    BY <2>1, <2>2, <2>3, <2>4 DEF Rest
<1>6. CASE Crash
  <2>1. /\ cli = "idle" /\ cli' = cli /\ phase' = "down"
    BY <1>6 DEF IndInv, CliInv, Crash, ProcessGone, Alive, cliVars
  <2>2. /\ AllButLastEol(wal')
        /\ \A e : InGoodLine(e, wal) => InGoodLine(e, wal')
    <3>1. CASE wal' = wal
      BY <3>1 DEF IndInv, FileInv
    <3>2. ASSUME NEW x \in Events, NEW ok \in BOOLEAN, task[x] = "append",
                 wal' = AppendText(wal, Line(x, ok, FALSE))
          PROVE  /\ AllButLastEol(wal')
                 /\ \A e : InGoodLine(e, wal) => InGoodLine(e, wal')
      <4>1. AllEol(wal) /\ wal \in Seq(Lines)
        BY <3>2 DEF IndInv, TypeOK, MemoryInv, FileInv
      <4>. QED
        BY <3>2, <4>1, LineType, AppendKeepsLines
    <3>. QED
      BY <1>6, <3>1, <3>2 DEF Crash
  <2>3. MemoryInv'
    BY <1>6 DEF IndInv, TypeOK, Crash, ProcessGone, MemoryInv
  <2>4. CliInv'
    BY <1>6, <2>1 DEF IndInv, Crash, CliInv, AllButLastEol, cliVars
  <2>5. FileInv'
    BY <1>6, <2>1, <2>2 DEF FileInv
  <2>6. \A e \in acked' : Tracked(e)'
    <3>. SUFFICES ASSUME NEW e \in acked' PROVE Tracked(e)'
      OBVIOUS
    <3>1. Tracked(e) /\ rows' = rows /\ Alive
      BY <1>6 DEF IndInv, Crash
    <3>. QED
      BY <2>1, <2>2, <3>1 DEF Tracked, Alive
  <2>. QED
    BY <2>1, <2>2, <2>3, <2>4, <2>5, <2>6 DEF Rest
<1>. QED
  BY <1>1, <1>2, <1>3, <1>4, <1>5, <1>6

\* A repair of a stopped proxy keeps the invariant: it writes back what it emptied.
LEMMA CliStepInv ==
    ASSUME Faults = {}, IndInv, 
           \/ RepairRead \/ RepairDlq \/ RepairOpen \/ RepairWrite
           \/ RepairClose \/ RepairKilled \/ ReplayDlq
    PROVE  Rest'
<1>1. CASE RepairRead
  <2>1. MemoryInv'
    BY <1>1 DEF IndInv, RepairRead, MemoryInv, procVars
  <2>2. CliInv'
    BY <1>1 DEF IndInv, RepairRead, CliInv, FileInv, AllButLastEol, procVars, Alive
  <2>3. FileInv'
    BY <1>1 DEF IndInv, RepairRead, FileInv, CliInv, AllEol, AllButLastEol, procVars
  <2>4. \A e \in acked' : Tracked(e)'
    <3>. SUFFICES ASSUME NEW e \in acked' PROVE Tracked(e)'
      OBVIOUS
    <3>1. Tracked(e) /\ phase = "down" /\ UNCHANGED <<rows, phase>>
      BY <1>1 DEF IndInv, CliInv, RepairRead, procVars, Alive
    <3>. QED
      BY <1>1, <3>1 DEF IndInv, CliInv, RepairRead, Tracked
  <2>. QED
    BY <2>1, <2>2, <2>3, <2>4 DEF Rest
<1>2. CASE RepairDlq
  <2>1. MemoryInv'
    BY <1>2 DEF IndInv, RepairDlq, MemoryInv, procVars
  <2>2. CliInv'
    BY <1>2 DEF IndInv, RepairDlq, CliInv, FileInv, AllButLastEol, procVars, Alive
  <2>3. FileInv'
    BY <1>2 DEF IndInv, RepairDlq, FileInv, CliInv, AllEol, AllButLastEol, procVars
  <2>4. \A e \in acked' : Tracked(e)'
    <3>. SUFFICES ASSUME NEW e \in acked' PROVE Tracked(e)'
      OBVIOUS
    <3>1. Tracked(e) /\ phase = "down" /\ UNCHANGED <<rows, phase>>
      BY <1>2 DEF IndInv, CliInv, RepairDlq, procVars, Alive
    <3>. QED
      BY <1>2, <3>1 DEF IndInv, CliInv, RepairDlq, Tracked
  <2>. QED
    BY <2>1, <2>2, <2>3, <2>4 DEF Rest
<1>3. CASE RepairOpen
  <2>1. MemoryInv'
    BY <1>3 DEF IndInv, RepairOpen, MemoryInv, procVars
  <2>2. CliInv'
    BY <1>3 DEF IndInv, RepairOpen, CliInv, FileInv, AllButLastEol, procVars, Alive
  <2>3. FileInv'
    BY <1>3 DEF IndInv, RepairOpen, FileInv, CliInv, AllEol, AllButLastEol, procVars
  <2>4. \A e \in acked' : Tracked(e)'
    <3>. SUFFICES ASSUME NEW e \in acked' PROVE Tracked(e)'
      OBVIOUS
    <3>1. Tracked(e) /\ phase = "down" /\ UNCHANGED <<rows, phase>>
      BY <1>3 DEF IndInv, CliInv, RepairOpen, procVars, Alive
    <3>. QED
      BY <1>3, <3>1 DEF IndInv, CliInv, RepairOpen, Tracked
  <2>. QED
    BY <2>1, <2>2, <2>3, <2>4 DEF Rest
<1>4. CASE RepairWrite
  <2>1. phase = "down" /\ UNCHANGED procVars
    BY <1>4 DEF IndInv, CliInv, RepairWrite
  <2>2. /\ cliLines \in Seq(Lines) /\ cliLines # <<>> /\ AllButLastEol(cliLines)
        /\ cliLines' = Tail(cliLines) /\ Head(cliLines) \in Lines
    BY <1>4 DEF IndInv, TypeOK, CliInv, RepairWrite
  <2>3. wal \in Seq(Lines) /\ AllEol(wal)
    BY <1>4 DEF IndInv, TypeOK, FileInv, RepairWrite
  <2>4. /\ AllButLastEol(wal')
        /\ cliLines' # <<>> => AllEol(wal')
        /\ \A e : InGoodLine(e, wal) => InGoodLine(e, wal')
        /\ \A e : InGoodLine(e, cliLines) =>
             InGoodLine(e, wal') \/ InGoodLine(e, cliLines')
    <3>1. CASE Head(cliLines).ok
      <4>1. wal' = AppendText(wal, Head(cliLines))
        BY <1>4, <3>1 DEF RepairWrite
      <4>. QED
        BY <2>2, <2>3, <3>1, <4>1, AppendKeepsLines, HeadOrTail
    <3>2. CASE ~Head(cliLines).ok
      <4>1. wal' = wal
        BY <1>4, <3>2 DEF RepairWrite
      <4>2. AllButLastEol(wal)
        BY DEF IndInv, FileInv
      <4>. QED
        BY <2>2, <2>3, <3>2, <4>1, <4>2, HeadOrTail
    <3>. QED
      BY <3>1, <3>2
  <2>5. MemoryInv'
    BY <2>1 DEF IndInv, MemoryInv, procVars
  <2>6. CliInv'
    BY <1>4, <2>1, <2>2, HeadOrTail DEF IndInv, CliInv, RepairWrite, procVars
  <2>7. FileInv'
    BY <1>4, <2>1, <2>4 DEF FileInv, RepairWrite, procVars
  <2>8. \A e \in acked' : Tracked(e)'
    <3>. SUFFICES ASSUME NEW e \in acked' PROVE Tracked(e)'
      OBVIOUS
    <3>1. Tracked(e) /\ UNCHANGED <<rows, cli, phase>> /\ cli = "rewriting"
      BY <1>4 DEF IndInv, RepairWrite, procVars
    <3>. QED
      BY <2>1, <2>4, <3>1 DEF Tracked
  <2>. QED
    BY <2>1, <2>2, <2>3, <2>4, <2>5, <2>6, <2>7, <2>8 DEF Rest
<1>5. CASE RepairClose
  <2>1. MemoryInv'
    BY <1>5 DEF IndInv, RepairClose, MemoryInv, procVars
  <2>2. CliInv'
    BY <1>5 DEF IndInv, RepairClose, CliInv, FileInv, AllButLastEol, procVars, Alive
  <2>3. FileInv'
    BY <1>5 DEF IndInv, RepairClose, FileInv, CliInv, AllEol, AllButLastEol, procVars
  <2>4. \A e \in acked' : Tracked(e)'
    <3>. SUFFICES ASSUME NEW e \in acked' PROVE Tracked(e)'
      OBVIOUS
    <3>1. Tracked(e) /\ phase = "down" /\ UNCHANGED <<rows, phase>>
      BY <1>5 DEF IndInv, CliInv, RepairClose, procVars, Alive
    <3>. QED
      BY <1>5, <3>1 DEF IndInv, CliInv, RepairClose, Tracked, InGoodLine
  <2>. QED
    BY <2>1, <2>2, <2>3, <2>4 DEF Rest
<1>6. CASE RepairKilled
  BY <1>6 DEF RepairKilled
<1>7. CASE ReplayDlq
  <2>1. \A e \in Events : rows[e] > 0 => rows'[e] > 0
    BY <1>7 DEF IndInv, TypeOK, ReplayDlq, InsertRequest
  <2>2. MemoryInv'
    BY <1>7 DEF IndInv, ReplayDlq, MemoryInv, procVars
  <2>3. CliInv'
    BY <1>7 DEF IndInv, ReplayDlq, CliInv, AllButLastEol, procVars, cliVars
  <2>4. FileInv'
    BY <1>7 DEF IndInv, ReplayDlq, FileInv, AllEol, AllButLastEol, procVars, cliVars
  <2>5. \A e \in acked' : Tracked(e)'
    <3>. SUFFICES ASSUME NEW e \in acked' PROVE Tracked(e)'
      OBVIOUS
    <3>1. e \in Events /\ Tracked(e) /\ UNCHANGED <<wal, procVars, cliVars>>
      BY <1>7 DEF IndInv, TypeOK, ReplayDlq
    <3>2. rows[e] > 0 => rows'[e] > 0
      BY <2>1, <3>1
    <3>3. InQueue(e) => InQueue(e)'
      BY <3>1 DEF InQueue, procVars
    <3>. QED
      BY <3>1, <3>2, <3>3 DEF Tracked, procVars, cliVars
  <2>. QED
    BY <2>1, <2>2, <2>3, <2>4, <2>5 DEF Rest
<1>. QED
  BY <1>1, <1>2, <1>3, <1>4, <1>5, <1>6, <1>7

\* Every step keeps the inductive invariant.
LEMMA NextInv == Faults = {} /\ IndInv /\ [Next]_vars => IndInv'
<1>. SUFFICES ASSUME Faults = {}, IndInv, [Next]_vars PROVE IndInv'
  OBVIOUS
<1>1. TypeOK'
  BY NextTypeOK DEF IndInv
<1>2. CASE Next
  <2>1. Rest'
    BY <1>2, TaskStepInv, WorkerStepInv, StartStepInv, StopStepInv, CliStepInv
       DEF Next
  <2>. QED
    BY <1>1, <2>1 DEF IndInv, Rest
<1>3. CASE UNCHANGED vars
  BY <1>1, <1>3 DEF IndInv, MemoryInv, CliInv, FileInv, AllEol, AllButLastEol,
     Tracked, InQueue, InGoodLine, vars
<1>. QED
  BY <1>2, <1>3

\* The invariant implies Durable.
LEMMA InvDurable == IndInv => Durable /\ LogInHand
<1>. SUFFICES ASSUME IndInv PROVE Durable /\ LogInHand
  OBVIOUS
<1>1. Durable
  BY DEF IndInv, Tracked, Durable, Recoverable
<1>2. LogInHand
  <2>. SUFFICES ASSUME Alive, NEW e \in acked, rows[e] = 0 PROVE InHand(e)
    BY DEF LogInHand
  <2>. QED
    BY DEF IndInv, Tracked, InHand, InQueue, Alive
<1>. QED
  BY <1>1, <1>2

\* Unless one of the five named faults occurs, an event whose append_event()
\* returned is never lost: after any kill, restart, shutdown or repair it is
\* in the table or in a line that the next start replays.
THEOREM Durability == Faults = {} => (Spec => []Durable)
<1>. SUFFICES ASSUME Faults = {} PROVE Spec => []Durable
  OBVIOUS
<1>1. IndInv /\ [Next]_vars => IndInv'
  BY NextInv
<1>2. IndInv => Durable
  BY InvDurable
<1>. QED
  BY InitInv, <1>1, <1>2, PTL DEF Spec

\* Unless one of the five named faults occurs, a live proxy always has in
\* hand every event that only the log holds, which is what makes the
\* truncation at the end of a clean shutdown safe.
THEOREM InHandAlways == Faults = {} => (Spec => []LogInHand)
<1>. SUFFICES ASSUME Faults = {} PROVE Spec => []LogInHand
  OBVIOUS
<1>1. IndInv /\ [Next]_vars => IndInv'
  BY NextInv
<1>2. IndInv => LogInHand
  BY InvDurable
<1>. QED
  BY InitInv, <1>1, <1>2, PTL DEF Spec

\* Unless one of the five named faults occurs, "final WAL truncate ONLY if
\* clean shutdown persisted all records" (proxy/server.py) is true: what the
\* truncated log held is in the table.
THEOREM TruncateSafe == Faults = {} => (Spec => TruncateOnlyPersisted)
<1>. SUFFICES ASSUME Faults = {} PROVE Spec => TruncateOnlyPersisted
  OBVIOUS
<1>. DEFINE Persisted == \A e \in acked : InGoodLine(e, wal) => rows[e] > 0
<1>1. IndInv /\ [Next]_vars => IndInv'
  BY NextInv
<1>2. IndInv /\ [Next]_vars => [StopTruncate => Persisted]_vars
  <2>. SUFFICES ASSUME IndInv, StopTruncate, NEW e \in acked PROVE rows[e] > 0
    OBVIOUS
  <2>1. Tracked(e) /\ phase = "truncate" /\ e \in Events
    BY DEF IndInv, TypeOK, StopTruncate
  <2>2. flushed /\ queue = <<>> /\ active # e /\ task[e] # "enqueue"
    BY <2>1, NoEventAssumption DEF IndInv, MemoryInv
  <2>. QED
    BY <2>1, <2>2 DEF Tracked, InQueue
<1>. QED
  BY InitInv, <1>1, <1>2, PTL DEF Spec, TruncateOnlyPersisted

-----------------------------------------------------------------------------
(* One row per event, under all faults.                                    *)

\* Every step leaves the table alone or changes it by insert_request(), the
\* only statement of the pipeline that writes rows.
LEMMA OnlyInserts ==
    ASSUME TypeOK, [Next]_vars
    PROVE  rows' = rows \/ \E evs \in SUBSET Events : rows' = InsertRequest(rows, evs)
<1>. DEFINE Inserts == \E evs \in SUBSET Events : rows' = InsertRequest(rows, evs)
<1>1. ASSUME NEW e \in Events,
             \/ RequestCompletes(e) \/ AppendEvent(e) \/ AppendFails(e)
             \/ Enqueue(e) \/ LogRecord(e)
      PROVE  rows' = rows \/ Inserts
  BY <1>1 DEF RequestCompletes, AppendEvent, AppendFails, Enqueue, LogRecord
<1>2. ASSUME WorkerGet \/ WorkerInsert PROVE rows' = rows \/ Inserts
  BY <1>2 DEF TypeOK, WorkerGet, WorkerInsert
<1>3. ASSUME Start \/ RecoverLine \/ RecoverTruncate \/ RecoverFails
      PROVE  rows' = rows \/ Inserts
  <2>1. ASSUME RecoverLine PROVE rows' = rows \/ Inserts
    <3>1. Head(reading) \in Lines
      BY <2>1 DEF TypeOK, RecoverLine
    <3>2. Head(reading).evs \in SUBSET Events
      BY <3>1 DEF Lines
    <3>. QED
      BY <2>1, <3>2 DEF RecoverLine
  <2>. QED
    BY <1>3, <2>1 DEF Start, RecoverTruncate, RecoverFails
<1>4. ASSUME \/ StopCancel \/ StopActive \/ StopDrain \/ StopDone
             \/ StopTruncate \/ Crash
      PROVE  rows' = rows \/ Inserts
  <2>1. {active} \ {NoEvent} \in SUBSET Events /\ (active # NoEvent => {active} \in SUBSET Events)
    BY DEF TypeOK
  <2>2. queue # <<>> => {Head(queue)} \in SUBSET Events
    BY DEF TypeOK
  <2>. QED
    BY <1>4, <2>1, <2>2
       DEF StopCancel, StopActive, StopDrain, StopDone, StopTruncate, Crash
<1>5. ASSUME \/ RepairRead \/ RepairDlq \/ RepairOpen \/ RepairWrite
             \/ RepairClose \/ RepairKilled \/ ReplayDlq
      PROVE  rows' = rows \/ Inserts
  <2>1. ASSUME ReplayDlq PROVE Inserts
    <3>1. PICK fixed \in (SUBSET dlq) \ {{}} :
             rows' = InsertRequest(rows, UNION {line.evs : line \in fixed})
      BY <2>1 DEF ReplayDlq
    <3>2. UNION {line.evs : line \in fixed} \in SUBSET Events
      BY <3>1 DEF TypeOK, Lines
    <3>. QED
      BY <3>1, <3>2
  <2>. QED
    BY <1>5, <2>1 DEF RepairRead, RepairDlq, RepairOpen, RepairWrite,
       RepairClose, RepairKilled
<1>6. ASSUME UNCHANGED vars PROVE rows' = rows
  BY <1>6 DEF vars
<1>. QED
  BY <1>1, <1>2, <1>3, <1>4, <1>5, <1>6 DEF Next

\* insert_request() never gives an event a second row (INSERT OR IGNORE).
LEMMA InsertKeepsOne ==
    ASSUME NEW tbl \in [Events -> Nat], NEW evs, \A e \in Events : tbl[e] <= 1
    PROVE  \A e \in Events : InsertRequest(tbl, evs)[e] <= 1
<1>. SUFFICES ASSUME NEW e \in Events PROVE InsertRequest(tbl, evs)[e] <= 1
  OBVIOUS
<1>1. tbl[e] \in Nat /\ tbl[e] <= 1
  OBVIOUS
<1>2. InsertRequest(tbl, evs)[e] = IF e \in evs /\ tbl[e] = 0 THEN 1 ELSE tbl[e]
  BY DEF InsertRequest
<1>3. InsertRequest(tbl, evs)[e] = 1 \/ InsertRequest(tbl, evs)[e] = tbl[e]
  BY <1>2, Zenon
<1>. QED
  BY <1>1, <1>3

\* Under all five faults, any number of kills and whatever the user replays,
\* no event has two rows: spend is never counted twice.
THEOREM NoDoubleRows == Spec => []StoredOnce
<1>. DEFINE Once == TypeOK /\ StoredOnce
<1>1. Init => Once
  BY InitTypeOK DEF Init, StoredOnce
<1>2. Once /\ [Next]_vars => Once'
  <2>. SUFFICES ASSUME Once, [Next]_vars PROVE Once'
    OBVIOUS
  <2>1. TypeOK'
    BY NextTypeOK
  <2>2. CASE rows' = rows
    BY <2>1, <2>2 DEF StoredOnce
  <2>3. CASE \E evs \in SUBSET Events : rows' = InsertRequest(rows, evs)
    BY <2>1, <2>3, InsertKeepsOne DEF TypeOK, StoredOnce
  <2>. QED
    BY <2>2, <2>3, OnlyInserts
<1>. QED
  BY <1>1, <1>2, PTL DEF Spec

-----------------------------------------------------------------------------
(* The pipeline implements EventStore.                                     *)

\* Only append_event() accepts, and it accepts one event; it inserts no row.
LEMMA OnlyAppendAccepts ==
    ASSUME [Next]_vars
    PROVE  \/ acked' = acked
           \/ \E e \in Events : acked' = acked \cup {e} /\ rows' = rows
<1>1. ASSUME NEW e \in Events,
             \/ RequestCompletes(e) \/ AppendEvent(e) \/ AppendFails(e)
             \/ Enqueue(e) \/ LogRecord(e)
      PROVE  acked' = acked \/ (acked' = acked \cup {e} /\ rows' = rows)
  BY <1>1 DEF RequestCompletes, AppendEvent, AppendFails, Enqueue, LogRecord
<1>2. ASSUME \/ WorkerGet \/ WorkerInsert
             \/ Start \/ RecoverLine \/ RecoverTruncate \/ RecoverFails
      PROVE  acked' = acked
  BY <1>2 DEF WorkerGet, WorkerInsert, Start, RecoverLine, RecoverTruncate,
     RecoverFails
<1>3. ASSUME \/ StopCancel \/ StopActive \/ StopDrain \/ StopDone
             \/ StopTruncate \/ Crash
      PROVE  acked' = acked
  BY <1>3 DEF StopCancel, StopActive, StopDrain, StopDone, StopTruncate, Crash
<1>4. ASSUME \/ RepairRead \/ RepairDlq \/ RepairOpen \/ RepairWrite
             \/ RepairClose \/ RepairKilled \/ ReplayDlq
      PROVE  acked' = acked
  BY <1>4 DEF RepairRead, RepairDlq, RepairOpen, RepairWrite,
     RepairClose, RepairKilled, ReplayDlq
<1>5. ASSUME UNCHANGED vars PROVE acked' = acked
  BY <1>5 DEF vars
<1>. QED
  BY <1>1, <1>2, <1>3, <1>4, <1>5 DEF Next

\* Where nothing accepted is lost, the stage of an event is read off the
\* table and the set of accepted events.
LEMMA StageOf ==
    ASSUME TypeOK, Durable, NEW e \in Events
    PROVE  Stage(e) = IF rows[e] > 0 THEN "stored"
                      ELSE IF e \in acked THEN "accepted" ELSE "unknown"
BY DEF Durable, Stage

\* A step of the pipeline accepts one event, stores a set of events, or
\* leaves every stage as it was.
LEMMA StepImplements ==
    ASSUME TypeOK, Durable, TypeOK', Durable', [Next]_vars
    PROVE  [ES!Next]_([e \in Events |-> Stage(e)])
<1>. DEFINE stg == [e \in Events |-> Stage(e)]
            Old(e) == IF rows[e] > 0 THEN "stored"
                      ELSE IF e \in acked THEN "accepted" ELSE "unknown"
            New(e) == IF rows'[e] > 0 THEN "stored"
                      ELSE IF e \in acked' THEN "accepted" ELSE "unknown"
<1>1. stg = [e \in Events |-> Old(e)]
  BY StageOf
<1>2. stg' = [e \in Events |-> New(e)]
  <2>1. \A e \in Events : Stage(e)' = New(e)
    BY DEF Durable, Stage
  <2>. QED
    BY <2>1
<1>. HIDE DEF stg
<1>3. ASSUME acked' = acked, rows' = rows PROVE stg' = stg
  BY <1>1, <1>2, <1>3
<1>4. ASSUME NEW e \in Events, acked' = acked \cup {e}, rows' = rows
      PROVE  stg' = stg \/ ES!Accept(e)
  <2>1. CASE e \in acked \/ rows[e] > 0
    BY <1>1, <1>2, <1>4, <2>1
  <2>2. CASE e \notin acked /\ ~(rows[e] > 0)
    <3>1. stg[e] = "unknown" /\ stg' = [stg EXCEPT ![e] = "accepted"]
      BY <1>1, <1>2, <1>4, <2>2
    <3>. QED
      BY <3>1 DEF ES!Accept, stg
  <2>. QED
    BY <2>1, <2>2
<1>5. ASSUME acked' = acked, NEW evs \in SUBSET Events,
             rows' = InsertRequest(rows, evs)
      PROVE  ES!Store({e \in evs : rows[e] = 0})
  <2>. DEFINE S == {e \in evs : rows[e] = 0}
  <2>1. \A e \in Events : (rows'[e] > 0) = (e \in S \/ rows[e] > 0)
    BY <1>5 DEF TypeOK, InsertRequest
  <2>2. \A e \in S : stg[e] # "stored"
    BY <1>1 DEF TypeOK
  <2>3. stg' = [e \in Events |-> IF e \in S THEN "stored" ELSE stg[e]]
    BY <1>1, <1>2, <1>5, <2>1
  <2>. QED
    BY <2>2, <2>3 DEF ES!Store, stg
<1>6. stg' = stg \/ ES!Next
  <2>1. CASE acked' = acked
    <3>1. ASSUME NEW evs \in SUBSET Events, rows' = InsertRequest(rows, evs)
          PROVE  ES!Next
      BY <2>1, <3>1, <1>5 DEF ES!Next
    <3>. QED
      BY <2>1, <1>3, <3>1, OnlyInserts
  <2>2. CASE \E e \in Events : acked' = acked \cup {e} /\ rows' = rows
    BY <2>2, <1>4 DEF ES!Next
  <2>. QED
    BY <2>1, <2>2, OnlyAppendAccepts
<1>. QED
  BY <1>6 DEF stg

\* Unless one of the five named faults occurs, the pipeline implements
\* EventStore: through kills, restarts, shutdowns and repairs every event
\* only moves forward, from unknown to accepted to stored.
THEOREM Implements == Faults = {} => (Spec => ImplementsEventStore)
<1>. SUFFICES ASSUME Faults = {} PROVE Spec => ES!Spec
  BY DEF ImplementsEventStore
<1>1. Init => ES!Init
  BY DEF Init, ES!Init, Stage, Recoverable, InGoodLine
<1>2. IndInv /\ [Next]_vars => IndInv'
  BY NextInv
<1>3. IndInv /\ IndInv' /\ [Next]_vars => [ES!Next]_([e \in Events |-> Stage(e)])
  <2>1. IndInv => TypeOK /\ Durable
    BY InvDurable DEF IndInv
  <2>2. IndInv' => TypeOK' /\ Durable'
    BY <2>1, PTL
  <2>. QED
    BY <2>1, <2>2, StepImplements
<1>. QED
  BY InitInv, <1>1, <1>2, <1>3, PTL DEF Spec, ES!Spec
=============================================================================
