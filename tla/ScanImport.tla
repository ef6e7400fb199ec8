----------------------------- MODULE ScanImport -----------------------------
(***************************************************************************)
(* The scan importers (burnlens/scan): they read the session logs of other *)
(* tools and the Cursor database and insert one request per billable call, *)
(* which the partial unique index on (source, request_id) keeps once.      *)
(* The tools go on writing while a scan reads: the importer awaits the     *)
(* insert of every record between two lines, and the line at the end of a  *)
(* log may be half written.  A Claude Code record is keyed by the id of    *)
(* its message, a Codex record by its position among the token_count       *)
(* events; a Cursor bubble by its id, and a file beside the database       *)
(* remembers the state of the Cursor database at the last scan.            *)
(***************************************************************************)
EXTENDS Naturals, Sequences, FiniteSets

CONSTANTS
    Scans,          \* `burnlens scan` processes
    MaxLines,       \* bound: lines of the session log
    MaxBubbles      \* bound: bubbles of the Cursor database

ASSUME ScanAssumption == {MaxLines, MaxBubbles} \subseteq Nat

VARIABLES
    keyedBy,        \* how a record of the log is keyed: "id" or "ordinal"
    logLines,       \* the session log: the kinds of its lines, in order
    half,           \* the last line is only partly written
    readers,        \* the scans of the log
    rows,           \* the requests imported from the log: [key, line]
    resumed,        \* history: a reader went on inside a half read line
    bubbleCount,    \* the Cursor database: bubbles 1..bubbleCount
    cursorLocked,   \* Cursor holds the database locked
    cursorScans,    \* the scans of the Cursor database
    scanCache,      \* cursor_parsed.json: the state it records, {} if none
    bubbleRows,     \* imported bubbles
    partial         \* history: the scan that wrote scanCache had not read every bubble

logVars == <<keyedBy, logLines, half, readers, rows, resumed>>
cursorVars == <<bubbleCount, cursorLocked, cursorScans, scanCache,
                bubbleRows, partial>>
scanVars == <<logVars, cursorVars>>

(* What a line holds: a context naming the model, a billable count, a      *)
(* count without usage, or a line that is no JSON at all.                  *)
LineKinds == {"context", "usage", "tick", "bad"}
Resting == [pc |-> "idle"]
Lines == 1..Len(logLines)

ScanInit ==
    /\ keyedBy \in {"id", "ordinal"}
    /\ logLines = <<>> /\ half = FALSE
    /\ readers = [s \in Scans |-> Resting]
    /\ rows = <<>> /\ resumed = FALSE
    /\ bubbleCount = 0 /\ cursorLocked = FALSE
    /\ cursorScans = [s \in Scans |-> Resting]
    /\ scanCache = {} /\ bubbleRows = {} /\ partial = FALSE

-----------------------------------------------------------------------------
(* The tool that writes the log (external).                                *)
LogLine ==
    /\ ~half /\ Len(logLines) < MaxLines
    /\ \E k \in LineKinds : logLines' = Append(logLines, k)
    /\ half' \in BOOLEAN
    /\ UNCHANGED <<keyedBy, readers, rows, resumed, cursorVars>>

LogLineEnds ==
    /\ half /\ half' = FALSE
    /\ UNCHANGED <<keyedBy, logLines, readers, rows, resumed, cursorVars>>

(* A scan finds the session file (a file older than --since is left out)   *)
(* and opens it.                                                           *)
ScanOpens(s) ==
    /\ readers[s].pc = "idle"
    /\ readers' = [readers EXCEPT ![s] =
                      [pc |-> "line", at |-> 1, ordinal |-> 0, model |-> FALSE,
                       inside |-> FALSE, found |-> IF half THEN Len(logLines) - 1
                                                   ELSE Len(logLines)]]
    /\ UNCHANGED <<keyedBy, logLines, half, rows, resumed, cursorVars>>

(* The part of a line that the file iterator returned was not JSON and     *)
(* was skipped; if the writer has ended the line since, the rest of it     *)
(* comes as another line that is not JSON either.                          *)
AfterMalformedStops(r) == [r EXCEPT !.pc = "done"]
AfterMalformed(r) == [r EXCEPT !.at = @ + 1, !.inside = FALSE]

HalfLineRead(s) ==
    LET r == readers[s]
    IN  /\ r.pc = "line" /\ r.at = Len(logLines) /\ half /\ ~r.inside
        /\ readers' = [readers EXCEPT ![s].inside = TRUE]
        /\ UNCHANGED <<keyedBy, logLines, half, rows, resumed, cursorVars>>

RestOfLineRead(s) ==
    LET r == readers[s]
    IN  /\ r.pc = "line" /\ r.inside
        /\ r.at < Len(logLines) \/ ~half
        /\ readers' = [readers EXCEPT ![s] = AfterMalformed(r)]
        /\ resumed' = TRUE
        /\ UNCHANGED <<keyedBy, logLines, half, rows, cursorVars>>

(* The state of parse_session after a whole line: every token_count event  *)
(* has an ordinal, only one with usage under a known model is a record.    *)
Counted(r, kind) == IF kind \in {"usage", "tick"} THEN r.ordinal + 1 ELSE r.ordinal
Billable(r, kind) == kind = "usage" /\ (keyedBy = "ordinal" => r.model)

RequestId(r) == IF keyedBy = "id" THEN r.at ELSE r.ordinal

LineRead(s) ==
    LET r == readers[s]
        kind == logLines[r.at]
    IN  /\ r.pc = "line" /\ ~r.inside
        /\ r.at \in Lines /\ (r.at < Len(logLines) \/ ~half)
        /\ readers' = [readers EXCEPT ![s] =
              IF kind = "bad" THEN AfterMalformed(r)
              ELSE IF Billable(r, kind) THEN [r EXCEPT !.pc = "insert"]
              ELSE [r EXCEPT !.at = @ + 1, !.ordinal = Counted(r, kind),
                             !.model = @ \/ kind = "context"]]
        /\ UNCHANGED <<keyedBy, logLines, half, rows, resumed, cursorVars>>

(* insert_request: INSERT OR IGNORE under the unique index.                *)
InsertedAlways(row) == Append(rows, row)
Inserted(row) ==
    IF \E i \in DOMAIN rows : rows[i].key = row.key THEN rows
    ELSE Append(rows, row)

RecordInserted(s) ==
    LET r == readers[s]
    IN  /\ r.pc = "insert"
        /\ rows' = Inserted([key |-> RequestId(r), line |-> r.at])
        /\ readers' = [readers EXCEPT ![s] = [r EXCEPT !.pc = "line",
                          !.at = @ + 1, !.ordinal = @ + 1]]
        /\ UNCHANGED <<keyedBy, logLines, half, resumed, cursorVars>>

(* The end of the file: nothing after the last line, or only the half      *)
(* already read.                                                           *)
LogRead(s) ==
    LET r == readers[s]
    IN  /\ r.pc = "line"
        /\ r.at > Len(logLines) \/ (r.inside /\ half /\ r.at = Len(logLines))
        /\ readers' = [readers EXCEPT ![s] = [r EXCEPT !.pc = "done"]]
        /\ UNCHANGED <<keyedBy, logLines, half, rows, resumed, cursorVars>>

(* The process ends: after its scan, or killed within it.                  *)
ScanEnds(s) ==
    /\ readers[s].pc # "idle"
    /\ readers' = [readers EXCEPT ![s] = Resting]
    /\ UNCHANGED <<keyedBy, logLines, half, rows, resumed, cursorVars>>

LogNext ==
    \/ LogLine \/ LogLineEnds
    \/ \E s \in Scans :
          \/ ScanOpens(s) \/ HalfLineRead(s) \/ RestOfLineRead(s)
          \/ LineRead(s) \/ RecordInserted(s) \/ LogRead(s) \/ ScanEnds(s)

-----------------------------------------------------------------------------
(* Cursor writes a bubble, which changes size and mtime of its database,   *)
(* or takes or releases its lock (external).                               *)
BubbleWritten ==
    /\ bubbleCount < MaxBubbles /\ bubbleCount' = bubbleCount + 1
    /\ UNCHANGED <<logVars, cursorLocked, cursorScans, scanCache, bubbleRows,
                   partial>>

CursorLocks ==
    /\ cursorLocked' = ~cursorLocked
    /\ UNCHANGED <<logVars, bubbleCount, cursorScans, scanCache, bubbleRows,
                   partial>>

(* scan_cursor takes the database's state first; one that the cache        *)
(* records ends the scan.                                                  *)
CursorScanStarts(s) ==
    /\ cursorScans[s].pc = "idle"
    /\ bubbleCount \notin scanCache
    /\ \E dry \in BOOLEAN, since \in 0..MaxBubbles :
          cursorScans' = [cursorScans EXCEPT ![s] =
             [pc |-> "read", stat |-> bubbleCount, dry |-> dry, since |-> since]]
    /\ UNCHANGED <<logVars, bubbleCount, cursorLocked, scanCache, bubbleRows,
                   partial>>

(* What a scan goes on to import, and whether that is all there was.       *)
GoOnWith(s, read, whole) ==
    LET c == cursorScans[s]
    IN  /\ c.pc = "read"
        /\ cursorScans' = [cursorScans EXCEPT ![s] =
              [pc |-> "import", stat |-> c.stat, dry |-> c.dry, todo |-> read,
               whole |-> whole]]
        /\ UNCHANGED <<logVars, bubbleCount, cursorLocked, scanCache, bubbleRows,
                       partial>>

(* read_bubbles returns the bubbles at or after --since.                   *)
ReadBubbles(s) ==
    LET c == cursorScans[s]
    IN  /\ c.pc = "read" /\ ~cursorLocked
        /\ GoOnWith(s, c.since + 1..bubbleCount, c.since = 0)

(* Locked now and a second later: no bubbles, and no error.                *)
ReadLocked(s) == cursorLocked /\ GoOnWith(s, {}, FALSE)

(* Any other error of SQLite is logged, and again there are no bubbles.    *)
ReadFails(s) == GoOnWith(s, {}, FALSE)

BubbleInserted(s) ==
    LET c == cursorScans[s]
    IN  /\ c.pc = "import" /\ ~c.dry
        /\ \E b \in c.todo :
              /\ bubbleRows' = bubbleRows \cup {b}
              /\ cursorScans' = [cursorScans EXCEPT ![s].todo = @ \ {b}]
        /\ UNCHANGED <<logVars, bubbleCount, cursorLocked, scanCache, partial>>

(* _write_cache records the state taken at the start, also after a read    *)
(* that failed; of a dry run it records nothing, although the docstring of *)
(* scan_cursor says that one "still updates the cache".                    *)
RecordedStateNow(c) == {bubbleCount}
RecordedState(c) == {c.stat}

CursorCached(s) ==
    LET c == cursorScans[s]
    IN  /\ c.pc = "import" /\ ~c.dry /\ c.todo = {}
        /\ scanCache' = RecordedState(c) /\ partial' = ~c.whole
        /\ cursorScans' = [cursorScans EXCEPT ![s] = Resting]
        /\ UNCHANGED <<logVars, bubbleCount, cursorLocked, bubbleRows>>

(* A dry run ends without a row or an entry of the cache; a killed process *)
(* writes no more.                                                         *)
CursorScanEnds(s) ==
    /\ cursorScans[s].pc # "idle"
    /\ cursorScans' = [cursorScans EXCEPT ![s] = Resting]
    /\ UNCHANGED <<logVars, bubbleCount, cursorLocked, scanCache, bubbleRows,
                   partial>>

CursorNext ==
    \/ BubbleWritten \/ CursorLocks
    \/ \E s \in Scans :
          \/ CursorScanStarts(s) \/ ReadBubbles(s) \/ ReadLocked(s)
          \/ ReadFails(s) \/ BubbleInserted(s) \/ CursorCached(s) \/ CursorScanEnds(s)

-----------------------------------------------------------------------------
(* What each variable may hold.                                            *)
ScanTypeOK ==
    /\ logLines \in Seq(LineKinds) /\ Len(logLines) <= MaxLines
    /\ half => logLines # <<>>
    /\ \A s \in Scans :
          /\ readers[s].pc \in {"idle", "line", "insert", "done"}
          /\ cursorScans[s].pc \in {"idle", "read", "import"}
    /\ \A i \in DOMAIN rows :
          rows[i] \in [key : 0..MaxLines, line : 1..MaxLines]
    /\ bubbleCount \in 0..MaxBubbles
    /\ scanCache \subseteq 0..MaxBubbles /\ Cardinality(scanCache) <= 1
    /\ bubbleRows \subseteq 1..MaxBubbles

(* However often and concurrently scan_claude_code and scan_codex run over *)
(* a growing log, a call is imported once: its key is the same for every   *)
(* reader.  For ordinals this needs that no reader went on inside a line   *)
(* it had read half of.                                                    *)
ImportedOnce ==
    keyedBy = "id" \/ ~resumed =>
        \A i, j \in DOMAIN rows : rows[i].line = rows[j].line => i = j

(* A scan that read its log to the end has imported, or found imported,    *)
(* every billable call that was whole when it opened the file.             *)
ScanComplete ==
    keyedBy = "id" \/ ~resumed =>
        \A s \in Scans : readers[s].pc = "done" =>
            \A i \in 1..readers[s].found :
                (/\ logLines[i] = "usage"
                 /\ keyedBy = "id" \/ \E j \in 1..(i - 1) : logLines[j] = "context")
                => \E k \in DOMAIN rows : rows[k].line = i

(* A Cursor database in the state that cursor_parsed.json records has been *)
(* imported in full, whatever Cursor wrote and other scans did meanwhile,  *)
(* if the scan that recorded it read every bubble.  One that met the lock  *)
(* or another error, or was limited by --since, records the state as well, *)
(* and the bubbles it left out stay out until Cursor writes again.         *)
CachedMeansImported ==
    bubbleCount \in scanCache /\ ~partial => bubbleRows = 1..bubbleCount
=============================================================================
