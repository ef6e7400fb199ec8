---------------------------- MODULE PiiMigration -----------------------------
(***************************************************************************)
(* The encrypt, check and drop migrations that init_db runs at every start *)
(* of the hosted backend (burnlens_cloud/database.py): plaintext columns   *)
(* of users and workspaces are copied into encrypted ones row by row, a    *)
(* gate counts the rows that are not copied, and the columns are dropped   *)
(* one statement after the other.  A start can be killed at any statement  *)
(* and lack the master key, and during a rolling deployment a server of an *)
(* older release still writes plaintext.                                   *)
(***************************************************************************)
EXTENDS Naturals, FiniteSets

CONSTANTS
    Rows,
    MaxWrites       \* bound on what the older release writes

ASSUME PiiAssumption == MaxWrites \in Nat

VARIABLES
    table,          \* "users" or "workspaces"
    cols,           \* plaintext columns that exist
    plain,          \* per row and column the plaintext; 0 is NULL
    copy,           \* per row and column the value behind the encrypted column
    boot,           \* where init_db is
    todo,           \* rows selected for the backfill, with what was read
    late,           \* history: the older release wrote after init_db had begun
    dropped,        \* history: last plaintext of the dropped columns
    wrote           \* number of writes by the older release

piiVars == <<table, cols, plain, copy, boot, todo, late, dropped, wrote>>

\* users: email, google_id, github_id.  workspaces: owner_email, the Paddle
\* ids, api_key, in the order of the DROP statements.
Columns == 1..3

\* Variant of Watched: only the first column is looked at, for every table.
WatchedFirst == {1}

\* The columns whose existence makes init_db consider the drop.
Watched == IF table = "users" THEN {1} ELSE {1, 3}

\* Variant of Gated: the columns are dropped without counting.
GatedNone == {}

\* The columns whose rows are counted.  Phase 1c looks at email_hash alone;
\* phase 2c at every column, the Paddle ids as long as owner_email exists.
Gated == IF table = "users" THEN {1}
         ELSE (IF 1 \in cols THEN {1, 2} ELSE {}) \cup (IF 3 \in cols THEN {3} ELSE {})

\* Rows written before the first of these releases: plaintext only.
PiiInit ==
    /\ table \in {"users", "workspaces"}
    /\ cols = Columns
    /\ plain \in [Rows -> [Columns -> {0, 1}]]
    /\ \A r \in Rows : plain[r][1] = 1
    /\ copy = [r \in Rows |-> [c \in Columns |-> 0]]
    /\ boot = "down" /\ todo = {} /\ late = FALSE
    /\ dropped = [r \in Rows |-> [c \in Columns |-> 0]]
    /\ wrote = 0

Fixed == UNCHANGED <<table, wrote>>

\* The select of the rows without a hash of the first column, if the master key
\* is set and the column is there; without the key nothing is copied.
SelectRows(key) ==
    /\ boot = "down"
    /\ todo' = IF key /\ 1 \in cols THEN {r \in Rows : copy[r][1] = 0} ELSE {}
    /\ boot' = "fill"
    /\ UNCHANGED <<cols, plain, copy, late, dropped>> /\ Fixed

\* One UPDATE per row; workspaces.api_key has its own backfill.
FillRow(r) ==
    /\ boot = "fill" /\ r \in todo
    /\ copy' = [copy EXCEPT ![r] = [c \in Columns |->
                  IF table = "users" \/ c < 3 THEN plain[r][c] ELSE @[c]]]
    /\ todo' = todo \ {r}
    /\ UNCHANGED <<cols, plain, boot, late, dropped>> /\ Fixed

\* api_key_last4 = RIGHT(api_key, 4) for the rows that lack it, in one UPDATE.
FillLast4 ==
    /\ boot = "fill" /\ todo = {}
    /\ copy' = IF table = "workspaces" /\ 3 \in cols
               THEN [r \in Rows |-> [copy[r] EXCEPT ![3] = IF @ = 0 THEN plain[r][3] ELSE @]]
               ELSE copy
    /\ boot' = "gate"
    /\ UNCHANGED <<cols, plain, todo, late, dropped>> /\ Fixed

\* The gate counts rows without successor data and refuses to drop.
Blocked == \E r \in Rows, c \in Gated : copy[r][c] = 0 /\ (table = "users" \/ plain[r][c] # 0)

CheckGate ==
    /\ boot = "gate"
    /\ boot' = IF cols \cap Watched # {} /\ ~Blocked THEN "drop" ELSE "up"
    /\ UNCHANGED <<cols, plain, copy, todo, late, dropped>> /\ Fixed

\* ALTER TABLE ... DROP COLUMN IF EXISTS, one column at a time.
DropColumn ==
    /\ boot = "drop"
    /\ IF cols = {} THEN boot' = "up" /\ UNCHANGED <<cols, dropped>>
       ELSE LET c == CHOOSE c \in cols : \A d \in cols : c <= d
            IN  /\ cols' = cols \ {c}
                /\ dropped' = [r \in Rows |-> [dropped[r] EXCEPT ![c] = plain[r][c]]]
                /\ boot' = boot
    /\ UNCHANGED <<plain, copy, todo, late>> /\ Fixed

\* The process is killed, or stopped for the next deployment.
StartAgain ==
    /\ boot # "down"
    /\ boot' = "down" /\ todo' = {}
    /\ UNCHANGED <<cols, plain, copy, late, dropped>> /\ Fixed

\* An older release links an account or a subscription: plaintext only.
OldReleaseWrites(r, c) ==
    /\ c \in cols /\ c > 1 /\ wrote < MaxWrites
    /\ plain' = [plain EXCEPT ![r][c] = 2]
    /\ late' = (late \/ boot # "down" \/ \E d \in Columns : copy[r][d] # 0)
    /\ wrote' = wrote + 1
    /\ UNCHANGED <<table, cols, copy, boot, todo, dropped>>

PiiNext ==
    \/ \E key \in BOOLEAN : SelectRows(key)
    \/ \E r \in Rows : FillRow(r)
    \/ FillLast4 \/ CheckGate \/ DropColumn \/ StartAgain
    \/ \E r \in Rows, c \in Columns : OldReleaseWrites(r, c)

(***************************************************************************)
(* Properties.                                                             *)
(***************************************************************************)
PiiTypeOK ==
    /\ table \in {"users", "workspaces"} /\ cols \subseteq Columns
    /\ \A r \in Rows, c \in Columns : {plain[r][c], copy[r][c], dropped[r][c]} \subseteq 0..2
    /\ boot \in {"down", "fill", "gate", "drop", "up"} /\ todo \subseteq Rows

\* No plaintext value is dropped before its encrypted column holds it, wherever
\* earlier starts were killed and however often they lacked the key; only a
\* write of an older release beside or after the backfill can be lost.
NothingLost ==
    \A r \in Rows, c \in Columns :
      c \notin cols => (copy[r][c] = dropped[r][c] \/ late)

\* Of workspaces no plaintext column survives a start that began to drop: a
\* drop that was killed half way is completed by a later start.
DropCompletes ==
    (table = "workspaces" /\ boot = "up" /\ cols # Columns) => (cols = {} \/ Blocked)
=============================================================================
