----------------------------- MODULE Migrations -----------------------------
(***************************************************************************)
(* The schema of the local database (burnlens/storage/database.py).  Every *)
(* command and the proxy call init_db when they start, so two processes    *)
(* may bring one old file up to date at once, and either may be killed on  *)
(* the way.  A migration reads the columns (PRAGMA table_info), then adds  *)
(* the missing ones; each ALTER TABLE commits on its own, and a column     *)
(* that another process added in between makes it fail.  The migration of  *)
(* requested_model also fills the column for the rows that are there.      *)
(***************************************************************************)
EXTENDS Naturals, Sequences, SequencesExt

CONSTANTS
    Starters,       \* processes that call init_db
    OldRows,        \* request rows of the file
    FirstVersions   \* how many migrations the file has already seen

VARIABLES
    columns,        \* the columns added by migrations so far
    starters,       \* the processes
    downgraded,     \* rows with a downgrade_reason
    requestedModel, \* requested_model of every row: "null" or "model"
    cut             \* history: a process was killed before the UPDATE

migrationVars == <<columns, starters, downgraded, requestedModel, cut>>

(* The columns of each migration, in the order init_db runs them.  The     *)
(* migrations that only CREATE ... IF NOT EXISTS cannot fail or interfere. *)
SyncedAt == <<"synced_at">>
GitTags == <<"tag_repo", "tag_dev", "tag_pr", "tag_branch">>
KeyLabel == <<"tag_key_label">>
TtftMs == <<"ttft_ms">>
SourceColumns == <<"source", "request_id">>
RoutingColumns == <<"routed_model", "downgrade_reason",
                    "budget_remaining_usd", "budget_remaining_pct">>
CanonicalFields == <<"event_id", "trace_id", "parent_span_id", "workspace_id",
    "org_id", "team", "feature", "customer_hash", "app_id", "env", "repo",
    "branch", "commit_sha", "pricing_version">>
PromptTokens == <<"prompt_system_tokens", "prompt_user_tokens",
    "prompt_tools_tokens", "prompt_rag_tokens", "prompt_history_tokens">>
CacheFields == <<"cache_hit", "cache_saved_usd">>
AgentRunColumns == <<"agent_runs.workflow_run_id">>
CorrelationFields == <<"agent_id", "workflow_id", "workflow_run_id", "run_id",
    "task_id", "action_id", "parent_run_id">>
CacheIntegrity == <<"response_hash", "signature">>
ToolCalls == <<"tool_calls">>
PricingClass == <<"pricing_class">>
PricingFingerprint == <<"pricing_fingerprint">>
RequestedModel == <<"requested_model">>
RequestRelations == <<"parent_event_id", "retry_of_event_id",
                      "fallback_of_event_id">>
FindingBaselines == <<"baseline_cost_usd", "baseline_requests",
                      "baseline_window_days">>

MigrationsInOrder ==
    <<SyncedAt, GitTags, KeyLabel, TtftMs, SourceColumns, RoutingColumns,
      CanonicalFields, PromptTokens, CacheFields, AgentRunColumns,
      CorrelationFields, CacheIntegrity, ToolCalls, PricingClass,
      PricingFingerprint, RequestedModel, RequestRelations, FindingBaselines>>

ASSUME MigrationsAssumption ==
    FirstVersions # {} /\ FirstVersions \subseteq 0..Len(MigrationsInOrder)

ColumnsUpTo(n) == UNION {ToSet(MigrationsInOrder[i]) : i \in 1..n}
AllColumns == ColumnsUpTo(Len(MigrationsInOrder))

NotStarted == [pc |-> "down"]

(* A file written by an earlier version, which may have routed requests.   *)
MigrationsInit ==
    \E n \in FirstVersions :
        /\ columns = ColumnsUpTo(n)
        /\ starters = [p \in Starters |-> NotStarted]
        /\ downgraded \in SUBSET OldRows
        /\ downgraded # {} => "downgrade_reason" \in columns
        /\ requestedModel = [r \in OldRows |->
              IF "requested_model" \in columns /\ r \notin downgraded
              THEN "model" ELSE "null"]
        /\ cut = FALSE

(* The next migration, or a database that is ready.                        *)
NextMigration(i) ==
    IF i < Len(MigrationsInOrder) THEN [pc |-> "peek", at |-> i + 1]
    ELSE [pc |-> "ready"]

InitDb(p) ==
    /\ starters[p].pc = "down"
    /\ starters' = [starters EXCEPT ![p] = [pc |-> "peek", at |-> 1]]
    /\ UNCHANGED <<columns, downgraded, requestedModel, cut>>

(* PRAGMA table_info: what is missing now is what will be added.           *)
MissingColumns(i) ==
    {k \in DOMAIN MigrationsInOrder[i] : MigrationsInOrder[i][k] \notin columns}

TableInfo(p) ==
    LET i == starters[p].at
    IN  /\ starters[p].pc = "peek"
        /\ starters' = [starters EXCEPT ![p] =
              IF MissingColumns(i) = {} THEN NextMigration(i)
              ELSE [pc |-> "alter", at |-> i, todo |-> MissingColumns(i)]]
        /\ UNCHANGED <<columns, downgraded, requestedModel, cut>>

(* What follows the last ALTER of a migration.                             *)
AfterColumnsOnly(i) == NextMigration(i)
AfterColumns(i) ==
    IF MigrationsInOrder[i] = RequestedModel THEN [pc |-> "fill", at |-> i]
    ELSE NextMigration(i)

FirstOf(s, k) == k \in s.todo /\ \A j \in s.todo : k <= j

AddColumn(p) ==
    LET s == starters[p]
    IN  /\ s.pc = "alter"
        /\ \E k \in s.todo :
              /\ FirstOf(s, k) /\ MigrationsInOrder[s.at][k] \notin columns
              /\ columns' = columns \cup {MigrationsInOrder[s.at][k]}
              /\ starters' = [starters EXCEPT ![p] =
                    IF s.todo = {k} THEN AfterColumns(s.at)
                    ELSE [s EXCEPT !.todo = @ \ {k}]]
        /\ UNCHANGED <<downgraded, requestedModel, cut>>

(* "duplicate column name": init_db raises and the process does not start. *)
AfterDuplicateSkips(i) == NextMigration(i)
AfterDuplicate(i) == NotStarted

AddColumnFails(p) ==
    LET s == starters[p]
    IN  /\ s.pc = "alter"
        /\ \E k \in s.todo : FirstOf(s, k) /\ MigrationsInOrder[s.at][k] \in columns
        /\ starters' = [starters EXCEPT ![p] = AfterDuplicate(s.at)]
        /\ UNCHANGED <<columns, downgraded, requestedModel, cut>>

(* UPDATE requests SET requested_model = model WHERE requested_model IS    *)
(* NULL AND downgrade_reason IS NULL, and its commit.                      *)
FilledAnyRow(r) == requestedModel[r] = "null"
Filled(r) == requestedModel[r] = "null" /\ r \notin downgraded

FillRequestedModel(p) ==
    LET s == starters[p]
    IN  /\ s.pc = "fill"
        /\ requestedModel' = [r \in OldRows |->
              IF Filled(r) THEN "model" ELSE requestedModel[r]]
        /\ starters' = [starters EXCEPT ![p] = NextMigration(s.at)]
        /\ UNCHANGED <<columns, downgraded, cut>>

(* A process is killed, or stops after its work.                           *)
StarterStops(p) ==
    /\ starters[p].pc # "down"
    /\ starters' = [starters EXCEPT ![p] = NotStarted]
    /\ cut' = (cut \/ starters[p].pc = "fill")
    /\ UNCHANGED <<columns, downgraded, requestedModel>>

MigrationsNext ==
    \E p \in Starters :
        \/ InitDb(p) \/ TableInfo(p) \/ AddColumn(p) \/ AddColumnFails(p)
        \/ FillRequestedModel(p) \/ StarterStops(p)

-----------------------------------------------------------------------------
(* What each variable may hold.                                            *)
MigrationsTypeOK ==
    /\ columns \subseteq AllColumns
    /\ \A p \in Starters :
          starters[p].pc \in {"down", "peek", "alter", "fill", "ready"}
    /\ downgraded \subseteq OldRows
    /\ requestedModel \in [OldRows -> {"null", "model"}]

(* A process that came through init_db has every column of every           *)
(* migration, whoever added it and however many starts were cut short.     *)
ReadyMeansComplete ==
    \A p \in Starters : starters[p].pc = "ready" => columns = AllColumns

(* Once the column is there and nobody is about to fill it, a row without  *)
(* downgrade has its requested_model, unless a process was killed between  *)
(* the ALTER and the UPDATE of migrate_add_requested_model.                *)
RequestedModelFilled ==
    /\ "requested_model" \in columns /\ ~cut
    /\ \A p \in Starters : starters[p].pc # "fill"
    => \A r \in OldRows \ downgraded : requestedModel[r] = "model"

(* A routed row never gets an invented requested_model, whoever fills.     *)
NothingInvented ==
    \A r \in downgraded : requestedModel[r] = "null"
=============================================================================
