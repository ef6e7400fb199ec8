------------------------------ MODULE Execution ------------------------------
(***************************************************************************)
(* Assisted execution (burnlens/execution): a human approves a change, and *)
(* execute() turns it into a branch, a commit and a pull request.  Every   *)
(* read and write of SQLite and every call of the git provider is an await *)
(* of its own, so that concurrent calls interleave between them, and the   *)
(* process can be killed between any two.                                  *)
(***************************************************************************)
EXTENDS Naturals, FiniteSets

CONSTANTS
    Calls,          \* executions in flight at a time
    Tokens,         \* approval tokens
    IdemKeys,       \* idempotency keys
    ExecIds,        \* execution ids, which the caller gives too
    Contents,       \* what a request asks for: ws, branch, change
    MaxCalls        \* bound on the number of execute() calls

Protected == {"main"}           \* PROTECTED_BRANCHES
InScope(x) == x.change # "out"  \* every changed file matches scoped_files

ASSUME ExecutionAssumption ==
    /\ MaxCalls \in Nat
    /\ \A x \in Contents : DOMAIN x = {"ws", "branch", "change"}

VARIABLES
    token,          \* approval_tokens: what is approved, whether it is consumed
    expired,        \* tokens past expires_at
    saved,          \* execution_records: the row of a workspace and idempotency key
    call,           \* per call: step, slot, id, request, token, and the reads it holds
    branches,       \* branches of the repository beside the base branch
    opened,         \* pull requests opened: request and token
    openedBy,       \* number of pull requests opened under a token
    beside,         \* history: calls that had read a slot before it was last saved
    made            \* number of execute() calls made

executionVars == <<token, expired, saved, call, branches, opened, openedBy, beside, made>>

NotCalled == [at |-> "idle"]

\* The unique index of execution_records: workspace and idempotency key.
RecordSlots == {x.ws : x \in Contents} \X IdemKeys

ExecutionInit ==
    /\ token = [t \in Tokens |-> {}] /\ expired = {}
    /\ saved = [k \in RecordSlots |-> {}]
    /\ call = [c \in Calls |-> NotCalled]
    /\ branches = {} /\ opened = {}
    /\ openedBy = [t \in Tokens |-> 0]
    /\ beside = [k \in RecordSlots |-> {}]
    /\ made = 0

\* issue_approval: the binding covers workspace, branches, files and payload.
IssueApproval(t, x) ==
    /\ token[t] = {}
    /\ token' = [token EXCEPT ![t] = {[binding |-> x, consumed |-> FALSE]}]
    /\ UNCHANGED <<expired, saved, call, branches, opened, openedBy, beside, made>>

Expire(t) ==
    /\ token[t] # {} /\ t \notin expired
    /\ expired' = expired \cup {t}
    /\ UNCHANGED <<token, saved, call, branches, opened, openedBy, beside, made>>

Row(t) == CHOOSE r \in token[t] : TRUE

\* Variant of Known: only a refused attempt is found again.
KnownRefused(k) == \E r \in saved[k] : r.status = "DENIED"

\* get_by_idempotency returns a row of any status.
Known(k) == saved[k] # {}

\* Step 1: a known key returns the recorded result; `now` is read here too.
Execute(c, k, i, x, t) ==
    /\ call[c].at = "idle" /\ token[t] # {} /\ made < MaxCalls
    /\ made' = made + 1
    /\ call' = IF Known(<<x.ws, k>>) THEN call
               ELSE [call EXCEPT ![c] = [at |-> "tenant", slot |-> <<x.ws, k>>, id |-> i, req |-> x,
                                         tok |-> t, fresh |-> t \notin expired]]
    /\ UNCHANGED <<token, expired, saved, branches, opened, openedBy, beside>>

CallMoves(c, to) == call' = [call EXCEPT ![c].at = to]

\* Variant of TokenValid: the hash of the current request is not compared.
TokenValidUnbound(c, r) == call[c].fresh /\ ~r.consumed

\* ApprovalToken.is_valid: binding, expiry, consumption.  The signature covers
\* fields the model takes from the stored token, so it always matches.
TokenValid(c, r) == r.binding = call[c].req /\ call[c].fresh /\ ~r.consumed

\* ExecutionRequest.validate_scope
ScopeValid(x) == x.branch \notin Protected /\ InScope(x)

\* Steps 2 to 5: workspace, then the stored token, its validity, the scope.
Verify(c) ==
    /\ call[c].at = "tenant"
    /\ LET r == Row(call[c].tok) IN
       CallMoves(c, IF /\ r.binding.ws = call[c].req.ws
                  /\ TokenValid(c, r)
                  /\ ScopeValid(call[c].req)
               THEN "approved" ELSE "denied")
    /\ UNCHANGED <<token, expired, saved, branches, opened, openedBy, beside, made>>

\* Step 6: mark_token_consumed, an UPDATE without a condition on `consumed`.
MarkTokenConsumed(c) ==
    /\ call[c].at = "approved"
    /\ token' = [token EXCEPT ![call[c].tok] = {[r EXCEPT !.consumed = TRUE] : r \in @}]
    /\ CallMoves(c, "consumed")
    /\ UNCHANGED <<expired, saved, branches, opened, openedBy, beside, made>>

\* Variant of BranchFree: an existing branch is reused.
BranchFreeAlways(b) == TRUE

\* create_branch of the provider raises for a branch that exists.
BranchFree(b) == b \notin branches

\* Step 7: the adapter refuses protected names, then the provider answers.
CreateBranch(c) ==
    /\ call[c].at = "consumed"
    /\ LET b == call[c].req.branch IN
       /\ b \notin Protected /\ BranchFree(b)
       /\ branches' = branches \cup {b}
    /\ CallMoves(c, "branched")
    /\ UNCHANGED <<token, expired, saved, opened, openedBy, beside, made>>

CommitScopedChanges(c) ==
    /\ call[c].at = "branched" /\ call[c].req.branch \in branches
    /\ CallMoves(c, "committed")
    /\ UNCHANGED <<token, expired, saved, branches, opened, openedBy, beside, made>>

OpenPullRequest(c) ==
    /\ call[c].at = "committed"
    /\ opened' = opened \cup {[req |-> call[c].req, tok |-> call[c].tok]}
    /\ openedBy' = [openedBy EXCEPT ![call[c].tok] = @ + 1]
    /\ CallMoves(c, "opened")
    /\ UNCHANGED <<token, expired, saved, branches, beside, made>>

RecordCiStatus(c) ==
    /\ call[c].at = "opened"
    /\ CallMoves(c, "completed")
    /\ UNCHANGED <<token, expired, saved, branches, opened, openedBy, beside, made>>

\* Any of the four provider calls raises, without an effect.
ProviderRaises(c) ==
    /\ call[c].at \in {"consumed", "branched", "committed", "opened"}
    /\ CallMoves(c, "failed")
    /\ UNCHANGED <<token, expired, saved, branches, opened, openedBy, beside, made>>

StatusOf(at) == CASE at = "denied" -> "DENIED" [] at = "failed" -> "FAILED" [] at = "completed" -> "COMPLETED"

\* save_execution: INSERT OR REPLACE.  What is replaced is the row of the same
\* workspace and key, and the row of any slot with the same execution_id,
\* which is the primary key.
SaveExecution(c) ==
    /\ call[c].at \in {"denied", "failed", "completed"}
    /\ LET k == call[c].slot
           row == [id |-> call[c].id, status |-> StatusOf(call[c].at)] IN
       /\ saved' = [j \in RecordSlots |->
                       IF j = k THEN {row} ELSE {r \in saved[j] : r.id # row.id}]
       /\ beside' = [beside EXCEPT ![k] =
                       {d \in Calls \ {c} : call[d].at # "idle" /\ call[d].slot = k}]
    /\ call' = [call EXCEPT ![c] = NotCalled]
    /\ UNCHANGED <<token, expired, branches, opened, openedBy, made>>

\* The process is killed; SQLite and the git provider keep what they have.
ProcessKilled ==
    /\ \E c \in Calls : call[c].at # "idle"
    /\ call' = [c \in Calls |-> NotCalled]
    /\ beside' = [k \in RecordSlots |-> {}]
    /\ UNCHANGED <<token, expired, saved, branches, opened, openedBy, made>>

ExecutionNext ==
    \/ \E t \in Tokens, x \in Contents : IssueApproval(t, x)
    \/ \E t \in Tokens : Expire(t)
    \/ \E c \in Calls, k \in IdemKeys, i \in ExecIds, x \in Contents, t \in Tokens : Execute(c, k, i, x, t)
    \/ \E c \in Calls : \/ Verify(c) \/ MarkTokenConsumed(c) \/ CreateBranch(c)
                        \/ CommitScopedChanges(c) \/ OpenPullRequest(c) \/ RecordCiStatus(c)
                        \/ ProviderRaises(c) \/ SaveExecution(c)
    \/ ProcessKilled

(***************************************************************************)
(* Properties.                                                             *)
(***************************************************************************)
ExecutionTypeOK ==
    /\ \A t \in Tokens : Cardinality(token[t]) <= 1
    /\ expired \subseteq Tokens /\ branches \subseteq {x.branch : x \in Contents}
    /\ \A k \in RecordSlots : \A r \in saved[k] :
           saved[k] = {r} /\ r.id \in ExecIds /\ r.status \in {"DENIED", "FAILED", "COMPLETED"}
    /\ made \in 0..MaxCalls

\* One approval yields at most one pull request.  The consumed flag is read
\* long before it is written, so two calls can both pass is_valid; what stops
\* the second is the branch name, which the approval binds.
OnePullRequest == \A t \in Tokens : openedBy[t] <= 1

\* Every pull request is exactly what its approval was given for, in scope and
\* to an unprotected branch, whatever the request was changed to in between.
OpenedAsApproved ==
    \A p \in opened : /\ p.req = Row(p.tok).binding
                      /\ p.req.branch \notin Protected /\ InScope(p.req)

Completed(k) == {r \in saved[k] : r.status = "COMPLETED"}

\* A completed result stays on record.  It goes only when a call saves that
\* had looked its slot up before it was saved, or that was given the same
\* execution_id with another key: in particular never by a retry of the
\* request, whatever calls, kills and failures came between.
CompletedStays ==
    [][\A k \in RecordSlots : \A r \in Completed(k) : r \notin saved'[k] =>
          \E c \in Calls : /\ call[c].at # "idle" /\ call'[c].at = "idle"
                           /\ c \in beside[k] \/ (call[c].slot # k /\ call[c].id = r.id)]_executionVars
=============================================================================
