----------------------------- MODULE AgentRuns ------------------------------
(***************************************************************************)
(* Agent runs and the causal links of requests in the local ledger         *)
(* (burnlens/storage/agent_economics.py, storage/database.py).  A run      *)
(* names its parent run; insert_agent_run looks up every id it refers to,  *)
(* statement by statement, and then upserts, so another process may write  *)
(* in between.  A rollup reads the tree of a run first, then the run's own *)
(* spend and then that of each run below it.  A request may name a parent, *)
(* a call it retries or one it replaces; insert_request takes the write    *)
(* lock before it looks for cycles and keeps it until the row is there.    *)
(***************************************************************************)
EXTENDS Naturals, FiniteSets, Functions

CONSTANTS
    RunIds, NoRun,      \* agent runs; no parent
    Spaces,             \* workspaces
    RunWriters,         \* callers of insert_agent_run
    MaxRunSpend,        \* bound: requests of one run
    EventIds, NoEvent,  \* requests; no link
    LinkWriters         \* callers of insert_request

ASSUME AgentRunsAssumption ==
    /\ IsFiniteSet(RunIds) /\ NoRun \notin RunIds /\ NoEvent \notin EventIds
    /\ "none" \notin Spaces /\ MaxRunSpend \in Nat

VARIABLES
    runs,           \* agent_runs: the row of a run, or no row
    runWriters,     \* the callers between their lookups and the upsert
    overtakenRun,   \* history: an upsert followed lookups that were stale
    runSpend,       \* SUM(cost_usd) of the requests of a run
    rollup,         \* a get_run_economics call
    requests,       \* the links of every request row, or no row
    linkWriters,    \* the callers of insert_request
    writeLock       \* who holds BEGIN IMMEDIATE: {} or one caller

treeVars == <<runs, runWriters, overtakenRun, runSpend, rollup>>
linkVars == <<requests, linkWriters, writeLock>>
agentRunVars == <<treeVars, linkVars>>

NoRow == [space |-> "none"]
AtRest == [pc |-> "idle"]

(* What a WITH RECURSIVE query selects: the least set that holds the       *)
(* successors of x and those of its own members.                           *)
Reachable(S, next, x) ==
    {y \in S : \A C \in SUBSET S :
                  next[x] \subseteq C /\ (\A z \in C : next[z] \subseteq C) => y \in C}

AgentRunsInit ==
    /\ runs = [r \in RunIds |-> NoRow]
    /\ runWriters = [w \in RunWriters |-> AtRest]
    /\ overtakenRun = FALSE
    /\ runSpend = [r \in RunIds |-> 0]
    /\ rollup = AtRest
    /\ requests = [e \in EventIds |-> NoRow]
    /\ linkWriters = [w \in LinkWriters |-> AtRest]
    /\ writeLock = {}

-----------------------------------------------------------------------------
(* The lookups of insert_agent_run that raise ValueError: the run, its     *)
(* parent and the runs that name it as parent are of the same workspace.   *)
RunKnown(r) == runs[r] # NoRow
SameSpace(r, space) == RunKnown(r) => runs[r].space = space
Mentions(r) == {c \in RunIds : RunKnown(c) /\ runs[c].parent = r}

RunAllowedOneWay(r, space, parent) ==
    SameSpace(r, space) /\ (parent # NoRun => SameSpace(parent, space))
RunAllowed(r, space, parent) ==
    /\ SameSpace(r, space)
    /\ parent # NoRun => SameSpace(parent, space)
    /\ \A c \in Mentions(r) : runs[c].space = space

InsertAgentRunChecks(w) ==
    /\ runWriters[w].pc = "idle"
    /\ \E r \in RunIds, space \in Spaces, parent \in RunIds \cup {NoRun} :
          /\ RunAllowed(r, space, parent)
          /\ runWriters' = [runWriters EXCEPT ![w] = [pc |-> "checked", run |-> r,
                               space |-> space, parent |-> parent, stale |-> FALSE]]
    /\ UNCHANGED <<runs, overtakenRun, runSpend, rollup, linkVars>>

(* INSERT ... ON CONFLICT(run_id) DO UPDATE ... WHERE the workspace is the *)
(* same; the workspace itself is not among the updated columns.            *)
UpsertedReplace(r, space, parent) == [space |-> space, parent |-> parent]
Upserted(r, space, parent) ==
    IF SameSpace(r, space) THEN [space |-> space, parent |-> parent]
    ELSE runs[r]

InsertAgentRun(w) ==
    LET i == runWriters[w]
    IN  /\ i.pc = "checked"
        /\ runs' = [runs EXCEPT ![i.run] = Upserted(i.run, i.space, i.parent)]
        /\ overtakenRun' = (overtakenRun \/ i.stale)
        /\ runWriters' = [v \in RunWriters |->
              IF v = w THEN AtRest
              ELSE IF runWriters[v].pc = "checked"
                   THEN [runWriters[v] EXCEPT !.stale = TRUE]
                   ELSE runWriters[v]]
        /\ UNCHANGED <<runSpend, rollup, linkVars>>

(* A request of the run is stored.                                         *)
RunBilled(r) ==
    /\ runSpend[r] < MaxRunSpend
    /\ runSpend' = [runSpend EXCEPT ![r] = @ + 1]
    /\ UNCHANGED <<runs, runWriters, overtakenRun, rollup, linkVars>>

(* The recursive query of get_run_economics: the run and its descendants   *)
(* in its workspace.                                                       *)
Children(r) == {c \in RunIds : RunKnown(r) /\ c \in Mentions(r) /\ runs[c].space = runs[r].space}
RunTree(root) == {root} \cup Reachable(RunIds, [r \in RunIds |-> Children(r)], root)

(* The root's own spend is added once, then that of each other run.        *)
ChildRunsAll(root, tree) == tree
ChildRuns(root, tree) == tree \ {root}

RollupStarts(root) ==
    /\ rollup.pc \in {"idle", "done"} /\ RunKnown(root)
    /\ rollup' = [pc |-> "direct", root |-> root,
                  todo |-> ChildRuns(root, RunTree(root)), total |-> 0,
                  space |-> runs[root].space,
                  atLeast |-> SumFunctionOnSet(runSpend, RunTree(root))]
    /\ UNCHANGED <<runs, runWriters, overtakenRun, runSpend, linkVars>>

RollupDirect ==
    /\ rollup.pc = "direct"
    /\ rollup' = [rollup EXCEPT !.pc = "children", !.total = runSpend[rollup.root]]
    /\ UNCHANGED <<runs, runWriters, overtakenRun, runSpend, linkVars>>

RollupAdds(c) ==
    /\ rollup.pc = "children" /\ c \in rollup.todo
    /\ rollup' = [rollup EXCEPT !.todo = @ \ {c}, !.total = @ + runSpend[c]]
    /\ UNCHANGED <<runs, runWriters, overtakenRun, runSpend, linkVars>>

RollupEnds ==
    /\ rollup.pc = "children" /\ rollup.todo = {}
    /\ rollup' = [rollup EXCEPT !.pc = "done"]
    /\ UNCHANGED <<runs, runWriters, overtakenRun, runSpend, linkVars>>

TreeNext ==
    \/ \E w \in RunWriters : InsertAgentRunChecks(w) \/ InsertAgentRun(w)
    \/ \E r \in RunIds : RunBilled(r) \/ RollupStarts(r) \/ RollupAdds(r)
    \/ RollupDirect \/ RollupEnds

-----------------------------------------------------------------------------
(* _REQUEST_LINKS_SQL: what the stored requests of a workspace link to.    *)
LinkKinds == {"parent", "retry", "fallback"}
Stored(space) == {e \in EventIds : requests[e].space = space}
LinksTo(e) == {requests[e].links[k] : k \in LinkKinds} \ {NoEvent}
Links(space) == [e \in EventIds |-> IF e \in Stored(space) THEN LinksTo(e) ELSE {}]
Reaches(space, e) == Reachable(EventIds, Links(space), e)

(* BEGIN IMMEDIATE, for a request that has a link.                         *)
LockFreeAlways == TRUE
LockFree == writeLock = {}

InsertRequestBegins(w) ==
    /\ linkWriters[w].pc = "idle" /\ LockFree
    /\ \E e \in EventIds, space \in Spaces,
          links \in [LinkKinds -> EventIds \cup {NoEvent}] :
          /\ requests[e] = NoRow
          /\ \E k \in LinkKinds : links[k] # NoEvent
          /\ linkWriters' = [linkWriters EXCEPT ![w] =
                [pc |-> "validate", event |-> e, space |-> space, links |-> links]]
    /\ writeLock' = {w}
    /\ UNCHANGED <<requests, treeVars>>

(* _validate_request_relationships omits a link to the request itself, one *)
(* that closes a cycle of the stored links, and both of retry and fallback *)
(* when both are given.                                                    *)
ValidLink(e, space, links, k) ==
    /\ links[k] # e /\ e \notin Reaches(space, links[k])
    /\ k = "parent" \/ links["retry"] = NoEvent \/ links["fallback"] = NoEvent

ValidateRelationships(w) ==
    LET i == linkWriters[w]
    IN  /\ i.pc = "validate"
        /\ linkWriters' = [linkWriters EXCEPT ![w] =
              [i EXCEPT !.pc = "insert",
                        !.links = [k \in LinkKinds |->
                            IF i.links[k] # NoEvent
                               /\ ValidLink(i.event, i.space, i.links, k)
                            THEN i.links[k] ELSE NoEvent]]]
        /\ UNCHANGED <<requests, writeLock, treeVars>>

(* INSERT OR IGNORE and the commit, which frees the lock.                  *)
InsertRequest(w) ==
    LET i == linkWriters[w]
    IN  /\ i.pc = "insert"
        /\ requests' = IF requests[i.event] = NoRow
                       THEN [requests EXCEPT ![i.event] =
                                [space |-> i.space, links |-> i.links]]
                       ELSE requests
        /\ linkWriters' = [linkWriters EXCEPT ![w] = AtRest]
        /\ writeLock' = {}
        /\ UNCHANGED treeVars

(* The process is killed: the transaction is rolled back.                  *)
InsertRequestKilled(w) ==
    /\ linkWriters[w].pc # "idle"
    /\ linkWriters' = [linkWriters EXCEPT ![w] = AtRest]
    /\ writeLock' = {}
    /\ UNCHANGED <<requests, treeVars>>

LinkNext ==
    \E w \in LinkWriters :
        \/ InsertRequestBegins(w) \/ ValidateRelationships(w)
        \/ InsertRequest(w) \/ InsertRequestKilled(w)

-----------------------------------------------------------------------------
(* What each variable may hold.                                            *)
AgentRunsTypeOK ==
    /\ \A r \in RunIds :
          RunKnown(r) => runs[r] \in [space : Spaces, parent : RunIds \cup {NoRun}]
    /\ \A w \in RunWriters : runWriters[w].pc \in {"idle", "checked"}
    /\ runSpend \in [RunIds -> 0..MaxRunSpend]
    /\ rollup.pc \in {"idle", "direct", "children", "done"}
    /\ \A w \in LinkWriters : linkWriters[w].pc \in {"idle", "validate", "insert"}
    /\ Cardinality(writeLock) <= 1

(* Parent and child are of one workspace whichever of the two was          *)
(* registered first, unless two callers of insert_agent_run overlapped.    *)
RunTreesApart ==
    ~overtakenRun =>
        \A c \in RunIds : RunKnown(c) /\ runs[c].parent # NoRun =>
            SameSpace(runs[c].parent, runs[c].space)

(* A registered run stays in its workspace, overlapping callers included:  *)
(* its spend is never moved to another tenant.                             *)
RunKeepsSpace ==
    [][\A r \in RunIds : RunKnown(r) => runs'[r].space = runs[r].space]_runs

(* "including child runs with NO double counting": the total of a rollup   *)
(* is at least the tree's spend when it was read and at most the spend of  *)
(* the workspace now, though parents form cycles and runs move meanwhile.  *)
RollupCountsOnce ==
    rollup.pc = "done" =>
        /\ rollup.total >= rollup.atLeast
        /\ rollup.total <= SumFunctionOnSet(runSpend,
                              {r \in RunIds : runs[r].space = rollup.space})

(* The links of the requests of one workspace never form a cycle, two late *)
(* ends of one arriving at once included.                                  *)
LinksAcyclic ==
    \A space \in Spaces : \A e \in EventIds : e \notin Reaches(space, e)
=============================================================================
