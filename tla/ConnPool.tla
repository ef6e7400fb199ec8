------------------------------ MODULE ConnPool ------------------------------
(***************************************************************************)
(* The connection pool of the hosted backend (burnlens_cloud/database.py). *)
(* execute_query, execute_insert and execute_bulk_insert take a connection *)
(* for one statement and give it back however the statement ends.  get_db  *)
(* hands out a connection that its four callers (the audit log, its        *)
(* export, the OTEL and the pricing settings) never give back; the pricing *)
(* settings also wait for a second one while they hold it.  pool.acquire   *)
(* has no time limit.                                                      *)
(***************************************************************************)
EXTENDS Naturals, FiniteSets, FiniteSetsExt

CONSTANTS
    PoolUsers,      \* requests served at once
    PoolSize        \* max_size

ASSUME PoolAssumption == IsFiniteSet(PoolUsers) /\ PoolSize \in Nat

VARIABLES
    free,           \* connections in the pool
    users,          \* the requests: [pc, kind, held]
    leaked          \* history: connections lost through get_db

poolVars == <<free, users, leaked>>

Idling == [pc |-> "idle", kind |-> "none", held |-> 0]

PoolInit ==
    /\ free = PoolSize
    /\ users = [u \in PoolUsers |-> Idling]
    /\ leaked = 0

(* A request reaches its database call.                                    *)
RequestArrives(u) ==
    /\ users[u].pc = "idle"
    /\ \E k \in {"query", "getdb", "pricing"} :
          users' = [users EXCEPT ![u] = [pc |-> "acquire", kind |-> k, held |-> 0]]
    /\ UNCHANGED <<free, leaked>>

(* pool.acquire(): waits for as long as there is none.                     *)
Acquire(u) ==
    /\ users[u].pc \in {"acquire", "second"} /\ free > 0
    /\ free' = free - 1
    /\ users' = [users EXCEPT ![u].held = @ + 1,
                   ![u].pc = IF users[u].pc = "acquire" THEN "run" ELSE "audit"]
    /\ UNCHANGED leaked

(* The end of "async with pool.acquire()": on success and on failure.      *)
ReleasedOnSuccess(ok) == IF ok THEN 1 ELSE 0
ReleasedTwice(ok) == 2
Released(ok) == 1

QueryEnds(u) ==
    /\ users[u].pc = "run" /\ users[u].kind = "query"
    /\ \E ok \in BOOLEAN : free' = free + Released(ok)
    /\ users' = [users EXCEPT ![u] = Idling]
    /\ UNCHANGED leaked

(* A handler of get_db answers, or answers 500: the connection is gone.    *)
GetDbEnds(u) ==
    /\ users[u].pc = "run" /\ users[u].kind # "query"
    /\ users' = [users EXCEPT ![u] = Idling]
    /\ leaked' = leaked + users[u].held
    /\ UNCHANGED free

(* update_pricing: the write is done, its audit entry takes a connection.  *)
PricingWritten(u) ==
    /\ users[u].pc = "run" /\ users[u].kind = "pricing"
    /\ users' = [users EXCEPT ![u].pc = "second"]
    /\ UNCHANGED <<free, leaked>>

AuditWritten(u) ==
    /\ users[u].pc = "audit"
    /\ free' = free + 1
    /\ leaked' = leaked + users[u].held - 1
    /\ users' = [users EXCEPT ![u] = Idling]

(* The process restarts with a new pool.                                   *)
PoolRestarts ==
    /\ leaked > 0
    /\ free' = PoolSize /\ leaked' = 0
    /\ users' = [u \in PoolUsers |-> Idling]

PoolNext ==
    \/ \E u \in PoolUsers :
          \/ RequestArrives(u) \/ Acquire(u) \/ QueryEnds(u) \/ GetDbEnds(u)
          \/ PricingWritten(u) \/ AuditWritten(u)
    \/ PoolRestarts

-----------------------------------------------------------------------------
(* What each variable may hold.                                            *)
PoolTypeOK ==
    /\ free \in 0..PoolSize /\ leaked \in 0..PoolSize
    /\ users \in [PoolUsers ->
          [pc : {"idle", "acquire", "run", "second", "audit"},
           kind : {"none", "query", "getdb", "pricing"}, held : 0..2]]

Waiting == {u \in PoolUsers : users[u].pc \in {"acquire", "second"}}
Working == {u \in PoolUsers : users[u].pc \in {"run", "audit"}}

(* Everyone waits for everyone only through get_db: when no connection is  *)
(* free and no request is at work, every connection was lost through       *)
(* get_db or is held by a pricing update that waits for its second one.    *)
(* Requests that use execute_query and its like, failing or not, never     *)
(* wear the pool out.                                                      *)
StarvedOnlyByGetDb ==
    Waiting # {} /\ Working = {} /\ free = 0 =>
        leaked + Cardinality({u \in Waiting : users[u].kind = "pricing"
                                              /\ users[u].held = 1}) = PoolSize
=============================================================================
