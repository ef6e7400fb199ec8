------------------------------- MODULE ApiKeys -------------------------------
(***************************************************************************)
(* Ingest keys of one workspace: burnlens_cloud/api_keys_api.py and        *)
(* get_workspace_by_api_key in auth.py.  A key is looked up in api_keys    *)
(* and then in the legacy column of workspaces; each worker process caches *)
(* what it found for api_key_cache_ttl.  Revocation and pausing empty the  *)
(* cache of the worker that serves them, and nobody else's.                *)
(***************************************************************************)
EXTENDS Naturals, FiniteSets

CONSTANTS
    Keys, NoKey,
    Workers,        \* server processes
    Creators,       \* concurrent calls of create_api_key
    KeyCaps         \* api_key_count of the plans the workspace moves between

ASSUME ApiKeysAssumption ==
    /\ NoKey \notin Keys /\ IsFiniteSet(Keys)
    /\ IsFiniteSet(Creators) /\ Creators # {}
    /\ KeyCaps \subseteq Nat /\ KeyCaps # {}

VARIABLES
    keyRow,         \* api_keys: "none", "live", "paused" or "revoked"
    legacyKey,      \* workspaces.api_key_hash
    signupKey,      \* history: the key this column held at first
    keyCache,       \* per worker, _api_key_cache
    lookup,         \* per worker, an authentication that waits for the database
    revoking,       \* keys whose revocation is between its two statements
    dead,           \* history: keys whose revocation is complete
    keyCap,         \* the cap of the current plan
    topCap,         \* history: the highest cap so far
    counted         \* creators that have counted the keys and found room

apiKeyVars == <<keyRow, legacyKey, signupKey, keyCache, lookup, revoking, dead, keyCap,
                topCap, counted>>

Idle == [key |-> NoKey, stage |-> "idle"]

\* Signup leaves its key in the legacy column only; init_db copies it to
\* api_keys at the next start.  NoKey: that key was revoked earlier.
ApiKeysInit ==
    /\ keyRow = [k \in Keys |-> "none"]
    /\ legacyKey \in Keys \cup {NoKey} /\ signupKey = legacyKey
    /\ keyCache = [w \in Workers |-> {}]
    /\ lookup = [w \in Workers |-> Idle]
    /\ revoking = {} /\ dead = {}
    /\ keyCap \in KeyCaps /\ topCap = keyCap
    /\ counted = {}

Unrevoked == {k \in Keys : keyRow[k] \in {"live", "paused"}}

(***************************************************************************)
(* Authentication.                                                         *)
(***************************************************************************)
AtAuth == UNCHANGED <<keyRow, legacyKey, revoking, dead, keyCap, topCap, counted>>

\* A cached key is accepted at once.  Otherwise: the query on api_keys.
LookupKey(w, k) ==
    /\ lookup[w] = Idle /\ k \notin keyCache[w]
    /\ lookup' = [lookup EXCEPT ![w] = [key |-> k, stage |->
                    IF keyRow[k] = "live" THEN "found" ELSE "fallback"]]
    /\ UNCHANGED keyCache /\ AtAuth

\* The query on the legacy column.
LookupLegacy(w) ==
    /\ lookup[w].stage = "fallback"
    /\ lookup' = [lookup EXCEPT ![w] = IF legacyKey = @.key THEN [@ EXCEPT !.stage = "found"] ELSE Idle]
    /\ UNCHANGED keyCache /\ AtAuth

CacheKey(w) ==
    /\ lookup[w].stage = "found"
    /\ keyCache' = [keyCache EXCEPT ![w] = @ \cup {lookup[w].key}]
    /\ lookup' = [lookup EXCEPT ![w] = Idle]
    /\ AtAuth

\* The entry is older than api_key_cache_ttl.
ExpireKey(w, k) ==
    /\ k \in keyCache[w]
    /\ keyCache' = [keyCache EXCEPT ![w] = @ \ {k}]
    /\ UNCHANGED lookup /\ AtAuth

\* A deployment restarts the worker; init_db runs first.
RestartWorker(w) ==
    /\ keyCache' = [keyCache EXCEPT ![w] = {}]
    /\ lookup' = [lookup EXCEPT ![w] = Idle]
    /\ keyRow' = IF legacyKey # NoKey /\ keyRow[legacyKey] = "none"
                 THEN [keyRow EXCEPT ![legacyKey] = "live"] ELSE keyRow
    /\ UNCHANGED <<legacyKey, revoking, dead, keyCap, topCap, counted>>

(***************************************************************************)
(* Key management.                                                         *)
(***************************************************************************)
\* create_api_key reads the cap and counts the keys ...
CountKeys(c) ==
    /\ c \notin counted
    /\ Cardinality(Unrevoked) < keyCap
    /\ counted' = counted \cup {c}
    /\ UNCHANGED <<keyRow, legacyKey, keyCache, lookup, revoking, dead, keyCap, topCap>>

\* ... and inserts: two calls may both have counted before either inserts.
\* Variant of InsertKey: the count is taken for granted and stays valid.
InsertKeyKept(c) ==
    /\ c \in counted
    /\ \E k \in Keys : keyRow[k] = "none" /\ k # signupKey /\ keyRow' = [keyRow EXCEPT ![k] = "live"]
    /\ UNCHANGED <<counted, legacyKey, keyCache, lookup, revoking, dead, keyCap, topCap>>

InsertKey(c) ==
    /\ c \in counted
    /\ \E k \in Keys : keyRow[k] = "none" /\ k # signupKey /\ keyRow' = [keyRow EXCEPT ![k] = "live"]
    /\ counted' = counted \ {c}
    /\ UNCHANGED <<legacyKey, keyCache, lookup, revoking, dead, keyCap, topCap>>

AtManage == UNCHANGED <<lookup, keyCap, topCap, counted>>

\* revoke_api_key: the row, then the cache of this worker ...
RevokeKey(w, k) ==
    /\ k \in Unrevoked
    /\ keyRow' = [keyRow EXCEPT ![k] = "revoked"]
    /\ keyCache' = [keyCache EXCEPT ![w] = @ \ {k}]
    /\ revoking' = revoking \cup {k}
    /\ UNCHANGED <<legacyKey, dead>> /\ AtManage

\* Variant of ClearLegacy: the legacy column is not touched.
ClearLegacyNot(k) ==
    /\ revoking' = revoking \ {k} /\ dead' = dead \cup {k}
    /\ UNCHANGED <<legacyKey, keyRow, keyCache>> /\ AtManage

\* ... then the legacy column.  A kill in between leaves the column as it is,
\* and no later call repairs it: the key counts as not revoked.
ClearLegacy(k) ==
    /\ revoking' = revoking \ {k} /\ dead' = dead \cup {k}
    /\ legacyKey' = IF legacyKey = k THEN NoKey ELSE legacyKey
    /\ UNCHANGED <<keyRow, keyCache>> /\ AtManage

RevokeKilled(k) ==
    /\ revoking' = revoking \ {k}
    /\ UNCHANGED <<legacyKey, dead, keyRow, keyCache>> /\ AtManage

\* pause_api_key leaves the legacy column alone.
PauseKey(w, k) ==
    /\ keyRow[k] = "live"
    /\ keyRow' = [keyRow EXCEPT ![k] = "paused"]
    /\ keyCache' = [keyCache EXCEPT ![w] = @ \ {k}]
    /\ UNCHANGED <<legacyKey, revoking, dead>> /\ AtManage

ResumeKey(k) ==
    /\ keyRow[k] = "paused"
    /\ keyRow' = [keyRow EXCEPT ![k] = "live"]
    /\ UNCHANGED <<keyCache, legacyKey, revoking, dead>> /\ AtManage

\* Billing moves the workspace to another plan.
MovePlan(cap) ==
    /\ cap \in KeyCaps \ {keyCap}
    /\ keyCap' = cap
    /\ topCap' = IF cap > topCap THEN cap ELSE topCap
    /\ UNCHANGED <<keyRow, legacyKey, keyCache, lookup, revoking, dead, counted>>

ApiKeysNext ==
    /\ UNCHANGED signupKey
    /\ \/ \E w \in Workers, k \in Keys :
            LookupKey(w, k) \/ ExpireKey(w, k) \/ RevokeKey(w, k) \/ PauseKey(w, k)
       \/ \E w \in Workers : LookupLegacy(w) \/ CacheKey(w) \/ RestartWorker(w)
       \/ \E c \in Creators : CountKeys(c) \/ InsertKey(c)
       \/ \E k \in revoking : ClearLegacy(k) \/ RevokeKilled(k)
       \/ \E k \in Keys : ResumeKey(k)
       \/ \E cap \in KeyCaps : MovePlan(cap)

(***************************************************************************)
(* Properties.                                                             *)
(***************************************************************************)
ApiKeysTypeOK ==
    /\ \A k \in Keys : keyRow[k] \in {"none", "live", "paused", "revoked"}
    /\ legacyKey \in Keys \cup {NoKey}
    /\ \A w \in Workers : /\ keyCache[w] \subseteq Keys
                          /\ lookup[w].stage \in {"idle", "fallback", "found"}
    /\ revoking \subseteq Keys /\ dead \subseteq Keys
    /\ keyCap \in KeyCaps /\ topCap \in KeyCaps
    /\ counted \subseteq Creators

\* Once a revocation is complete no query finds the key again, through either
\* table: the legacy fallback of get_workspace_by_api_key does not bring it back.
RevokedNotFound ==
    [][\A w \in Workers : (lookup'[w].stage = "found" /\ lookup[w].stage # "found")
                          => lookup'[w].key \notin dead]_apiKeyVars

\* Concurrent calls pass the cap of create_api_key by at most one key per
\* further call, whatever plans the workspace moves between; the key that
\* init_db copies from the legacy column comes on top.
KeysBounded == Cardinality(Unrevoked \ {signupKey}) < topCap + Cardinality(Creators)
=============================================================================
