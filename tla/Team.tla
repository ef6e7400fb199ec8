-------------------------------- MODULE Team ---------------------------------
(***************************************************************************)
(* Members, roles and invitations of one workspace:                        *)
(* burnlens_cloud/team_api.py and accept_invitation in auth.py.  Handlers  *)
(* check first and write later, in separate statements.  The role they     *)
(* check is the one in the caller's token, as it was at login.             *)
(***************************************************************************)
EXTENDS Naturals, FiniteSets

CONSTANTS
    Users,
    Slots,          \* requests in flight
    SeatLimit,      \* seats of the plan
    InviteRoles,    \* roles that are invited: viewer, admin
    MaxInvites,     \* bound on the invitations sent to one user
    MaxUnmarked     \* bound on the joins whose mark is cut off

ASSUME TeamAssumption ==
    /\ SeatLimit \in Nat /\ MaxInvites \in Nat /\ MaxUnmarked \in Nat
    /\ IsFiniteSet(Users) /\ Users # {} /\ IsFiniteSet(Slots)
    /\ InviteRoles \subseteq {"viewer", "admin"}

VARIABLES
    member,         \* workspace_members: role of the active row, or "none"
    admins,         \* users whose session token says admin or owner
    invite,         \* the invitations of a user
    handler,        \* per slot, the request between its checks and its write
    raced,          \* history: a change was written after one it had not seen
    joins,          \* history: memberships granted to a user by invitations
    issued,         \* history: invitations sent to a user
    unmarked        \* history: joins of a user whose invitation was left unmarked

teamVars == <<member, admins, invite, handler, raced, joins, issued, unmarked>>

Roles == {"viewer", "admin", "owner"}
Rank(r) == CASE r = "none" -> 0 [] r = "viewer" -> 1 [] r = "admin" -> 2 [] r = "owner" -> 3
NoInvite == [state |-> "none", role |-> "viewer"]
Free == [op |-> "free"]
Owners == {u \in Users : member[u] = "owner"}
Seats == Cardinality({u \in Users : member[u] # "none"})

\* A workspace with its owners, everybody signed in.
TeamInit ==
    /\ \E O \in (SUBSET Users) \ {{}} : member = [u \in Users |-> IF u \in O THEN "owner" ELSE "none"]
    /\ admins = {u \in Users : member[u] = "owner"}
    /\ invite = [u \in Users |-> [n \in 1..MaxInvites |-> NoInvite]]
    /\ handler = [s \in Slots |-> Free]
    /\ raced = FALSE
    /\ joins = [u \in Users |-> 0] /\ issued = [u \in Users |-> 0]
    /\ unmarked = [u \in Users |-> 0]

\* require_role("admin"), of a token that is issued now.
RequireRole(u) == Rank(member[u]) >= Rank("admin")

\* issue_session_for_user puts the role of the membership into the token ...
IssueSession(u) ==
    /\ member[u] # "none" /\ (u \in admins) # RequireRole(u)
    /\ admins' = IF RequireRole(u) THEN admins \cup {u} ELSE admins \ {u}
    /\ UNCHANGED <<member, invite, handler, raced, joins, issued, unmarked>>

\* ... where it stays until the token expires.
TokenExpires(u) ==
    /\ u \in admins
    /\ admins' = admins \ {u}
    /\ UNCHANGED <<member, invite, handler, raced, joins, issued, unmarked>>

\* Variant of LastOwner: the count of the owners is off by one.
LastOwnerOff(u, role) == member[u] = "owner" /\ role # "owner" /\ Cardinality(Owners) < 1

\* An owner may not be removed or downgraded while being the only one.
LastOwner(u, role) == member[u] = "owner" /\ role # "owner" /\ Cardinality(Owners) <= 1

\* remove_member (role "none") and update_member_role up to their checks.
ChangeChecked(s, u, role) ==
    /\ handler[s] = Free
    /\ admins # {}
    /\ member[u] # "none" /\ ~LastOwner(u, role)
    /\ handler' = [handler EXCEPT ![s] =
                     [op |-> "change", user |-> u, role |-> role, row |-> joins[u], stale |-> FALSE]]
    /\ UNCHANGED <<member, admins, invite, raced, joins, issued, unmarked>>

\* The write goes to the row that was read: a user who was removed and has
\* joined again has another one.  A failing write changes nothing.  Other
\* changes in flight were checked against what is now an old state.
ChangeWritten(s) ==
    /\ handler[s].op = "change"
    /\ LET h == handler[s]
           hit == member[h.user] # "none" /\ joins[h.user] = h.row IN
       /\ \/ member' = [member EXCEPT ![h.user] = IF hit THEN h.role ELSE @]
          \/ member' = member
       /\ raced' = (raced \/ (h.stale /\ hit))
    /\ handler' = [t \in Slots |-> IF t = s THEN Free
                                  ELSE IF handler[t].op = "change" THEN [handler[t] EXCEPT !.stale = TRUE]
                                  ELSE handler[t]]
    /\ UNCHANGED <<admins, invite, joins, issued, unmarked>>

\* invite_member: not a member yet, a seat is free, viewer or admin.  Open
\* invitations do not take seats.
InviteMember(u, role) ==
    /\ admins # {}
    /\ member[u] = "none" /\ Seats < SeatLimit
    /\ issued[u] < MaxInvites
    /\ issued' = [issued EXCEPT ![u] = @ + 1]
    /\ invite' = [invite EXCEPT ![u][issued[u] + 1] = [state |-> "open", role |-> role]]
    /\ UNCHANGED <<member, admins, handler, raced, joins, unmarked>>

InviteExpires(u, n) ==
    /\ invite[u][n].state = "open"
    /\ invite' = [invite EXCEPT ![u][n].state = "expired"]
    /\ UNCHANGED <<member, admins, handler, raced, joins, issued, unmarked>>

\* Variant of AcceptRead: an invitation that was accepted is valid.
AcceptReadAgain(s, u, n) ==
    /\ handler[s] = Free
    /\ invite[u][n].state \in {"open", "accepted"}
    /\ handler' = [handler EXCEPT ![s] = [op |-> "accept", user |-> u, role |-> invite[u][n].role, n |-> n]]
    /\ UNCHANGED <<member, admins, invite, raced, joins, issued, unmarked>>

\* accept_invitation reads the invitation of the caller's address ...
AcceptRead(s, u, n) ==
    /\ handler[s] = Free
    /\ invite[u][n].state = "open"
    /\ handler' = [handler EXCEPT ![s] = [op |-> "accept", user |-> u, role |-> invite[u][n].role, n |-> n]]
    /\ UNCHANGED <<member, admins, invite, raced, joins, issued, unmarked>>

\* ... looks for an active membership (ensure_workspace_member): who has one
\* needs no other ...
AcceptLookup(s) ==
    /\ handler[s].op = "accept"
    /\ LET h == handler[s] IN
       handler' = [handler EXCEPT ![s] =
           IF member[h.user] = "none" THEN [h EXCEPT !.op = "join"]
           ELSE [op |-> "mark", user |-> h.user, n |-> h.n, joined |-> FALSE]]
    /\ UNCHANGED <<member, admins, invite, raced, joins, issued, unmarked>>

\* ... else inserts one, and no longer looks at seats.  The index on active
\* rows refuses a second one, which ends the request.  It does not know the
\* rows of those who were removed ...
AcceptJoin(s) ==
    /\ handler[s].op = "join"
    /\ LET h == handler[s] IN
       \/ /\ member[h.user] = "none"
          /\ member' = [member EXCEPT ![h.user] = h.role]
          /\ joins' = [joins EXCEPT ![h.user] = @ + 1]
          /\ handler' = [handler EXCEPT ![s] = [op |-> "mark", user |-> h.user, n |-> h.n, joined |-> TRUE]]
       \/ /\ member[h.user] # "none"
          /\ handler' = [handler EXCEPT ![s] = Free]
          /\ UNCHANGED <<member, joins>>
    /\ UNCHANGED <<admins, invite, raced, issued, unmarked>>

\* ... and marks the invitation as accepted, in a statement of its own.
AcceptMark(s) ==
    /\ handler[s].op = "mark"
    /\ invite' = [invite EXCEPT ![handler[s].user][handler[s].n].state = "accepted"]
    /\ handler' = [handler EXCEPT ![s] = Free]
    /\ UNCHANGED <<member, admins, raced, joins, issued, unmarked>>

\* A statement of accept_invitation fails, or the process ends before it: what
\* was committed stays.  After the join this leaves an invitation that was
\* used and is still open.
AcceptCut(s) ==
    /\ handler[s].op \in {"accept", "join", "mark"}
    /\ LET h == handler[s]
           lost == h.op = "mark" /\ h.joined IN
       /\ lost => \A u \in Users : unmarked[u] < MaxUnmarked
       /\ unmarked' = [unmarked EXCEPT ![h.user] = IF lost THEN @ + 1 ELSE @]
    /\ handler' = [handler EXCEPT ![s] = Free]
    /\ UNCHANGED <<member, admins, invite, raced, joins, issued>>

TeamNext ==
    \/ \E u \in Users : IssueSession(u) \/ TokenExpires(u)
    \/ \E s \in Slots, u \in Users, role \in Roles \cup {"none"} : ChangeChecked(s, u, role)
    \/ \E u \in Users, role \in InviteRoles : InviteMember(u, role)
    \/ \E u \in Users, n \in 1..MaxInvites : InviteExpires(u, n) \/ \E s \in Slots : AcceptRead(s, u, n)
    \/ \E s \in Slots : \/ ChangeWritten(s) \/ AcceptLookup(s) \/ AcceptJoin(s)
                       \/ AcceptMark(s) \/ AcceptCut(s)

(***************************************************************************)
(* Properties.                                                             *)
(***************************************************************************)
TeamTypeOK ==
    /\ \A u \in Users : /\ member[u] \in Roles \cup {"none"}
                        /\ \A n \in 1..MaxInvites : invite[u][n].state \in {"none", "open", "accepted", "expired"}
                        /\ issued[u] \in 0..MaxInvites /\ joins[u] \in Nat /\ unmarked[u] \in 0..MaxUnmarked
    /\ \A s \in Slots : handler[s].op \in {"free", "change", "accept", "join", "mark"}
    /\ raced \in BOOLEAN /\ admins \subseteq Users

\* A workspace never loses its last owner, unless two removals or downgrades
\* overlapped, one being checked before and written after the other.  Stale
\* roles in tokens, joins and removals in any order do not do it.
OwnerRemains == Owners # {} \/ raced

\* An invitation makes its addressee a member once: whoever is removed stays
\* out until invited again.  Two things exceed it and are counted, not
\* excused: accepts that were under way together, one join for each further
\* request, and a join whose mark was cut off, which leaves the link good for
\* one more.
InviteSpent == \A u \in Users : joins[u] <= issued[u] * Cardinality(Slots) + unmarked[u]
=============================================================================
