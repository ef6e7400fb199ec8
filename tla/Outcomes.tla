------------------------------ MODULE Outcomes -------------------------------
(***************************************************************************)
(* Business outcomes on both sides: recorded by hand or derived from pull  *)
(* requests (burnlens/outcomes.py, storage/database.py), pushed to the     *)
(* hosted backend, which keeps the first copy (outcomes_api.py), and       *)
(* corrected on either side with a history.  Derivations read GitHub and   *)
(* write later; deliveries may be late and repeated.                       *)
(***************************************************************************)
EXTENDS Naturals, FiniteSets, Sequences

CONSTANTS
    PullRequests,   \* also the ids of their outcomes
    Derivers,       \* `burnlens outcome derive` runs in flight
    MaxEventTime,   \* bound on event times
    MaxCorrections  \* bound on the corrections of one outcome on one side

ASSUME OutcomesAssumption ==
    {MaxEventTime, MaxCorrections} \subseteq Nat

OutcomeStatuses == {"accepted", "rejected", "failed"}

VARIABLES
    pull,           \* GitHub: "open", or the outcome and when
    deriver,        \* per run: the pull requests it has fetched and not yet written
    localRow,       \* outcomes, local: status, at, source, synced; a set of at most one
    localHistory,   \* outcome_history, local
    posts,          \* bodies on the way to the backend, delivered any number of times
    cloudRow,       \* outcomes, hosted; a set of at most one
    cloudHistory,   \* outcome_history, hosted
    judged,         \* history: what a person last said of an outcome, and of whose row; at most one
    eventTime       \* the clock

outcomeVars == <<pull, deriver, localRow, localHistory, posts, cloudRow, cloudHistory, judged, eventTime>>

Fresh(status, source) == [status |-> status, at |-> eventTime, source |-> source, synced |-> FALSE]
StillOpen == [status |-> "open", at |-> 0]

OutcomesInit ==
    /\ pull = [p \in PullRequests |-> StillOpen]
    /\ deriver = [d \in Derivers |-> {}]
    /\ localRow = [p \in PullRequests |-> {}] /\ localHistory = [p \in PullRequests |-> <<>>]
    /\ posts = {}
    /\ cloudRow = [p \in PullRequests |-> {}] /\ cloudHistory = [p \in PullRequests |-> <<>>]
    /\ judged = [p \in PullRequests |-> {}] /\ eventTime = 0

\* A pull request is merged, closed, or opened again after a close.
PullChanges(p, status) ==
    /\ pull[p].status # "accepted" /\ pull[p].status # status
    /\ eventTime < MaxEventTime /\ eventTime' = eventTime + 1
    /\ pull' = [pull EXCEPT ![p] = IF status = "open" THEN StillOpen
                                   ELSE [status |-> status, at |-> eventTime + 1]]
    /\ UNCHANGED <<deriver, localRow, localHistory, posts, cloudRow, cloudHistory, judged>>

\* fetch_pull_requests and build_outcomes: closed ones only.
FetchPulls(d) ==
    /\ deriver[d] = {}
    /\ deriver' = [deriver EXCEPT ![d] =
                     {[id |-> p, status |-> pull[p].status, at |-> pull[p].at] :
                        p \in {q \in PullRequests : pull[q].status # "open"}}]
    /\ UNCHANGED <<pull, localRow, localHistory, posts, cloudRow, cloudHistory, judged, eventTime>>

The(S) == CHOOSE x \in S : TRUE

\* Variant of Logged: the prior state is the first one on record.
LoggedFirst(h, row, status) ==
    Append(h, <<IF h = <<>> THEN row.status ELSE Head(h)[1], status>>)

\* The outcome_history row that a change of status writes.
Logged(h, row, status) == Append(h, <<row.status, status>>)

\* Variant of Derivable: a row of any source is brought up to date.
DerivableAll(row, o) == row.status # o.status \/ row.at # o.at

\* Only derived rows that differ are corrected.
Derivable(row, o) == row.source = "derived" /\ (row.status # o.status \/ row.at # o.at)

\* reconcile_derived_outcome, one transaction per outcome.  `synced` stays.
ReconcileDerived(d, o) ==
    /\ o \in deriver[d]
    /\ deriver' = [deriver EXCEPT ![d] = @ \ {o}]
    /\ IF localRow[o.id] = {}
       THEN /\ localRow' = [localRow EXCEPT ![o.id] =
                 {[status |-> o.status, at |-> o.at, source |-> "derived", synced |-> FALSE]}]
            /\ UNCHANGED localHistory
       ELSE LET row == The(localRow[o.id]) IN
            IF Derivable(row, o)
            THEN /\ localRow' = [localRow EXCEPT ![o.id] =
                      {[row EXCEPT !.status = o.status, !.at = o.at, !.source = "derived"]}]
                 /\ localHistory' = [localHistory EXCEPT ![o.id] = Logged(@, row, o.status)]
            ELSE UNCHANGED <<localRow, localHistory>>
    /\ UNCHANGED <<pull, posts, cloudRow, cloudHistory, judged, eventTime>>

DeriverDies(d) ==
    /\ deriver[d] # {}
    /\ deriver' = [deriver EXCEPT ![d] = {}]
    /\ UNCHANGED <<pull, localRow, localHistory, posts, cloudRow, cloudHistory, judged, eventTime>>

\* insert_outcome, from `burnlens outcome record`: INSERT OR IGNORE.
RecordOutcome(p, status) ==
    /\ localRow[p] = {}
    /\ localRow' = [localRow EXCEPT ![p] = {Fresh(status, "cli")}]
    /\ judged' = [judged EXCEPT ![p] = {[status |-> status, source |-> "cli"]}]
    /\ UNCHANGED <<pull, deriver, localHistory, posts, cloudRow, cloudHistory, eventTime>>

\* correct_outcome of the proxy, from `burnlens outcome correct`.  Neither the
\* source nor the synced mark changes.
CorrectLocal(p, status) ==
    LET row == The(localRow[p]) IN
    /\ localRow[p] # {} /\ Len(localHistory[p]) < MaxCorrections
    /\ localRow' = [localRow EXCEPT ![p] = {[row EXCEPT !.status = status]}]
    /\ localHistory' = [localHistory EXCEPT ![p] = Logged(@, row, status)]
    /\ judged' = [judged EXCEPT ![p] = {[status |-> status, source |-> row.source]}]
    /\ UNCHANGED <<pull, deriver, posts, cloudRow, cloudHistory, eventTime>>

\* push_outcomes: an unsynced row is sent; the answer may be lost (CloudSync has
\* the client's side), so that it is sent again, or a body delivered again.
PushOutcome(p) ==
    /\ localRow[p] # {} /\ ~ The(localRow[p]).synced
    /\ posts' = posts \cup {[id |-> p, status |-> The(localRow[p]).status, at |-> The(localRow[p]).at]}
    /\ UNCHANGED <<pull, deriver, localRow, localHistory, cloudRow, cloudHistory, judged, eventTime>>

\* _mark_outcomes_synced, by id.
MarkOutcome(p) ==
    /\ localRow[p] # {} /\ ~ The(localRow[p]).synced
    /\ cloudRow[p] # {}
    /\ localRow' = [localRow EXCEPT ![p] = {[The(localRow[p]) EXCEPT !.synced = TRUE]}]
    /\ UNCHANGED <<pull, deriver, localHistory, posts, cloudRow, cloudHistory, judged, eventTime>>

\* Variant of Ingested: the posted status replaces what is there.
IngestedUpdated(m) == {[status |-> m.status, at |-> m.at]}

\* ON CONFLICT DO NOTHING
Ingested(m) == IF cloudRow[m.id] = {} THEN {[status |-> m.status, at |-> m.at]} ELSE cloudRow[m.id]

\* ingest_outcomes; the body may come again later.
IngestOutcome(m) ==
    /\ m \in posts
    /\ cloudRow' = [cloudRow EXCEPT ![m.id] = Ingested(m)]
    /\ UNCHANGED <<pull, deriver, localRow, localHistory, posts, cloudHistory, judged, eventTime>>

\* PATCH /v1/outcomes/{id}: the row and its history in one transaction.
CorrectCloud(p, status) ==
    LET row == The(cloudRow[p]) IN
    /\ cloudRow[p] # {} /\ Len(cloudHistory[p]) < MaxCorrections
    /\ cloudRow' = [cloudRow EXCEPT ![p] = {[row EXCEPT !.status = status]}]
    /\ cloudHistory' = [cloudHistory EXCEPT ![p] = Logged(@, row, status)]
    /\ UNCHANGED <<pull, deriver, localRow, localHistory, posts, judged, eventTime>>

OutcomesNext ==
    \/ \E p \in PullRequests :
         \/ \E status \in {"open", "accepted", "rejected"} : PullChanges(p, status)
         \/ \E status \in OutcomeStatuses : \/ RecordOutcome(p, status) \/ CorrectLocal(p, status)
                                            \/ CorrectCloud(p, status)
         \/ PushOutcome(p) \/ MarkOutcome(p)
    \/ \E d \in Derivers : \/ FetchPulls(d) \/ DeriverDies(d)
                           \/ \E o \in deriver[d] : ReconcileDerived(d, o)
    \/ \E m \in posts : IngestOutcome(m)

(***************************************************************************)
(* Properties.                                                             *)
(***************************************************************************)
OutcomesTypeOK ==
    /\ \A p \in PullRequests : /\ Cardinality(localRow[p]) <= 1 /\ Cardinality(cloudRow[p]) <= 1
                               /\ \A x \in localRow[p] \cup cloudRow[p] : x.status \in OutcomeStatuses
    /\ eventTime \in 0..MaxEventTime

Chained(h, rows) ==
    /\ \A i \in 1..Len(h) - 1 : h[i][2] = h[i + 1][1]
    /\ h # <<>> => \A x \in rows : x.status = h[Len(h)][2]

\* The audit trail of each side is complete: every correction starts where the
\* one before ended, and the last one ends at the current status, whatever
\* derivations, corrections and replays happened in between.
HistoryComplete ==
    \A p \in PullRequests : Chained(localHistory[p], localRow[p]) /\ Chained(cloudHistory[p], cloudRow[p])

\* A replayed delivery never overwrites a newer status with a stale one: the
\* hosted row changes only together with its history.
ReplayHarmless ==
    [][\A p \in PullRequests : (cloudRow[p] # {} /\ cloudRow'[p] # cloudRow[p])
         => cloudHistory'[p] # cloudHistory[p]]_outcomeVars

\* An outcome its caller recorded is never taken over by a derivation that uses
\* the same id: it keeps its source, and the status a person last gave it.
CallerOwned ==
    \A p \in PullRequests : \A j \in judged[p], x \in localRow[p] :
      j.source = "cli" => x.source = "cli" /\ x.status = j.status
=============================================================================
