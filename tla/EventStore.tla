----------------------------- MODULE EventStore -----------------------------
(***************************************************************************)
(* What the telemetry pipeline promises for each completed request: the    *)
(* event moves forward only, from unknown to accepted to stored, and it is *)
(* stored once.  Acceptance may be skipped (the fail-open path inserts the *)
(* row directly).  Nothing here knows of log files, queues or crashes.     *)
(***************************************************************************)
CONSTANT Events

VARIABLE stage      \* stage[e] \in {"unknown", "accepted", "stored"}

TypeOK == stage \in [Events -> {"unknown", "accepted", "stored"}]

Init == stage = [e \in Events |-> "unknown"]

Accept(e) ==
    /\ stage[e] = "unknown"
    /\ stage' = [stage EXCEPT ![e] = "accepted"]

\* Several events may be stored at once (a replay of the dead-letter file).
Store(S) ==
    /\ \A e \in S : stage[e] # "stored"
    /\ stage' = [e \in Events |-> IF e \in S THEN "stored" ELSE stage[e]]

Next ==
    \/ \E e \in Events : Accept(e)
    \/ \E S \in SUBSET Events : Store(S)

Spec == Init /\ [][Next]_stage
=============================================================================
