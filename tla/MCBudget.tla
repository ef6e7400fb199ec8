------------------------------ MODULE MCBudget ------------------------------
(***************************************************************************)
(* BudgetEngine for TLC.  A team policy t and an org policy o; r1 and r2   *)
(* match both, r3 and r4 only the org policy; u matches but has no price;  *)
(* n matches nothing (its row is counted by the org policy all the same).  *)
(***************************************************************************)
EXTENDS BudgetEngine, TLC

CONSTANTS r1, r2, r3, r4, u, n, t, o

MCLimit == t :> 3 @@ o :> 4
MCTightLimit == t :> 3 @@ o :> 3
MCEst == [r \in Requests |-> IF r = u THEN 0 ELSE 2]
MCPriced == Requests \ {u}
MCMatch == [r \in Requests |->
    CASE r \in {r1, r2} -> <<t, o>>
      [] r \in {r3, r4, u} -> <<o>>
      [] r = n -> <<>>]
MCCountedBy == [r \in Requests |-> IF r \in {r1, r2} THEN {t, o} ELSE {o}]

\* Beside the 0 of an HTTP error: a cost above the estimate, and costs
\* within it.
AnyCost == [r \in Requests |-> IF r = u THEN {} ELSE {3}]
WithinEst == [r \in Requests |-> IF r = u THEN {} ELSE IF r = n THEN {1} ELSE {1, 2}]

\* r1 and r2 match the same policies.
PairSymmetry == Permutations({r1, r2})
=============================================================================
