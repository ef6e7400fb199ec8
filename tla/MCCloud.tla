------------------------------ MODULE MCCloud ------------------------------
(***************************************************************************)
(* CloudSync for TLC.  A request weighs 1 in "requests" and more in        *)
(* "tokens"; slots are interchangeable.                                    *)
(***************************************************************************)
EXTENDS CloudSync, TLC

CONSTANTS CostRows, OutcomeRows, RefusedOutcomes, RequestCap, TokenCap

MCMaxRows == [k \in Kinds |-> IF k = "cost" THEN CostRows ELSE OutcomeRows]
MCRefused == [k \in Kinds |-> IF k = "outcomes" THEN RefusedOutcomes ELSE {}]
MCDims == {"requests", "tokens"}
MCWeight == [d \in MCDims |-> [r \in Ids |-> IF d = "requests" THEN 1 ELSE r]]
MCCap == [d \in MCDims |-> IF d = "requests" THEN RequestCap ELSE TokenCap]
SlotSymmetry == Permutations(Slots)
=============================================================================
