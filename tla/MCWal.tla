------------------------------- MODULE MCWal -------------------------------
(* WalPipeline for TLC: events are interchangeable model values.           *)
EXTENDS WalPipeline, TLC

EventSymmetry == Permutations(Events)
=============================================================================
