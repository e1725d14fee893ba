------------------------------ MODULE MCFactorPath ------------------------------
(* Small instances of FactorPath for TLC. *)
EXTENDS FactorPath

CONSTANTS d1, d2, e1, x, y, q1, q2

\* Day 1: d1 of the fixed release, e1 of another release; day 2: d2.  y has no score.
TheAsOf == [d \in Deliveries |-> IF d = d2 THEN 2 ELSE 1]
TheEligible == [d \in Deliveries |-> {x}]
AllContents == SUBSET Deliveries
===============================================================================
