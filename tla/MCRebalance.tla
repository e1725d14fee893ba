------------------------------- MODULE MCRebalance -------------------------------
(* Small instances of Rebalance for TLC. *)
EXTENDS Rebalance

CONSTANTS a, b, c, d
================================================================================
