----------------------------- MODULE MCBrokerSession -----------------------------
(* Small instances of BrokerSession for TLC. *)
EXTENDS BrokerSession, TLC

CONSTANTS f1, f2

FillSymmetry == Permutations({f1, f2})
================================================================================
