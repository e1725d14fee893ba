---------------------------- MODULE MCSignalWorkflow ----------------------------
(* Small instances of SignalWorkflow for TLC. *)
EXTENDS SignalWorkflow

CONSTANTS s1, s2

\* One factor signal: published at 0 or later, open during [1, 3).
OneOpens == [s \in {s1} |-> 1]
OneCloses == [s \in {s1} |-> 3]

\* Two factor signals of consecutive dates.
TwoOpen == [s \in {s1, s2} |-> IF s = s1 THEN 1 ELSE 3]
TwoClose == [s \in {s1, s2} |-> IF s = s1 THEN 3 ELSE 4]

\* A momentum signal may trade at once.
AtOnce == [s \in {s1} |-> 0]

\* Two scenes of one instance: a manual node with the first signal, a fault and a rearm,
\* or an automatic node where both signals compete for the execution prices.
Scene ==
    /\ mode' = mode
    /\ \/ mode = "manual" /\ status'[s2] = "ABSENT"
       \/ mode = "auto" /\ faults' = 0 /\ rearms' = rearms
================================================================================
