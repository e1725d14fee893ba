----------------------------- MODULE CatalogPromise -----------------------------
(***************************************************************************)
(* What the shared Catalog promises the node, the web and the backtests:   *)
(* publications replace or extend whole groups of series at once, an       *)
(* answer is the Catalog as it is at one moment, and a Catalog whose       *)
(* writer did not get to its end gives no answers any more.                *)
(***************************************************************************)
CONSTANTS Series, Writers, Readers, None

VARIABLES
    content,  \* publications each series is made of
    blocked,  \* it must be restored or rebuilt
    answers   \* last complete answer of each reader: a function of the series it asked for

vars == <<content, blocked, answers>>

\* None stands for what was there at the start.
Init ==
    /\ content = [s \in Series |-> {None}]
    /\ blocked = FALSE
    /\ answers = [r \in Readers |-> None]

Replace(w, group) ==
    /\ ~blocked
    /\ content' = [s \in Series |-> IF s \in group THEN {w} ELSE content[s]]
    /\ UNCHANGED <<blocked, answers>>

Extend(w, group) ==
    /\ ~blocked
    /\ content' = [s \in Series |-> IF s \in group THEN content[s] \cup {w} ELSE content[s]]
    /\ UNCHANGED <<blocked, answers>>

Block ==
    /\ blocked' = TRUE
    /\ UNCHANGED <<content, answers>>

Answer(r, asked) ==
    /\ ~blocked
    /\ answers' = [answers EXCEPT ![r] = [s \in asked |-> content[s]]]
    /\ UNCHANGED <<content, blocked>>

Next ==
    \/ \E w \in Writers, group \in SUBSET Series : Replace(w, group) \/ Extend(w, group)
    \/ \E r \in Readers, asked \in SUBSET Series : Answer(r, asked)
    \/ Block

Spec == Init /\ [][Next]_vars
================================================================================
