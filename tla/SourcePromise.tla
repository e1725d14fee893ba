------------------------------ MODULE SourcePromise ------------------------------
(***************************************************************************)
(* What the market radar's database promises whoever reads its sources     *)
(* while the daily service works, fails and dies: an answer is nothing or  *)
(* a whole publication, of a date that had come when it was made, and a    *)
(* publication is only ever replaced by a later one of the same source, by *)
(* a later run and of no earlier date.  Nothing else changes what is read. *)
(***************************************************************************)
EXTENDS RadarSchedule

CONSTANT None

VARIABLES
    clock,
    shown     \* source -> its newest publication, or None

Publications == [run : Nat, asOf : Nat, at : Nat, ready : BOOLEAN]

\* Bars are of a day that is over, a capture of its own day.
DateHasCome(source, p) ==
    IF source \in PriceJobs THEN p.asOf < Day(p.at) ELSE p.asOf = Day(p.at)

Supersedes(p, q) == q # None => q.run < p.run /\ q.asOf <= p.asOf /\ q.at <= p.at

Init == clock \in Nat /\ shown = [source \in DailyJobs |-> None]

Pass == clock' \in Nat /\ clock < clock' /\ UNCHANGED shown

Publish(source) ==
    LET p == shown'[source]
    IN /\ p \in Publications /\ p.at <= clock
       /\ DateHasCome(source, p) /\ Supersedes(p, shown[source])
       /\ shown' = [shown EXCEPT ![source] = p]
       /\ UNCHANGED clock

Next == Pass \/ \E source \in DailyJobs : Publish(source)

Spec == Init /\ [][Next]_<<clock, shown>>
===============================================================================
