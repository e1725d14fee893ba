----------------------------- MODULE RadarEarnings -----------------------------
(***************************************************************************)
(* Earnings revisions (market_radar/earnings.py) from an answer of the     *)
(* provider: the trends of the index members and of the watchlist          *)
(* (eodhd_calendar.py), and the sectors of an index listing that need not  *)
(* have the same members (eodhd_components.py, membership.py).  Earnings   *)
(* per share are in cents, so the floor of a magnitude is 1 and any        *)
(* difference counts.  A median is worth the pairs it is taken of.         *)
(***************************************************************************)
EXTENDS RadarMetrics

CONSTANT TrendBatch     \* CALENDAR_TRENDS_BATCH_SIZE

\* What a median is worth: its instruments, each with its two estimates.
Medians == [of : SUBSET (STRING \X Int \X Int)]

\* None is no median.
ASSUME EarningsAssumption == Absent \notin Medians

-----------------------------------------------------------------------------
(* The provider's answer.                                                  *)

Requested(input) == input.members \cup input.watchlist

\* Each batch is asked for on its own; one that fails leaves no answer at all.
Batches(input) ==
    LET symbols == SetToSeq(Requested(input))
        count == (Len(symbols) + TrendBatch - 1) \div TrendBatch
    IN {{symbols[k] : k \in DOMAIN symbols \cap ((n - 1) * TrendBatch + 1)..(n * TrendBatch)} :
            n \in 1..count}

\* The rows of the next fiscal year.
NextYear(rows) == {r \in rows : r.period = "+1y"}

ParseRaises(symbols, input) ==
    \E i \in symbols : \E r, s \in NextYear(input.trends[i]) : r # s /\ r.end = s.end

\* The newest of them, whatever it lacks.
LatestFy1(rows) ==
    IF NextYear(rows) = {} THEN Absent
    ELSE CHOOSE r \in NextYear(rows) : \A s \in NextYear(rows) : s.end <= r.end

\* The listing is joined with the members; its own members do not count.
Assigned(input) == Restrict(input.listing, input.members \cap DOMAIN input.listing)

\* What may arrive: members, at least one, and for each instrument any rows.
Trends ==
    LET maybe == Int \cup {Absent}
    IN [end : Nat, period : STRING, current : maybe, before : maybe, analysts : maybe]
EarningsInput(input) ==
    /\ input.captured \in Nat /\ input.membersDate \in Nat
    /\ IsFiniteSet(input.members) /\ input.members # {} /\ IsFiniteSet(input.watchlist)
    /\ IsFiniteSet(DOMAIN input.listing) /\ Requested(input) \subseteq STRING
    /\ \A i \in Requested(input) : IsFiniteSet(input.trends[i]) /\ input.trends[i] \subseteq Trends

-----------------------------------------------------------------------------
(* Aggregates.                                                             *)

Observed(t) ==
    /\ t # Absent
    /\ Absent \notin {t.analysts, t.current, t.before}
    /\ t.analysts > 0

Aggregate(instruments, trend) ==
    LET seen == {i \in instruments : Observed(trend[i])}
        delta(i) == trend[i].current - trend[i].before
        upward == {i \in seen : delta(i) > 0}
        downward == {i \in seen : delta(i) < 0}
        magnitude == {i \in seen : trend[i].current > 1 /\ trend[i].before > 1}
        observed == Cardinality(seen)
    IN [validity |-> IF observed = 0 THEN "unavailable"
                     ELSE IF seen = instruments THEN "complete" ELSE "partial",
        coverage |-> [eligible |-> Cardinality(instruments), observed |-> observed],
        upward |-> Cardinality(upward), downward |-> Cardinality(downward),
        unchanged |-> Cardinality(seen \ (upward \cup downward)),
        breadth |-> IF observed = 0 THEN Absent
                    ELSE <<Cardinality(upward) - Cardinality(downward), observed>>,
        magnitudes |-> Cardinality(magnitude),
        excluded |-> Cardinality(seen \ magnitude),
        median |-> IF magnitude = {} THEN Absent
                   ELSE [of |-> {<<i, trend[i].current, trend[i].before>> : i \in magnitude}]]

MembershipCoverage(input) ==
    LET classified == Cardinality(DOMAIN Assigned(input))
        members == Cardinality(input.members)
    IN [date |-> input.membersDate, members |-> members,
        records |-> Cardinality(DOMAIN input.listing), classified |-> classified,
        unclassified |-> members - classified,
        unused |-> Cardinality(DOMAIN input.listing) - classified,
        validity |-> IF classified = members THEN "complete"
                     ELSE IF classified > 0 THEN "partial" ELSE "unavailable"]

\* The members of a sector are those the listing gives it.
EarningsSnapshot(input) ==
    LET trend == [i \in Requested(input) |-> LatestFy1(input.trends[i])]
        assigned == Assigned(input)
    IN [asOf |-> input.captured, membership |-> MembershipCoverage(input),
        watchlist |-> Aggregate(input.watchlist, trend),
        market |-> Aggregate(input.members, trend),
        sectors |-> [s \in DOMAIN SectorEtf |->
                        Aggregate({i \in DOMAIN assigned : assigned[i] = s}, trend)]]

\* Old or future members, a repeated fiscal year, a sector that is not configured.
EarningsRaises(input) ==
    \/ input.membersDate > input.captured
    \/ input.captured - input.membersDate > MembershipMaxAge
    \/ \E batch \in Batches(input) : ParseRaises(batch, input)
    \/ \E i \in DOMAIN input.listing : input.listing[i] \notin DOMAIN SectorEtf

-----------------------------------------------------------------------------
(* What the records and the readers of the database accept.                *)

WellFormedAggregate(a) ==
    /\ a.coverage.observed \in 0..a.coverage.eligible
    /\ a.upward + a.downward + a.unchanged = a.coverage.observed
    /\ a.magnitudes + a.excluded = a.coverage.observed
    /\ CASE a.validity = "complete" -> a.coverage.eligible > 0 /\ a.coverage.observed = a.coverage.eligible
         [] a.validity = "partial" -> a.coverage.observed \in 1..a.coverage.eligible - 1
         [] OTHER -> a.validity = "unavailable" /\ a.coverage.observed = 0
    /\ a.breadth = IF a.coverage.observed = 0 THEN Absent
                   ELSE <<a.upward - a.downward, a.coverage.observed>>
    /\ (a.magnitudes = 0) <=> (a.median = Absent)

WellFormedMembership(c) ==
    /\ c.members >= 1 /\ c.classified + c.unclassified = c.members
    /\ c.unclassified >= 0 /\ c.unused >= 0 /\ c.classified + c.unused = c.records
    /\ CASE c.validity = "complete" -> c.classified = c.members
         [] c.validity = "partial" -> c.classified \in 1..c.members - 1
         [] OTHER -> c.validity = "unavailable" /\ c.classified = 0

WellFormedEarnings(s) ==
    /\ WellFormedMembership(s.membership) /\ s.membership.date <= s.asOf
    /\ \A a \in {s.watchlist, s.market} \cup Range(s.sectors) : WellFormedAggregate(a)
    /\ s.market.coverage.eligible = s.membership.members
    /\ Cardinality(UNION {{x} \X (1..s.sectors[x].coverage.eligible) : x \in DOMAIN s.sectors})
           = s.membership.classified
===============================================================================
