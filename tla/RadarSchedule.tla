----------------------------- MODULE RadarSchedule -----------------------------
(***************************************************************************)
(* The due dates of the market radar (market_radar/schedule.py), shared by *)
(* the daily service and the page.  A UTC day has three instants: midnight *)
(* before the daily run, the run's own time (06:00) and one after it.      *)
(***************************************************************************)
EXTENDS Integers, FiniteSets, FiniteSetsExt

CONSTANT Sessions    \* trading days of XNYS, as day numbers

DailyJobs == {"prices", "macro", "economic_events", "fundamentals", "earnings", "breadth"}
PriceJobs == {"prices", "macro", "breadth"}

\* DAILY_JOBS runs them in this order.
Rank == [prices |-> 1, macro |-> 2, economic_events |-> 3, fundamentals |-> 4,
         earnings |-> 5, breadth |-> 6]

Day(t) == t \div 3

\* The last run time that has come.
ScheduledAt(t) == IF 3 * Day(t) + 1 <= t THEN 3 * Day(t) + 1 ELSE 3 * Day(t) - 2

\* (mutant) a session counts on its own day.
LatestSession(d) == Max({s \in Sessions : s <= d})

PreviousSession(d) == Max({s \in Sessions : s < d})

ExpectedPriceDate(t) == PreviousSession(Day(ScheduledAt(t)))

PriceLag(actual, t) ==
    Cardinality({s \in Sessions : actual < s /\ s <= ExpectedPriceDate(t)})
===============================================================================
