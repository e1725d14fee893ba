------------------------------ MODULE RadarStatus ------------------------------
(***************************************************************************)
(* What the pages of the web application make of the radar's database      *)
(* (application/market_radar.py), read at any moment while RadarDaily      *)
(* runs.  The update page decides a state for each job from the newest     *)
(* publication, the newest attempt and the newest run; the market pages    *)
(* read one source each, and refuse what cannot be.  Raises stands for     *)
(* every refusal.                                                          *)
(***************************************************************************)
EXTENDS RadarDaily

CONSTANTS
    BreadthStaleAfter,       \* _BREADTH_STALE_AFTER_DAYS
    MacroStaleAfter,         \* ALIGNMENT_MAX_AGE_DAYS
    EarningsStaleAfter,      \* _EARNINGS_STALE_AFTER_DAYS
    FundamentalStaleAfter,   \* _FUNDAMENTAL_SNAPSHOT_STALE_AFTER_DAYS
    Raises

Today == Day(now)

\* What a page can show, and what the overview makes of it; a refusal is neither.
Shown == {"empty", "stale", "fresh", "unavailable"}
Overviews ==
    [spy_trend : Shown, equal_weight : Shown, market_breadth : Shown, real_rates : Shown,
     risk_appetite : Shown, earnings_revisions : Shown]

ASSUME StatusAssumption == Raises \notin Shown /\ Raises \notin Overviews

-----------------------------------------------------------------------------
(* The update page.                                                        *)

Due == ScheduledAt(now)
Latest(j) == att[LatestAttempt(AttemptsOf(j))]
OfThisDue(j) == AttemptsOf(j) # {} /\ Latest(j).due = Due

\* An attempt before the daily run may aim at the day after.
PageTarget(j) ==
    IF OfThisDue(j) /\ j \notin PriceJobs /\ Latest(j).target > DueTarget(j, now)
    THEN Latest(j).target ELSE DueTarget(j, now)

PageSatisfied(j) == Satisfies(Publication(j), PageTarget(j))

Unreadable(j) ==
    LET p == Publication(j)
    IN \/ p = Corrupt
       \/ p # None /\ (p.at > now \/ p.asOf > Today \/ (j \in PriceJobs /\ p.asOf = Today))

\* An attempt since the publication speaks first, then a failed run of another start.
AttemptSpeaks(j) ==
    AttemptsOf(j) # {} /\ (Publication(j) # None => Latest(j).started >= Publication(j).at)

RunSpeaks(j) ==
    /\ RunsOf(j) # {} /\ att[LatestRun(j)].run.status = "FAILED"
    /\ att[LatestRun(j)].run.started > Latest(j).started

Spoken(j) ==
    CASE RunSpeaks(j) -> "failed"
      [] AttemptSpeaks(j) /\ ~RunSpeaks(j) ->
             IF Latest(j).status = "complete" THEN "pending" ELSE Latest(j).status
      [] OTHER -> "pending"

\* No retry is left for this due time.
Exhausted(j) ==
    /\ OfThisDue(j) /\ Latest(j).status \in {"failed", "waiting_source", "interrupted"}
    /\ Latest(j).retry = None /\ ~PageSatisfied(j)

AwaitsPrices(j) ==
    /\ j = "breadth" /\ ~PageSatisfied(j) /\ Spoken(j) = "pending"
    /\ Unreadable("prices") \/ Publication("prices") = None
       \/ Publication("prices").asOf < PageTarget(j)

PageState(j) ==
    CASE Unreadable(j) -> "invalid"
      [] ~Unreadable(j) /\ Exhausted(j) -> "blocked"
      [] ~Unreadable(j) /\ ~Exhausted(j) /\ AwaitsPrices(j) -> "waiting_dependency"
      [] OTHER -> IF PageSatisfied(j) /\ Spoken(j) \notin {"running", "failed"}
                  THEN "complete" ELSE Spoken(j)

-----------------------------------------------------------------------------
(* The market pages: empty, Raises, stale or fresh.                        *)

\* A price date is refused on its own day, before its bars are complete.
PriceFreshness(asOf) ==
    IF asOf >= Today THEN Raises ELSE IF PriceLag(asOf, now) > 0 THEN "stale" ELSE "fresh"

AgedBy(ages, limit) ==
    IF \E a \in ages : a < 0 THEN Raises
    ELSE IF \E a \in ages : a > limit THEN "stale" ELSE "fresh"

View(s, state) == IF s = None THEN "empty" ELSE IF s = Corrupt THEN Raises ELSE state

PricePage == LET s == LatestSnapshot("prices") IN View(s, PriceFreshness(s.asOf))

\* Stale prices count before old members.
BreadthFreshness(s) ==
    IF Today < s.of \/ PriceFreshness(s.asOf) = Raises THEN Raises
    ELSE IF PriceFreshness(s.asOf) = "stale" THEN "stale"
    ELSE AgedBy({Today - s.of}, BreadthStaleAfter)
BreadthPage == LET s == LatestSnapshot("breadth") IN View(s, BreadthFreshness(s))

MacroPage ==
    LET s == MacroBundle IN View(s, AgedBy({Today - s.asOf, Today - s.of}, MacroStaleAfter))

EarningsPage ==
    LET s == LatestSnapshot("earnings") IN View(s, AgedBy({Today - s.asOf}, EarningsStaleAfter))

FundamentalsPage ==
    LET s == LatestSnapshot("fundamentals")
    IN View(s, IF s.at > now THEN Raises ELSE AgedBy({Today - s.asOf}, FundamentalStaleAfter))

\* Captures of the last 24 hours count as fresh.
CaptureAge(s) ==
    IF s.at > now \/ s.asOf > Today THEN Raises ELSE IF now - s.at > 3 THEN "stale" ELSE "fresh"

EventSources ==
    [economic |-> View(EconomicEventBatch, CaptureAge(EconomicEventBatch)),
     earnings |-> View(EarningsEventBatch, CaptureAge(EarningsEventBatch))]

\* One broken source of events is shown as such; two break the page.
EventsPage ==
    IF EventSources.economic = Raises /\ EventSources.earnings = Raises THEN Raises
    ELSE EventSources

\* The overview keeps the modules apart: a page that raises is one unavailable module.
Module(page) == IF page \in {"empty", Raises} THEN "unavailable" ELSE page
Modules ==
    [spy_trend |-> Module(PricePage), equal_weight |-> Module(PricePage),
     market_breadth |-> Module(BreadthPage), real_rates |-> Module(MacroPage),
     risk_appetite |-> Module(MacroPage), earnings_revisions |-> Module(EarningsPage)]

Summary == IF PricePage = Raises THEN Raises ELSE Modules

-----------------------------------------------------------------------------
\* Whatever was published, in whatever order, by whatever attempt: every reader of
\* the store and every page accepts it at every later moment, and the risk
\* appetite, the calendar rows and their snapshots come from one run
\* (publish_*_and_complete against daily_publication, latest_* and the guards of
\* application/market_radar.py).
SnapshotsReadable ==
    /\ \A j \in jobs : PageState(j) # "invalid"
    /\ Raises \notin {PricePage, BreadthPage, MacroPage, EarningsPage, FundamentalsPage, Summary}
    /\ Raises \notin {EventSources.economic, EventSources.earnings}
    /\ LatestSnapshot("risk") # Corrupt

\* A job the page calls blocked is left alone: no attempt of it begins before its due
\* time changes.  Page and service each decide this from the attempts, the page
\* from the newest of all, the service from those of the due time it has read
\* earlier (_sync_status_at, _run_job).
BlockedStays ==
    [][\A j \in jobs : PageState(j) = "blocked" => AttemptsOf(j)' = AttemptsOf(j)]_vars
===============================================================================
