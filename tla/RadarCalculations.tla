--------------------------- MODULE RadarCalculations ---------------------------
(***************************************************************************)
(* The calculations of the market radar side by side.  `case' is one input *)
(* of one of them, any that the sources may deliver; it takes no step.     *)
(***************************************************************************)
EXTENDS RadarRegime, RadarEarnings, RadarFundamentals, RadarEvents

VARIABLE case

\* What the sources may deliver.
IsCase(c) ==
    LET x == c.input
    IN \/ c.kind = "prices" /\ PriceInput(x)
       \/ c.kind = "breadth" /\ BreadthInput(x)
       \/ c.kind = "macro" /\ MacroInput(x)
       \/ c.kind = "earnings" /\ EarningsInput(x)
       \/ c.kind = "fundamentals" /\ FundamentalInput(x)
       \/ c.kind = "economic_events" /\ EventInput(x)

\* Nothing yet, or one of them.
CaseInit == case = Absent \/ IsCase(case)
CaseSpec == CaseInit /\ [][UNCHANGED case]_case

\* The sync ends without a snapshot.
CaseRaises ==
    LET x == case.input
    IN CASE case.kind = "prices" -> PriceRaises(x)
         [] case.kind = "breadth" -> BreadthRaises(x)
         [] case.kind = "macro" -> RegimeRaises(x)
         [] case.kind = "earnings" -> EarningsRaises(x)
         [] case.kind = "fundamentals" -> FundamentalsRaise(x)
         [] case.kind = "economic_events" -> EventsRaise(x)

\* What was known of an input on a date.
Cut(input, day) == [x \in DOMAIN input |-> CutAt(input[x], day)]
CutBreadth(input, day) ==
    [input EXCEPT !.benchmark = {d \in @ : d <= day}, !.bars = Cut(@, day)]

-----------------------------------------------------------------------------
\* A sync that does not raise leaves a snapshot that its own record accepts, before
\* and after the database, whatever gaps, repetitions and late or missing values
\* the sources deliver: its counts, validity and values agree (the __post_init__
\* and model_validator checks against the calculate_* functions).
ComputedIsReadable ==
    (case # Absent /\ ~CaseRaises) =>
        LET x == case.input
        IN CASE case.kind = "prices" -> WellFormedPrices(PriceSnapshot(x))
             [] case.kind = "breadth" -> WellFormedBreadth(BreadthSnapshot(x))
             [] case.kind = "macro" -> WellFormedRisk(RiskSnapshot(x)) /\ WellFormedRegime(RegimeSnapshot(x))
             [] case.kind = "earnings" -> WellFormedEarnings(EarningsSnapshot(x))
             [] case.kind = "fundamentals" -> WellFormedFundamentals(FundamentalSnapshot(x))
             [] case.kind = "economic_events" -> WellFormedEvents(EventSnapshot(x))

\* A regime point of an earlier day is what was computed on that day, if anything was:
\* neither its Z-scores, nor its percentile, nor the rate it is aligned to have
\* seen a later day.
TrajectoryIsHistory(input) ==
    LET points == RegimeSnapshot(input).trajectory
    IN \A k \in DOMAIN points :
           LET then == RegimeSnapshot(Cut(input, points[k].day)).current
           IN then \in {Absent, points[k]}

\* No snapshot depends on bars, rates or reports dated after it
\* (_validated_bars, _current_series, _validate_observations, _align_point).
NoLookAhead ==
    (case # Absent /\ ~CaseRaises) =>
        LET x == case.input
        IN CASE case.kind = "prices" ->
                    LET s == PriceSnapshot(x) IN s = PriceSnapshot(Cut(x, s.asOf))
             [] case.kind = "breadth" ->
                    LET s == BreadthSnapshot(x) IN s = BreadthSnapshot(CutBreadth(x, s.asOf))
             [] case.kind = "macro" ->
                    LET s == RegimeSnapshot(x)
                    IN s = RegimeSnapshot(Cut(x, s.asOf)) /\ TrajectoryIsHistory(x)
             [] OTHER -> TRUE
===============================================================================
