----------------------------- MODULE RadarMetrics -----------------------------
(***************************************************************************)
(* The price and breadth calculations of the market radar                  *)
(* (market_radar/metrics.py): what a snapshot is computed from and whether *)
(* it may be shown.  The bars of an instrument are a function from its     *)
(* days to its closes, with the high and the low at the close.  A price    *)
(* metric is worth the bars it reads, pairs of a day and a close, since    *)
(* what it does with them is one arithmetic expression; a breadth metric   *)
(* is the fraction the code computes.  The code's windows are parameters.  *)
(***************************************************************************)
EXTENDS Integers, Sequences, FiniteSets, FiniteSetsExt, SequencesExt, Functions

CONSTANTS
    Benchmark, EqualWeight,   \* the configured instruments
    SectorEtf,                \* sector -> its instrument
    SectorOf,                 \* instrument of the watchlist -> its sector
    Periods,                  \* short and long windows: a record
    MembershipMaxAge,         \* days
    Absent                    \* no value

\* What a price metric is worth.
BarsUsed == [bars : SUBSET (Nat \X Int)]

\* The code's windows are 11 to 252 bars, of which a momentum skips 21 of 126; every
\* watched stock has a configured sector; None is no number and no metric.
ASSUME MetricsAssumption ==
    /\ Periods.short \in Nat /\ Periods.long \in Nat /\ Periods.year \in Nat /\ Periods.skip \in Nat
    /\ 2 <= Periods.short /\ 2 <= Periods.long /\ 2 <= Periods.year /\ Periods.skip <= Periods.long
    /\ IsFiniteSet(DOMAIN SectorEtf) /\ IsFiniteSet(DOMAIN SectorOf)
    /\ \A i \in DOMAIN SectorOf : SectorOf[i] \in DOMAIN SectorEtf
    /\ Absent \notin Int \cup (Int \X Int) \cup BarsUsed \cup (BarsUsed \X BarsUsed)

PriceInstruments == {Benchmark, EqualWeight} \cup Range(SectorEtf) \cup DOMAIN SectorOf

\* Bars, or observations, as they arrive.
IsHistory(bars) ==
    /\ IsFiniteSet(DOMAIN bars) /\ DOMAIN bars \subseteq Nat
    /\ bars \in [DOMAIN bars -> Int]

-----------------------------------------------------------------------------
(* One metric.                                                             *)

Value(validity, value, observations, required) ==
    [validity |-> validity, value |-> value, observations |-> observations,
     required |-> required]

\* The n-th bar from the end, the last n, and all of them in order.
FromEnd(days, n) == CHOOSE d \in days : Cardinality({e \in days : e >= d}) = n
LastDays(days, n) == {d \in days : Cardinality({e \in days : e >= d}) <= n}
InOrder(days) == [k \in 1..Cardinality(days) |-> CHOOSE d \in days : Cardinality({e \in days : e <= d}) = k]

\* Unavailable without a bar of the date, insufficient below the required number;
\* else the value of the bars that are used.
MetricFromSeries(bars, asOf, required, used) ==
    LET n == Cardinality(DOMAIN bars)
    IN IF asOf \notin DOMAIN bars \/ \E d \in DOMAIN bars : d > asOf
       THEN Value("unavailable", Absent, n, required)
       ELSE IF n < required THEN Value("insufficient_history", Absent, n, required)
       ELSE Value("complete", [bars |-> {<<d, bars[d]>> : d \in used}], n, required)

EndDays(bars, newest, oldest) == {FromEnd(DOMAIN bars, newest), FromEnd(DOMAIN bars, oldest)}

TotalReturn(bars, periods, asOf) ==
    MetricFromSeries(bars, asOf, periods + 1, EndDays(bars, 1, periods + 1))

DistanceToAverage(bars, periods, asOf) ==
    MetricFromSeries(bars, asOf, periods, LastDays(DOMAIN bars, periods))

\* The newest bars are skipped.
Momentum(bars, asOf) ==
    MetricFromSeries(bars, asOf, Periods.long + 1, EndDays(bars, Periods.skip + 1, Periods.long + 1))

RealizedVolatility(bars, asOf) ==
    MetricFromSeries(bars, asOf, Periods.short + 1, LastDays(DOMAIN bars, Periods.short + 1))

MaxDrawdown(bars, asOf) ==
    MetricFromSeries(bars, asOf, Periods.long, LastDays(DOMAIN bars, Periods.long))

AtrRatio(bars, asOf) ==
    MetricFromSeries(bars, asOf, Periods.short + 1, LastDays(DOMAIN bars, Periods.short + 1))

Difference(left, right) ==
    LET pair == {left.validity, right.validity}
        validity == IF "unavailable" \in pair THEN "unavailable"
                    ELSE IF pair = {"complete"} THEN "complete" ELSE "insufficient_history"
    IN Value(validity, IF validity = "complete" THEN <<left.value, right.value>> ELSE Absent,
             Min({left.observations, right.observations}), Max({left.required, right.required}))

-----------------------------------------------------------------------------
(* The price snapshot.                                                     *)

CutAt(bars, asOf) == Restrict(bars, {d \in DOMAIN bars : d <= asOf})

Coverage(eligible, observed) == [eligible |-> eligible, observed |-> observed]

PriceMetrics(series, asOf) ==
    LET return(i, periods) == TotalReturn(series[i], periods, asOf)
        relative(i, periods) == Difference(return(i, periods), return(Benchmark, periods))
        observed == {i \in PriceInstruments : asOf \in DOMAIN series[i]}
        stock(i) ==
            [momentum |-> Momentum(series[i], asOf),
             relative_momentum |-> Difference(Momentum(series[i], asOf),
                                       Momentum(series[SectorEtf[SectorOf[i]]], asOf)),
             distance |-> DistanceToAverage(series[i], Periods.long, asOf),
             volatility |-> RealizedVolatility(series[i], asOf),
             drawdown |-> MaxDrawdown(series[i], asOf),
             atr |-> AtrRatio(series[i], asOf)]
    IN [asOf |-> asOf,
        coverage |-> Coverage(Cardinality(PriceInstruments), Cardinality(observed)),
        market |-> [spy |-> return(Benchmark, Periods.short),
                    distance |-> DistanceToAverage(series[Benchmark], Periods.long, asOf),
                    rsp |-> relative(EqualWeight, Periods.short)],
        sectors |-> [s \in DOMAIN SectorEtf |->
                        [short |-> relative(SectorEtf[s], Periods.short),
                         long |-> relative(SectorEtf[s], Periods.long)]],
        stocks |-> [i \in DOMAIN SectorOf |-> stock(i)]]

\* All bars are cut at the newest day of the benchmark.
PriceSnapshot(input) ==
    LET asOf == Max(DOMAIN input[Benchmark])
    IN PriceMetrics([i \in PriceInstruments |-> CutAt(input[i], asOf)], asOf)

\* What may arrive: a history, even an empty one, of each instrument.
PriceInput(input) ==
    PriceInstruments \subseteq DOMAIN input /\ \A i \in PriceInstruments : IsHistory(input[i])

PriceRaises(input) == DOMAIN input[Benchmark] = {}

-----------------------------------------------------------------------------
(* Breadth of the current members.  A value is <<numerator, denominator>>. *)

\* Scores are 1, 0 or -1.
Balance(scores) ==
    Cardinality({m \in DOMAIN scores : scores[m] = 1}) - Cardinality({m \in DOMAIN scores : scores[m] = -1})

Mean(scores) == IF DOMAIN scores = {} THEN Absent ELSE <<Balance(scores), Cardinality(DOMAIN scores)>>

\* 95% of the members for a complete value, 90% for a partial one.
BreadthValidity(observed, eligible) ==
    IF 100 * observed >= 95 * eligible THEN "complete"
    ELSE IF 100 * observed >= 90 * eligible THEN "partial" ELSE "insufficient_coverage"

BreadthResult(value, eligible, observed, required) ==
    LET validity == BreadthValidity(observed, eligible)
    IN [validity |-> validity, coverage |-> Coverage(eligible, observed), required |-> required,
        value |-> IF validity = "insufficient_coverage" THEN Absent ELSE value]

\* The members that have enough bars and one of the date, and the last bars of one.
SeriesDays(bars, asOf) == {d \in DOMAIN bars : d <= asOf}
Held(bars, asOf, required) ==
    {m \in DOMAIN bars : LET days == SeriesDays(bars[m], asOf)
                         IN Cardinality(days) >= required /\ asOf \in days}
CurrentSeries(bars, asOf, required) == Restrict(bars, LastDays(SeriesDays(bars, asOf), required))

BoolToInt(b) == IF b THEN 1 ELSE 0

AboveAverage(window) ==
    LET days == DOMAIN window
    IN BoolToInt(Cardinality(days) * window[Max(days)] > FoldFunction(LAMBDA x, y : x + y, 0, window))

NewHighLow(window) ==
    LET last == window[Max(DOMAIN window)]
    IN BoolToInt(last = Max(Range(window))) - BoolToInt(last = Min(Range(window)))

Above(bars, asOf, required) ==
    [m \in Held(bars, asOf, required) |-> AboveAverage(CurrentSeries(bars[m], asOf, required))]
HighLow(bars, asOf, required) ==
    [m \in Held(bars, asOf, required) |-> NewHighLow(CurrentSeries(bars[m], asOf, required))]

\* Exponential average with span n of values[k] / base, as a fraction.
Ema(values, n, base) ==
    LET step(value, r) == <<2 * value * r[2] + (n - 1) * r[1], (n + 1) * r[2]>>
        average[k \in 1..n] == IF k = 1 THEN <<values[1], 1>> ELSE step(values[k], average[k - 1])
    IN <<average[n][1], average[n][2] * base>>

Sign(x) == BoolToInt(x > 0) - BoolToInt(x < 0)

\* The members with a bar on each of the dates, and how they moved up to the k-th.
Moving(bars, dates) == {m \in DOMAIN bars : dates # <<>> /\ ToSet(dates) \subseteq DOMAIN bars[m]}
Moves(bars, dates, k) ==
    [m \in Moving(bars, dates) |-> Sign(bars[m][dates[k]] - bars[m][dates[k - 1]])]

BreadthSnapshot(input) ==
    LET asOf == Max(input.benchmark)
        bars == input.bars
        eligible == Cardinality(DOMAIN bars)
        result(scores, required) ==
            BreadthResult(Mean(scores), eligible, Cardinality(DOMAIN scores), required)
        need == Periods.short + 1
        dates == IF Cardinality(input.benchmark) >= need
                 THEN InOrder(LastDays(input.benchmark, need)) ELSE <<>>
        moving == Cardinality(Moving(bars, dates))
        daily == [k \in 1..Periods.short |-> Balance(Moves(bars, dates, k + 1))]
    IN [asOf |-> asOf, members |-> input.members,
        b50 |-> result(Above(bars, asOf, Periods.short), Periods.short),
        b200 |-> result(Above(bars, asOf, Periods.long), Periods.long),
        nhnl |-> result(HighLow(bars, asOf, Periods.year), Periods.year),
        ad10 |-> BreadthResult(IF moving = 0 THEN Absent ELSE Ema(daily, Periods.short, moving),
                               eligible, moving, need)]

\* What may arrive: the benchmark's days, and the bars of members there are.
BreadthInput(input) ==
    /\ DOMAIN input = {"benchmark", "members", "bars"} /\ input.members \in Int
    /\ IsFiniteSet(input.benchmark) /\ input.benchmark \subseteq Nat
    /\ IsFiniteSet(DOMAIN input.bars) /\ DOMAIN input.bars # {}
    /\ \A m \in DOMAIN input.bars : IsHistory(input.bars[m])

BreadthRaises(input) ==
    \/ input.benchmark = {}
    \/ input.members > Max(input.benchmark)
    \/ Max(input.benchmark) - input.members > MembershipMaxAge

-----------------------------------------------------------------------------
(* What the records and the readers of the database accept.                *)

WellFormedMetric(m) ==
    /\ m.validity \in {"complete", "insufficient_history", "unavailable"}
    /\ m.observations >= 0 /\ m.required >= 1
    /\ (m.validity = "complete") <=> (m.value # Absent)
    /\ m.validity = "complete" => m.observations >= m.required

WellFormedCoverage(c) == c.eligible >= 1 /\ c.observed \in 0..c.eligible

WellFormedPrices(s) ==
    /\ WellFormedCoverage(s.coverage)
    /\ \A name \in DOMAIN s.market : WellFormedMetric(s.market[name])
    /\ \A x \in DOMAIN s.sectors, name \in {"short", "long"} : WellFormedMetric(s.sectors[x][name])
    /\ \A i \in DOMAIN s.stocks : \A name \in DOMAIN s.stocks[i] : WellFormedMetric(s.stocks[i][name])

WellFormedBreadthMetric(m) ==
    /\ WellFormedCoverage(m.coverage) /\ m.required >= 2
    /\ m.validity = BreadthValidity(m.coverage.observed, m.coverage.eligible)
    /\ (m.validity = "insufficient_coverage") <=> (m.value = Absent)
    /\ m.value # Absent => m.value[2] > 0 /\ -m.value[2] <= m.value[1] /\ m.value[1] <= m.value[2]

WellFormedBreadth(s) ==
    LET metrics == {s.b50, s.b200, s.ad10, s.nhnl}
    IN /\ s.members <= s.asOf
       /\ \A m \in metrics : WellFormedBreadthMetric(m)
       /\ \A m, n \in metrics : m.coverage.eligible = n.coverage.eligible
===============================================================================
