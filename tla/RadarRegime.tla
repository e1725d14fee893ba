------------------------------ MODULE RadarRegime ------------------------------
(***************************************************************************)
(* Risk appetite (market_radar/macro.py) and the macro regime it forms     *)
(* with the real rates (market_radar/regime.py).  Prices are logarithms in *)
(* whole units, so a ratio is a difference; a Z-score is in hundredths and *)
(* a score in ten thousandths, rounded down.  An input maps hyg, lqd, vix, *)
(* vix3m and rates to functions from days.  The code's windows are         *)
(* parameters.                                                             *)
(***************************************************************************)
EXTENDS RadarMetrics

CONSTANTS
    Change,             \* CHANGE_OBSERVATIONS, REAL_RATE_CHANGE_OBSERVATIONS
    MinRobust,          \* MIN_ROBUST_OBSERVATIONS
    RobustWindow,       \* ROBUST_WINDOW_OBSERVATIONS
    TrajectoryLength,   \* TRAJECTORY_OBSERVATIONS
    AlignmentMaxAge     \* ALIGNMENT_MAX_AGE_DAYS

\* 20, 504, 756, 60 and 3 in the code.
ASSUME RegimeAssumption ==
    /\ Change \in Nat \ {0} /\ MinRobust \in Nat \ {0} /\ RobustWindow \in Nat /\ MinRobust <= RobustWindow
    /\ TrajectoryLength \in Nat \ {0} /\ AlignmentMaxAge \in Nat
    /\ Absent \notin [day : Nat, credit : Int, volatility : Int, score : Int]

NeutralBand == 35       \* hundredths

Magnitude(x) == IF x < 0 THEN -x ELSE x
LastOf(s, n) == IF Len(s) <= n THEN s ELSE SubSeq(s, Len(s) - n + 1, Len(s))

-----------------------------------------------------------------------------
(* Robust Z-score of the last value.                                       *)

\* The n-th of the values by size.
NthSmallest(values, n) ==
    Min({v \in Range(values) : Cardinality({k \in DOMAIN values : values[k] <= v}) >= n})

\* Twice the median.
Median2(values) ==
    LET n == Len(values) IN NthSmallest(values, (n + 1) \div 2) + NthSmallest(values, n \div 2 + 1)

\* Hundredths of the deviation, which is 1.4826 of the median one.
Scaled(distance2, mad2) == (2000000 * distance2) \div (14826 * mad2)

RobustZ(values) ==
    LET window == LastOf(values, RobustWindow)
        off == [k \in DOMAIN window |-> 2 * window[k] - Median2(window)]
        mad == Median2([k \in DOMAIN off |-> Magnitude(off[k])])
    IN IF Len(values) < MinRobust \/ mad = 0 THEN Absent
       ELSE Max({-300, Min({300, Scaled(Last(off), mad)})})

\* The Z-score of each value among those before it.
RobustZs(values) == [k \in DOMAIN values |-> RobustZ(SubSeq(values, 1, k))]

-----------------------------------------------------------------------------
(* Risk appetite: credit against volatility on the common days.            *)

RiskInputs == {"hyg", "lqd", "vix", "vix3m"}
CommonDays(input) == {d \in DOMAIN input["hyg"] : \A x \in RiskInputs : d \in DOMAIN input[x]}

\* Four histories that end on one date, and more than Change common days.
RiskRaises(input) ==
    \/ \E x \in RiskInputs : DOMAIN input[x] = {}
    \/ Cardinality({Max(DOMAIN input[x]) : x \in RiskInputs}) > 1
    \/ Cardinality(CommonDays(input)) <= Change

RawPoints(input) ==
    LET days == InOrder(CommonDays(input))
        spread(k) == input["hyg"][days[k]] - input["lqd"][days[k]]
    IN [k \in 1..Len(days) - Change |->
           [day |-> days[k + Change],
            credit |-> spread(k + Change) - spread(k),
            volatility |-> input["vix"][days[k + Change]] - input["vix3m"][days[k + Change]]]]

Score(credit, volatility) == 60 * credit - 40 * volatility

ScoredPoints(raw) ==
    LET credit == RobustZs([k \in DOMAIN raw |-> raw[k].credit])
        volatility == RobustZs([k \in DOMAIN raw |-> raw[k].volatility])
        scored == InOrder({k \in DOMAIN raw : credit[k] # Absent /\ volatility[k] # Absent})
        point(k) == [day |-> raw[k].day, credit |-> credit[k], volatility |-> volatility[k],
                     score |-> Score(credit[k], volatility[k])]
    IN [n \in DOMAIN scored |-> point(scored[n])]

RiskOf(raw, scored) ==
    LET observations == Min({Len(raw), RobustWindow})
        current == IF scored # <<>> /\ Last(scored).day = Last(raw).day THEN Last(scored)
                   ELSE Absent
        validity == IF observations < MinRobust THEN "insufficient_history"
                    ELSE IF current = Absent THEN "unavailable" ELSE "complete"
    IN [asOf |-> Last(raw).day, validity |-> validity, observations |-> observations,
        components |-> Last(raw),
        current |-> current,
        trajectory |-> IF validity = "complete" THEN LastOf(scored, TrajectoryLength) ELSE <<>>]

RiskSnapshot(input) == RiskOf(RawPoints(input), ScoredPoints(RawPoints(input)))

-----------------------------------------------------------------------------
(* Real rates.                                                             *)

\* The share of the window at or below the last level.
Percentile(levels) ==
    <<Cardinality({k \in DOMAIN levels : levels[k] <= Last(levels)}), Len(levels)>>

RatesRaise(rates, asOf) == DOMAIN CutAt(rates, asOf) = {}

\* What is known of the rates of each day of a history.
RateHistory(rates) ==
    LET days == InOrder(DOMAIN rates)
        levels == [k \in DOMAIN days |-> rates[days[k]]]
        changes == [k \in 1..Len(days) - Change |-> levels[k + Change] - levels[k]]
        pressure == RobustZs(changes)
    IN [k \in DOMAIN days |->
           [day |-> days[k], level |-> levels[k],
            change |-> IF k > Change THEN changes[k - Change] ELSE Absent,
            pressure |-> IF k > Change THEN pressure[k - Change] ELSE Absent,
            percentile |-> Percentile(LastOf(SubSeq(levels, 1, k), RobustWindow))]]

RateState(rates) ==
    LET latest == Last(RateHistory(rates))
        count == Min({Max({0, Cardinality(DOMAIN rates) - Change}), RobustWindow})
    IN [latest |-> latest, observations |-> count,
        validity |-> IF count < MinRobust THEN "insufficient_history"
                     ELSE IF latest.pressure = Absent THEN "unavailable" ELSE "complete"]

-----------------------------------------------------------------------------
(* The regime.                                                             *)

Classify(pressure, score) ==
    IF Magnitude(pressure) <= NeutralBand \/ Magnitude(score) <= 100 * NeutralBand
    THEN "transition"
    ELSE IF pressure < 0
    THEN IF score > 0 THEN "easing_risk_on" ELSE "growth_concern"
    ELSE IF score > 0 THEN "growth_reflation" ELSE "tightening_shock"

\* (mutant) rates of later days count.
KnownEver(history, day) == {k \in DOMAIN history : history[k].pressure # Absent}

\* A risk point with the newest scored rate known on its day, if that is recent.
Known(history, day) == {k \in DOMAIN history : history[k].pressure # Absent /\ history[k].day <= day}

\* (mutant) however old the rate.
AlignedAnyAge(history, day) == Known(history, day) # {}

Aligned(history, day) ==
    Known(history, day) # {} /\ day - history[Max(Known(history, day))].day <= AlignmentMaxAge

AlignPoint(risk, history) ==
    LET rate == history[Max(Known(history, risk.day))]
    IN [day |-> risk.day, rate |-> rate, risk |-> risk,
        regime |-> Classify(rate.pressure, risk.score)]

Duration(points) ==
    LET same == {k \in DOMAIN points : \A n \in k..Len(points) : points[n].regime = Last(points).regime}
    IN Cardinality(same)

AlignedPoints(risk, history) ==
    LET points == risk.trajectory
        dated == InOrder({k \in DOMAIN points : Aligned(history, points[k].day)})
    IN [n \in DOMAIN dated |-> AlignPoint(points[dated[n]], history)]

RegimeOf(risk, rate, aligned) ==
    LET both == {risk.validity, rate.validity}
        whole == both = {"complete"} /\ aligned # <<>> /\ Last(aligned).day = risk.asOf
        trajectory == IF whole THEN aligned ELSE <<>>
    IN [asOf |-> risk.asOf, rate |-> rate,
        validity |-> IF "insufficient_history" \in both THEN "insufficient_history"
                     ELSE IF whole THEN "complete" ELSE "unavailable",
        current |-> IF whole THEN Last(aligned) ELSE Absent,
        trajectory |-> trajectory, duration |-> Duration(trajectory)]

RegimeFrom(risk, rates) ==
    RegimeOf(risk, RateState(rates), AlignedPoints(risk, RateHistory(rates)))

RegimeSnapshot(input) ==
    LET risk == RiskSnapshot(input)
    IN RegimeFrom(risk, CutAt(input["rates"], risk.asOf))

\* What may arrive: five histories.
MacroInput(input) ==
    RiskInputs \cup {"rates"} \subseteq DOMAIN input /\ \A x \in RiskInputs \cup {"rates"} : IsHistory(input[x])

RegimeRaises(input) ==
    RiskRaises(input) \/ RatesRaise(input["rates"], RiskSnapshot(input).asOf)

-----------------------------------------------------------------------------
(* What the records and the readers of the database accept.                *)

ZScore(z) == z \in Int /\ Magnitude(z) <= 300
Increasing(points) == \A k \in 1..Len(points) - 1 : points[k].day < points[k + 1].day

WellFormedRiskPoint(p) ==
    ZScore(p.credit) /\ ZScore(p.volatility) /\ p.score = Score(p.credit, p.volatility)

WellFormedRisk(s) ==
    /\ s.observations >= 0 /\ s.components.day = s.asOf
    /\ \A p \in Range(s.trajectory) : WellFormedRiskPoint(p)
    /\ Increasing(s.trajectory) /\ Len(s.trajectory) <= TrajectoryLength
    /\ IF s.validity = "complete"
       THEN /\ s.observations >= MinRobust /\ s.current # Absent /\ s.trajectory # <<>>
            /\ Last(s.trajectory) = s.current /\ s.current.day = s.asOf
       ELSE /\ s.current = Absent /\ s.trajectory = <<>>
            /\ (s.validity = "insufficient_history") <=> (s.observations < MinRobust)

WellFormedRate(r) ==
    /\ r.latest.pressure # Absent => ZScore(r.latest.pressure)
    /\ r.latest.percentile[1] \in 0..r.latest.percentile[2]
    /\ (r.validity = "insufficient_history") <=> (r.observations < MinRobust)
    /\ (r.validity = "complete") <=> (r.latest.pressure # Absent)
    /\ r.validity = "complete" => r.latest.change # Absent

WellFormedRegimePoint(p) ==
    /\ ZScore(p.rate.pressure) /\ p.rate.percentile[1] \in 0..p.rate.percentile[2]
    /\ WellFormedRiskPoint(p.risk)
    /\ p.day - p.rate.day \in 0..AlignmentMaxAge
    /\ p.regime = Classify(p.rate.pressure, p.risk.score)

WellFormedRegime(s) ==
    /\ WellFormedRate(s.rate) /\ s.rate.latest.day <= s.asOf
    /\ \A p \in Range(s.trajectory) : WellFormedRegimePoint(p)
    /\ Increasing(s.trajectory) /\ Len(s.trajectory) <= TrajectoryLength
    /\ IF s.validity = "complete"
       THEN /\ s.rate.validity = "complete" /\ s.trajectory # <<>>
            /\ s.current = Last(s.trajectory) /\ s.current.day = s.asOf
            /\ s.current.rate = s.rate.latest
            /\ s.duration \in 1..Len(s.trajectory)
       ELSE s.current = Absent /\ s.trajectory = <<>> /\ s.duration = 0
===============================================================================
