--------------------------- MODULE RadarFundamentals ---------------------------
(***************************************************************************)
(* The fundamentals of a watched stock (market_radar/fundamentals.py) from *)
(* an answer of the provider (eodhd_fundamentals.py).  An answer holds     *)
(* three statements, functions from the ends of their quarters to rows,    *)
(* and the provider's own ratios; days are numbers, the real limits on the *)
(* gaps between quarters are kept, and a ratio is numerator and            *)
(* denominator.                                                            *)
(***************************************************************************)
EXTENDS RadarMetrics

Vendor == {"forward_pe", "enterprise_value_to_ebitda", "return_on_equity_ttm", "price_to_book"}
MetricNames == {"fcf_margin", "net_debt_to_ebitda", "fcf_yield"} \cup Vendor

\* Why a metric may have no value.
Reasons == {"insufficient_history", "non_contiguous_periods", "missing_currency",
            "currency_mismatch", "period_mismatch", "missing_field", "invalid_denominator",
            "non_positive_multiple", "non_finite_result", "not_applicable",
            "unknown_classification"}

\* None is no reason.
ASSUME FundamentalsAssumption == Absent \notin Reasons

-----------------------------------------------------------------------------
(* The observation kept of an answer.                                      *)

\* The newest quarters, never an older one because a newer lacks a field.
Quarters(statement, limit) == Restrict(statement, LastDays(DOMAIN statement, limit))

Observation(answer, captured) ==
    [captured |-> captured, updated |-> answer.updated, recent |-> answer.recent,
     kind |-> answer.kind, vendor |-> answer.vendor, capitalization |-> answer.capitalization,
     income |-> Quarters(answer.income, 4), cash |-> Quarters(answer.cash, 4),
     balance |-> Quarters(answer.balance, 1)]

\* No date of it is later than the capture.
ObservationRaises(o) ==
    \/ o.updated # Absent /\ o.updated > o.captured
    \/ o.recent # Absent /\ o.recent > o.captured
    \/ \E statement \in {o.income, o.cash, o.balance} : \E end \in DOMAIN statement :
           LET filing == statement[end].filing
           IN \/ end > o.captured
              \/ filing # Absent /\ (filing < end \/ filing > o.captured)

-----------------------------------------------------------------------------
(* Why a ratio has no value; Absent when it may have one.                  *)

FirstReason(reasons) ==
    LET given == {k \in DOMAIN reasons : reasons[k] # Absent}
    IN IF given = {} THEN Absent ELSE reasons[Min(given)]

TtmReason(statement) ==
    LET ends == SetToSortSeq(DOMAIN statement, >)
        gap(k, n) == ends[k] - ends[n]
    IN IF Len(ends) < 4 THEN "insufficient_history"
       ELSE IF (\E k \in 1..3 : gap(k, k + 1) \notin 70..110) \/ gap(1, 4) \notin 250..300
       THEN "non_contiguous_periods" ELSE Absent

CurrencyReason(statement) ==
    LET currencies == {statement[end].currency : end \in DOMAIN statement}
    IN IF Absent \in currencies THEN "missing_currency"
       ELSE IF currencies \subseteq {"USD"} THEN Absent ELSE "currency_mismatch"

Reason(holds, name) == IF holds THEN name ELSE Absent

Metric(value, reason, end) == [value |-> value, reason |-> reason, end |-> end]

Ratio(numerator, denominator, why, end) ==
    LET missing == Absent \in {numerator, denominator}
        reason == IF why # Absent THEN why
                  ELSE IF missing THEN "missing_field"
                  ELSE IF denominator <= 0 THEN "invalid_denominator" ELSE Absent
    IN Metric(IF reason = Absent THEN <<numerator, denominator>> ELSE Absent, reason, end)

\* Over at most four quarters, each missing one adding nothing.
Total(statement, field) ==
    LET ends == DOMAIN statement
        part(n) == IF Cardinality(ends) < n THEN 0 ELSE statement[FromEnd(ends, n)][field]
    IN IF \E end \in ends : statement[end][field] = Absent THEN Absent
       ELSE part(1) + part(2) + part(3) + part(4)

LastEnd(statement) == IF DOMAIN statement = {} THEN Absent ELSE Max(DOMAIN statement)

\* No ratio applies to a REIT, and two only to a bank.
Excluded(kind, name) ==
    \/ kind = "reit"
    \/ kind = "financial" /\ name \notin {"return_on_equity_ttm", "price_to_book"}

VendorMetric(o, name) ==
    LET value == o.vendor[name]
        reason == IF value = Absent THEN "missing_field"
                  ELSE Reason(name # "return_on_equity_ttm" /\ value <= 0, "non_positive_multiple")
    IN Metric(IF reason = Absent THEN value ELSE Absent, reason,
              IF name = "return_on_equity_ttm" THEN o.recent ELSE Absent)

Stock(o) ==
    LET incomeReason == FirstReason(<<TtmReason(o.income), CurrencyReason(o.income)>>)
        cashReason == FirstReason(<<TtmReason(o.cash), CurrencyReason(o.cash)>>)
        marginReason == FirstReason(<<incomeReason, cashReason,
                            Reason(DOMAIN o.income # DOMAIN o.cash, "period_mismatch")>>)
        debtReason == FirstReason(<<incomeReason,
                          Reason(DOMAIN o.balance = {}, "missing_field"),
                          Reason(LastEnd(o.balance) # LastEnd(o.income), "period_mismatch"),
                          CurrencyReason(o.balance)>>)
        flow == Total(o.cash, "flow")
        metric(name) ==
            CASE name = "fcf_margin" -> Ratio(flow, Total(o.income, "revenue"), marginReason, LastEnd(o.cash))
              [] name = "net_debt_to_ebitda" ->
                     Ratio(IF DOMAIN o.balance = {} THEN Absent ELSE Total(o.balance, "debt"),
                           Total(o.income, "ebitda"), debtReason, LastEnd(o.income))
              [] name = "fcf_yield" -> Ratio(flow, o.capitalization, cashReason, LastEnd(o.cash))
              [] OTHER -> VendorMetric(o, name)
    IN [kind |-> o.kind, updated |-> o.updated,
        metrics |-> [name \in MetricNames |->
            IF o.kind = "unknown" THEN Metric(Absent, "unknown_classification", Absent)
            ELSE IF Excluded(o.kind, name) THEN Metric(Absent, "not_applicable", Absent)
            ELSE metric(name)]]

-----------------------------------------------------------------------------
(* The snapshot of the watchlist.                                          *)

Validity(items) ==
    LET relevant == {p \in (DOMAIN items) \X MetricNames :
                        items[p[1]].metrics[p[2]].reason # "not_applicable"}
        available == {p \in relevant : items[p[1]].metrics[p[2]].value # Absent}
    IN IF available = {} THEN "unavailable"
       ELSE IF available = relevant THEN "complete" ELSE "partial"

FundamentalSnapshot(input) ==
    LET items == [i \in DOMAIN input.answers |-> Stock(Observation(input.answers[i], input.captured))]
    IN [asOf |-> input.captured, validity |-> Validity(items), items |-> items]

\* What may arrive: of each stock any quarters, each field of them there or not.
Amount == Int \cup {Absent}
IsStatement(statement) ==
    /\ IsFiniteSet(DOMAIN statement) /\ DOMAIN statement \subseteq Nat
    /\ \A end \in DOMAIN statement, field \in {"filing", "revenue", "ebitda", "flow", "debt"} :
           statement[end][field] \in Amount
IsAnswer(answer) ==
    /\ {answer.updated, answer.recent, answer.capitalization} \subseteq Amount
    /\ answer.vendor \in [Vendor -> Amount]
    /\ IsStatement(answer.income) /\ IsStatement(answer.cash) /\ IsStatement(answer.balance)
FundamentalInput(input) ==
    /\ input.captured \in Nat /\ DOMAIN input.answers # {}
    /\ \A i \in DOMAIN input.answers : IsAnswer(input.answers[i])

FundamentalsRaise(input) ==
    \E i \in DOMAIN input.answers : ObservationRaises(Observation(input.answers[i], input.captured))

-----------------------------------------------------------------------------
(* What the records and the readers of the database accept.                *)

WellFormedFundamental(m) == (m.value = Absent) <=> (m.reason # Absent)

WellFormedStock(s) ==
    \A name \in MetricNames :
        LET m == s.metrics[name]
        IN /\ WellFormedFundamental(m)
           /\ Excluded(s.kind, name) <=> (m.reason = "not_applicable")
           /\ (s.kind = "unknown") <=> (m.reason = "unknown_classification")

WellFormedFundamentals(s) ==
    /\ DOMAIN s.items # {} /\ s.validity = Validity(s.items)
    /\ \A i \in DOMAIN s.items :
           /\ WellFormedStock(s.items[i])
           /\ \A d \in {s.items[i].updated} \cup {s.items[i].metrics[n].end : n \in MetricNames} :
                  d # Absent => d <= s.asOf
===============================================================================
