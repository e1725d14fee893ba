------------------------------- MODULE MCRadar -------------------------------
(***************************************************************************)
(* One instance for TLC: the service and its pages, or one input of one    *)
(* calculation, which takes no step.                                       *)
(***************************************************************************)
EXTENDS RadarStatus, RadarCalculations

SingleJobs == {{"prices"}, {"macro"}, {"economic_events"}, {"fundamentals"}, {"earnings"}}
AllJobSets == SingleJobs \cup {{"prices", "breadth"}}

OneSector == [tech |-> "xlk"]
OneStock == [aapl |-> "tech"]
Windows == [short |-> 2, long |-> 3, skip |-> 1, year |-> 4]

-----------------------------------------------------------------------------
Case(kind, inputs) == {[kind |-> kind, input |-> x] : x \in inputs}

\* Prices: any of these histories for each of four instruments.
Histories == {[d \in D |-> d] : D \in {{}, 1..4, 1..5, {1, 2, 4, 5}, {4}, {2, 3}}}
PriceCases == Case("prices", [{"spy", "rsp", "xlk", "aapl"} -> Histories])

\* Breadth: eight of ten members alike, so that 8, 9 or 10 may be observed.
Rising == [d \in 1..4 |-> d]
BreadthCases ==
    Case("breadth",
         {[benchmark |-> b, members |-> m,
           bars |-> [k \in 1..10 |-> IF k = 1 THEN x ELSE IF k = 2 THEN y ELSE Rising]] :
             b \in {1..4, {1, 2, 4}, {3, 4}, {4}, 1..5}, m \in {1, 3, 5},
             x, y \in {[d \in 1..4 |-> 5 - d], [d \in 1..5 |-> 2], [d \in {2, 3, 4} |-> d],
                       [d \in {1, 4} |-> d], [d \in 1..3 |-> d], [d \in {} |-> 0]}})

\* Macro: credit and rates that rise, fall and stand still, with missing days and
\* rates later than the prices.
Shape(D, s) == [d \in D |-> s[d]]
MacroCases ==
    Case("macro",
         {[hyg |-> Shape(H, <<0, 1>> \o h), lqd |-> Shape(1..5, <<0, 0, 0, 0, 0>>),
           vix |-> Shape(V, v), vix3m |-> Shape(1..5, <<1, 1, 1, 1, 1>>), rates |-> Shape(R, r)] :
             H \in {1..5, {1, 2, 3, 5}, 1..4}, h \in {0, 3} \X {1, 3} \X {0, 2},
             V \in {1..5, 2..5}, v \in {<<1, 2, 0, 3, 1>>, <<1, 0, 1, 0, 3>>, <<1, 1, 1, 1, 1>>},
             R \in {1..6, 1..4, 1..3, {1, 2, 3, 5}, {1, 2, 3, 6}, {4, 5}, {6}},
             r \in {<<0, 1, 3, 2, 5, 9>>, <<3, 2, 3, 3, 1, 0>>, <<1, 1, 1, 1, 1, 1>>}})

\* Earnings: two members and a stock that is only watched.
Trend(end, period, current, before, analysts) ==
    [end |-> end, period |-> period, current |-> current, before |-> before, analysts |-> analysts]
TrendSets ==
    LET up == Trend(1, "+1y", 5, 3, 2)
        down == Trend(2, "+1y", -2, 3, 1)
    IN {{}, {up}, {up, down}, {up, Trend(1, "+1y", 5, 5, 2)}, {Trend(2, "+1y", 1, 1, 3)},
        {up, Trend(3, "+1y", 5, Absent, 2)}, {Trend(2, "0y", 5, 3, 2)}, {Trend(2, "+1y", 5, 3, 0)}}
EarningsCases ==
    Case("earnings",
         {[members |-> {"m", "n"}, membersDate |-> d, watchlist |-> {"m", "aapl"}, captured |-> 5,
           listing |-> x, trends |-> t @@ [i \in {"aapl"} |-> a]] :
             d \in {2, 3, 5, 6},
             x \in {[i \in I |-> s] : I \in {{}, {"m"}, {"m", "n"}, {"m", "o"}}, s \in {"tech", "other"}},
             t \in [{"m", "n"} -> TrendSets], a \in {{}, {Trend(1, "+1y", 5, 3, 2)}}})

\* Fundamentals: quarters that are missing, late, uneven, in another currency, or lack
\* a field.
Ends == {{10, 100, 190, 285}, {100, 190, 285, 375}, {10, 100, 190, 285, 375}, {10, 110, 215, 320},
         {100, 285, 375}, {10, 100, 190, 340}, {}}
Statement(ends, accounts) ==
    [end \in ends |-> [accounts EXCEPT !.filing = IF end = 285 THEN Absent ELSE end + @]]
Accounts(filing, currency, value) ==
    [filing |-> filing, currency |-> currency, revenue |-> value, ebitda |-> value,
     flow |-> value, debt |-> value]
Sound == Accounts(20, "USD", 3)
Filed(updated, kind, vendor, E, income, F, B, balance) ==
    [captured |-> 400,
     answers |-> [i \in {"aapl"} |->
         [updated |-> updated, recent |-> 375, kind |-> kind, capitalization |-> 2,
          vendor |-> [n \in Vendor |-> vendor], income |-> Statement(E, income),
          cash |-> Statement(F, Sound), balance |-> Statement(B, balance)]]]
FundamentalCases ==
    Case("fundamentals",
         {Filed(380, "operating", 4, E, x, F, B, y) :
             E, F \in Ends, B \in {{}, {375}, {10, 285}, {405}}, y \in {Sound, Accounts(0, "EUR", Absent)},
             x \in {Sound, Accounts(30, "USD", 0), Accounts(20, Absent, 3), Accounts(-1, "USD", 3)}}
         \cup {Filed(u, k, v, E, Sound, E, B, Sound) :
                 u \in {Absent, 380, 401}, k \in {"operating", "financial", "reit", "unknown"},
                 v \in {Absent, -1, 4}, E \in Ends, B \in {{}, {375}}})

\* Events: any two pages of up to two rows.
EventRows == [id : {1, 2}, day : {4}, value : {0, 1}] \cup {[id |-> 3, day |-> 9, value |-> 0]}
EventPages == UNION {[1..n -> EventRows] : n \in 0..2}
EventCases ==
    Case("economic_events", {[captured |-> 4, pages |-> <<p, q>>] : p, q \in EventPages})

Cases == PriceCases \cup BreadthCases \cup MacroCases \cup EarningsCases
         \cup FundamentalCases \cup EventCases

\* Each of them is one that may arrive.
ASSUME CasesArrive == \A c \in Cases : IsCase(c)

-----------------------------------------------------------------------------
MCInit == \/ case = Absent /\ Init
          \/ case \in Cases /\ Init /\ jobs = {"prices"}
Step(A) == case = Absent /\ A /\ UNCHANGED case
MCNext == Step(Next)
MCSpec == MCInit /\ [][MCNext]_<<vars, case>> /\ WF_<<vars, case>>(Step(ServiceStep))
==============================================================================
