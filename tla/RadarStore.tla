------------------------------ MODULE RadarStore ------------------------------
(***************************************************************************)
(* The market radar's database (market_radar/storage.py): the attempts of  *)
(* the daily service, the sync run each of them opens under the same id,   *)
(* and one table of dated snapshots per source, whose rows name the run    *)
(* that published them.  A step is one transaction.  A row has its columns *)
(* (run, at) and its payload, which repeats the date and the instant: the  *)
(* readers compare them.  What a snapshot says is its calculation's        *)
(* business; here a payload is its date, its instant, whether it covers    *)
(* every configured instrument, and the date of the second source it was   *)
(* computed from: the index members of a breadth, the real rates of a      *)
(* regime.                                                                 *)
(***************************************************************************)
EXTENDS RadarSchedule, Sequences

CONSTANTS
    MaxDay,    \* bound: last date of the model
    None,
    Corrupt    \* the answer of a reader that raises

\* The snapshot of each job, and the rows published beside two of them.
Tables == DailyJobs \cup {"risk", "calendar"}

VARIABLES
    att,    \* daily_sync_attempts in the order of their insertion, each with its sync run
    row     \* table -> date -> row, or None

store == <<att, row>>

\* What a row of a table can be.
Payloads == [asOf : Nat, at : Nat, ready : BOOLEAN, of : Int]
Rows == [run : Nat, at : Nat, payload : Payloads]

\* No row, and no answer, are told from every answer.
ASSUME StoreAssumption ==
    /\ None # Corrupt
    /\ \A x \in {None, Corrupt} :
          x \notin Rows /\ x \notin Payloads
          /\ x \notin [run : Nat, asOf : Nat, at : Nat, ready : BOOLEAN]

NoRun == [status |-> "none", started |-> 0, completed |-> 0]

StoreInit ==
    /\ att = <<>>
    /\ row = [table \in Tables |-> [d \in 0..MaxDay |-> None]]

-----------------------------------------------------------------------------
(* Attempts and runs.                                                      *)

StartAttempt(j, due, target, number, t) ==
    /\ number >= 1 /\ t >= due
    /\ att' = Append(att, [job |-> j, due |-> due, target |-> target, number |-> number,
                           started |-> t, status |-> "running", retry |-> None,
                           run |-> NoRun])
    /\ UNCHANGED row

\* Only a running attempt: an outcome is never overwritten.
FinishAttempt(i, status, retry) ==
    /\ att[i].status = "running"
    /\ att' = [att EXCEPT ![i].status = status, ![i].retry = retry]
    /\ UNCHANGED row

StartRun(i, t) ==
    /\ att[i].run.status = "none"
    /\ att' = [att EXCEPT ![i].run = [status |-> "RUNNING", started |-> t, completed |-> 0]]
    /\ UNCHANGED row

FailRun(i, t) ==
    /\ att[i].run.status = "RUNNING"
    /\ att' = [att EXCEPT ![i].run.status = "FAILED", ![i].run.completed = t]
    /\ UNCHANGED row

-----------------------------------------------------------------------------
(* Publications: the rows and COMPLETE in one transaction of a RUNNING run. *)

Row(i, d, t, ready, of) ==
    [run |-> i, at |-> t, payload |-> [asOf |-> d, at |-> t, ready |-> ready, of |-> of]]

CompleteRun(i, t) ==
    /\ att[i].run.status = "RUNNING"
    /\ att' = [att EXCEPT ![i].run.status = "COMPLETE", ![i].run.completed = t]

PublishPrices(i, d, t, ready) ==
    /\ row' = [row EXCEPT !["prices"][d] = Row(i, d, t, ready, d)]
    /\ CompleteRun(i, t)

PublishBreadth(i, d, t, members) ==
    /\ row' = [row EXCEPT !["breadth"][d] = Row(i, d, t, TRUE, members)]
    /\ CompleteRun(i, t)

\* The risk appetite and the regime it feeds, of one date and one run.
PublishMacro(i, d, t, rates) ==
    /\ row' = [row EXCEPT !["macro"][d] = Row(i, d, t, TRUE, rates),
                          !["risk"][d] = Row(i, d, t, TRUE, d)]
    /\ CompleteRun(i, t)

\* The date's calendar rows are replaced with its snapshot.
PublishEarnings(i, d, t) ==
    /\ d = Day(t)
    /\ row' = [row EXCEPT !["earnings"][d] = Row(i, d, t, TRUE, d),
                          !["calendar"][d] = Row(i, d, t, TRUE, d)]
    /\ CompleteRun(i, t)

\* A capture batch: begun on its date, and never in place of a newer one.
NotReplacingNewer(table, d, t) == row[table][d] # None => row[table][d].at <= t
CapturedOn(i, d, t) == Day(att[i].run.started) = d /\ t >= att[i].run.started

PublishFundamentals(i, d, t) ==
    /\ CapturedOn(i, d, t) /\ NotReplacingNewer("fundamentals", d, t)
    /\ row' = [row EXCEPT !["fundamentals"][d] = Row(i, d, t, TRUE, d)]
    /\ CompleteRun(i, t)

PublishEconomicEvents(i, d, t) ==
    /\ CapturedOn(i, d, t) /\ d = Day(t) /\ NotReplacingNewer("economic_events", d, t)
    /\ row' = [row EXCEPT !["economic_events"][d] = Row(i, d, t, TRUE, d)]
    /\ CompleteRun(i, t)

PublishSource(i, d, t, ready, of) ==
    \/ att[i].job = "prices" /\ PublishPrices(i, d, t, ready)
    \/ att[i].job = "breadth" /\ PublishBreadth(i, d, t, of)
    \/ att[i].job = "macro" /\ PublishMacro(i, d, t, of)
    \/ att[i].job = "earnings" /\ PublishEarnings(i, d, t)
    \/ att[i].job = "fundamentals" /\ PublishFundamentals(i, d, t)
    \/ att[i].job = "economic_events" /\ PublishEconomicEvents(i, d, t)

-----------------------------------------------------------------------------
(* Readers.  An answer is None, a value, or Corrupt where the code raises. *)

DatesOf(table) == {d \in 0..MaxDay : row[table][d] # None}
RunOf(r) == att[r.run].run

CompletedDates(table) == {d \in DatesOf(table) : RunOf(row[table][d]).status = "COMPLETE"}

ColumnsMatch(table, d) ==
    row[table][d].payload.asOf = d /\ row[table][d].payload.at = row[table][d].at

\* daily_publication, read by the service, by recovery and by the page.
Publication(j) ==
    IF DatesOf(j) = {} THEN None
    ELSE LET d == Max(DatesOf(j))
             r == row[j][d]
         IN IF /\ RunOf(r).status = "COMPLETE" /\ att[r.run].job = j
               /\ ColumnsMatch(j, d) /\ r.at <= RunOf(r).completed
            THEN [run |-> r.run, asOf |-> d, at |-> r.at, ready |-> r.payload.ready]
            ELSE Corrupt

Satisfies(p, target) == p \notin {None, Corrupt} /\ p.asOf >= target /\ p.ready

\* latest_price_snapshot and its siblings: the newest row of a COMPLETE run.
LatestSnapshot(table) ==
    IF CompletedDates(table) = {} THEN None
    ELSE LET d == Max(CompletedDates(table))
         IN IF ColumnsMatch(table, d) THEN row[table][d].payload ELSE Corrupt

\* latest_macro_bundle: the regime and the risk appetite its own run published.
MacroBundle ==
    LET Pairs == {p \in CompletedDates("macro") \X DatesOf("risk") :
                     row["macro"][p[1]].run = row["risk"][p[2]].run}
        newest == CHOOSE p \in Pairs : \A q \in Pairs : q[1] <= p[1]
    IN IF Pairs = {} THEN None
       ELSE IF /\ newest[1] = newest[2]
               /\ ColumnsMatch("macro", newest[1]) /\ ColumnsMatch("risk", newest[2])
            THEN row["macro"][newest[1]].payload
            ELSE Corrupt

\* A batch captured within one UTC day by the run that completed at that instant.
CapturedBatch(table) ==
    IF CompletedDates(table) = {} THEN None
    ELSE LET d == Max(CompletedDates(table))
             r == row[table][d]
             run == RunOf(r)
         IN IF /\ ColumnsMatch(table, d) /\ Day(r.at) = d /\ Day(run.started) = d
               /\ run.started <= r.at /\ run.completed = r.at /\ att[r.run].job = table
            THEN r.payload ELSE Corrupt

EconomicEventBatch == CapturedBatch("economic_events")

\* latest_earnings_event_batch also reads the date's calendar rows.
EarningsEventBatch ==
    LET batch == CapturedBatch("earnings")
        item == row["calendar"][batch.asOf]
        header == row["earnings"][batch.asOf]
    IN IF batch \in {None, Corrupt} THEN batch
       ELSE IF /\ item.run = header.run /\ Day(item.at) = batch.asOf
               /\ RunOf(header).started <= item.at /\ item.at <= header.at
            THEN batch ELSE Corrupt

AttemptsOf(j) == {i \in DOMAIN att : att[i].job = j}
AttemptsDue(j, due) == {i \in AttemptsOf(j) : att[i].due = due}
Running == {i \in DOMAIN att : att[i].status = "running"}

\* By start, then by number.
LatestAttempt(S) ==
    CHOOSE i \in S : \A k \in S :
        \/ att[k].started < att[i].started
        \/ att[k].started = att[i].started /\ att[k].number <= att[i].number

\* latest_source_run: any status but no run at all.
RunsOf(j) == {i \in AttemptsOf(j) : att[i].run.status # "none"}
LatestRun(j) == CHOOSE i \in RunsOf(j) : \A k \in RunsOf(j) : att[k].run.started <= att[i].run.started
===============================================================================
