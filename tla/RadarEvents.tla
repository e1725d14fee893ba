------------------------------ MODULE RadarEvents ------------------------------
(***************************************************************************)
(* The economic events of a capture (market_radar/economic_events.py),     *)
(* read from the provider in at most two pages (eodhd_economic_events.py). *)
(* The two pages are two requests: the provider's list may change between  *)
(* them.  A row has an identity, the day of the event and a content.       *)
(***************************************************************************)
EXTENDS Integers, Sequences, FiniteSets, SequencesExt

CONSTANTS
    PageSize,                 \* 1000
    Lookback, Forward         \* ECONOMIC_EVENT_LOOKBACK_DAYS, _FORWARD_DAYS

Batch(events, requests, raw) ==
    [events |-> events, requests |-> requests, raw |-> raw,
     duplicates |-> raw - Cardinality(events)]

\* 1000, 7 and 30 in the code.
ASSUME EventsAssumption == PageSize \in Nat \ {0} /\ Lookback \in Nat /\ Forward \in Nat

\* Identical rows of a page count once.
ParsePage(page) == Batch(ToSet(page), 1, Len(page))

\* A row outside the window, or two that differ under one identity.
PageRaises(page, window) ==
    \/ Len(page) > PageSize
    \/ \E r \in ToSet(page) : r.day \notin window
    \/ \E r, s \in ToSet(page) : r # s /\ r.id = s.id

Identities(batch) == {r.id : r \in batch.events}
Window(captured) == captured - Lookback .. captured + Forward

\* The second page is asked for only when the first one is full.
Pages(input) ==
    IF Len(input.pages[1]) < PageSize THEN <<input.pages[1]>> ELSE input.pages

EventBatch(input) ==
    LET batches == [k \in DOMAIN Pages(input) |-> ParsePage(Pages(input)[k])]
    IN IF Len(batches) = 1 THEN batches[1]
       ELSE Batch(batches[1].events \cup batches[2].events, 2, batches[1].raw + batches[2].raw)

\* Pages that overlap, and a second page that is full too, end the capture.
EventsRaise(input) ==
    LET read == Pages(input)
    IN \/ \E k \in DOMAIN read : PageRaises(read[k], Window(input.captured))
       \/ Len(read) = 2 /\ \/ Len(read[2]) >= PageSize
                           \/ Identities(ParsePage(read[1])) \cap Identities(ParsePage(read[2])) # {}

\* What may arrive: two pages of rows that have days.
EventInput(input) ==
    /\ input.captured \in Nat /\ input.pages = <<input.pages[1], input.pages[2]>>
    /\ \A k \in 1..2 : LET page == input.pages[k] IN page \in Seq(ToSet(page))

EventSnapshot(input) ==
    [asOf |-> input.captured, window |-> Window(input.captured), batch |-> EventBatch(input)]

-----------------------------------------------------------------------------
(* What the records and the readers of the database accept.                *)

WellFormedBatch(b) ==
    /\ b.requests \in 1..2 /\ b.raw \in 0..(2 * PageSize - 1) /\ b.duplicates >= 0
    /\ b.raw = Cardinality(b.events) + b.duplicates
    /\ b.requests = 1 => b.raw <= PageSize
    /\ b.requests = 2 => b.raw >= PageSize
    /\ b.events = {} => b.duplicates = 0
    /\ Cardinality(Identities(b)) = Cardinality(b.events)

WellFormedEvents(s) ==
    /\ WellFormedBatch(s.batch)
    /\ s.window = Window(s.asOf)
    /\ ~(s.batch.requests = 1 /\ s.batch.raw = PageSize)
    /\ \A r \in s.batch.events : r.day \in s.window
===============================================================================
