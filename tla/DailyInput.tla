------------------------------ MODULE DailyInput ------------------------------
(***************************************************************************)
(* The daily intake of one production factor batch (live/daily.py): the   *)
(* service waits for the finalized delivery of the expected date, replaces *)
(* the prices and corporate actions of every instrument through the data   *)
(* pipeline, imports the scores into the Catalog and records the           *)
(* acceptance that lets the trading node use them.  The import script does *)
(* the last two steps alone, under the same lock.                          *)
(*                                                                         *)
(* A step is one publication under the Catalog's write lock, one database  *)
(* transaction, or one reading of the clock.  What an instrument's bars    *)
(* are worth is the last trading day they cover; the contract checks of a  *)
(* delivery either pass or not.  Torn Catalog calls are CatalogStore's.    *)
(* Trading day d has four instants: its close, the moment its bars count   *)
(* as complete (midnight UTC), the next opening (the cutoff), and the      *)
(* expiry of a signal in the next session.                                 *)
(***************************************************************************)
EXTENDS Naturals, FiniteSets

CONSTANTS
    Deliveries,    \* finalized FactorBatch directories that may appear
    AsOf,          \* their maximum_asof_date
    Fixed,         \* those of the configured model release
    Valid,         \* those that pass validate_factor_bundle
    Instruments,   \* the configured instruments with a factor identity
    Eligible,      \* the instruments of each delivery that have a score
    Days,          \* last trading day of the model
    MaxTime,       \* bound: last instant of the clock
    MaxIncidents,      \* bound: how often a writer is killed or the script run
    None

ASSUME InputAssumption ==
    /\ IsFiniteSet(Deliveries) /\ IsFiniteSet(Instruments)
    /\ Days \in Nat \ {0} /\ MaxTime \in Nat /\ MaxTime >= 4 /\ MaxIncidents \in Nat
    /\ AsOf \in [Deliveries -> 1..Days]
    /\ Fixed \subseteq Deliveries /\ Valid \subseteq Deliveries
    /\ Eligible \in [Deliveries -> SUBSET Instruments]
    /\ None \notin Deliveries /\ None \notin Instruments /\ None \notin Nat

VARIABLES
    now,
    inbox,      \* deliveries finalized so far
    bars,       \* last day covered by each instrument's bars in the Catalog
    actions,    \* last day covered by its corporate actions sidecar
    scores,     \* deliveries whose score rows are in the Catalog
    accepted,   \* factor_imports: verified_at of each delivery in mode paper, or None
    by,         \* history: who recorded the acceptance, None without one
    input,      \* the consumer that holds the paper input lock
    marked,     \* a killed writer has left its marker: the Catalog refuses everybody
    incidents

inputVars == <<now, inbox, bars, actions, scores, accepted, by, input, marked, incidents>>

-----------------------------------------------------------------------------
(* Calendar (data/market_calendar.py, data/factor.py).                     *)

CloseOf(day)   == 4 * day
BarsOut(day)   == 4 * day + 1
Cutoff(day)    == 4 * day + 2    \* opening of the next regular session
ExpiresAt(day) == 4 * day + 3

\* expected_factor_date: the latest day that has closed.
Expected(t) == t \div 4

TimePasses ==
    /\ now < MaxTime
    /\ now' = now + 1
    /\ UNCHANGED <<inbox, bars, actions, scores, accepted, by, input, marked, incidents>>

\* The producer finalizes a delivery by renaming its directory.
Deliver(d) ==
    /\ d \notin inbox /\ now >= CloseOf(AsOf[d])
    /\ inbox' = inbox \cup {d}
    /\ UNCHANGED <<now, bars, actions, scores, accepted, by, input, marked, incidents>>

-----------------------------------------------------------------------------
(* One tick of the service.                                                *)

InputSteps == {"down", "sleep", "sync", "actions", "import", "stamp", "commit"}

NoWork == [step |-> "sleep", who |-> "service", bundle |-> None, at |-> 0,
           todo |-> {}, item |-> None, bad |-> FALSE]

Down == [NoWork EXCEPT !.step = "down"]

\* What a consumer returns to when it is done or blocked: the service sleeps, the
\* script ends.
Rest == IF input.who = "service" THEN NoWork ELSE Down

\* The steps that run under the Catalog's write lock.
WriterInside == input.step \in {"actions", "stamp", "commit"}

InputInit ==
    /\ now = CloseOf(1)
    /\ inbox = {}
    /\ bars = [i \in Instruments |-> 0]
    /\ actions = [i \in Instruments |-> 0]
    /\ scores = {}
    /\ accepted = [d \in Deliveries |-> None]
    /\ by = [d \in Deliveries |-> None]
    /\ input = Down
    /\ marked = FALSE /\ incidents = 0

ServiceStarts ==
    /\ input.step = "down"
    /\ input' = NoWork
    /\ UNCHANGED <<now, inbox, bars, actions, scores, accepted, by, marked, incidents>>

\* SIGKILL of whoever holds the input lock; the operating system releases its locks,
\* but a marker in the Catalog stays until an operator has rebuilt it.
Killed ==
    /\ input.step # "down" /\ incidents < MaxIncidents
    /\ input' = Down
    /\ marked' = (marked \/ WriterInside)
    /\ incidents' = incidents + 1
    /\ UNCHANGED <<now, inbox, bars, actions, scores, accepted, by>>

\* _find_bundle: the finalized directories of the release and date.
Candidates(day) == {d \in inbox \cap Fixed : AsOf[d] = day}

\* Every other outcome of a tick before the prices are touched (waiting, cutoff,
\* already accepted, blocked) leaves everything as it is.
Proceeds(d) ==
    /\ Candidates(Expected(now)) = {d} /\ d \in Valid
    /\ accepted[d] = None
    /\ now < Cutoff(AsOf[d])

TickBegins ==
    /\ input.step = "sleep"
    /\ \E d \in Deliveries :
          /\ Proceeds(d)
          /\ input' = [NoWork EXCEPT !.step = "sync", !.bundle = d, !.at = now,
                                     !.todo = Instruments]
    /\ UNCHANGED <<now, inbox, bars, actions, scores, accepted, by, marked, incidents>>

\* An exception ends the tick: provider, authentication, a busy or marked Catalog, the
\* database.
TickFails ==
    /\ input.step \notin {"down", "sleep"}
    /\ input' = Rest
    /\ UNCHANGED <<now, inbox, bars, actions, scores, accepted, by, marked, incidents>>

\* The last day a full replacement up to the delivery's date can bring: bars count
\* once their day is over at the pipeline's clock, and the provider may be late.
Fetchable(d) == {day \in {AsOf[d] - 1, AsOf[d]} : BarsOut(day) <= input.at}

\* The provider brings bars the quality checks accept; they replace the series, even
\* by a shorter one.
PublishBars(i, day) ==
    /\ input.step = "sync" /\ i \in input.todo /\ ~marked
    /\ day \in Fetchable(input.bundle)
    /\ bars' = [bars EXCEPT ![i] = day]
    /\ input' = [input EXCEPT !.step = "actions", !.item = i, !.todo = @ \ {i}]
    /\ UNCHANGED <<now, inbox, actions, scores, accepted, by, marked, incidents>>

\* No bars, or none at the start of the history: an error only for an instrument
\* that should have a score.  Any other quality or fetch error counts for all.
SkipInstrument(i, exempt) ==
    /\ input.step = "sync" /\ i \in input.todo
    /\ input' = [input EXCEPT !.todo = @ \ {i},
                              !.bad = @ \/ ~exempt \/ i \in Eligible[input.bundle]]
    /\ UNCHANGED <<now, inbox, bars, actions, scores, accepted, by, marked, incidents>>

\* The sidecar follows under the same lock; TickFails is the case that it cannot.
WriteActions ==
    /\ input.step = "actions"
    /\ actions' = [actions EXCEPT ![input.item] = AsOf[input.bundle]]
    /\ input' = [input EXCEPT !.step = "sync", !.item = None]
    /\ UNCHANGED <<now, inbox, bars, scores, accepted, by, marked, incidents>>

\* _check_quality over the reports of the whole run.
QualityPassed == input.step = "sync" /\ input.todo = {} /\ ~input.bad

PricesReady ==
    /\ QualityPassed
    /\ input' = [input EXCEPT !.step = "import"]
    /\ UNCHANGED <<now, inbox, bars, actions, scores, accepted, by, marked, incidents>>

\* scripts/import_factor_bundle.py --mode paper, while the service is down: any valid
\* delivery, of a release named on the command line, on the prices that are there.
ScriptStarts(d) ==
    /\ input.step = "down" /\ d \in inbox \cap Valid /\ incidents < MaxIncidents
    /\ incidents' = incidents + 1
    /\ input' = [NoWork EXCEPT !.step = "import", !.who = "script", !.bundle = d, !.at = now]
    /\ UNCHANGED <<now, inbox, bars, actions, scores, accepted, by, marked>>

-----------------------------------------------------------------------------
(* import_factor_bundle and _record_bundle_acceptance, under the write lock. *)

\* Some instrument has a bar of the date, and every eligible one has.
Priced(d) == /\ \E i \in Instruments : bars[i] >= AsOf[d]
             /\ \A i \in Eligible[d] : bars[i] >= AsOf[d]

\* Rows of the date are this delivery's own, complete and unchanged, or there are none.
NoConflict(d) == \A e \in scores : AsOf[e] = AsOf[d] => e = d

ImportScores ==
    /\ input.step = "import" /\ ~marked
    /\ Priced(input.bundle) /\ NoConflict(input.bundle)
    /\ scores' = scores \cup {input.bundle}
    /\ input' = IF accepted[input.bundle] = None THEN [input EXCEPT !.step = "stamp"] ELSE Rest
    /\ UNCHANGED <<now, inbox, bars, actions, accepted, by, marked, incidents>>

\* (mutant) any day that is over
TimelyAnyDay(d) == CloseOf(AsOf[d]) <= now

\* The clock is read after the scores are written.
Timely(d) == AsOf[d] = Expected(now) /\ now < Cutoff(AsOf[d])

StampAcceptance ==
    /\ input.step = "stamp" /\ Timely(input.bundle)
    /\ input' = [input EXCEPT !.step = "commit", !.at = now]
    /\ UNCHANGED <<now, inbox, bars, actions, scores, accepted, by, marked, incidents>>

CommitAcceptance ==
    /\ input.step = "commit"
    /\ accepted' = [accepted EXCEPT ![input.bundle] = input.at]
    /\ by' = [by EXCEPT ![input.bundle] = input.who]
    /\ input' = Rest
    /\ UNCHANGED <<now, inbox, bars, actions, scores, marked, incidents>>

InputNext ==
    \/ TimePasses \/ ServiceStarts \/ Killed \/ TickBegins \/ TickFails
    \/ WriteActions \/ PricesReady \/ StampAcceptance \/ CommitAcceptance
    \/ ImportScores
    \/ \E d \in Deliveries : Deliver(d) \/ ScriptStarts(d)
    \/ \E i \in Instruments :
          \/ \E day \in 0..Days : PublishBars(i, day)
          \/ \E exempt \in BOOLEAN : SkipInstrument(i, exempt)

-----------------------------------------------------------------------------

InputTypeOK ==
    /\ now \in 0..MaxTime
    /\ inbox \subseteq Deliveries
    /\ bars \in [Instruments -> 0..Days]
    /\ actions \in [Instruments -> 0..Days]
    /\ scores \subseteq Deliveries
    /\ accepted \in [Deliveries -> (0..MaxTime) \cup {None}]
    /\ by \in [Deliveries -> {"service", "script", None}]
    /\ input \in [step : InputSteps, who : {"service", "script"}, bundle : Deliveries \cup {None},
                  at : 0..MaxTime, todo : SUBSET Instruments, item : Instruments \cup {None},
                  bad : BOOLEAN]
    /\ marked \in BOOLEAN /\ incidents \in 0..MaxIncidents

\* An acceptance of the configured release means what the node takes it for: the scores are in the Catalog alone
\* for their date, the acceptance was stamped between the close and the next opening,
\* and until its signal expires every eligible instrument keeps a bar of the date;
\* where the service accepted, the corporate actions reach as far, whatever failed,
\* was repeated, killed, or came from the script in between (live/daily.py:152,
\* data/pipeline.py:490, data/factor.py:668).
AcceptedIsPriced ==
    \A d \in Fixed : accepted[d] # None =>
        /\ d \in scores
        /\ \A e \in scores : AsOf[e] = AsOf[d] => e = d
        /\ CloseOf(AsOf[d]) <= accepted[d] /\ accepted[d] < Cutoff(AsOf[d])
        /\ now <= ExpiresAt(AsOf[d]) => \A i \in Eligible[d] : bars[i] >= AsOf[d]
        /\ (by[d] = "service" /\ now <= ExpiresAt(AsOf[d]))
              => \A i \in Eligible[d] : actions[i] >= AsOf[d]
===============================================================================
