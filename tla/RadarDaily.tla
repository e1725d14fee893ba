------------------------------ MODULE RadarDaily ------------------------------
(***************************************************************************)
(* The daily service of the market radar (market_radar/daily.py): one      *)
(* process under the writer lock, which on every tick decides each job in  *)
(* turn, opens an attempt where one is due, runs the job's sync            *)
(* (market_radar/service.py) and records how it ended.  It may be killed   *)
(* at any step and is restarted; what a killed process left running is     *)
(* settled first.                                                          *)
(*                                                                         *)
(* A step is one transaction of RadarStore, one reading of the clock with  *)
(* the answer it stamps, or one end of the pipeline's Catalog write.  The  *)
(* bars of an instrument are worth the date of its newest one; a pipeline  *)
(* without errors does not look at that date, the jobs do.  The worker row *)
(* of the heartbeat is left out: it is written beside the job and nothing  *)
(* reads it but the page; a heartbeat that fails ends the process when the *)
(* tick is over.  A publication later than the clock, which the service    *)
(* refuses, cannot be: the clock does not go back.                         *)
(***************************************************************************)
EXTENDS RadarStore

CONSTANTS
    JobSets,         \* the sets of jobs whose service is looked at
    Eventful,        \* bound: those of them in which incidents happen, and sources say
                     \* that they are not ready (to the others they only fail)
    StartTime,
    MaxTime,         \* bound: last instant of the clock
    MaxAttempts,     \* max_attempts_per_day
    RetryInterval,   \* retry_interval_seconds, in instants
    MaxIncidents,    \* bound: kills and lost transactions
    PriceIds,        \* price_instrument_ids
    MacroIds,        \* macro_price_instrument_ids
    MemberIds,       \* the index members of the day
    BenchmarkId      \* the benchmark, of which prices and breadth take their date

ASSUME DailyAssumption ==
    /\ Sessions \subseteq Nat /\ IsFiniteSet(Sessions)
    /\ StartTime \in Nat /\ MaxTime \in Nat /\ MaxDay \in Nat /\ MaxIncidents \in Nat
    /\ StartTime >= 3 /\ StartTime <= MaxTime
    /\ \E s \in Sessions : s < Day(ScheduledAt(StartTime))
    /\ Day(MaxTime) <= MaxDay
    /\ MaxAttempts \in Nat \ {0} /\ RetryInterval \in Nat \ {0}
    /\ JobSets \subseteq SUBSET DailyJobs
    /\ None \notin Nat

\* A fund is no member of the index it follows, and the macro prices are of other funds:
\* the benchmark's bars are written with the prices.
ASSUME BenchmarkAssumption == BenchmarkId \in PriceIds /\ BenchmarkId \notin MacroIds \cup MemberIds

Instruments == PriceIds \cup MacroIds \cup MemberIds

VARIABLES
    now,
    jobs,
    svc,        \* the process
    catalog,    \* the date of each instrument's newest bar, 0 without bars
    marker,     \* .catalog-writing is there
    incidents

vars == <<store, now, jobs, svc, catalog, marker, incidents>>

\* todo: the jobs left in this tick; at: the instant read for the decision or the
\* snapshot in hand; cur: its attempt; end: how its sync failed; said: jobs reported complete in
\* this tick, with their targets; checked: catalog_checked.
Down == [step |-> "down", todo |-> {}, at |-> 0, cur |-> 0, end |-> None, said |-> {},
         checked |-> {}]

Init ==
    /\ StoreInit
    /\ now = StartTime /\ jobs \in JobSets /\ svc = Down
    /\ catalog = [i \in Instruments |-> 0] /\ marker = FALSE /\ incidents = 0

Incident == jobs \in Eventful /\ incidents < MaxIncidents /\ incidents' = incidents + 1

-----------------------------------------------------------------------------
(* Decisions.                                                              *)

Target(j, t)    == IF j \in PriceJobs THEN ExpectedPriceDate(t) ELSE Day(t)
DueTarget(j, t) == IF j \in PriceJobs THEN ExpectedPriceDate(t) ELSE Day(ScheduledAt(t))

\* (mutant) what is published is taken to be in the Catalog.
PublishedIsReady(j, d) == j \in PriceJobs => ~marker

\* The instruments whose bars a price job fetches, and those it finds its bars by.
Fetched(j) == IF j = "prices" THEN PriceIds ELSE IF j = "macro" THEN MacroIds ELSE MemberIds
Needed(j)  == IF j = "breadth" THEN MemberIds \cup {BenchmarkId} ELSE Fetched(j)

\* The marker comes first: what was checked before it does not count.
CatalogReady(j, d) ==
    j \in PriceJobs =>
        ~marker /\ (<<j, d>> \in svc.checked \/ \A i \in Needed(j) : catalog[i] >= d)

InHand(j) ==
    /\ svc.step = "job" /\ j \in svc.todo
    /\ \A k \in svc.todo : Rank[j] <= Rank[k]

Complete(j) ==
    /\ Satisfies(Publication(j), DueTarget(j, svc.at))
    /\ CatalogReady(j, Target(j, svc.at))

Tried(j) == AttemptsDue(j, ScheduledAt(svc.at))
LastTry(j) == att[LatestAttempt(Tried(j))]

\* (mutant) only the number of attempts counts.
BlockedByNumber(j) == Tried(j) # {} /\ LastTry(j).number >= MaxAttempts

Blocked(j) ==
    Tried(j) # {} /\ (LastTry(j).number >= MaxAttempts \/ LastTry(j).retry = None)

\* (mutant) the clock is read anew.
WaitsByClock(j) == Tried(j) # {} /\ LastTry(j).retry # None /\ LastTry(j).retry > now

MustWait(j) == Tried(j) # {} /\ LastTry(j).retry # None /\ LastTry(j).retry > svc.at

\* Breadth needs the benchmark's prices of the target date.
LacksPrices(j) ==
    /\ j = "breadth"
    /\ LET p == Publication("prices") d == Target(j, svc.at)
       IN p # None => p.asOf < d \/ ~CatalogReady("prices", d)

NextNumber(j) ==
    IF Tried(j) = {} THEN 1 ELSE Max({att[i].number : i \in Tried(j)}) + 1

RetryAt(t, number) == IF number >= MaxAttempts THEN None ELSE t + RetryInterval

BeginTick ==
    /\ svc.step = "idle"
    /\ svc' = [svc EXCEPT !.step = "job", !.todo = jobs, !.at = now]
    /\ UNCHANGED <<store, now, jobs, catalog, marker, incidents>>

ReportComplete(j) ==
    /\ InHand(j) /\ Complete(j)
    /\ LET told == {<<j, Target(j, svc.at)>>}
       IN svc' = [svc EXCEPT !.todo = @ \ {j}, !.at = now, !.said = @ \cup told,
                             !.checked = IF j \in PriceJobs THEN @ \cup told ELSE @]
    /\ UNCHANGED <<store, now, jobs, catalog, marker, incidents>>

\* Blocked, waiting for its retry, or for the prices: nothing is done.
Postpone(j) ==
    /\ InHand(j) /\ ~Complete(j)
    /\ Blocked(j) \/ MustWait(j) \/ LacksPrices(j)
    /\ svc' = [svc EXCEPT !.todo = @ \ {j}, !.at = now]
    /\ UNCHANGED <<store, now, jobs, catalog, marker, incidents>>

\* The attempt is on record before anything is requested.  Breadth has found the
\* prices in the Catalog, which is remembered too.
BeginAttempt(j) ==
    /\ InHand(j) /\ ~Complete(j) /\ ~Blocked(j) /\ ~MustWait(j) /\ ~LacksPrices(j)
    /\ StartAttempt(j, ScheduledAt(svc.at), Target(j, svc.at), NextNumber(j), svc.at)
    /\ LET found == IF j = "breadth" THEN {<<"prices", Target(j, svc.at)>>} ELSE {}
       IN svc' = [svc EXCEPT !.step = "sync", !.at = 0, !.cur = Len(att) + 1,
                             !.checked = @ \cup found]
    /\ UNCHANGED <<now, jobs, catalog, marker, incidents>>

EndTick ==
    /\ svc.step = "job" /\ svc.todo = {}
    /\ svc' = [svc EXCEPT !.step = "idle", !.at = 0, !.said = {}]
    /\ UNCHANGED <<store, now, jobs, catalog, marker, incidents>>

-----------------------------------------------------------------------------
(* The sync of the job in hand.                                            *)

This == att[svc.cur]

\* How a sync may fail: for good, with an error worth a retry, or because the
\* source has not got there yet.
Broken    == [status |-> "failed", again |-> FALSE]
Temporary == [status |-> "failed", again |-> TRUE]
NotReady  == [status |-> "waiting_source", again |-> TRUE]
Failures(j) ==
    {Broken, Temporary} \cup (IF j \in PriceJobs /\ jobs \in Eventful THEN {NotReady} ELSE {})

FailsWith(o) == svc' = [svc EXCEPT !.step = "failed", !.at = 0, !.end = o]

\* Before its run: the marker of an interrupted Catalog write, a missing token, or
\* the index members, which breadth and earnings fetch first.
FailEarly(o) ==
    /\ svc.step = "sync"
    /\ o \in IF This.job \in {"breadth", "earnings"} THEN Failures(This.job) ELSE {Broken}
    /\ This.job \in PriceJobs /\ marker => o = Broken
    /\ FailsWith(o)
    /\ UNCHANGED <<store, now, jobs, catalog, marker, incidents>>

BeginRun ==
    /\ svc.step = "sync" /\ (This.job \in PriceJobs => ~marker)
    /\ StartRun(svc.cur, now)
    /\ svc' = [svc EXCEPT !.step = IF This.job \in PriceJobs THEN "pipeline" ELSE "answer"]
    /\ UNCHANGED <<now, jobs, catalog, marker, incidents>>

PipelineWrites ==
    /\ svc.step = "pipeline"
    /\ svc' = [svc EXCEPT !.step = "writing"] /\ marker' = TRUE
    /\ UNCHANGED <<store, now, jobs, catalog, incidents>>

\* An instrument's bars are replaced, over the days asked for, by what the source has: they
\* may end before the target, or before those that were there.
EndsAt(i, d) == i \in Fetched(This.job) /\ d \in Sessions /\ d <= This.target

Catalogs == [Instruments -> Sessions \cup {0}]
PartlyFetched == {c \in Catalogs : \A i \in Instruments : c[i] = catalog[i] \/ EndsAt(i, c[i])}
AllFetched    == {c \in PartlyFetched : \A i \in Fetched(This.job) : EndsAt(i, c[i])}

\* Without errors.  The instant is read here, for macro when the real rates are there too.
PipelineEnds ==
    /\ svc.step = "writing"
    /\ marker' = FALSE /\ catalog' \in AllFetched
    /\ svc' = [svc EXCEPT !.step = IF This.job = "macro" THEN "answer" ELSE "publish",
                          !.at = now]
    /\ UNCHANGED <<store, now, jobs, incidents>>

\* An instrument's issues, or a write that fails half way and leaves its marker; the
\* other instruments keep what they got.
PipelineFails(o, torn) ==
    /\ svc.step \in {"pipeline", "writing"} /\ o \in {Broken, Temporary}
    /\ torn => svc.step = "writing" /\ o = Broken
    /\ FailRun(svc.cur, now) /\ FailsWith(o)
    /\ marker' = torn
    /\ catalog' \in IF svc.step = "writing" THEN PartlyFetched ELSE {catalog}
    /\ UNCHANGED <<now, jobs, incidents>>

\* The snapshot has the target's date: that of the benchmark, or of all four macro prices.
BarsReach ==
    IF This.job = "macro" THEN \A i \in MacroIds : catalog[i] = This.target
    ELSE This.job \in PriceJobs => catalog[BenchmarkId] = This.target

\* What comes between a run's bars and its publication: bars that do not reach the target
\* have the job wait.
EndOf(j) == Failures(j) \cup (IF BarsReach THEN {} ELSE {NotReady})

\* (mutant) midnight is not looked at.
CaptureEver == This.job \in DailyJobs

\* A capture that has crossed midnight is not published under its first date.
SameCapture == This.job \in PriceJobs \/ Day(now) = Day(This.run.started)

AnswerArrives ==
    /\ svc.step = "answer" /\ SameCapture /\ BarsReach
    /\ svc' = [svc EXCEPT !.step = "publish", !.at = now]
    /\ UNCHANGED <<store, now, jobs, catalog, marker, incidents>>

\* A failed request, a crossed midnight, a snapshot that does not reach the target.
SyncFails(o) ==
    /\ svc.step \in {"answer", "publish"} /\ o \in EndOf(This.job)
    /\ FailRun(svc.cur, now) /\ FailsWith(o)
    /\ UNCHANGED <<now, jobs, catalog, marker, incidents>>

\* The failure of the run cannot be written: it is logged, and the run stays RUNNING.
SyncFailsUnrecorded(o) ==
    /\ svc.step \in {"answer", "publish"} /\ o \in EndOf(This.job)
    /\ Incident /\ FailsWith(o)
    /\ UNCHANGED <<store, now, jobs, catalog, marker>>

AsOfDate(i) == IF att[i].job \in PriceJobs THEN att[i].target ELSE Day(att[i].run.started)

\* Prices that lack an instrument's target are published, not as ready, and breadth that
\* lacks a member's as any; members and real rates may be a little older.
Publish(ready, age) ==
    /\ svc.step = "publish" /\ BarsReach
    /\ ready = (This.job = "prices" => \A i \in PriceIds : catalog[i] = This.target)
    /\ This.job \notin {"macro", "breadth"} => age = 0
    /\ PublishSource(svc.cur, AsOfDate(svc.cur), svc.at, ready, AsOfDate(svc.cur) - age)
    /\ svc' = [svc EXCEPT !.step = "published", !.at = 0]
    /\ UNCHANGED <<now, jobs, catalog, marker, incidents>>

-----------------------------------------------------------------------------
(* The outcome of the attempt.                                             *)

Settled(told) ==
    svc' = [svc EXCEPT !.step = "job", !.todo = @ \ {This.job}, !.at = now, !.cur = 0,
                       !.end = None, !.said = @ \cup told, !.checked = @ \cup told]

\* The publication just made is read back.
FinishPublished ==
    /\ svc.step = "published"
    /\ LET p == Publication(This.job)
           mine == p \notin {None, Corrupt} /\ p.run = svc.cur
           whole == mine /\ Satisfies(p, This.target)
       IN /\ FinishAttempt(svc.cur,
                 IF whole THEN "complete" ELSE IF mine THEN "waiting_source" ELSE "failed",
                 IF mine /\ ~whole THEN RetryAt(now, This.number) ELSE None)
          /\ Settled(IF whole THEN {<<This.job, This.target>>} ELSE {})
    /\ UNCHANGED <<now, jobs, catalog, marker, incidents>>

FinishFailed ==
    /\ svc.step = "failed"
    /\ FinishAttempt(svc.cur, svc.end.status,
                     IF svc.end.again THEN RetryAt(now, This.number) ELSE None)
    /\ Settled({})
    /\ UNCHANGED <<now, jobs, catalog, marker, incidents>>

-----------------------------------------------------------------------------
(* Death, restart and recovery.                                            *)

\* Killed, stopped between two jobs, or ended by an error the service lets through; while
\* the Catalog is written, within one instrument's bars or between two.
ProcessEnds ==
    /\ svc.step # "down" /\ Incident /\ svc' = Down
    /\ IF svc.step = "writing" THEN marker' \in BOOLEAN /\ catalog' \in PartlyFetched
       ELSE UNCHANGED <<marker, catalog>>
    /\ UNCHANGED <<store, now, jobs>>

\* An SQLAlchemyError of the sync ends the process once the run is marked.
DatabaseFails ==
    /\ svc.step \in {"answer", "publish"} /\ Incident
    /\ FailRun(svc.cur, now) /\ svc' = Down
    /\ UNCHANGED <<now, jobs, catalog, marker>>

\* The writer lock is the dead process's no more.
StartService ==
    /\ svc.step = "down"
    /\ svc' = [Down EXCEPT !.step = "recover"]
    /\ UNCHANGED <<store, now, jobs, catalog, marker, incidents>>

\* (mutant) nothing is read back.
NeverPublished(i) == FALSE

\* An attempt whose publication is the newest was only not finished.
Published(i) ==
    LET p == Publication(att[i].job)
    IN att[i].run.status = "COMPLETE" /\ p \notin {None, Corrupt} /\ p.run = i

RecoverRun(i) ==
    /\ svc.step = "recover" /\ i \in Running
    /\ ~Published(i) /\ FailRun(i, now)
    /\ UNCHANGED <<now, jobs, svc, catalog, marker, incidents>>

RecoverAttempt(i) ==
    /\ svc.step = "recover" /\ i \in Running /\ att[i].run.status # "RUNNING"
    /\ LET whole == Published(i) /\ Satisfies(Publication(att[i].job), att[i].target)
       IN FinishAttempt(i,
              IF whole THEN "complete" ELSE IF Published(i) THEN "waiting_source" ELSE "interrupted",
              IF whole THEN None ELSE RetryAt(now, att[i].number))
    /\ UNCHANGED <<now, jobs, svc, catalog, marker, incidents>>

\* (mutant) the service goes on with its attempts unsettled.
SkipRecovery ==
    /\ svc.step = "recover"
    /\ svc' = [svc EXCEPT !.step = "idle"]
    /\ UNCHANGED <<store, now, jobs, catalog, marker, incidents>>

EndRecovery ==
    /\ svc.step = "recover" /\ Running = {}
    /\ svc' = [svc EXCEPT !.step = "idle"]
    /\ UNCHANGED <<store, now, jobs, catalog, marker, incidents>>

\* The operator rebuilds the Catalog, or starts the service with another one.
CatalogReplaced ==
    /\ svc.step = "down" /\ jobs \in Eventful /\ marker' = FALSE
    /\ catalog' \in {catalog, [i \in Instruments |-> 0]}
    /\ UNCHANGED <<store, now, jobs, svc, incidents>>

TimePasses ==
    /\ now < MaxTime /\ now' = now + 1
    /\ UNCHANGED <<store, jobs, svc, catalog, marker, incidents>>

-----------------------------------------------------------------------------
Deciding == BeginTick \/ EndTick \/ \E j \in jobs : ReportComplete(j) \/ Postpone(j) \/ BeginAttempt(j)
Syncing ==
    \/ BeginRun \/ PipelineWrites \/ PipelineEnds \/ AnswerArrives
    \/ \E ready \in BOOLEAN, age \in {0, 1} : Publish(ready, age)
    \/ \E o \in {Broken, Temporary, NotReady} :
           \/ FailEarly(o) \/ SyncFails(o)
           \/ \E torn \in BOOLEAN : PipelineFails(o, torn)
Settling ==
    \/ FinishPublished \/ FinishFailed
    \/ StartService \/ EndRecovery
    \/ \E i \in DOMAIN att : RecoverRun(i) \/ RecoverAttempt(i)
ServiceStep == Deciding \/ Syncing \/ Settling

Mishap ==
    \/ ProcessEnds \/ DatabaseFails \/ CatalogReplaced
    \/ \E o \in {Broken, Temporary, NotReady} : SyncFailsUnrecorded(o)

Next == ServiceStep \/ Mishap \/ TimePasses

Spec == Init /\ [][Next]_vars

\* Nobody exchanges the Catalog.
KeptSpec == Init /\ [][Next /\ ~CatalogReplaced]_vars

\* The process runs on, and is restarted when it ends (restart: unless-stopped).
FairSpec == Spec /\ WF_vars(ServiceStep)

-----------------------------------------------------------------------------
Earlier(i) == {k \in DOMAIN att : k < i /\ att[k].job = att[i].job /\ att[k].due = att[i].due}

\* A job has at most max_attempts_per_day attempts for one due time, across
\* restarts: each has a new number within the budget, and each but the first
\* follows one that had ended, was not complete, and whose retry time had come
\* (_run_job; start_daily_attempt).
BudgetKept ==
    \A i \in DOMAIN att :
        /\ att[i].number \in 1..MaxAttempts
        /\ \A k \in Earlier(i) :
               /\ att[k].number < att[i].number
               /\ att[k].status \notin {"running", "complete"}
               /\ att[k].retry # None /\ att[k].retry <= att[i].started

\* The attempt's audit and the run's say the same, whatever was killed between the
\* two transactions: a complete attempt has a COMPLETE run and its source's
\* snapshot has reached its target; a COMPLETE run is never reported as failed or
\* interrupted (recover, finish_daily_attempt, publish_*_and_complete).
AuditsAgree ==
    \A i \in DOMAIN att :
        /\ att[i].status = "complete" =>
               /\ att[i].run.status = "COMPLETE"
               /\ \E d \in DatesOf(att[i].job) : d >= att[i].target
        /\ att[i].run.status = "COMPLETE" =>
               att[i].status \in {"running", "complete", "waiting_source"}

\* What the prices are reported complete for, the Catalog the process uses has of the
\* benchmark, although snapshots outlive an exchanged Catalog, the check is remembered
\* and later bars may end earlier; and the newest breadth never has a later date than
\* the newest prices (_catalog_ready, _require_price_date, waiting_dependency).
BenchmarkIsThere ==
    /\ \A p \in svc.said : p[1] = "prices" => catalog[BenchmarkId] >= p[2]
    /\ \A d \in DatesOf("breadth") : \E e \in DatesOf("prices") : e >= d

\* A price job that was complete for a target is not asked of its source again for the same
\* target, over restarts and due times alike, as long as the Catalog is kept: "only what
\* is needed now is caught up, a target that is met is not requested again"
\* (docs/plans/market-radar-daily-update.md).
RequestedOnce ==
    \A i, k \in DOMAIN att :
        /\ i < k /\ att[i].status = "complete" /\ att[i].job \in PriceJobs
        /\ att[k].job = att[i].job /\ att[k].target = att[i].target
        => att[k].run.status = "none"

\* Whoever reads a source sees its publications one after the other, whole, and never an
\* earlier one again (publish_*_and_complete against daily_publication).
Promise == INSTANCE SourcePromise
               WITH clock <- now, shown <- [j \in DailyJobs |-> Publication(j)]
SourcesAdvance == Promise!Spec

\* Whatever happens to the process, an attempt on record does not stay running; one
\* runs at a time (recover, finish_daily_attempt).
AttemptsSettle == (Running # {}) ~> (Running = {})
===============================================================================
