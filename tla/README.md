# HeyBoss trading assistant: models, checks and proofs

HeyBoss trades daily bars: strategies compute target weights after the close, a
gateway turns them into orders for an Interactive Brokers paper account, a person
may be asked first over Telegram, and a market radar and a web page look on. This
directory holds TLA+ models of the parts where the order of events decides what
happens to the account, TLC runs that explore them on small instances, and TLAPS
proofs of what matters most for every instance. Source paths below are relative to
`src/trading_assistant/` unless they begin with `docs/`, `scripts/` or `tests/`.

## 1. The system

### Processes

| process | code | runs |
| --- | --- | --- |
| `trading-node` | `live/runner.py`, `execution/`, `strategies/`, `live/catalog_client.py`, `live/portfolio_snapshot.py` | NautilusTrader (NT) node: one asyncio loop; strategy actor, execution gateway and snapshot actor are callbacks on it, the broker session is a pair of coroutines, Catalog reads run in one worker thread |
| `approval-bot` | `notify/` | Telegram bot with its own loop; only with the manual approval profile |
| `paper-data-sync` | `live/daily.py` | single consumer (flock) that fetches prices and accepts the day's factor bundle |
| `market-radar-daily` | `market_radar/daily.py` | scheduled collection and calculation, own database |
| `web-api`, `web-ui` | `web_api/`, `application/`, `web-ui/` | read only |
| scripts | `scripts/` | rearm a signal, import bundles, fetch data, migrate, backtest |

They share three stores and nothing else: `live.db` (SQLite, 50 ms busy timeout, so
any transaction may raise), the Parquet Catalog (a lock file and a marker file), and
`market-radar.db`. The radar has a Catalog of its own. There are no messages between
processes: the bot's press, the operator's rearm and the day's acceptance reach the node
as changed rows that it finds by polling.

### Components, their state and what makes them correct

| component | state | operations | correct when | status |
| --- | --- | --- | --- | --- |
| Signal workflow rows (`storage/repository.py`) | one row per signal: status, expiry, decision; approval rows; execution SKIPs | register, request approval, decide, expire, claim, reject, finish, rearm | a signal is executed at most once, on the decision of its own attempt, inside its window | `SignalWorkflow` |
| Execution gateway, planning (`execution/gateway.py:190-490`) | deferred signals, price request, opening timers | on_data, poll, bootstrap answers | every signal is handled, on prices of its date, by the mode that may | `SignalWorkflow` |
| Execution gateway, orders (`gateway.py:490-1407`) | order contexts, pending buys, open sells, failed signals; order and fill tables | submit, order events, fills, reports, recovery, stop | buys follow sells; nothing after a failure; books match the broker; no overlap of batches | `Rebalance` |
| Approval bot (`notify/bot.py`) | rows still to be noted or sent | mailbox poll, buttons | a pending signal is decided or expired | `SignalWorkflow` |
| Broker session (`live/runner.py:30-290`) | readiness, epoch, the running reconciliation | monitor, reconcile, report, invalidate, close | ready means nothing is missing | `BrokerSession` |
| Catalog (`data/catalog.py`) | files, lock, marker | append, replace, restore, read | readers see whole publications or nothing | `CatalogStore` |
| Corporate actions (`data/corporate_actions.py`) | JSON per instrument | replace | consistent with the bars where a delivery is accepted | `DailyInput` |
| Daily input (`live/daily.py`, `data/pipeline.py`) and factor bundles (`data/factor.py`) | acceptance rows, factor rows | tick, import | nothing late, partial or contradictory is accepted | `DailyInput` |
| Catalog client (`live/catalog_client.py`) | pending requests, worker | request, time-out, disconnect | every request answered once, late answers reach nobody | `CatalogClient` |
| Factor actor (`strategies/patchtst_factor.py`) | pending and completed batches, the current request | ingest, publish | one signal per date, from an accepted batch, in time | `FactorPath` |
| Momentum actor, target selection (`strategies/dual_momentum.py`, `signals/`) | bars of the session | rank, publish | targets match their definition | publication in `SignalWorkflow`; the arithmetic is not modelled |
| Market radar daily run (`market_radar/daily.py`, `storage.py`, `service.py`, `schedule.py`) | attempts, sync runs, dated snapshots | recover, tick, sync, publish | budget kept, audits agree, snapshots readable | `RadarDaily` on `RadarStore` |
| Market radar calculations (`market_radar/metrics.py`, `macro.py`, `regime.py`, `earnings.py`, `fundamentals.py`, `economic_events.py`, parsers) | none | calculate | what is computed is what the records and readers accept, and depends on no later data | `RadarMetrics` to `RadarEvents` |
| Market radar pages (`application/market_radar.py`) | none | states and freshness | no published snapshot is refused; a blocked job is left alone | `RadarStatus` |
| Risk plan (`risk/`, `_build_plan`) | daily count of new positions | limits | no plan above its limits | a check passes or not, in `SignalWorkflow` and `Rebalance` |
| Portfolio snapshots, backtest, other queries, web, schema | | | | not modelled, see section 6 |

### How they interact

An actor registers a signal row and publishes it on NT's message bus. The gateway
takes it when the execution prices of its date have been loaded (a request to the
Catalog client, which reads what the daily input wrote) and the broker session says
the account is ready; plans it; and then, in manual mode, makes it PENDING for the
bot, or, in auto mode, claims it, at once or at the opening. An approved row is
claimed by the gateway's poll and planned again. `_execute_plan` sends the sells and,
from inside the handler of the last sell's fill, the buys. Fills and order states come
back as events, or, after a reconnection, as reports of the broker session's
reconciliation, which the gateway checks against its audit tables and may answer by
invalidating the session.

Before that, the data process replaces the day's prices, imports the scores of the delivery and
records its acceptance; the factor actor polls the Catalog through the Catalog client,
collects complete batches, and registers a signal once the acceptance is there. The radar
is apart from all this: its service writes dated snapshots, its pages read them.

### What is hard here

Callbacks of one thread interleave with two other processes at every database
transaction. Any of these may raise. The node may die between any two, and what it
had in memory (deferred signals, timers, order contexts, waiting buys) is rebuilt from
rows only in part. Broker messages are lost, repeated and reordered around a
reconnection. `submit_order` may call the gateway back before it returns. The list of
such hazards, each at its line, is in `PROJECT.json` under `hazards`, with the
properties that cover it or why none does yet.

## 2. Modules

| module | stands for |
| --- | --- |
| `SignalLifecycle` | what a workflow row promises: the documented state machine, executed at most once |
| `SignalWorkflow` | rows, gateway planning, actor, bot, operator: the detailed system |
| `SignalWorkflowProofs` | type, invariant and refinement proofs; those of its windows, prices and modes |
| `MCSignalWorkflow` | instances: one or two signals with their windows |
| `Rebalance` | the orders of one signal, its event `Execute` opened up |
| `RebalanceProofs` | type, safety and action property proofs |
| `MCRebalance` | instances: up to three orders |
| `BrokerSession` | connection, reconciliation cycles and readiness |
| `BrokerSessionProofs` | type and safety proofs |
| `MCBrokerSession` | an instance with two fills |
| `CatalogPromise` | a Catalog in which publications and answers are atomic |
| `CatalogStore` | lock, marker, calls that fail half way |
| `CatalogStoreProofs` | type, safety and refinement proofs |
| `MCCatalogStore` | an instance with two series, two writers and a reader |
| `RequestPromise` | what the Catalog client promises its requesters |
| `CatalogClient` | requests, deadlines, worker thread and disconnection |
| `CatalogClientProofs` | type, safety and refinement proofs |
| `MCCatalogClient` | an instance with three requests |
| `DailyInput` | daily input service and import script: from delivery to acceptance |
| `FactorPath` | `DailyInput`, `RequestPromise` and the factor actor composed: from delivery to registered signal |
| `FactorPathProofs` | type and safety proofs of both |
| `MCFactorPath` | an instance with two deliveries and two days |
| `RadarSchedule` | due times and trading days of the radar |
| `RadarStore` | its database: attempts, runs, snapshots, and their readers |
| `RadarDaily` | its daily service on that database |
| `SourcePromise` | what the database promises whoever reads a source: whole publications, one after the other |
| `RadarDailyProofs` | proofs about its attempts, audits, publications and pages; refinement of `SourcePromise` |
| `RadarStatus` | what its pages show of that database |
| `RadarMetrics` | price snapshot and breadth, and the records' checks |
| `RadarRegime` | risk appetite and macro regime |
| `RadarEarnings`, `RadarFundamentals`, `RadarEvents` | earnings revisions, fundamentals, economic events, each with its provider's parser |
| `RadarCalculations` | the calculations side by side |
| `RadarCalculationsProofs` | proofs about what they answer to any input |
| `MCRadar` | the service and its pages, or one input of one calculation |

Definitions marked `(mutant)` are plausible wrong versions of the definition that
follows them. No specification uses them; `PROJECT.json` names, for each property of
each run, the one that must break it.

### SignalWorkflow

`status`, `expires`, `decidedBy`, `notified`, `rearms`, `audit`, `skip` and `orders` are
`live.db`; `node`, `mode`, `prices`, `deferred`, `alarm` and `frame` are the node; `bot`
and `cards` are the bot and its chat. A gateway callback (`on_data`, the poll, a timer, the
end of a price bootstrap) is a `frame`: the messages it still has to handle and the
transaction it has reached. Code between two transactions is one action, a transaction
is one action, and the bot, the operator, the clock, a crash (`GatewayStops`) or a
raising transaction (`CallbackFails`) may come in between. `HoldForPrices`,
`DropHandled`, `HoldForAccount`, `RefuseNew`, `AskApproval`, `WaitForOpening` and
`ClaimAuto` are the ways through `_handle_signal`/`_process_signal`; `ClaimApproved`, `RecordSkip`,
`RecordVerdict`, `Execute` and `Finish` those through the claim of an approved row and
`_execute_plan`. `BotPolls`, `BotNotes`, `BotSendsCard`, `BotMarksNotified`, `Press`
and `PressLate` are the bot; `Rearm` is `scripts/rearm_signal.py`.

Abstracted: weights and plans (a check passes or not), texts, the generation counter and
the 60-second time-out of price requests (a request is in flight or not), times (abstract
instants).

### Rebalance

`ledger` and `recorded` are the order and fill tables, `known`, `pending`, `openSells`,
`failed`, `recovery` the gateway's dictionaries, `loop` the submission in hand, `native`
and `cached` NT's cache, `venue`, `traded`, `cancels`, `wire` the broker and what is on its
way. The two transactions around `submit_order` are actions of their own, and while the loop
stands between two orders the handlers of the order just submitted may run, as they do
when the venue answers synchronously. `Finish` is `_finish_sell`, `AcceptFill` is
`_accept_fill` for events and reports, `AcceptFails` the places where it raises or is refused: the
audits cannot be read (nothing is done), the fill cannot be written (`_fail_recovery`), or it is
written and the positions cannot be compared after it. `StopOrders` and `DropPending` are
`_reconcile_factor_orders`, `StopFails` the same poll raising between two orders: those before it
are stopped, the one it was at may be restored and its signal given up without being canceled.
`DeliverClosed` and `DeliverRefusal` may raise before, between and after their transactions in the
same way. `GateOpens` is the broker session's promise (`NothingMissed`
below): nothing opens before the cache and the messages on their way make up the venue's
state.

A fact worth knowing: after the sells a factor signal is planned again, and that plan is
refused while any order is unresolved or any fill missing. This alone keeps the
buys behind the sells even where a fill status were wrong; a momentum batch has no such
second line, which is why `BuysFollowSells` is checked for both.

### BrokerSession

A step is what runs between two awaits. `cycle` is the reconciliation task and the
monitor's variables for it (`_report`, `_cycle_epoch`, `_cycle_invalidated`, `expired`),
`session` the flags that outlive it. The broker's account is a set of one-share fills;
the comparison of positions sees how many there are, that of executions which ones, as in
`_reconcile`. The engine may publish a partial report as complete, which NT 1.230 does
(comment at `live/runner.py:129`), late, or of an earlier request; requests fail;
disconnections lose what is on its way.

`StopMonitor` is the end of the monitor at any moment, which is how a node stops; the same happens when
the monitor finds its task cancelled and raises (`live/runner.py:226`). `close()` cancels the task only
when the monitor is gone already, so that needs a CancelledError out of the engine or the client.

### CatalogStore

A step is one call of NT's `ParquetDataCatalog` (which may fail half way and leave the
series `Torn`), or one change of lock and marker. `job` is the writer under the lock:
`append_new_bars` and the factor rows (mode `append`), `replace_bars` and
`replace_bar_range` (mode `replace`) with the restoration in their handlers (`Undo`,
`UndoFails`). `Kill` releases the lock, as flock does, and leaves the marker. `whole` is a
history variable: the disk when the marker was last taken away. With it the store is
shown to implement `CatalogPromise`: `content <- whole`, and the promise is blocked when
no writer holds the lock but a marker stands.

### CatalogClient and RequestPromise

A step is what runs between two awaits of the client's coroutine, or one step of the worker
thread. `request` says where the coroutine of a slot stands (registered, queued for the asyncio
lock, waiting for the thread of an earlier request, reading, answered), `outcome` is the object
that requester and client share, `worker` the thread. `TimesOut` is `asyncio.timeout` over lock,
thread and read together, `GiveUp` the requester that writes `cancelled` into the outcome,
`BeginClose`, `CancelTask` and `EndClose` are `_disconnect`. The thread is not stopped by any of
them. `CatalogClient` implements `RequestPromise`: a slot is open, dropped or answered, and what
has been taken for it is what the thread has read while it reads for this slot.

### DailyInput

`bars` and `actions` are worth the last day they cover, per instrument; `scores` are the deliveries
in the Catalog; `accepted` is `factor_imports` with the instant of its stamp. A tick that gets past
`_find_bundle` and the cutoff (`TickBegins`) replaces bars and actions of each instrument
(`PublishBars`, `WriteActions`, or `SkipInstrument` where there are none), checks the quality of the
whole run (`PricesReady`), and imports (`ImportScores`, `StampAcceptance`, `CommitAcceptance`). Bars
may come back shorter than they were: each try replaces the series up to what the provider has.
`TickFails` ends a tick at any step, `Killed` a process, with the marker when it was inside the
Catalog. `ScriptStarts` is the import script, which takes any release on the prices that are there.
A day has four instants: close, bars complete (midnight UTC), cutoff (next opening), expiry.

### FactorPath

The actor asks again after 60 seconds whatever has become of its request (`CheckFactors` gives the old
one up), ingests every row of every answer and counts it for the request it waits for now
(`ActorReceives`), and publishes when the current request has completed with the expected batch and
its receipt is there (`Publishes`). `AuditDecision`, `RegisterWorkflow` and `RecordSignal` are its
three transactions, of which any may fail. A response hands all its rows over in one step.

### Market radar

`RadarStore` has one transaction of `storage.py` per action: attempts (`daily_sync_attempts`) with the
sync run they open, and one table of dated rows per source. Its readers check what the code checks
(columns against payload, dates against runs, the pair of regime and risk appetite) and answer `None`, a
value, or `Corrupt` where the code raises. `RadarDaily` is `MarketRadarDailyService`: `BeginTick`,
then for each job in the order of `DAILY_JOBS` one of `ReportComplete`, `Postpone` or
`BeginAttempt`; the sync (`FailEarly`, `BeginRun`, `PipelineWrites`, `PipelineEnds`,
`AnswerArrives`, `Publish`, and the ways it fails); the end of the attempt (`FinishPublished`,
`FinishFailed`); and, after a death at any step, `RecoverRun` and `RecoverAttempt`. The clock moves
between any two of these, across 06:00 and midnight. `catalog` is the date of each instrument's newest
bar: prices, breadth and macro have instruments of their own (`Fetched`), of which the first two take
their date from the benchmark. A pipeline that ends without an error has looked at no such date: an
instrument that was still asked for may end before the target, or earlier than it did (`PartlyFetched`,
`AllFetched`), for late bars are a warning (`data/quality.py:223`). The service then publishes prices and
breadth if the benchmark's bar is there (`BarsReach`), remembers the job as checked, and only the next
process looks at every instrument again (`CatalogReady`). The index members are one set for good. The raise
for a publication later than the clock (`market_radar/daily.py:227`) is left out: the model's clock does
not go back, so it cannot be taken. `RadarStatus` reads the database after every
step as the update page and the market pages do. For a reader of one source all this implements
`SourcePromise`: `shown` is what `daily_publication` answers for each source (`Publication`), nothing at
first; it changes only by publications, each whole, by a later run, of a date that had come and is not
before the last one.

The calculations are pure operators. A price or score is a small integer, a metric is worth the
bars it is computed from and a median the instruments and estimates it is taken of, so that what
matters is which rows are selected, counted, aligned and left out; a result that the record's own
checks look at (Z-score, regime, average, ratio) is computed, as a fraction or in hundredths. `Raises`/`Raise` operators say when the code refuses an input,
`WellFormed` operators are the `__post_init__` and validator checks of the records, which also run
when the row is read back. `RadarCalculations` has as its state one input, or none, which takes no
step: any input the sources may deliver (`IsCase`, and the `Input` operator of each calculation).
`MCRadar` gives about 10,100 of them to TLC, and assumes that they are such inputs
(`CasesArrive`, which TLC evaluates).

## 3. Runs

| run | instance | question and answer |
| --- | --- | --- |
| `signal_factor` (`SignalFactor.cfg`, action constraint `Scene`) | two factor signals of consecutive dates, windows [1, 3) and [3, 4) of 4 instants; either a manual node with the first one, one rearm and one fault, or an auto node with both and neither | whatever gateway, bot, operator and clock do between two transactions, and one crash or failed transaction anywhere: orders leave once, on the approval of their attempt, in the window; a claim is not touched; rows obey `SignalLifecycle`; each signal is planned on prices of its own date, although the requests of two displace each other |
| `signal_modes` (`SignalModes.cfg`) | a momentum signal, node restarted in either mode, one fault, `FairSpec` | the mode that trades is the mode that may; a new signal is handled over the restart, a pending one decided or expired; an approved one is submitted, rejected or expired unless a further fault meets it |
| `signal_risk_doc` (`SignalRiskDoc.cfg`) | one factor signal, auto | **violated**, see findings |
| `rebalance_factor` (`RebalanceFactor.cfg`) | a factor and a momentum batch of two sells and a buy of one share, two faults | buys wait for all sells, with and without the factor branch's second check; nothing leaves after a failure or SKIP; every order at the broker can be claimed after a crash; no second batch beside working orders |
| `rebalance_partial` (`RebalancePartial.cfg`) | a sell and a buy of two shares, two faults, `FairSpec` | the fills table is exact and proves FILLED in any order of events and reports; no order works for ever |
| `session` (`Session.cfg`) | two fills, three faults, `FairSpec` | ready means complete and current, an invalidation is not covered up, the session recovers |
| `catalog` (`Catalog.cfg`) | two series, two writers, one reader, two faults | a Catalog that lets readers in is whole; it implements `CatalogPromise` |
| `catalog_interrupt` (`CatalogInterrupt.cfg`) | `InterruptedSpec`: Ctrl-C during a publication, no other fault | **violated**, see findings |
| `catalog_client` (`CatalogClient.cfg`) | three requests, `FairSpec` | each request is answered once and in the end, behind a thread that may never return; `RequestPromise` is kept |
| `factor_path` (`FactorPath.cfg`) | a delivery of the configured release and one of another, one instrument, two requests, two incidents, `FairSpec` | what is accepted is priced and alone for its date; what is registered is accepted; what is accepted is registered in time while the node stays up |
| `radar` (`Radar.cfg`) | five single jobs with one kill or lost transaction and an exchanged Catalog, prices with breadth without; and about 10,100 inputs of the calculations | attempts keep their budget, settle, and agree with their runs; prices said to be complete have the benchmark's bar, whatever else lags behind, and breadth is never ahead of prices; a source shows whole publications that only ever get newer (`SourcePromise`); every snapshot stays readable on every page; a blocked job is left alone; what is computed is accepted by its record and sees no later day |
| `radar_restart` (`RadarRestart.cfg`) | `KeptSpec`: prices and breadth of one member over a restart and a day without trading, the Catalog kept | **violated**, see findings |

### Bounds, and why they are enough

`MaxTime` 3 of a signal run gives an instant before, in, and after a window; with two signals of consecutive
dates, 4 leaves one in which only the first is open and one in which only the second is. `signal_factor` keeps
the faults and rearms to its scene of one signal, for its transactions, and the second signal to a scene
without, for the prices they compete for; restarts with two signals are left to the proofs. One rearm makes every kind of stale
message, card and timer possible; a second would repeat them. One fault per run of the signal workflow
suffices for each pair of transactions to be cut, since a restarted node has no memory of the first cut;
the broker runs have two or three because a lost cancel after a restart, or a missed deadline after a
disconnection, takes two. Two sells are the fewest with a first and a last; with one buy, the only
sibling that its failure can cancel is a sell that has been reported filled and is still open in the
cache; two shares are the fewest with a partial fill, two fills the fewest of which a partial report can
hold one. Two series are the fewest a group needs to be half replaced, and one reader of both sees that.

Three slots of the Catalog client are one reading, one waiting for its thread, one queued. In
`factor_path`, `MaxTime` 8 covers the four instants of the first trading day and the close of the second,
where the expected date moves on; the second delivery competes for the first date; two incidents are a
kill and an import by hand, or two kills; two slots are the request that is waited for and the one it
replaced. In `radar`, a UTC day has three instants, midnight, the run's time and one after; `StartTime` 8
to `MaxTime` 10 crosses from the last instant of day 2 over midnight to the run of day 3, which is where
due dates, capture dates and targets part; two attempts are a first and a last one; `MaxIncidents` 1 lies
anywhere. Prices have the benchmark and a second instrument, which is a member too, and macro has two of
its own, so that one may lag behind the other. Jobs run alone because they share nothing but the process,
except breadth, which waits for prices: that pair runs together, and there the kills are left out
(`Eventful`), since recovery treats each attempt alone, and so is one of three ways to fail (prices that
do not reach their date are there anyway). The windows of the calculations are two to four days instead
of 20 to 252, with inputs around them: too short, gaps at either end, equal values, values later than the
benchmark.

What each bound limits the proofs leave unlimited, for every property but liveness. No symmetry is
used, because liveness is checked in the same runs or the instances are small enough.

`CHECK_DEADLOCK FALSE` stands where the system really may come to rest: a session that is closed, a
batch whose orders have ended, a Catalog that must be restored by hand, a factor path at the last instant
of its clock with the node down for good, an input of a calculation.

`TypeOK` of `Rebalance`, `CatalogStore` and `CatalogClient`, `InputTypeOK` and `PathTypeOK` are stated for the proofs and the
reader; the runs spend their time on the other properties, and `radar` reads every field it has.

### Fairness, and why the code justifies it

* `SignalWorkflow`: a callback runs on (one thread, nothing blocks it); NT's timer fires the
  one-second poll again and again among other callbacks, so the poll is strongly fair; the price
  request is repeated after its time-out until it is answered, so a complete answer is strongly
  fair; the bot's mailbox loop likewise; time passes. Nobody has to start the node or the bot, press
  a button or rearm: the liveness properties ask only about a node or bot that stays up.
* `Rebalance`: submission loops run on, the poll stops orders, each disconnection is followed by a
  reconciliation, the venue takes orders and answers cancels that reach it, the window closes.
* `BrokerSession`: the client reconnects, the broker answers, the loop schedules what is ready. The
  faults are bounded, so `Recovers` says: after the last fault.
* `CatalogClient`: the loop starts what is scheduled, its deadlines ring, a cancelled task runs. The thread
  owes nothing: it may hang in the file system.
* `FactorPath`: the actor's timer and the loop go on. Of its environment it assumes that now and then a
  request is read and answered before the next one replaces it, that a transaction that is tried again and
  again succeeds once, and that no writer keeps the Catalog for ever. Nobody has to deliver, start the
  service, or restart the node.
* `RadarDaily`: the process goes on and is restarted when it ends (`restart: unless-stopped` in the
  compose file). Sources owe nothing.

## 4. Proofs

TLAPS checks these for every value of the constants that satisfies the modules' assumptions
(`WorkflowAssumption`, `RebalanceAssumption`, `SessionAssumption`, `CatalogAssumption`, `ClientAssumption`,
`InputAssumption`, `PathAssumption`, `DailyAssumption`, `StoreAssumption`, `BenchmarkAssumption`, `StatusAssumption`,
`MetricsAssumption`, `RegimeAssumption`, `EarningsAssumption`, `FundamentalsAssumption`, `EventsAssumption`): any
number of signals, orders, shares, fills, series, writers, readers, requests, deliveries, instruments, jobs,
attempts, rearms, faults and instants, and any histories, members, answers, pages and windows of the
calculations. The assumptions bind constants only: finite sets, positive numbers, windows in the order the code
needs (two bars at least, the skipped month inside the long one, the minimum history inside the
Z-score's window), a trading day before the first due date, a benchmark that is among the prices and neither a
member nor a macro proxy, and that the values for "nothing" and "refused"
differ from every real one.

| theorem | states |
| --- | --- |
| `TypeCorrect`, `RebalanceTypeCorrect`, `SessionTypeCorrect`, `CatalogTypeCorrect`, `ClientTypeCorrect` | `[]TypeOK` of each module |
| `PathTypeCorrect` | `[]PathTypeOK` |
| `OrdersLeaveOnce` | `[]SubmitOnce` |
| `OrdersRestOnApproval` | `[]OrdersAreApproved` |
| `ClaimIsHeld` | `[]ClaimHeld` |
| `ImplementsLifecycle` | `SignalWorkflow` implements `SignalLifecycle` |
| `WindowIsKept` | `FactorWindowKept` |
| `ModesStayApart` | `ModeKeepsToItsClaims` |
| `OwnPricesOnly` | `PlannedOnOwnPrices` |
| `ClaimableAlways` | `[]Claimable` |
| `FillsAreTrades` | `[]RecordedAreTrades` |
| `FillsProveFilled` | `[]FilledIsProven` |
| `RebalancesDoNotOverlap` | `[]NoOverlap` |
| `BuysComeLast` | `BuysFollowSells` |
| `NothingLeavesAfterFailure` | `StopsAfterFailure` |
| `ReadyMissesNothing` | `[]NothingMissed` |
| `ReadyAccountIsCurrent` | `[]AccountIsCurrent` |
| `InvalidationIsKept` | `[]InvalidationHolds` |
| `HealthyCatalogIsWhole` | `[]HealthyIsWhole` |
| `StoreKeepsPromise` | `CatalogStore` implements `CatalogPromise` |
| `AnsweredOnce` | `[]OneAnswer` |
| `ClientKeepsPromise` | `CatalogClient` implements `RequestPromise` |
| `AcceptanceIsPriced` | `[]AcceptedIsPriced` |
| `RegisteredIsAccepted` | `[]SignalIsAccepted` |
| `AttemptsBudgeted` | `[]BudgetKept` |
| `AuditsNeverDisagree` | `[]AuditsAgree` |
| `BenchmarkStaysCovered` | `[]BenchmarkIsThere` |
| `SourcesKeepPromise` | `RadarDaily` implements `SourcePromise` |
| `PagesNeverRefuse` | `[]SnapshotsReadable` |
| `BlockedIsLeftAlone` | `BlockedStays` |
| `SnapshotsAreReadable` | `[]ComputedIsReadable` (of `CaseSpec`) |
| `SnapshotsSeeNoLaterDay` | `[]NoLookAhead` (of `CaseSpec`) |

**Signal workflow.** `SubmitOnce` is not inductive: that orders do not leave twice rests on the row
of the signal in hand being PROCESSING from its claim to its end (`ClaimHeld`), which rests on
what the callback still owes (`FrameShape`: only a claimed signal with verdict APPROVED reaches
`execute`), and on the row naming who decided (`DecisionNamed`). `IInv` is their conjunction with
`TypeOK`. Each action is shown to keep it; the actions of other processes
because none of them moves a PROCESSING row. With `IInv` every step maps to a step of `SignalLifecycle`
or to a stutter: what a claim, an expiry or a refusal does to a row, and that `Execute` finds it
PROCESSING without orders.

The window, the prices and the mode of an order are decided several callbacks before it leaves, on copies of the
signal's message in a queue, a timer or a frame. `RulesInv` adds to `IInv` what those copies keep: each holds
at most the published expiry, and so does the row, which a rearm may only shorten (`CopiesInv`); the phase of the
poll that does without prices has only overdue messages in hand, the one that claims approved rows runs in
manual mode only, and a row in hand names the decider of the node's mode (`CallbackInv`). An action property
is then a matter of the one action in which orders leave (`OrdersLeaveInExecute`, `PlannedInTime`).

**Rebalance.** An order's state exists four times: at the venue, in messages on their way, in the database and in the
strategy's sets, which lag behind each other by any number of steps and lose everything but the database in a
crash. `VenueInv`, `WireInv` and `LedgerInv` say that each copy is a true statement about the venue, however old.
`SellInv` says what being waited for means: while sells are outstanding no buy has left, and a sell that is waited
for no more is filled, unless the batch has failed. `LoopInv` and `TodoInv` say that the submission in hand is either
of the sells, all of them registered before the first is sent, or of buys behind them; `PlanInv` that nothing
outside the plan is sent. Their conjunction with `TypeOK` is inductive. What a write to the database, the end of an
order and any other handler have in common are `LedgerMoves`, `FinishKeeps` and `RestKeeps`. That FILLED
is proven by the fills table, and that no second batch starts beside working orders, is by cardinality: as many
recorded shares as the order has are all of them (`AllShares`, `AllTraded`).

**Broker session.** `NothingMissed` speaks of the moment the session says ready, but what it rests on
was read earlier, over a connection that must be the same: `AnswersHold` says what the cycle's
answers still mean as long as its epoch is the current stamp, `ReadinessHolds` what readiness rests
on until then. The core is `ConsistentIsWhole`: a report inside the cache, equal in number to it and to the
broker's positions, is all of them, by cardinality of finite sets.

**Catalog.** `WholeInv` says the history is complete and still on disk while nobody writes,
`WriterInv` that a writer is alone with its marker and remembers the history, `DiskInv` how far it has
come (which series are deleted, written, restored), `ReaderInv` that what a reader has read so far is
still what is there. `Leave` then maps to `Replace` or `Extend`, or, with a marker that says failed, to
`Block`. The theorems are about `Spec`, in which nobody presses Ctrl-C; about `InterruptedSpec` they
are false, as the finding shows.

**Catalog client.** `OneAnswer` needs to know that the asyncio lock has one holder (`LockHeld`), or a second
read would take the thread from the first; that the shared outcome of an unsettled request says whether it was
given up (`OutcomeTells`), since status `ok` is all that lets rows through; and `ThreadRows`, when the thread
has rows. `RespondKeeps` is the common part of the six ways a request is answered. For the refinement, a refusal
maps to `Refuse` whatever the reason, a good read that comes back to `Answer`, the opening of the Catalog to
`Take` if its request still waits for it, and to a stutter if it has timed out or been given up.

**Factor path.** That an acceptance stands for prices is not inductive: the prices are written one instrument at
a time long before, may be replaced by shorter series in a later tick, and the clock moves on in between.
`ProgressInv` says how far the prices of the delivery in hand are at each step of the tick; `BundleInv` that the
service has a delivery in hand only when every acceptance of its release is of an earlier date, so a
replacement, which may lack one day at most, never takes away a bar that an acceptance stands for. This
rests on what a tick has found when it begins: one delivery of the expected date, not accepted, while what is accepted
has closed. The script may accept another release, of which nothing is claimed but its scores and stamp
(`AcceptedInv`). `PricedInv` is thus stronger than the property: the prices stay for good, not only until the
signal expires. For the actor, `HandInv` says that the receipt the publication began with is still there at each
of its transactions, and in which order they come; `AcceptedStays`, that nothing takes an acceptance back or
stamps it again, carries it through the steps of the input.

**Radar service.** `BudgetKept` compares an attempt with those before it, but the service looks only at one of them,
the latest by start and number. `NewestInv` and the order of numbers in `BudgetKept` itself make that one the newest
(`LatestIsNewest`), so its number bounds all numbers and, as each retry lies between two starts (`RetryInv`), its retry
time all retry times (`NextFits`). The guard reads only the number and the retry time: that the attempt before
has ended is known from `SvcInv`, since outside a sync nothing runs but what recovery has yet to settle, and
that it was not complete from `RetryInv`, since what is complete has no retry. What a run's transactions do
leaves all this alone (`RunChanges`, `SameKeeps`); what ends an attempt is `FinishKeeps`.

The other properties relate the attempts to the rows and the Catalog, in `StoreInv`. `RowHolds`: every row is what
its own complete run published, dated by that run. `OrderInv` and `ClockInv`: runs begin in the order of their
attempts, and the date the bars should have never moves back (`PriceDates`, the one fact needed of the trading
calendar), so that the row of the last run is the newest of its source (`RunIsNewest`). Therefore, when recovery
meets a running attempt whose run is complete, its publication is still what is read (`PublishedInv`), and
`AuditsAgree` holds across a kill between the two transactions. `BreadthInv` says that a
breadth is tried only behind prices of its date. A publication is shown to write one date of its tables only
(`PublishWrites`), and everything else to leave rows and complete runs alone (`StepKinds`, `RowsRest`).

`BenchmarkIsThere` needs a second invariant, `BarsInv`, since what the service remembers of the Catalog
(`checked`) may be false: a later download may end earlier. `CheckedInv` trusts the memory of the prices only
while it is for the date wanted now (`Wanted`, at the last decision) and a publication of that date is
there, and only of the benchmark. `AskInv` says why that is enough: prices both published and remembered are asked for again
only because a marker stands, and with a marker no pipeline begins. `MadeInv` carries
the benchmark from the publication to the end of the attempt, `SaidInv` from there to the end of the tick; the
jobs after the prices do not fetch the benchmark (`BenchmarkAssumption`).

For `SourcePromise` this leaves to show that the instants of one source's publications do not go back: an attempt begins
at an instant read after the run before it was complete (`SinceInv`, `DecisionIsNow`).

A page reads at any later moment. Every row a reader can select satisfies its checks (`SnapshotSound`,
`BundleSound`, `BatchSound`, `EarningsBatchSound`), so no answer is a refusal, and each age it computes from
one is none of the impossible ones. For `BlockedStays` the page's newest attempt, over all due times, and the
service's, of the due time it read when it decided, must be one: the newest by start and number is the last
inserted (`LatestOfAll`), and both due times lie between that attempt's and the present one
(`ExhaustedIsBlocked`).

**Calculations.** Their case takes no step, so the two theorems say something about every input
(`EverySnapshotReadable`, `NothingAhead`). What sorts and selects needs no induction over data, because it is
defined by counting: the k-th day of a history is the one with k days up to it (`InOrder`, `PlaceTaken`), a
window is the days with fewer than n after them (`LastDays`), the n-th smallest value the least with n places
at or below it (`NthSmallest`, `MedianIs`), the length of a regime a number of places (`DurationIs`). Existence
comes from least and greatest elements of finite sets (`LeastOf`, `Greatest`) and from cardinalities. The
one recursive function, the exponential average of a share, is bounded by its own equation at the least
place where the bound would fail (`EmaIsShare`).

`NoLookAhead` compares the snapshot with that of the input cut at the snapshot's day. Cutting a history takes a
prefix of its days in order (`InOrderPrefix`). For prices and breadth that is all: the benchmark's last bar sets the
day, and series are cut there anyway (`PricesOfTheirDay`, `BreadthOfTheirDay`). A point of the
macro trajectory lies behind four stages, each of which must keep what is a prefix a prefix: days common to
the proxies (`RawUpTo`), rolling Z-scores, whose window looks back only (`RobustZsPrefix`), scores (`ScoredUpTo`),
and the percentile among the scores so far (`HistoryUpTo`); and the rates it is aligned to must be
the same, known on that day (`AlignedAsKnown`). From these follow `MacroOfItsDay` and, for each earlier
point, `PointOfItsDay`.

`ComputedIsReadable` takes each record's checks in turn: a metric is valid with a value or not with a
reason (`MetricIsWellFormed`, `ResultIsWellFormed`); counts of a breadth, of an aggregate and of its parts
agree because each member is in exactly one of the groups counted (`BreadthReadable`, `AggregateReadable`,
`PartsCount`); a regime point carries the scores, the sign and the duration that its series says
(`RiskReadable`, `PointReadable`, `RegimeReadable`); a stock that lacks a field says why (`StockReadable`); an event of a
capture lies in its window under one identity (`EventsReadable`).

**Not proved.** Liveness under fairness (`NewIsHandled`, `PendingIsDecided`, `ApprovedIsSettled`, `Recovers`,
`OrdersEnd`, `RequestsAreAnswered`, `AcceptedIsPublished`, `AttemptsSettle`) is out of the prover's reach and checked
by TLC only. Every other property of a passing run is a theorem.

## 5. Findings

* `signal_risk_doc`: `docs/reference/technical-reference.md:249` says a risk failure at any stage of the
  application ends in RISK_REJECTED. Where the check inside `_submit_orders` fails after the claim
  (`execution/gateway.py:774`), the method returns normally and the caller finishes the signal as
  ORDERS_SUBMITTED, although nothing was sent and a SKIP was recorded.
* `catalog_interrupt`: `docs/reference/factor-integration.md:332` says an abnormal end of a writer leaves
  `.catalog-writing` behind so that the node and the web stop. A KeyboardInterrupt in a write or deletion
  passes over the `except Exception` handlers, but not over the `finally` of `catalog_lock`
  (`data/catalog.py:77`), which takes the marker away from a half-written Catalog.
* `radar_restart`: `docs/plans/market-radar-daily-update.md:132` says that while the market is closed,
  prices and breadth that have covered the day do not download the whole market again, and `:307`, that
  a restart does not request again a target that is met. An attempt is complete when its publication has the
  target's date, which takes only the benchmark's bar (`market_radar/daily.py:268-271`,
  `market_radar/service.py:992`); the service remembers that, but a restarted one asks for every member's bars
  (`daily.py:184-204`). While one member lags behind, it calls the complete breadth blocked, and downloads all members
  again at the next due time although the target, over a weekend or a holiday, is the same.

Observations that contradict no document, or have no run of their own:

* A node that dies between `register_signal_workflow` and `record_signal` (`strategies/patchtst_factor.py:229`)
  leaves a workflow that is handled like any other but has no row in the signals table; the next publication
  finds the workflow taken and does not write it.
* The update page shows `failed` with the reason `source_failed` where the attempt itself says `waiting_source` or
  names its error: the run of an attempt starts later than the attempt, so it always speaks first
  (`application/market_radar.py:337`; `docs/plans/market-radar-daily-update.md` asks for an operable reason).
* A poll of `_reconcile_factor_orders` that raises after it has restored the context of an order left by an
  earlier process, and before it cancels it, leaves that order known: later polls do not take it for a leftover, and
  it works on until the window closes (`execution/gateway.py:1341-1357`). A report that arrives before the first poll
  has the same effect.
* A row whose claim is followed by a failing transaction, not only by a crash
  (`docs/reference/technical-reference.md:253`), stays PROCESSING without a verdict, and the rearm script refuses
  it. `ApprovedIsSettled` therefore speaks of an approval that no further fault meets.
* If writing the failure of a sync run fails too, the run stays RUNNING although its attempt is finished, since
  recovery looks only at running attempts.
* A retry of yesterday's capture after midnight and before 06:00 publishes under today's date, which also
  satisfies today's due time: today's own capture is then not made.
* A failure without retry that is followed by a crash before the attempt is finished is recovered as
  `interrupted`, with a retry.
* The update page may call macro complete while the macro page calls it stale: after a long weekend the last
  session is more than three calendar days ago.
* Relative metrics compare the last n bars of two instruments by position, not by date
  (`market_radar/metrics.py`): with a gap in one of them they span different days.

## 6. What is not modelled, and why

* The limits of the risk plan, the selection of targets, the momentum ranking, the backtest and its dividends:
  sequential arithmetic over decimals and bars. The control around them does not depend on the values beyond a
  check passing or not, a fill completing or not.
* Portfolio snapshots: one row written from the account, read by no other part of the trading path.
* The factor bundle's contract (files, hashes, columns, dates) and the quality rules of the pipeline: a verdict.
* HTTP, authentication and the retries inside one request: a request succeeds or fails.
* The heartbeat row of the radar's worker, the table of index members and its readers, and the maintenance
  scripts that write the radar's tables while the service is stopped.
* Read-only queries other than the radar's, the web API and the web UI, configuration and migrations, texts and
  layout, NT's and SQLite's own correctness.

`PROJECT.json` lists each part with its status.

## 7. Plan

Done: `SignalWorkflow`, `Rebalance`, `BrokerSession`, `CatalogStore`; `CatalogClient`, `DailyInput`, `FactorPath`;
the radar's service, pages and calculations; the proofs of all their safety and action properties and of the four
refinements. Next, in this order:

1. A composition of `BrokerSession` with the gate of `Rebalance`, so that `GateOpens` is derived.
2. The worker's heartbeat beside `RadarDaily`.
