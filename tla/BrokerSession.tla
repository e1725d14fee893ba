------------------------------ MODULE BrokerSession ------------------------------
(***************************************************************************)
(* The broker session of the trading node: when the node may believe that  *)
(* what it knows of the account is what the broker knows.  The monitor, the *)
(* reconciliation task, the gateway's invalidations and the closing of the *)
(* node are coroutines of one loop: a step here is what runs between two   *)
(* awaits.  The Interactive Brokers client and the execution engine are    *)
(* external: a link that can be lost (its disconnection stamp moves, and   *)
(* what was on its way is gone) or busy for a while, reports that may be   *)
(* partial, requests that may fail.                                        *)
(*                                                                         *)
(* The broker's account is the set of its fills, each of one share of one  *)
(* instrument: comparing positions compares how many there are, comparing  *)
(* executions compares which ones; open orders are left out.  Deadlines    *)
(* pass at any wake-up; retry intervals only delay.  Disconnection stamps  *)
(* are numbered, 0 being None.                                             *)
(***************************************************************************)
EXTENDS Naturals, FiniteSets

CONSTANTS
    Fills,      \* what may be traded in the account
    MaxFaults,  \* bound: losses of the link, failed or partial answers, lateness, alarms
    None

ASSUME SessionAssumption ==
    /\ IsFiniteSet(Fills)
    /\ MaxFaults \in Nat
    /\ None \notin Nat /\ \A fills \in SUBSET Fills : None # fills

VARIABLES
    \* broker and client (external)
    link,       \* "up", "busy" (not ready, nothing lost), "down"
    stamp,      \* client._last_disconnection_ns
    book,       \* fills at the broker
    inflight,   \* fills whose event is on its way to the node
    faults,
    \* node
    cache,      \* fills in the node's cache
    account,    \* the stamp current when the last account update came, or None
    running,    \* trader.is_running
    \* BrokerSession
    session,    \* _reconciled, _epoch, the monitor task, _closed
    cycle       \* _task and what belongs to the cycle it runs

broker == <<link, stamp, book, inflight>>
known  == <<cache, account>>
vars   == <<broker, faults, known, running, session, cycle>>

\* Of the task: waiting for the engine's report, the report is out, waiting for
\* positions and executions, done.
Stages == {"none", "status", "reported", "gather", "done"}

NoCycle == [stage |-> "none", epoch |-> 0, invalidated |-> FALSE, expired |-> FALSE,
            report |-> None, positions |-> None, executions |-> None, result |-> FALSE]

Init ==
    /\ link = "down" /\ stamp = 0
    /\ book \in SUBSET Fills /\ inflight = {}
    /\ faults = 0
    /\ cache = {} /\ account = None /\ running = FALSE
    /\ session = [reconciled |-> FALSE, epoch |-> 0, monitored |-> TRUE, closed |-> FALSE]
    /\ cycle = NoCycle

Fault == faults < MaxFaults /\ faults' = faults + 1

-----------------------------------------------------------------------------
(* Broker and client.                                                      *)

Connect ==
    /\ link # "up" /\ link' = "up"
    /\ UNCHANGED <<stamp, book, inflight, faults, known, running, session, cycle>>

Disconnect ==
    /\ link # "down" /\ Fault
    /\ link' = "down" /\ stamp' = stamp + 1 /\ inflight' = {}
    /\ UNCHANGED <<book, known, running, session, cycle>>

Busy ==
    /\ link = "up" /\ Fault
    /\ link' = "busy"
    /\ UNCHANGED <<stamp, book, inflight, known, running, session, cycle>>

Fill(f) ==
    /\ f \notin book
    /\ book' = book \cup {f}
    /\ inflight' = IF link = "down" THEN inflight ELSE inflight \cup {f}
    /\ UNCHANGED <<link, stamp, faults, known, running, session, cycle>>

FillArrives(f) ==
    /\ f \in inflight /\ link = "up"
    /\ inflight' = inflight \ {f} /\ cache' = cache \cup {f}
    /\ UNCHANGED <<link, stamp, book, faults, account, running, session, cycle>>

AccountUpdate ==
    /\ link = "up" /\ account' = stamp
    /\ UNCHANGED <<broker, faults, cache, running, session, cycle>>

TraderStarts ==
    /\ ~running /\ running' = TRUE
    /\ UNCHANGED <<broker, faults, known, session, cycle>>

-----------------------------------------------------------------------------
(* status(), _on_report() and invalidate(), called by whoever is running.  *)

Connected == link = "up"

\* What status() answers; it also withdraws a readiness that no longer holds.
Ready == session.reconciled /\ ~session.closed /\ Connected /\ stamp = session.epoch

StatusRead ==
    /\ session' = [session EXCEPT !.reconciled = Ready]
    /\ UNCHANGED <<broker, faults, known, running, cycle>>

\* A report of this cycle counts if its connection still stands.
Accepted == cycle.stage # "none" /\ ~cycle.invalidated /\ cycle.epoch = stamp

\* The engine brings the cache up to a report and publishes it; a partial one may
\* pass for complete.
Report(fills) ==
    /\ cycle.stage = "status" /\ Connected
    /\ fills \subseteq book
    /\ IF fills = book THEN UNCHANGED faults ELSE Fault
    /\ cache' = cache \cup fills /\ inflight' = inflight \ fills
    /\ cycle' = [cycle EXCEPT !.stage = "reported",
                              !.report = IF Accepted THEN fills ELSE None]
    /\ UNCHANGED <<link, stamp, book, account, running, session>>

\* The report of an earlier request: the session refuses it, the cache takes it.
OldReport(fills) ==
    /\ Connected /\ fills \subseteq book /\ Fault
    /\ cache' = cache \cup fills /\ inflight' = inflight \ fills
    /\ UNCHANGED <<link, stamp, book, account, running, session, cycle>>

Invalidate ==
    /\ Fault
    /\ session' = [session EXCEPT !.reconciled = FALSE]
    /\ cycle' = [cycle EXCEPT !.invalidated = TRUE]
    /\ UNCHANGED <<broker, known, running>>

-----------------------------------------------------------------------------
(* The reconciliation task.  Readiness is off while it runs, so the calls of *)
(* status() inside it change nothing.                                      *)

\* (mutant) a failed task is left where the monitor does not look
EndedApart(result) ==
    [cycle EXCEPT !.stage = IF result THEN "done" ELSE "failed", !.result = result]

Ended(result) == [cycle EXCEPT !.stage = "done", !.result = result]

\* (mutant) an account update from before the disconnection will do
AccountKnown == account # None

\* The account has been heard of since the disconnection the cycle started after.
AccountFresh == account # None /\ account >= cycle.epoch

\* reconcile_execution_state returned: the rest is asked for only if the report, the
\* account and the connection are there.  An engine that gives up and an account update
\* that is too old are failed requests.
StatusReturns ==
    /\ cycle.stage = "reported"
    /\ IF cycle.report # None /\ AccountFresh /\ Connected
       THEN cycle' = [cycle EXCEPT !.stage = "gather"]
       ELSE cycle' = Ended(FALSE)
    /\ UNCHANGED <<broker, faults, known, running, session>>

ReadPositions ==
    /\ cycle.stage = "gather" /\ Connected /\ cycle.positions = None
    /\ cycle' = [cycle EXCEPT !.positions = book]
    /\ UNCHANGED <<broker, faults, known, running, session>>

ReadExecutions ==
    /\ cycle.stage = "gather" /\ Connected /\ cycle.executions = None
    /\ cycle' = [cycle EXCEPT !.executions = book]
    /\ UNCHANGED <<broker, faults, known, running, session>>

RequestFails ==
    /\ cycle.stage \in {"status", "reported", "gather"} /\ Fault
    /\ cycle' = Ended(FALSE)
    /\ UNCHANGED <<broker, known, running, session>>

\* (mutant) without the broker's own answers
ConsistentAtHome ==
    /\ Cardinality(cycle.report) = Cardinality(cache)

\* Report, broker's positions and cache agree in quantity; every execution was reported.
Consistent ==
    /\ Cardinality(cycle.report) = Cardinality(cycle.positions)
    /\ Cardinality(cycle.report) = Cardinality(cache)
    /\ cycle.executions \subseteq cycle.report

GatherReturns ==
    /\ cycle.stage = "gather"
    /\ cycle.positions # None /\ cycle.executions # None
    /\ cycle' = Ended(Consistent /\ Connected)
    /\ UNCHANGED <<broker, faults, known, running, session>>

-----------------------------------------------------------------------------
(* One turn of the monitor, and the end of the session.                    *)

Monitoring == session.monitored /\ ~session.closed

\* (mutant) what expired once stays expired
FreshCycleLate == [NoCycle EXCEPT !.stage = "status", !.epoch = stamp,
                                  !.expired = cycle.expired]

FreshCycle == [NoCycle EXCEPT !.stage = "status", !.epoch = stamp]

StartCycle ==
    /\ Monitoring /\ cycle.stage = "none"
    /\ Connected /\ ~Ready /\ running
    /\ session' = [session EXCEPT !.reconciled = FALSE]
    /\ cycle' = FreshCycle
    /\ UNCHANGED <<broker, faults, known, running>>

DeadlinePasses ==
    /\ Monitoring /\ cycle.stage # "none" /\ ~cycle.expired /\ Fault
    /\ session' = [session EXCEPT !.reconciled = FALSE]
    /\ cycle' = [cycle EXCEPT !.expired = TRUE]
    /\ UNCHANGED <<broker, known, running>>

\* (mutant) even if an inconsistency was found meanwhile
GoodInvalidated == cycle.result /\ ~cycle.expired /\ Connected /\ cycle.epoch = stamp

Good == /\ cycle.result /\ ~cycle.expired /\ ~cycle.invalidated
        /\ Connected /\ cycle.epoch = stamp

\* The flags of a cycle outlive its task until the next one starts.
ApplyResult ==
    /\ Monitoring /\ cycle.stage = "done"
    /\ session' = [session EXCEPT !.reconciled = Good, !.epoch = cycle.epoch]
    /\ cycle' = [NoCycle EXCEPT !.epoch = cycle.epoch, !.invalidated = cycle.invalidated,
                                !.expired = cycle.expired]
    /\ UNCHANGED <<broker, faults, known, running>>

\* The node stops: first the monitor is cancelled, then the session closed; the task
\* is waited for up to the deadline, then cancelled.  A monitor that finds its task
\* cancelled raises and is gone in the same way.
StopMonitor ==
    /\ session.monitored
    /\ session' = [session EXCEPT !.monitored = FALSE, !.reconciled = FALSE]
    /\ UNCHANGED <<broker, faults, known, running, cycle>>

Close ==
    /\ ~session.monitored /\ ~session.closed
    /\ session' = [session EXCEPT !.closed = TRUE, !.reconciled = FALSE]
    /\ UNCHANGED <<broker, faults, known, running, cycle>>

CloseEnds ==
    /\ session.closed /\ cycle.stage # "none"
    /\ cycle' = NoCycle
    /\ UNCHANGED <<broker, faults, known, running, session>>

Task == StatusReturns \/ ReadPositions \/ ReadExecutions \/ RequestFails \/ GatherReturns

Monitor == StartCycle \/ DeadlinePasses \/ ApplyResult

Next ==
    \/ Connect \/ Disconnect \/ Busy \/ AccountUpdate \/ TraderStarts
    \/ \E f \in Fills : Fill(f) \/ FillArrives(f)
    \/ \E fills \in SUBSET Fills : Report(fills) \/ OldReport(fills)
    \/ StatusRead \/ Invalidate
    \/ Task \/ Monitor
    \/ StopMonitor \/ Close \/ CloseEnds

Spec == Init /\ [][Next]_vars

\* The client reconnects and the broker answers what it is asked, except for faults;
\* the loop runs what is ready.  A report is published before its request returns.
Fairness ==
    /\ WF_vars(Connect) /\ WF_vars(TraderStarts)
    /\ WF_vars(account # stamp /\ AccountUpdate)
    /\ WF_vars(\E f \in Fills : FillArrives(f))
    /\ WF_vars(Report(book))
    /\ WF_vars(StatusReturns) /\ WF_vars(ReadPositions) /\ WF_vars(ReadExecutions)
    /\ WF_vars(GatherReturns)
    /\ WF_vars(StartCycle) /\ WF_vars(ApplyResult)

FairSpec == Spec /\ Fairness

-----------------------------------------------------------------------------
(* Properties.                                                             *)

Answers == {None} \cup SUBSET Fills

WorldOK ==
    /\ link \in {"up", "busy", "down"}
    /\ faults \in 0..MaxFaults /\ stamp \in 0..faults
    /\ book \subseteq Fills /\ inflight \subseteq book /\ cache \subseteq book
    /\ account \in {None} \cup 0..stamp /\ running \in BOOLEAN

SessionOK ==
    session \in [reconciled : BOOLEAN, epoch : 0..MaxFaults, monitored : BOOLEAN,
                closed : BOOLEAN]

CycleOK ==
    cycle \in [stage : Stages, epoch : 0..MaxFaults, invalidated : BOOLEAN,
              expired : BOOLEAN, report : Answers, positions : Answers,
              executions : Answers, result : BOOLEAN]

\* Every variable keeps the shape the code gives it.
TypeOK == WorldOK /\ SessionOK /\ CycleOK

\* While the session says ready, every fill of the account that the node does not
\* know is on its way: nothing lost with an earlier connection is still missing,
\* although the engine may pass a partial report for complete.
NothingMissed == Ready => book \ cache \subseteq inflight

\* While the session says ready, the account figures the gate looks at were sent over
\* the connection that now stands.
AccountIsCurrent == Ready => account = stamp

\* A consistency failure withdraws readiness until a cycle begun after it has succeeded,
\* also when a cycle was just under way or waiting to be applied.
InvalidationHolds == Ready => ~cycle.invalidated

\* Fills the node does not know and will not hear of by itself.
Lost == book \ (cache \cup inflight)

\* The cycle's answers, and what they still mean as long as its connection stands.
AnswersHold ==
    /\ cycle.epoch <= stamp
    /\ cycle.stage = "gather" => cycle.report # None
    /\ cycle.report # None => cycle.report \subseteq cache
    /\ cycle.positions # None => cycle.report # None /\ cycle.report \subseteq cycle.positions
    /\ cycle.positions # None => cycle.positions \subseteq book
    /\ cycle.stage = "status" => cycle.positions = None
    /\ cycle.stage = "reported" => cycle.positions = None
    /\ cycle.stage # "none" /\ cycle.epoch = stamp => link # "down"
    /\ cycle.stage # "none" /\ cycle.epoch = stamp /\ cycle.positions # None
          => book \ cycle.positions \subseteq cache \cup inflight
    /\ cycle.stage = "gather" \/ cycle.result => account # None /\ account >= cycle.epoch
    /\ cycle.stage # "none" /\ cycle.epoch = stamp /\ cycle.result => Lost = {}

\* What readiness rests on until the connection is lost.
ReadinessHolds ==
    session.reconciled =>
        /\ ~cycle.invalidated
        /\ session.epoch <= stamp
        /\ account # None /\ account >= session.epoch
        /\ session.epoch = stamp => link # "down" /\ Lost = {}

\* The inductive invariant.
SessionInv == TypeOK /\ AnswersHold /\ ReadinessHolds

\* After the last fault the session becomes ready without a restart.
Recovers == session.monitored ~> (Ready \/ ~session.monitored)
================================================================================
