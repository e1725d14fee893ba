------------------------------- MODULE FactorPath -------------------------------
(***************************************************************************)
(* From a factor delivery to a registered trade signal: the daily input    *)
(* (DailyInput) writes the Catalog and the acceptance, the Catalog client  *)
(* keeps its promise (RequestPromise), and the strategy actor              *)
(* (strategies/patchtst_factor.py, paper configuration) requests the       *)
(* history again and again, collects complete batches and publishes the    *)
(* one of the expected date.                                               *)
(*                                                                         *)
(* The actor's callbacks run on the node's loop; its three database        *)
(* transactions for one publication are steps of their own, because the    *)
(* node may die, or a transaction fail, between them.  A response hands    *)
(* all its rows over in one step, and a delivery has one batch.  The       *)
(* scores of a delivery never change in the Catalog (DailyInput), so a     *)
(* batch seen twice is seen the same.                                      *)
(***************************************************************************)
EXTENDS DailyInput, RequestPromise

CONSTANTS
    NoSlot,     \* Slots: history requests of the actor the client can have at a time
    MaxStarts   \* bound: how often the node is started

ASSUME PathAssumption ==
    NoSlot \notin Slots /\ MaxStarts \in Nat /\ Content = SUBSET Deliveries

VARIABLES
    actor,      \* memory of the actor
    workflow,   \* signal_workflows: the delivery of the row of each date, or None
    signals,    \* dates whose row in the signals table exists
    decided,    \* factor decisions REBALANCE by date
    starts

actorVars == <<actor, workflow, signals, decided, starts>>
vars == <<inputVars, promiseVars, actorVars>>

ActorSteps == {"down", "idle", "audit", "register", "record"}

\* current: the slot of the request being waited for; completed: _completed_batches;
\* seen: the batches complete in _request_rows; batch: the one being published for day.
ActorDown == [step |-> "down", current |-> NoSlot, completed |-> {}, seen |-> {},
              batch |-> None, day |-> 0]

Init ==
    /\ InputInit /\ PromiseInit
    /\ actor = ActorDown
    /\ workflow = [day \in 1..Days |-> None]
    /\ signals = {} /\ decided = {}
    /\ starts = 0

-----------------------------------------------------------------------------
(* Requests.                                                               *)

\* The loop runs one callback at a time: in the middle of a publication nothing else.
LoopIsFree == actor.step = "idle"

\* A request that is being waited for is repeated after 60 seconds only; how long that
\* is against the client's own deadline is a matter of settings, so: at any time.
\* The one before is given up.
CheckFactors(s) ==
    /\ LoopIsFree
    /\ slot[s].step = "free" /\ s # actor.current
    /\ slot' = [t \in Slots |->
                   IF t = s THEN At("open")
                   ELSE IF t = actor.current /\ slot[t].step = "open" THEN At("dropped")
                   ELSE slot[t]]
    /\ taken' = [t \in Slots |-> IF t = actor.current THEN {} ELSE taken[t]]
    /\ actor' = [actor EXCEPT !.current = s, !.seen = {}]
    /\ UNCHANGED <<inputVars, workflow, signals, decided, starts>>

\* The thread reads under the shared lock: never while a writer is inside, nor behind a
\* marker.
ReadsCatalog(s) ==
    /\ actor.step # "down"
    /\ ~WriterInside /\ ~marked
    /\ Take(s, scores)
    /\ UNCHANGED <<inputVars, actorVars>>

ClientAnswers(s) ==
    /\ LoopIsFree
    /\ Refuse(s) \/ Answer(s)
    /\ UNCHANGED <<inputVars, actorVars>>

\* The batch of the expected date and of the configured release.
Dated(d) == AsOf[d] = Expected(now) /\ d \in Fixed

\* What _catalog_request_completed looks for in the actor's memory a.
Publishable(d, a) == d \in a.completed \cap a.seen /\ Dated(d)

\* (mutant) scores that wait for their acceptance
ReceiptMissing(d) == d \in scores

\* The receipt of this delivery, stamped before the opening.
Receipt(d) == accepted[d] # None /\ accepted[d] < Cutoff(AsOf[d])

\* _publish_signal up to its first transaction: too early, too late, without a receipt
\* or without scores there is nothing to publish.
Publishes(d, a) ==
    /\ Publishable(d, a)
    /\ now >= BarsOut(AsOf[d]) /\ now < ExpiresAt(AsOf[d])
    /\ Receipt(d) /\ Eligible[d] # {}

\* (mutant) rows the actor holds already are not counted again
CountedOnce(rows, a) == rows \ a.completed

\* _request_rows: every row of the answer counts, new or not.
Counted(rows, a) == rows

\* The response reaches the actor: all rows are ingested and counted for whatever
\* request is waited for now; the callback publishes only if it is this one.
ActorReceives(s) ==
    /\ LoopIsFree /\ HandOver(s)
    /\ LET rows == UNION slot[s].answer
           mine == s = actor.current
           fed  == [actor EXCEPT !.completed = @ \cup rows,
                                 !.seen = IF actor.current = NoSlot THEN @
                                          ELSE @ \cup Counted(rows, actor),
                                 !.current = IF mine THEN NoSlot ELSE @]
           due  == {d \in Deliveries : mine /\ slot[s].answer # {} /\ Publishes(d, fed)}
       IN  IF due = {} THEN actor' = fed
           ELSE \E d \in due :
                   actor' = [fed EXCEPT !.step = "audit", !.batch = d, !.day = AsOf[d]]
    /\ UNCHANGED <<inputVars, workflow, signals, decided, starts>>

-----------------------------------------------------------------------------
(* The three transactions of a publication.                                *)

AuditDecision ==
    /\ actor.step = "audit"
    /\ decided' = decided \cup {actor.day}
    /\ actor' = [actor EXCEPT !.step = "register"]
    /\ UNCHANGED <<inputVars, promiseVars, workflow, signals, starts>>

\* register_signal_workflow: one row per release and date, the first one stays.
Taken(day) == workflow[day] # None

RegisterWorkflow ==
    /\ actor.step = "register"
    /\ IF Taken(actor.day)
       THEN /\ actor' = [actor EXCEPT !.step = "idle", !.batch = None]
            /\ UNCHANGED workflow
       ELSE /\ actor' = [actor EXCEPT !.step = "record"]
            /\ workflow' = [workflow EXCEPT ![actor.day] = actor.batch]
    /\ UNCHANGED <<inputVars, promiseVars, signals, decided, starts>>

\* The message is published after this; SignalWorkflow goes on from there.
RecordSignal ==
    /\ actor.step = "record"
    /\ signals' = signals \cup {actor.day}
    /\ actor' = [actor EXCEPT !.step = "idle", !.batch = None]
    /\ UNCHANGED <<inputVars, promiseVars, workflow, decided, starts>>

\* A transaction raises (SQLite gives up after 50 ms): the callback ends there.
TransactionFails ==
    /\ actor.step \in {"audit", "register", "record"}
    /\ actor' = [actor EXCEPT !.step = "idle", !.batch = None]
    /\ UNCHANGED <<inputVars, promiseVars, workflow, signals, decided, starts>>

-----------------------------------------------------------------------------
(* Start and end of the node.                                              *)

StartNode ==
    /\ actor.step = "down" /\ starts < MaxStarts
    /\ actor' = [ActorDown EXCEPT !.step = "idle"]
    /\ starts' = starts + 1
    /\ UNCHANGED <<inputVars, promiseVars, workflow, signals, decided>>

\* The process ends at any step, with its requests, its thread and their locks.  After
\* an orderly stop (on_stop gives the request up) the actor publishes nothing either.
NodeEnds ==
    /\ actor.step # "down"
    /\ actor' = ActorDown
    /\ Lose
    /\ UNCHANGED <<inputVars, workflow, signals, decided, starts>>

Next ==
    \/ InputNext /\ UNCHANGED <<promiseVars, actorVars>>
    \/ AuditDecision \/ RegisterWorkflow \/ RecordSignal
    \/ StartNode \/ NodeEnds \/ TransactionFails
    \/ \E s \in Slots : \/ CheckFactors(s) \/ ReadsCatalog(s)
                        \/ ClientAnswers(s) \/ ActorReceives(s)

Spec == Init /\ [][Next]_vars

\* The request that is waited for: read, answered with rows, handed to the actor.
ReadsCurrent == \E s \in Slots : s = actor.current /\ ReadsCatalog(s)

AnswersCurrent == /\ LoopIsFree /\ \E s \in Slots : s = actor.current /\ Answer(s)
                  /\ UNCHANGED <<inputVars, actorVars>>

ReceivesCurrent == \E s \in Slots : /\ s = actor.current /\ slot[s].answer # {}
                                   /\ ActorReceives(s)

WriterEnds == /\ WriteActions \/ StampAcceptance \/ CommitAcceptance \/ (WriterInside /\ TickFails)
              /\ UNCHANGED <<promiseVars, actorVars>>

\* The timer of the actor rings and its loop goes on.  The environment: now and then a
\* request is answered before the next one replaces it, finds the Catalog free of
\* writers, and a transaction succeeds; no writer keeps the Catalog for ever.
Fairness ==
    /\ WF_vars(\E s \in Slots : CheckFactors(s))
    /\ \A s \in Slots : WF_vars(ClientAnswers(s)) /\ WF_vars(ActorReceives(s))
    /\ SF_vars(ReadsCurrent) /\ SF_vars(AnswersCurrent) /\ SF_vars(ReceivesCurrent)
    /\ SF_vars(AuditDecision) /\ SF_vars(RegisterWorkflow)
    /\ WF_vars(WriterEnds)

FairSpec == Spec /\ Fairness

-----------------------------------------------------------------------------

PathTypeOK ==
    /\ InputTypeOK
    /\ slot \in [Slots -> [step : {"free", "open", "dropped", "answered"},
                           answer : SUBSET SUBSET Deliveries]]
    /\ taken \in [Slots -> SUBSET SUBSET Deliveries]
    /\ actor \in [step : ActorSteps, current : Slots \cup {NoSlot}, seen : SUBSET Deliveries,
                  completed : SUBSET Deliveries, batch : Deliveries \cup {None}, day : 0..Days]
    /\ workflow \in [1..Days -> Deliveries \cup {None}]
    /\ signals \subseteq 1..Days /\ decided \subseteq 1..Days
    /\ starts \in 0..MaxStarts

\* A signal is registered only on a delivery of its date and of the configured release
\* that passed the contract, whose scores are in the Catalog and whose acceptance was
\* stamped before the opening it trades at, and after its decision was audited;
\* whatever was late, killed, repeated, given up or answered out of turn
\* (strategies/patchtst_factor.py:147-233).
SignalIsAccepted ==
    \A day \in 1..Days :
        LET d == workflow[day]
        IN  /\ d # None => /\ AsOf[d] = day /\ d \in Fixed \cap Valid \cap scores
                           /\ accepted[d] # None /\ accepted[d] < Cutoff(day)
                           /\ day \in decided
            /\ day \in signals => d # None

\* An accepted delivery is published in time: while the node stays up, the Catalog is
\* whole and the window open, a workflow is registered, whatever requests were given
\* up, answered late or cut by a failing transaction before
\* (strategies/patchtst_factor.py:287-356).
AcceptedIsPublished ==
    \A d \in Fixed :
        accepted[d] # None /\ actor.step # "down"
            ~> \/ workflow[AsOf[d]] # None \/ now >= ExpiresAt(AsOf[d])
               \/ actor.step = "down" \/ marked
===============================================================================
