----------------------------- MODULE CatalogClient -----------------------------
(***************************************************************************)
(* The Catalog data client of the trading node (live/catalog_client.py):  *)
(* history requests of the actor and the gateway are coroutines of one     *)
(* loop, the blocking read runs in one worker thread, and between them are *)
(* a deadline per request, an asyncio lock, the outcome object that the    *)
(* requester shares with the client, and the client's disconnection.       *)
(*                                                                         *)
(* A step is what runs between two awaits, or one step of the thread.  A   *)
(* request is a slot that is free again when NautilusTrader has delivered  *)
(* its answer.  The asyncio lock is granted in any order.  What the        *)
(* Catalog holds, and whether a writer holds its lock or has left its      *)
(* marker, is chosen freely at each read; CatalogStore models that side.   *)
(***************************************************************************)
EXTENDS Naturals, FiniteSets

CONSTANTS Slots, Content, NoSlot

ASSUME ClientAssumption == NoSlot \notin Slots

VARIABLES
    request,   \* per slot: where its coroutine stands, and what it answers with
    outcome,   \* per slot: CatalogRequestOutcome.status
    answers,   \* history: answers given since the slot was registered
    givenUp,   \* history: slots whose requester has given up before the answer
    worker,    \* the thread: the slot it reads for and how far it is
    client     \* "open", "closing", "closed"

\* Rows are a set of at most one content: none when there is nothing to hand over.

clientVars == <<request, outcome, answers, givenUp, worker, client>>

\* "registered": scheduled, not yet started; "queued": waits for the asyncio lock;
\* "waiting": holds it and waits for the thread of an earlier request; "reading":
\* waits for its own; "answered": the response is in the data engine's queue.
RequestSteps == {"free", "registered", "queued", "waiting", "reading", "answered"}

Statuses == {"pending", "ok", "busy", "failed", "cancelled"}

Unsettled == {"registered", "queued", "waiting", "reading"}

NoThread == [slot |-> NoSlot, step |-> "idle", rows |-> {}]

Init ==
    /\ request = [s \in Slots |-> [step |-> "free", rows |-> {}]]
    /\ outcome = [s \in Slots |-> "pending"]
    /\ answers = [s \in Slots |-> 0]
    /\ givenUp = {}
    /\ worker = NoThread
    /\ client = "open"

\* (mutant) rows are handed over whatever the status
RespondRows(s, status, rows) ==
    /\ request' = [request EXCEPT ![s] = [step |-> "answered", rows |-> rows]]
    /\ outcome' = [outcome EXCEPT ![s] = status]
    /\ answers' = [answers EXCEPT ![s] = @ + 1]

\* The response of slot s: rows only with status ok.
Respond(s, status, rows) ==
    /\ request' = [request EXCEPT ![s] = [step |-> "answered",
                                          rows |-> IF status = "ok" THEN rows ELSE {}]]
    /\ outcome' = [outcome EXCEPT ![s] = status]
    /\ answers' = [answers EXCEPT ![s] = @ + 1]

-----------------------------------------------------------------------------

\* request(): registered before it is scheduled; answered at once while closing.
Register(s) ==
    /\ request[s].step = "free"
    /\ IF client = "open"
       THEN /\ request' = [request EXCEPT ![s].step = "registered"]
            /\ outcome' = [outcome EXCEPT ![s] = "pending"]
            /\ answers' = [answers EXCEPT ![s] = 0]
       ELSE /\ request' = [request EXCEPT ![s].step = "answered"]
            /\ outcome' = [outcome EXCEPT ![s] = "cancelled"]
            /\ answers' = [answers EXCEPT ![s] = 1]
    /\ givenUp' = givenUp \ {s}
    /\ UNCHANGED <<worker, client>>

\* The coroutine runs for the first time; its deadline starts.
StartRequest(s) ==
    /\ request[s].step = "registered"
    /\ IF client = "open"
       THEN request' = [request EXCEPT ![s].step = "queued"] /\ UNCHANGED <<outcome, answers>>
       ELSE Respond(s, "cancelled", {})
    /\ UNCHANGED <<givenUp, worker, client>>

LockIsFree == \A s \in Slots : request[s].step \notin {"waiting", "reading"}

TakeLock(s) ==
    /\ request[s].step = "queued" /\ LockIsFree
    /\ request' = [request EXCEPT ![s].step = "waiting"]
    /\ UNCHANGED <<outcome, answers, givenUp, worker, client>>

\* A timed-out request does not stop its thread; the next read waits for it.
ThreadIsFree == worker.step \in {"idle", "done", "error", "busy"}

StartRead(s) ==
    /\ request[s].step = "waiting" /\ ThreadIsFree
    /\ IF outcome[s] = "pending"
       THEN /\ request' = [request EXCEPT ![s].step = "reading"]
            /\ worker' = [slot |-> s, step |-> "opening", rows |-> {}]
            /\ UNCHANGED <<outcome, answers>>
       ELSE Respond(s, "cancelled", {}) /\ UNCHANGED worker
    /\ UNCHANGED <<givenUp, client>>

\* The thread takes the Catalog's shared lock, gives up after 50 ms or finds the marker
\* of an interrupted publication.
OpenCatalog ==
    /\ worker.step = "opening"
    /\ \/ worker' = [worker EXCEPT !.step = "busy"]
       \/ worker' = [worker EXCEPT !.step = "error"]
       \/ \E content \in Content :
             worker' = [worker EXCEPT !.step = "holding", !.rows = {content}]
    /\ UNCHANGED <<request, outcome, answers, givenUp, client>>

\* The query returns or raises; the shared lock is released.
FinishRead ==
    /\ worker.step = "holding"
    /\ \/ worker' = [worker EXCEPT !.step = "done"]
       \/ worker' = [worker EXCEPT !.step = "error", !.rows = {}]
    /\ UNCHANGED <<request, outcome, answers, givenUp, client>>

\* What the coroutine makes of its finished thread and of the shared outcome.
Result(s) == IF worker.step = "done" THEN (IF outcome[s] = "pending" THEN "ok" ELSE outcome[s])
             ELSE IF worker.step = "busy" THEN "busy" ELSE "failed"

ReadReturns(s) ==
    /\ request[s].step = "reading"
    /\ worker.slot = s /\ worker.step \in {"done", "busy", "error"}
    /\ Respond(s, Result(s), worker.rows)
    /\ worker' = NoThread
    /\ UNCHANGED <<givenUp, client>>

\* (mutant) the deadline begins with the request's own read
DeadlinedLate == {"queued", "reading"}

\* The deadline covers the lock, the thread of an earlier request and the read.
Deadlined == {"queued", "waiting", "reading"}

\* asyncio.timeout: the wait is cancelled, the thread is not.
TimesOut(s) ==
    /\ request[s].step \in Deadlined
    /\ Respond(s, "failed", {})
    /\ UNCHANGED <<givenUp, worker, client>>

\* A requester that gives up on slot s writes into the shared outcome, whatever has
\* become of the request.
GiveUp(s) ==
    /\ request[s].step # "free"
    /\ outcome' = [outcome EXCEPT ![s] = "cancelled"]
    /\ givenUp' = IF request[s].step \in Unsettled THEN givenUp \cup {s} ELSE givenUp
    /\ UNCHANGED <<request, answers, worker, client>>

\* _disconnect: no new requests; every task is cancelled.
BeginClose ==
    /\ client = "open"
    /\ client' = "closing"
    /\ UNCHANGED <<request, outcome, answers, givenUp, worker>>

\* (mutant) an answered request stays in _pending
CancellableAll(s) == request[s].step # "free"

Cancellable(s) == request[s].step \in Unsettled

\* A task that has started answers from its own handler; one that has not never runs,
\* and is answered from _pending.
CancelTask(s) ==
    /\ client = "closing" /\ Cancellable(s)
    /\ Respond(s, "cancelled", {})
    /\ UNCHANGED <<givenUp, worker, client>>

\* A bounded wait for the thread, then the executor is shut down.
EndClose ==
    /\ client = "closing" /\ \A s \in Slots : request[s].step \notin Unsettled
    /\ client' = "closed"
    /\ UNCHANGED <<request, outcome, answers, givenUp, worker>>

\* The process ends with all its requests; the next one starts with none.
ClientGone ==
    /\ request' = [s \in Slots |-> [step |-> "free", rows |-> {}]]
    /\ outcome' = [s \in Slots |-> "pending"]
    /\ answers' = [s \in Slots |-> 0]
    /\ givenUp' = {}
    /\ worker' = NoThread
    /\ client' = "open"

\* The data engine hands the response to its requester.
Delivered(s) ==
    /\ request[s].step = "answered"
    /\ request' = [request EXCEPT ![s] = [step |-> "free", rows |-> {}]]
    /\ UNCHANGED <<outcome, answers, givenUp, worker, client>>

Next ==
    \/ OpenCatalog \/ FinishRead \/ BeginClose \/ EndClose \/ ClientGone
    \/ \E s \in Slots :
          \/ Register(s) \/ StartRequest(s) \/ TakeLock(s) \/ StartRead(s) \/ ReadReturns(s)
          \/ TimesOut(s) \/ GiveUp(s) \/ CancelTask(s) \/ Delivered(s)

Spec == Init /\ [][Next]_clientVars

\* The loop runs what is ready and its deadlines ring.  The thread owes nothing: it may
\* hang in the file system for ever.
Fairness == \A s \in Slots : /\ WF_clientVars(StartRequest(s)) /\ WF_clientVars(TimesOut(s))
                             /\ WF_clientVars(CancelTask(s))
            /\ WF_clientVars(EndClose)

FairSpec == Spec /\ Fairness

-----------------------------------------------------------------------------

TypeOK ==
    /\ request \in [Slots -> [step : RequestSteps, rows : SUBSET Content]]
    /\ outcome \in [Slots -> Statuses]
    /\ answers \in [Slots -> Nat] /\ givenUp \subseteq Slots
    /\ worker \in [slot : Slots \cup {NoSlot}, rows : SUBSET Content,
                   step : {"idle", "opening", "holding", "done", "busy", "error"}]
    /\ client \in {"open", "closing", "closed"}

\* Every request is answered exactly once, whatever its deadline, its requester, its
\* thread and the disconnection do to one another; a request that waits for a thread
\* waits for its own; and rows answer a request only if nobody had given it up
\* (live/catalog_client.py:69-90, 123-152).
OneAnswer ==
    \A s \in Slots :
        /\ answers[s] <= 1
        /\ request[s].step \in Unsettled => answers[s] = 0
        /\ request[s].step = "answered" => answers[s] = 1
        /\ request[s].step = "reading" => worker.slot = s
        /\ request[s].rows # {} => request[s].step = "answered" /\ s \notin givenUp

\* What a requester sees of a slot, and what has been read for it.
Seen(s) == [step |-> IF request[s].step \notin Unsettled THEN request[s].step
                     ELSE IF s \in givenUp THEN "dropped" ELSE "open",
            answer |-> request[s].rows]

ReadFor(s) == IF request[s].step = "reading" /\ s \notin givenUp THEN worker.rows ELSE {}

Promise == INSTANCE RequestPromise WITH
               slot <- [s \in Slots |-> Seen(s)], taken <- [s \in Slots |-> ReadFor(s)]

\* The client keeps the promise its requesters rely on: an answer is one reading of the
\* Catalog made for this request while it was open and not given up, or nothing
\* (live/catalog_client.py:121-155).
KeepsPromise == Promise!PromiseSpec

\* No request waits for ever, not even behind a thread that never returns, and a
\* disconnection ends (live/catalog_client.py:65-80, 131-138).
RequestsAreAnswered ==
    /\ \A s \in Slots : request[s].step \in Unsettled ~> request[s].step \notin Unsettled
    /\ client = "closing" ~> client # "closing"
===============================================================================
