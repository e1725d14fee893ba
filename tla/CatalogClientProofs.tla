--------------------------- MODULE CatalogClientProofs ---------------------------
(***************************************************************************)
(* Proofs about CatalogClient for any number of slots and any contents:    *)
(* every request is answered once, and the client keeps RequestPromise.    *)
(***************************************************************************)
EXTENDS CatalogClient, TLAPS

\* The asyncio lock has one holder.
LockHeld ==
    \A s, t \in Slots :
        request[s].step \in {"waiting", "reading"} /\ request[t].step \in {"waiting", "reading"}
            => s = t

\* While a request is unsettled, its shared outcome says whether it was given up.
OutcomeTells ==
    \A s \in Slots : request[s].step \in Unsettled
        => outcome[s] = IF s \in givenUp THEN "cancelled" ELSE "pending"

\* The thread has rows from the opening of the Catalog to the end of a good read.
ThreadRows ==
    /\ worker.step \in {"opening", "busy", "error"} => worker.rows = {}
    /\ worker.step \in {"holding", "done"} => worker.rows # {}

ClientInv == TypeOK /\ OneAnswer /\ LockHeld /\ OutcomeTells /\ ThreadRows

-----------------------------------------------------------------------------
(* Types.                                                                   *)

LEMMA TypeStep == TypeOK /\ [Next]_clientVars => TypeOK'
<1> SUFFICES ASSUME TypeOK, [Next]_clientVars PROVE TypeOK'
  OBVIOUS
<1> USE DEF TypeOK, RequestSteps, Statuses
<1>1. ASSUME NEW s \in Slots, NEW status \in Statuses, NEW rows \in SUBSET Content,
             Respond(s, status, rows)
      PROVE  /\ request' \in [Slots -> [step : RequestSteps, rows : SUBSET Content]]
             /\ outcome' \in [Slots -> Statuses]
             /\ answers' \in [Slots -> Nat]
  BY <1>1 DEF Respond
<1>2. CASE OpenCatalog
  <2>1. CASE \E content \in Content : worker' = [worker EXCEPT !.step = "holding", !.rows = {content}]
    <3>1. PICK content \in Content : worker' = [worker EXCEPT !.step = "holding", !.rows = {content}]
      BY <2>1
    <3>2. {content} \in SUBSET Content
      OBVIOUS
    <3>3. QED
      BY <1>2, <3>1, <3>2 DEF OpenCatalog
  <2>2. CASE worker' = [worker EXCEPT !.step = "busy"] \/ worker' = [worker EXCEPT !.step = "error"]
    BY <1>2, <2>2 DEF OpenCatalog
  <2>3. QED
    BY <1>2, <2>1, <2>2 DEF OpenCatalog
<1>3. CASE FinishRead
  BY <1>3 DEF FinishRead
<1>4. CASE BeginClose \/ EndClose
  BY <1>4 DEF BeginClose, EndClose
<1>5. CASE ClientGone
  BY <1>5 DEF ClientGone, NoThread
<1>6. ASSUME NEW s \in Slots, Register(s) PROVE TypeOK'
  <2>1. CASE client = "open"
    BY <1>6, <2>1 DEF Register
  <2>2. CASE client # "open"
    BY <1>6, <2>2 DEF Register
  <2>3. QED
    BY <2>1, <2>2
<1>7. ASSUME NEW s \in Slots, StartRequest(s) PROVE TypeOK'
  BY <1>7, <1>1 DEF StartRequest
<1>8. ASSUME NEW s \in Slots, TakeLock(s) PROVE TypeOK'
  BY <1>8 DEF TakeLock
<1>9. ASSUME NEW s \in Slots, StartRead(s) PROVE TypeOK'
  BY <1>9, <1>1 DEF StartRead
<1>10. ASSUME NEW s \in Slots, ReadReturns(s) PROVE TypeOK'
  <2>1. Result(s) \in Statuses /\ worker.rows \in SUBSET Content
    BY DEF Result
  <2>2. QED
    BY <1>10, <2>1, <1>1 DEF ReadReturns, NoThread
<1>11. ASSUME NEW s \in Slots, TimesOut(s) PROVE TypeOK'
  BY <1>11, <1>1 DEF TimesOut
<1>12. ASSUME NEW s \in Slots, GiveUp(s) PROVE TypeOK'
  BY <1>12 DEF GiveUp
<1>13. ASSUME NEW s \in Slots, CancelTask(s) PROVE TypeOK'
  BY <1>13, <1>1 DEF CancelTask
<1>14. ASSUME NEW s \in Slots, Delivered(s) PROVE TypeOK'
  BY <1>14 DEF Delivered
<1>15. CASE UNCHANGED clientVars
  BY <1>15 DEF clientVars
<1>16. QED
  BY <1>2, <1>3, <1>4, <1>5, <1>6, <1>7, <1>8, <1>9, <1>10, <1>11, <1>12, <1>13, <1>14,
     <1>15 DEF Next

-----------------------------------------------------------------------------
(* The inductive invariant.                                                 *)

LEMMA InvInit == Init => ClientInv
  BY DEF Init, ClientInv, TypeOK, OneAnswer, LockHeld, OutcomeTells, ThreadRows, RequestSteps,
         Statuses, Unsettled, NoThread

\* An answer to an unsettled request, with rows only if they may be handed over.
LEMMA RespondKeeps ==
    ASSUME ClientInv, TypeOK', NEW s \in Slots, NEW status, NEW rows,
           request[s].step \in Unsettled,
           Respond(s, status, rows), UNCHANGED givenUp,
           status = "ok" => s \notin givenUp,
           \A t \in Slots \ {s} : request[t].step = "reading" => worker'.slot = t,
           ThreadRows'
    PROVE  ClientInv'
<1> USE DEF ClientInv, TypeOK
<1>1. OneAnswer'
  BY DEF OneAnswer, Respond, Unsettled
<1>2. LockHeld'
  BY DEF LockHeld, Respond
<1>3. OutcomeTells'
  BY DEF OutcomeTells, Respond, Unsettled
<1>4. QED
  BY <1>1, <1>2, <1>3

LEMMA InvStep == ClientInv /\ [Next]_clientVars => ClientInv'
<1> SUFFICES ASSUME ClientInv, [Next]_clientVars PROVE ClientInv'
  OBVIOUS
<1>1. TypeOK'
  BY TypeStep DEF ClientInv
<1>2. CASE OpenCatalog \/ FinishRead \/ BeginClose \/ EndClose
  <2>1. UNCHANGED <<request, outcome, answers, givenUp>> /\ worker'.slot = worker.slot
    BY <1>2 DEF OpenCatalog, FinishRead, BeginClose, EndClose, ClientInv, TypeOK
  <2>2. (OneAnswer /\ LockHeld /\ OutcomeTells)'
    BY <2>1 DEF ClientInv, OneAnswer, LockHeld, OutcomeTells
  <2>3. ThreadRows'
    BY <1>2 DEF OpenCatalog, FinishRead, BeginClose, EndClose, ClientInv, TypeOK, ThreadRows
  <2>4. QED
    BY <1>1, <2>2, <2>3 DEF ClientInv
<1>3. CASE ClientGone
  BY <1>1, <1>3 DEF ClientGone, ClientInv, OneAnswer, LockHeld, OutcomeTells, ThreadRows,
     NoThread, Unsettled
<1>4. ASSUME NEW s \in Slots, Register(s) PROVE ClientInv'
  <2>1. \A t \in Slots \ {s} : /\ request'[t] = request[t] /\ answers'[t] = answers[t]
                              /\ outcome'[t] = outcome[t] /\ (t \in givenUp' <=> t \in givenUp)
    BY <1>4 DEF Register, ClientInv, TypeOK
  <2>2. /\ request'[s].rows = {} /\ s \notin givenUp'
        /\ \/ request'[s].step = "registered" /\ outcome'[s] = "pending" /\ answers'[s] = 0
           \/ request'[s].step = "answered" /\ answers'[s] = 1
    <3>1. request[s].rows = {}
      BY <1>4 DEF Register, ClientInv, OneAnswer
    <3>2. CASE client = "open"
      BY <1>4, <3>1, <3>2 DEF Register, ClientInv, TypeOK
    <3>3. CASE client # "open"
      BY <1>4, <3>1, <3>3 DEF Register, ClientInv, TypeOK
    <3>4. QED
      BY <3>2, <3>3
  <2>3. UNCHANGED worker
    BY <1>4 DEF Register
  <2>4. OneAnswer'
    BY <2>1, <2>2, <2>3 DEF OneAnswer, ClientInv, Unsettled
  <2>5. (LockHeld /\ OutcomeTells /\ ThreadRows)'
    BY <2>1, <2>2, <2>3 DEF LockHeld, OutcomeTells, ThreadRows, ClientInv, Unsettled
  <2>6. QED
    BY <1>1, <2>4, <2>5 DEF ClientInv
<1>5. ASSUME NEW s \in Slots, StartRequest(s) PROVE ClientInv'
  <2>1. CASE client = "open"
    <3>1. /\ \A t \in Slots \ {s} : request'[t] = request[t]
          /\ request[s].step = "registered" /\ request'[s].step = "queued"
          /\ request'[s].rows = request[s].rows
          /\ UNCHANGED <<outcome, answers, givenUp, worker>>
      BY <1>5, <2>1 DEF StartRequest, ClientInv, TypeOK
    <3>2. OneAnswer'
      BY <3>1 DEF ClientInv, OneAnswer, Unsettled
    <3>3. (LockHeld /\ OutcomeTells /\ ThreadRows)'
      BY <3>1 DEF ClientInv, LockHeld, OutcomeTells, ThreadRows, Unsettled
    <3>4. QED
      BY <1>1, <3>2, <3>3 DEF ClientInv
  <2>2. CASE client # "open"
    BY <1>1, <1>5, <2>2, RespondKeeps
       DEF StartRequest, Unsettled, ClientInv, OneAnswer, ThreadRows
  <2>3. QED
    BY <2>1, <2>2
<1>6. ASSUME NEW s \in Slots, TakeLock(s) PROVE ClientInv'
  BY <1>1, <1>6 DEF TakeLock, LockIsFree, ClientInv, TypeOK, OneAnswer, LockHeld, OutcomeTells,
     ThreadRows, Unsettled
<1>7. ASSUME NEW s \in Slots, StartRead(s) PROVE ClientInv'
  <2>1. CASE outcome[s] = "pending"
    BY <1>1, <1>7, <2>1 DEF StartRead, ClientInv, TypeOK, OneAnswer, LockHeld, OutcomeTells,
       ThreadRows, Unsettled
  <2>2. CASE outcome[s] # "pending"
    BY <1>1, <1>7, <2>2, RespondKeeps
       DEF StartRead, Unsettled, ClientInv, OneAnswer, ThreadRows
  <2>3. QED
    BY <2>1, <2>2
<1>8. ASSUME NEW s \in Slots, ReadReturns(s) PROVE ClientInv'
  <2>1. request[s].step \in Unsettled /\ Respond(s, Result(s), worker.rows)
    BY <1>8 DEF ReadReturns, Unsettled
  <2>2. Result(s) = "ok" => s \notin givenUp
    BY <2>1 DEF Result, ClientInv, OutcomeTells
  <2>3. \A t \in Slots \ {s} : request[t].step # "reading"
    BY <1>8 DEF ReadReturns, ClientInv, LockHeld
  <2>4. ThreadRows' /\ UNCHANGED givenUp
    BY <1>8 DEF ReadReturns, ThreadRows, NoThread
  <2>5. QED
    BY <1>1, <2>1, <2>2, <2>3, <2>4, RespondKeeps
<1>9. ASSUME NEW s \in Slots, TimesOut(s) \/ CancelTask(s) PROVE ClientInv'
  <2>1. /\ request[s].step \in Unsettled /\ UNCHANGED <<givenUp, worker>>
        /\ Respond(s, "failed", {}) \/ Respond(s, "cancelled", {})
    BY <1>9 DEF TimesOut, CancelTask, Cancellable, Deadlined, Unsettled
  <2>2. QED
    BY <1>1, <2>1, RespondKeeps DEF ClientInv, OneAnswer, ThreadRows
<1>10. ASSUME NEW s \in Slots, GiveUp(s) PROVE ClientInv'
  BY <1>1, <1>10 DEF GiveUp, ClientInv, TypeOK, OneAnswer, LockHeld, OutcomeTells, ThreadRows,
     Unsettled
<1>11. ASSUME NEW s \in Slots, Delivered(s) PROVE ClientInv'
  BY <1>1, <1>11 DEF Delivered, ClientInv, TypeOK, OneAnswer, LockHeld, OutcomeTells,
     ThreadRows, Unsettled
<1>12. CASE UNCHANGED clientVars
  BY <1>1, <1>12 DEF clientVars, ClientInv, TypeOK, OneAnswer, LockHeld, OutcomeTells,
     ThreadRows, Unsettled
<1>13. QED
  BY <1>2, <1>3, <1>4, <1>5, <1>6, <1>7, <1>8, <1>9, <1>10, <1>11, <1>12 DEF Next

LEMMA InvHolds == Spec => []ClientInv
  BY InvInit, InvStep, PTL DEF Spec

\* The state of the client keeps its types (live/catalog_client.py).
THEOREM ClientTypeCorrect == Spec => []TypeOK
<1>1. ClientInv => TypeOK
  BY DEF ClientInv
<1>2. QED
  BY <1>1, InvHolds, PTL

\* Every request is answered exactly once, whatever deadlines, requesters, the thread
\* and the disconnection do (live/catalog_client.py:69-90, 123-152).
THEOREM AnsweredOnce == Spec => []OneAnswer
<1>1. ClientInv => OneAnswer
  BY DEF ClientInv
<1>2. QED
  BY <1>1, InvHolds, PTL

-----------------------------------------------------------------------------
(* Refinement.                                                              *)

LEMMA PromiseInitHolds == Init => Promise!PromiseInit
  BY DEF Init, Promise!PromiseInit, Promise!At, Seen, ReadFor, Unsettled

\* A step that changes neither what a requester sees nor what is read for it.
LEMMA Stutters ==
    ASSUME \A t \in Slots : Seen(t)' = Seen(t) /\ ReadFor(t)' = ReadFor(t)
    PROVE  UNCHANGED Promise!promiseVars
  BY DEF Promise!promiseVars

\* An unsettled request that is answered without rows.
LEMMA RefusesOne ==
    ASSUME ClientInv, NEW s \in Slots, NEW status \in Statuses \ {"ok"}, NEW rows,
           request[s].step \in Unsettled, Respond(s, status, rows), UNCHANGED givenUp,
           \A t \in Slots \ {s} : request[t].step = "reading" => UNCHANGED worker
    PROVE  Promise!PromiseNext
<1>1. /\ request'[s] = [step |-> "answered", rows |-> {}]
      /\ \A t \in Slots \ {s} : request'[t] = request[t]
  BY DEF Respond, ClientInv, TypeOK
<1>2. /\ Seen(s).step \in {"open", "dropped"}
      /\ Seen(s)' = [step |-> "answered", answer |-> {}]
      /\ ReadFor(s)' = {}
  BY <1>1 DEF Seen, ReadFor, Unsettled
<1>3. \A t \in Slots \ {s} : Seen(t)' = Seen(t) /\ ReadFor(t)' = ReadFor(t)
  BY <1>1 DEF Seen, ReadFor
<1>4. Promise!Refuse(s)
  BY <1>2, <1>3 DEF Promise!Refuse, Promise!At
<1>5. QED
  BY <1>4 DEF Promise!PromiseNext

LEMMA PromiseStep ==
    ASSUME ClientInv, [Next]_clientVars
    PROVE  [Promise!PromiseNext]_(Promise!promiseVars)
<1>1. CASE OpenCatalog
  <2>1. UNCHANGED <<request, givenUp>> /\ worker'.slot = worker.slot /\ worker.rows = {}
    BY <1>1 DEF OpenCatalog, ClientInv, TypeOK, ThreadRows
  <2>2. CASE worker'.rows = {}
    BY <2>1, <2>2, Stutters DEF Seen, ReadFor
  <2>3. CASE worker'.rows # {}
    <3>1. PICK content \in Content : worker'.rows = {content}
      BY <1>1, <2>1, <2>3 DEF OpenCatalog, ClientInv, TypeOK
    <3>2. CASE \A t \in Slots : ReadFor(t)' = ReadFor(t)
      BY <2>1, <3>2, Stutters DEF Seen
    <3>3. CASE \E t \in Slots : ReadFor(t)' # ReadFor(t)
      <4>1. PICK s \in Slots : ReadFor(s)' # ReadFor(s)
        BY <3>3
      <4>2. /\ request[s].step = "reading" /\ s \notin givenUp
            /\ ReadFor(s) = {} /\ ReadFor(s)' = {content}
        BY <2>1, <3>1, <4>1 DEF ReadFor
      <4>3. \A t \in Slots \ {s} : ReadFor(t)' = ReadFor(t)
        BY <2>1, <4>2 DEF ReadFor, ClientInv, LockHeld
      <4>4. Seen(s).step = "open" /\ \A t \in Slots : Seen(t)' = Seen(t)
        BY <2>1, <4>2 DEF Seen, Unsettled
      <4>5. Promise!Take(s, content)
        BY <4>2, <4>3, <4>4 DEF Promise!Take
      <4>6. QED
        BY <4>5 DEF Promise!PromiseNext
    <3>4. QED
      BY <3>2, <3>3
  <2>4. QED
    BY <2>2, <2>3
<1>2. CASE FinishRead
  <2>1. UNCHANGED <<request, givenUp>> /\ worker'.rows \in {worker.rows, {}}
    BY <1>2 DEF FinishRead, ClientInv, TypeOK
  <2>2. CASE \A t \in Slots : ReadFor(t)' = ReadFor(t)
    BY <2>1, <2>2, Stutters DEF Seen
  <2>3. CASE \E t \in Slots : ReadFor(t)' # ReadFor(t)
    <3>1. PICK s \in Slots : ReadFor(s)' # ReadFor(s)
      BY <2>3
    <3>2. request[s].step = "reading" /\ ReadFor(s) # {} /\ ReadFor(s)' = {}
      BY <2>1, <3>1 DEF ReadFor
    <3>3. \A t \in Slots \ {s} : ReadFor(t)' = ReadFor(t)
      BY <2>1, <3>2 DEF ReadFor, ClientInv, LockHeld
    <3>4. \A t \in Slots : Seen(t)' = Seen(t)
      BY <2>1 DEF Seen
    <3>5. Promise!Forget(s)
      BY <3>2, <3>3, <3>4 DEF Promise!Forget
    <3>6. QED
      BY <3>5 DEF Promise!PromiseNext
  <2>4. QED
    BY <2>2, <2>3
<1>3. CASE BeginClose \/ EndClose \/ UNCHANGED clientVars
  <2>1. UNCHANGED <<request, givenUp, worker>>
    BY <1>3 DEF BeginClose, EndClose, clientVars
  <2>2. QED
    BY <2>1, Stutters DEF Seen, ReadFor
<1>4. CASE ClientGone
  <2>1. \A t \in Slots : Seen(t)' = [step |-> "free", answer |-> {}] /\ ReadFor(t)' = {}
    BY <1>4 DEF ClientGone, Seen, ReadFor, Unsettled
  <2>2. Promise!Lose
    BY <2>1 DEF Promise!Lose, Promise!At
  <2>3. QED
    BY <2>2 DEF Promise!PromiseNext
<1>5. ASSUME NEW s \in Slots, Register(s) PROVE Promise!PromiseNext
  <2>1. /\ request[s].step = "free" /\ request[s].rows = {} /\ request'[s].rows = {}
        /\ request'[s].step = IF client = "open" THEN "registered" ELSE "answered"
        /\ s \notin givenUp'
        /\ \A t \in Slots \ {s} : request'[t] = request[t] /\ (t \in givenUp' <=> t \in givenUp)
        /\ UNCHANGED worker
    BY <1>5 DEF Register, ClientInv, TypeOK, OneAnswer
  <2>2. \A t \in Slots \ {s} : Seen(t)' = Seen(t)
    BY <2>1 DEF Seen
  <2>3. \A t \in Slots : ReadFor(t)' = ReadFor(t)
    BY <2>1 DEF ReadFor
  <2>4. /\ Seen(s).step = "free"
        /\ Seen(s)' = [step |-> IF client = "open" THEN "open" ELSE "answered", answer |-> {}]
    BY <2>1 DEF Seen, Unsettled
  <2>5. Promise!Ask(s) \/ Promise!AskInVain(s)
    BY <2>2, <2>3, <2>4 DEF Promise!Ask, Promise!AskInVain, Promise!At
  <2>6. QED
    BY <2>5 DEF Promise!PromiseNext
<1>6. ASSUME NEW s \in Slots, StartRequest(s) PROVE [Promise!PromiseNext]_(Promise!promiseVars)
  <2>1. CASE client = "open"
    <3>1. /\ request[s].step = "registered" /\ request'[s].step = "queued"
          /\ request'[s].rows = request[s].rows /\ UNCHANGED <<givenUp, worker>>
          /\ \A t \in Slots \ {s} : request'[t] = request[t]
      BY <1>6, <2>1 DEF StartRequest, ClientInv, TypeOK
    <3>2. QED
      BY <3>1, Stutters DEF Seen, ReadFor, Unsettled
  <2>2. CASE client # "open"
    BY <1>6, <2>2, RefusesOne DEF StartRequest, Unsettled, Statuses
  <2>3. QED
    BY <2>1, <2>2
<1>7. ASSUME NEW s \in Slots, TakeLock(s) PROVE UNCHANGED Promise!promiseVars
  <2>1. /\ request[s].step = "queued" /\ request'[s].step = "waiting"
        /\ request'[s].rows = request[s].rows /\ UNCHANGED <<givenUp, worker>>
        /\ \A t \in Slots \ {s} : request'[t] = request[t]
    BY <1>7 DEF TakeLock, ClientInv, TypeOK
  <2>2. QED
    BY <2>1, Stutters DEF Seen, ReadFor, Unsettled
<1>8. ASSUME NEW s \in Slots, StartRead(s) PROVE [Promise!PromiseNext]_(Promise!promiseVars)
  <2>1. CASE outcome[s] = "pending"
    <3>1. /\ request[s].step = "waiting" /\ request'[s].step = "reading" /\ worker'.rows = {}
          /\ request'[s].rows = request[s].rows /\ UNCHANGED givenUp
          /\ \A t \in Slots \ {s} : request'[t] = request[t]
      BY <1>8, <2>1 DEF StartRead, ClientInv, TypeOK
    <3>2. \A t \in Slots \ {s} : request[t].step # "reading"
      BY <3>1 DEF ClientInv, LockHeld
    <3>3. QED
      BY <3>1, <3>2, Stutters DEF Seen, ReadFor, Unsettled
  <2>2. CASE outcome[s] # "pending"
    BY <1>8, <2>2, RefusesOne DEF StartRead, Unsettled, Statuses
  <2>3. QED
    BY <2>1, <2>2
<1>9. ASSUME NEW s \in Slots, ReadReturns(s) PROVE Promise!PromiseNext
  <2>1. /\ request[s].step = "reading" /\ worker.slot = s /\ UNCHANGED givenUp
        /\ Respond(s, Result(s), worker.rows)
    BY <1>9 DEF ReadReturns
  <2>2. \A t \in Slots \ {s} : request[t].step # "reading"
    BY <2>1 DEF ClientInv, LockHeld
  <2>3. CASE Result(s) # "ok"
    <3>1. Result(s) \in Statuses \ {"ok"} /\ request[s].step \in Unsettled
      BY <2>1, <2>3 DEF Result, Statuses, Unsettled, ClientInv, TypeOK
    <3>2. QED
      BY <2>1, <2>2, <3>1, RefusesOne
  <2>4. CASE Result(s) = "ok"
    <3>1. s \notin givenUp /\ worker.step = "done" /\ worker.rows # {}
      BY <2>1, <2>4 DEF Result, ClientInv, OutcomeTells, ThreadRows, Unsettled
    <3>2. /\ request'[s] = [step |-> "answered", rows |-> worker.rows]
          /\ \A t \in Slots \ {s} : request'[t] = request[t]
      BY <2>1, <2>4 DEF Respond, ClientInv, TypeOK
    <3>3. /\ Seen(s).step = "open" /\ ReadFor(s) = worker.rows /\ ReadFor(s)' = {}
          /\ Seen(s)' = [step |-> "answered", answer |-> ReadFor(s)]
      BY <2>1, <3>1, <3>2 DEF Seen, ReadFor, Unsettled
    <3>4. \A t \in Slots \ {s} : Seen(t)' = Seen(t) /\ ReadFor(t)' = ReadFor(t)
      BY <2>1, <2>2, <3>2 DEF Seen, ReadFor
    <3>5. Promise!Answer(s)
      BY <3>1, <3>3, <3>4 DEF Promise!Answer
    <3>6. QED
      BY <3>5 DEF Promise!PromiseNext
  <2>5. QED
    BY <2>3, <2>4
<1>10. ASSUME NEW s \in Slots, TimesOut(s) \/ CancelTask(s) PROVE Promise!PromiseNext
  <2>1. /\ request[s].step \in Unsettled /\ UNCHANGED <<givenUp, worker>>
        /\ Respond(s, "failed", {}) \/ Respond(s, "cancelled", {})
    BY <1>10 DEF TimesOut, CancelTask, Cancellable, Deadlined, Unsettled
  <2>2. QED
    BY <2>1, RefusesOne DEF Statuses
<1>11. ASSUME NEW s \in Slots, GiveUp(s) PROVE [Promise!PromiseNext]_(Promise!promiseVars)
  <2>1. UNCHANGED <<request, worker>>
    BY <1>11 DEF GiveUp
  <2>2. CASE givenUp' = givenUp
    BY <2>1, <2>2, Stutters DEF Seen, ReadFor
  <2>3. CASE givenUp' # givenUp
    <3>1. request[s].step \in Unsettled /\ s \notin givenUp /\ givenUp' = givenUp \cup {s}
      BY <1>11, <2>3 DEF GiveUp
    <3>2. /\ Seen(s).step = "open" /\ Seen(s)' = [step |-> "dropped", answer |-> {}]
          /\ ReadFor(s)' = {}
      BY <2>1, <3>1 DEF Seen, ReadFor, Unsettled, ClientInv, OneAnswer
    <3>3. \A t \in Slots \ {s} : Seen(t)' = Seen(t) /\ ReadFor(t)' = ReadFor(t)
      BY <2>1, <3>1 DEF Seen, ReadFor
    <3>4. Promise!Drop(s)
      BY <3>2, <3>3 DEF Promise!Drop, Promise!At
    <3>5. QED
      BY <3>4 DEF Promise!PromiseNext
  <2>4. QED
    BY <2>2, <2>3
<1>12. ASSUME NEW s \in Slots, Delivered(s) PROVE Promise!PromiseNext
  <2>1. /\ request[s].step = "answered" /\ request'[s] = [step |-> "free", rows |-> {}]
        /\ UNCHANGED <<givenUp, worker>> /\ \A t \in Slots \ {s} : request'[t] = request[t]
    BY <1>12 DEF Delivered, ClientInv, TypeOK
  <2>2. \A t \in Slots : ReadFor(t)' = ReadFor(t)
    BY <2>1 DEF ReadFor
  <2>3. /\ Seen(s).step = "answered" /\ Seen(s)' = [step |-> "free", answer |-> {}]
        /\ \A t \in Slots \ {s} : Seen(t)' = Seen(t)
    BY <2>1 DEF Seen, Unsettled
  <2>4. Promise!HandOver(s)
    BY <2>2, <2>3 DEF Promise!HandOver, Promise!At
  <2>5. QED
    BY <2>4 DEF Promise!PromiseNext
<1>13. QED
  BY <1>1, <1>2, <1>3, <1>4, <1>5, <1>6, <1>7, <1>8, <1>9, <1>10, <1>11, <1>12 DEF Next

\* An answer is one reading of the Catalog made for this request while it was open and
\* not given up, or nothing (live/catalog_client.py:121-155).
THEOREM ClientKeepsPromise == Spec => KeepsPromise
<1>1. ClientInv /\ [Next]_clientVars => [Promise!PromiseNext]_(Promise!promiseVars)
  BY PromiseStep
<1>2. QED
  BY <1>1, InvHolds, PromiseInitHolds, PTL DEF Spec, KeepsPromise, Promise!PromiseSpec
===============================================================================
