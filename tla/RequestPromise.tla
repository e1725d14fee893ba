----------------------------- MODULE RequestPromise -----------------------------
(***************************************************************************)
(* What the node's Catalog client promises to those who ask it for history *)
(* (NautilusTrader's request and response): every request is answered      *)
(* exactly once, either with what one read of the Catalog held while the   *)
(* request was open, and then only if its requester had not given it up,   *)
(* or with nothing.  CatalogClient implements it, FactorPath relies on it. *)
(***************************************************************************)
CONSTANTS Slots, Content   \* Content: what a read of the Catalog may return

VARIABLES slot,     \* per slot: "free", "open", "dropped", "answered", and its answer
          taken     \* per slot: what has been read for it

\* Answers and readings are sets of at most one content; an empty answer is a failure.

promiseVars == <<slot, taken>>

At(step) == [step |-> step, answer |-> {}]

PromiseInit ==
    /\ slot = [s \in Slots |-> At("free")]
    /\ taken = [s \in Slots |-> {}]

Ask(s) == /\ slot[s].step = "free"
          /\ slot' = [slot EXCEPT ![s] = At("open")]
          /\ UNCHANGED taken

\* A client that is closing answers at once.
AskInVain(s) == /\ slot[s].step = "free"
                /\ slot' = [slot EXCEPT ![s] = At("answered")]
                /\ UNCHANGED taken

Take(s, content) == /\ slot[s].step = "open" /\ taken[s] = {}
                    /\ taken' = [taken EXCEPT ![s] = {content}]
                    /\ UNCHANGED slot

\* The read fails in the end.
Forget(s) == /\ taken[s] # {}
             /\ taken' = [taken EXCEPT ![s] = {}]
             /\ UNCHANGED slot

\* The requester gives the request up.
Drop(s) == /\ slot[s].step = "open"
           /\ slot' = [slot EXCEPT ![s] = At("dropped")]
           /\ taken' = [taken EXCEPT ![s] = {}]

Refuse(s) == /\ slot[s].step \in {"open", "dropped"}
             /\ slot' = [slot EXCEPT ![s] = At("answered")]
             /\ taken' = [taken EXCEPT ![s] = {}]

Answer(s) == /\ slot[s].step = "open" /\ taken[s] # {}
             /\ slot' = [slot EXCEPT ![s] = [step |-> "answered", answer |-> taken[s]]]
             /\ taken' = [taken EXCEPT ![s] = {}]

HandOver(s) == /\ slot[s].step = "answered"
              /\ slot' = [slot EXCEPT ![s] = At("free")]
              /\ UNCHANGED taken

\* The process ends with all its requests.
Lose == /\ slot' = [s \in Slots |-> At("free")]
        /\ taken' = [s \in Slots |-> {}]

PromiseNext ==
    \/ \E s \in Slots :
          \/ Ask(s) \/ AskInVain(s) \/ Forget(s) \/ Drop(s)
          \/ Refuse(s) \/ Answer(s) \/ HandOver(s)
          \/ \E content \in Content : Take(s, content)
    \/ Lose

PromiseSpec == PromiseInit /\ [][PromiseNext]_promiseVars
===============================================================================
