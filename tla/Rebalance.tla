-------------------------------- MODULE Rebalance --------------------------------
(***************************************************************************)
(* The orders of one signal, from the plan to the last fill: what          *)
(* SignalWorkflow shows as one event.  Sells leave first; the buys follow  *)
(* in a callback of the last sell's fill.  The gateway's callbacks run to  *)
(* their end one after the other; a step here ends at a database           *)
(* transaction or at submit_order, because the node can crash there and, in *)
(* a backtest, an order's own events come back inside submit_order.        *)
(*                                                                         *)
(* External: the NautilusTrader cache (native orders, fills applied), and  *)
(* the venue, whose messages come in any order, can be lost with the       *)
(* connection, and are found again, once or more, in reconciliation        *)
(* reports.  Every order is for an instrument of its own and Qty shares,   *)
(* each of which trades with an id of its own.                             *)
(***************************************************************************)
EXTENDS Naturals, Sequences, FiniteSets, SequencesExt

CONSTANTS
    Sells, Buys,  \* the orders a plan may hold
    Qty,          \* shares per order
    Windows,      \* how the window may start: "open" for patchtst_e3, "none" for momentum
    MaxFaults,    \* bound: lost messages, failing callbacks, refusals, manual trades, crashes
    None

Orders == Sells \cup Buys
Shares == 1..Qty
Inferred == 0   \* the id of a fill that NT makes up while it reconciles

ASSUME RebalanceAssumption ==
    /\ IsFiniteSet(Sells) /\ IsFiniteSet(Buys) /\ Sells \cap Buys = {}
    /\ Qty \in Nat \ {0}
    /\ Windows \subseteq {"open", "none"}
    /\ MaxFaults \in Nat
    /\ None \notin Orders /\ \A B \in SUBSET Orders : None # B
    /\ None \notin {"OPEN", "PARTIAL", "CLOSED", "FILLED", "open", "canceling", "closed"}

VARIABLES
    \* live.db
    ledger,     \* status of each order by priority: None, "OPEN", "PARTIAL", ...
    recorded,   \* trade ids in the fills table
    skip,       \* an execution SKIP of this signal's date stands
    \* gateway memory
    known,      \* _order_contexts
    pending,    \* _pending_buys: None or the buys of the plan
    openSells,  \* _open_sells: None or a set
    failed,     \* _failed_signals
    recovery,   \* _recovery_error is set
    loop,       \* the submission in hand
    \* NautilusTrader
    native,     \* cached state of each order: None, "open", "canceling", "closed"
    cached,     \* shares of each order the cached positions count
    \* venue and world
    venue,      \* "none", "sent", "working", "filled", "closed"
    traded,     \* shares traded so far
    cancels,    \* cancel requests the venue has not answered
    wire,       \* messages on their way to the node
    plan,       \* the orders of the approved plan; None before _execute_plan
    gate,       \* the broker session and the account are ready
    window,     \* the execution window of the signal: "open", "closed" or "none"
    foreign,    \* the account holds something that no order explains
    faults

durable == <<ledger, recorded, skip>>
batch   == <<pending, openSells, failed>>
memory  == <<known, batch, recovery, loop>>
cache   == <<native, cached>>
broker  == <<venue, traded, cancels, wire>>
world   == <<plan, gate, window, foreign>>
vars    == <<durable, memory, cache, broker, world, faults>>

\* ORDER_STATUS_PRIORITY: created, submitted and accepted count alike.
Ranks == <<"OPEN", "PARTIAL", "CLOSED", "FILLED">>
Rank(status) == IF status = None THEN 0 ELSE CHOOSE i \in 1..4 : Ranks[i] = status
Raised(o, status) == [ledger EXCEPT ![o] = IF Rank(@) < Rank(status) THEN status ELSE @]

NoLoop == [step |-> "idle", orders |-> {}, todo |-> <<>>, last |-> None]

Init ==
    /\ ledger = [o \in Orders |-> None]
    /\ recorded = [o \in Orders |-> {}]
    /\ skip = FALSE
    /\ known = {} /\ pending = None /\ openSells = None /\ failed = FALSE
    /\ recovery = FALSE /\ loop = NoLoop
    /\ native = [o \in Orders |-> None]
    /\ cached = [o \in Orders |-> {}]
    /\ venue = [o \in Orders |-> "none"]
    /\ traded = [o \in Orders |-> 0]
    /\ cancels = {} /\ wire = {}
    /\ plan = None /\ gate = TRUE /\ window \in Windows /\ foreign = FALSE
    /\ faults = 0

Fault == faults < MaxFaults /\ faults' = faults + 1

-----------------------------------------------------------------------------
(* What a submission looks at.                                             *)

\* patchtst_e3: its signals have a window, SKIP rows and replanned buys.
Factor == window # "none"

\* _factor_rejection and _account_rejection.
Barred   == Factor /\ (window = "closed" \/ skip)
Rejected == ~gate \/ recovery \/ Barred

\* _ownership_rejection(positions_only): the fills table explains every position.
ExplainedBy(fills, positions) ==
    ~foreign /\ \A o \in Orders : Cardinality(fills[o]) = Cardinality(positions[o])
Explained == ExplainedBy(recorded, cached)

\* (mutant) what NT no longer shows is taken for done
ResolvedNatively == \A o \in Orders : native[o] \notin {"open", "canceling"}

\* _ownership_rejection, the rest: nothing open, nothing unresolved, no fill missing.
Resolved ==
    \A o \in Orders :
        /\ native[o] \notin {"open", "canceling"}
        /\ ledger[o] \in {None, "CLOSED", "FILLED"}
        /\ ledger[o] = "FILLED" => Cardinality(recorded[o]) = Qty
        /\ ledger[o] = "CLOSED" /\ native[o] # None
              => Cardinality(recorded[o]) = Cardinality(cached[o])

-----------------------------------------------------------------------------
(* _execute_plan and _submit_orders.                                       *)

Submission(orders) == [NoLoop EXCEPT !.step = "prepare", !.orders = orders]

\* SignalWorkflow lets a signal be executed once.
Execute(orders) ==
    /\ plan = None /\ loop = NoLoop
    /\ plan' = orders
    /\ IF orders \cap Sells = {}
       THEN loop' = Submission(orders) /\ UNCHANGED <<pending, openSells>>
       ELSE /\ pending' = orders \cap Buys /\ openSells' = {}
            /\ loop' = Submission(orders \cap Sells)
    /\ UNCHANGED <<durable, known, failed, recovery, cache, broker, gate, window, foreign,
                   faults>>

\* The whole batch is refused on a position no fill explains.
RefuseBatch ==
    /\ loop.step = "prepare" /\ ~Explained
    /\ skip' = (skip \/ Factor)
    /\ pending' = None /\ failed' = TRUE /\ loop' = NoLoop
    /\ UNCHANGED <<ledger, recorded, known, openSells, recovery, cache, broker, world, faults>>

\* Or given up before anything is registered (what was pending stays pending).
GiveUpBatch ==
    /\ loop.step = "prepare" /\ Explained
    /\ loop.orders # {} /\ Rejected
    /\ skip' = (skip \/ Factor)
    /\ loop' = NoLoop
    /\ UNCHANGED <<ledger, recorded, known, batch, recovery, cache, broker, world, faults>>

\* Every sell is registered before the first leaves.
Prepare ==
    /\ loop.step = "prepare" /\ Explained
    /\ loop.orders = {} \/ ~Rejected
    /\ \E todo \in SetToSeqs(loop.orders) :
          loop' = IF todo = <<>> THEN NoLoop ELSE [NoLoop EXCEPT !.step = "send", !.todo = todo]
    /\ known' = known \cup loop.orders
    /\ openSells' = IF loop.orders \cap Sells = {} THEN openSells
                    ELSE openSells \cup (loop.orders \cap Sells)
    /\ UNCHANGED <<durable, pending, failed, recovery, cache, broker, world, faults>>

Sending == loop.step = "send"

\* (mutant) the loop does not look at the failures
HaltsNever == FALSE

Halts == failed

StopAtFailure ==
    /\ Sending /\ Halts
    /\ loop' = NoLoop
    /\ UNCHANGED <<durable, known, batch, recovery, cache, broker, world, faults>>

StopAtRejection ==
    /\ Sending /\ ~Halts /\ Rejected
    /\ skip' = (skip \/ Factor)
    /\ pending' = None /\ failed' = TRUE
    /\ openSells' = IF openSells = None THEN None
                    ELSE openSells \ {loop.todo[i] : i \in 1..Len(loop.todo)}
    /\ loop' = NoLoop
    /\ UNCHANGED <<ledger, recorded, known, recovery, cache, broker, world, faults>>

\* (mutant) the order leaves before its row is written
CreateLate == UNCHANGED ledger

\* The order is on disk before it leaves: the row CREATED.
CreateRow == ledger' = Raised(loop.todo[1], "OPEN")

CreateOrder ==
    /\ Sending /\ ~Halts /\ ~Rejected
    /\ CreateRow
    /\ loop' = [loop EXCEPT !.step = "submit"]
    /\ UNCHANGED <<recorded, skip, known, batch, recovery, cache, broker, world, faults>>

Onward(rest) ==
    IF rest = <<>> THEN NoLoop
    ELSE [loop EXCEPT !.step = "send", !.todo = rest, !.last = loop.todo[1]]

SubmitOrder ==
    /\ loop.step = "submit"
    /\ venue' = [venue EXCEPT ![loop.todo[1]] = "sent"]
    /\ native' = [native EXCEPT ![loop.todo[1]] = "open"]
    /\ loop' = Onward(Tail(loop.todo))
    /\ UNCHANGED <<durable, known, batch, recovery, cached, traded, cancels, wire, world,
                   faults>>

\* A transaction that raises ends the callback: what was not sent stays unsent.
SubmissionFails ==
    /\ loop.step \in {"send", "replan", "prepare"} /\ Fault
    /\ loop' = NoLoop
    /\ UNCHANGED <<durable, known, batch, recovery, cache, broker, world>>

\* After the sells a factor signal is planned again; only its buys are sent.
Replan ==
    /\ loop.step = "replan"
    /\ \/ /\ ~Rejected /\ Explained /\ Resolved
          /\ \E buys \in SUBSET Buys : loop' = Submission(buys)
          /\ UNCHANGED skip
       \/ /\ skip' = TRUE /\ loop' = NoLoop
    /\ UNCHANGED <<ledger, recorded, known, batch, recovery, cache, broker, world, faults>>

-----------------------------------------------------------------------------
(* The gateway's handlers, over what NT has just made of its cache.        *)

\* Events of an order come back inside its submit_order or in a turn of their own.
Handles(o) == loop = NoLoop \/ (Sending /\ loop.last = o)

\* (mutant) the first sell that ends is enough
EndsSellsFirst(o) == o \in Sells /\ openSells # None

\* The last of the registered sells.
EndsSells(o) == o \in Sells /\ openSells # None /\ openSells \subseteq {o}

\* _finish_sell: a failed buy stops its siblings, the last sell releases the buys
\* unless one of the batch failed.
Finish(o, bad, shown) ==
    LET siblings == {p \in known : p # o /\ shown[p] = "open"}
        stops == bad /\ o \in Buys
    IN  /\ openSells' = IF EndsSells(o) THEN None
                        ELSE IF o \in Sells /\ openSells # None THEN openSells \ {o}
                        ELSE openSells
        /\ pending' = IF EndsSells(o) THEN None ELSE pending
        /\ failed' = ((failed \/ bad) /\ ~EndsSells(o))
        /\ loop' = IF ~EndsSells(o) \/ failed \/ bad \/ pending = None THEN loop
                   ELSE IF Factor THEN [NoLoop EXCEPT !.step = "replan"]
                   ELSE Submission(pending)
        /\ skip' = (skip \/ (stops /\ Factor))
        /\ cancels' = IF stops THEN cancels \cup siblings ELSE cancels
        /\ native' = [p \in Orders |-> IF stops /\ p \in siblings THEN "canceling" ELSE shown[p]]

\* No more than the cache changes.
NothingMore(shown) ==
    native' = shown /\ UNCHANGED <<batch, loop, skip, cancels>>

\* (mutant) the quantity of this fill alone
FillStatusAlone(fills) == IF Qty = 1 THEN "FILLED" ELSE "PARTIAL"

FillStatus(fills) == IF Cardinality(fills) = Qty THEN "FILLED" ELSE "PARTIAL"

\* _accept_fill for a live event (live) or a report, with the cached positions after it.
AcceptFill(o, id, live, shown, positions) ==
    LET fills == [recorded EXCEPT ![o] = @ \cup {id}]
    IN  IF id \in recorded[o]
        THEN NothingMore(shown) /\ UNCHANGED <<recorded, ledger, gate>>
        ELSE /\ recorded' = fills
             /\ ledger' = Raised(o, FillStatus(fills[o]))
             /\ IF live /\ ~ExplainedBy(fills, positions)
                THEN /\ pending' = None /\ failed' = TRUE /\ gate' = FALSE
                     /\ native' = shown
                     /\ UNCHANGED <<openSells, loop, skip, cancels>>
                ELSE /\ UNCHANGED gate
                     /\ IF FillStatus(fills[o]) = "FILLED" THEN Finish(o, FALSE, shown)
                                                            ELSE NothingMore(shown)

Owned(o) == ledger[o] # None

\* _accept_fill raises, or is refused, on its way: the audits cannot be read, the fill
\* cannot be written, or it is written and the positions cannot be compared.
AcceptFails(o, id) ==
    \/ known' \in {known, known \cup {o}} /\ UNCHANGED <<recorded, ledger, recovery, gate>>
    \/ /\ known' = known \cup {o} /\ recovery' = TRUE /\ gate' = FALSE
       /\ UNCHANGED <<recorded, ledger>>
    \/ /\ Owned(o) /\ id \notin recorded[o]
       /\ recorded' = [recorded EXCEPT ![o] = @ \cup {id}]
       /\ ledger' = Raised(o, FillStatus(recorded'[o]))
       /\ known' = known \cup {o} /\ UNCHANGED <<recovery, gate>>

DeliverFill(o, id) ==
    LET positions == [cached EXCEPT ![o] = @ \cup {id}]
        shown == [native EXCEPT ![o] = IF Cardinality(positions[o]) = Qty THEN "closed" ELSE @]
    IN  /\ <<o, "fill", id>> \in wire /\ Handles(o)
        /\ wire' = wire \ {<<o, "fill", id>>}
        /\ cached' = positions
        /\ IF id \in cached[o]
           THEN NothingMore(native) /\ UNCHANGED <<recorded, ledger, gate, recovery, known, faults>>
           ELSE \/ /\ Owned(o) /\ AcceptFill(o, id, TRUE, shown, positions)
                   /\ known' = known \cup {o} /\ UNCHANGED <<recovery, faults>>
                \/ Fault /\ AcceptFails(o, id) /\ NothingMore(shown)
        /\ UNCHANGED <<venue, traded, plan, window, foreign>>

\* Canceled, expired, rejected or denied.  The context, the row or, after it, the SKIP for
\* a failed buy may raise.
DeliverClosed(o) ==
    LET shown == [native EXCEPT ![o] = "closed"]
    IN  /\ <<o, "closed", 0>> \in wire /\ Handles(o)
        /\ wire' = wire \ {<<o, "closed", 0>>}
        /\ \/ /\ Owned(o) /\ ledger' = Raised(o, "CLOSED") /\ Finish(o, TRUE, shown)
              /\ known' = known \cup {o} /\ UNCHANGED faults
           \/ /\ Fault /\ Owned(o) /\ o \in Buys /\ ledger' = Raised(o, "CLOSED")
              /\ known' = known \cup {o} /\ failed' = TRUE /\ native' = shown
              /\ UNCHANGED <<pending, openSells, loop, skip, cancels>>
           \/ /\ Fault /\ known' \in {known, known \cup {o}}
              /\ NothingMore(shown) /\ UNCHANGED ledger
        /\ UNCHANGED <<recorded, recovery, cached, venue, traded, world>>

\* on_order_cancel_rejected: only a factor signal gives up, unless a row cannot be written.
DeliverRefusal(o) ==
    LET shown == [native EXCEPT ![o] = IF @ = "canceling" THEN "open" ELSE @]
    IN  /\ <<o, "refused", 0>> \in wire /\ Handles(o)
        /\ wire' = wire \ {<<o, "refused", 0>>}
        /\ native' = shown
        /\ \/ /\ Factor /\ o \in known
              /\ pending' = None /\ failed' = TRUE
              /\ (skip' = TRUE /\ UNCHANGED faults) \/ (Fault /\ UNCHANGED skip)
           \/ /\ IF Factor /\ o \in known THEN Fault ELSE UNCHANGED faults
              /\ UNCHANGED <<pending, failed, skip>>
        /\ UNCHANGED <<ledger, recorded, known, openSells, recovery, loop, cached, venue,
                       traded, cancels, world>>

\* A FillReport of a reconciliation; the cache is brought up apart.
ReportFill(o, id) ==
    /\ loop = NoLoop /\ id \in 1..traded[o] /\ Owned(o)
    /\ AcceptFill(o, id, FALSE, native, cached)
    /\ known' = known \cup {o}
    /\ UNCHANGED <<recovery, cached, venue, traded, wire, plan, window, foreign, faults>>

\* An OrderStatusReport only writes the status.
ReportStatus(o) ==
    /\ loop = NoLoop /\ Owned(o)
    /\ venue[o] \in {"working", "filled", "closed"}
    /\ ledger' = Raised(o, CASE venue[o] = "filled" -> "FILLED"
                             [] venue[o] = "closed" -> "CLOSED"
                             [] OTHER -> IF traded[o] > 0 THEN "PARTIAL" ELSE "OPEN")
    /\ known' = known \cup {o}
    /\ UNCHANGED <<recorded, skip, batch, recovery, loop, cache, broker, world, faults>>

\* A report that contradicts the audit: another account, side, quantity or content.
ReportConflict(o) ==
    /\ loop = NoLoop /\ Owned(o) /\ Fault
    /\ recovery' = TRUE /\ gate' = FALSE /\ known' = known \cup {o}
    /\ UNCHANGED <<durable, batch, loop, cache, broker, plan, window, foreign>>

\* (mutant) a fill that NT inferred is booked like a real one
BookedInferred == {Inferred}

\* on_order_filled ignores the fills that NT infers while it reconciles.
Booked == {}

\* NT brings its cache up to the venue, inferring fills; other events of that are live.
ReconcileCache(o) ==
    LET shown == [native EXCEPT ![o] = CASE venue[o] = "none" -> @
                                         [] venue[o] \in {"filled", "closed"} -> "closed"
                                         [] o \in cancels -> "canceling"
                                         [] OTHER -> "open"]
    IN  /\ loop = NoLoop
        /\ cached' = [cached EXCEPT ![o] = 1..traded[o]]
        /\ recorded' = [recorded EXCEPT ![o] =
                          IF cached[o] = 1..traded[o] THEN @ ELSE @ \cup Booked]
        /\ IF venue[o] = "closed" /\ native[o] # "closed" /\ Owned(o)
           THEN ledger' = Raised(o, "CLOSED") /\ Finish(o, TRUE, shown) /\ known' = known \cup {o}
           ELSE NothingMore(shown) /\ UNCHANGED <<ledger, known>>
        /\ UNCHANGED <<recovery, venue, traded, wire, world, faults>>

-----------------------------------------------------------------------------
(* approval-poll: _reconcile_factor_orders.                                *)

\* Orders to stop: not known to this process, or of a signal that is barred.
Shown == {o \in Orders : native[o] \in {"open", "canceling"} /\ Owned(o)}

\* (mutant) only what a restart left behind
UnwantedRestored == Shown \ known

Unwanted == IF Barred THEN Shown ELSE Shown \ known

\* With the first of them the SKIP stands, so any order listed after it is stopped too.
StopOrders ==
    /\ Factor /\ loop = NoLoop /\ Unwanted # {}
    /\ \E stopped \in SUBSET Shown :
          /\ Unwanted \subseteq stopped
          /\ native' = [o \in Orders |-> IF o \in stopped THEN "canceling" ELSE native[o]]
          /\ cancels' = cancels \cup {o \in stopped : native[o] = "open"}
    /\ pending' = None /\ failed' = TRUE /\ skip' = TRUE
    /\ known' = known \cup Shown
    /\ UNCHANGED <<ledger, recorded, openSells, recovery, loop, cached, venue, traded, wire,
                   world, faults>>

\* A poll that raises on its way: the orders up to the one it was at (hit) are dealt with,
\* that one may be restored and its signal given up, but it is not canceled.
StopFails ==
    /\ Factor /\ loop = NoLoop /\ Unwanted # {} /\ Fault
    /\ \E done \in SUBSET Shown : \E stopped \in SUBSET done, hit \in Shown \ done :
          /\ done \cap Unwanted \subseteq stopped
          /\ known' \in {known \cup done, known \cup done \cup {hit}}
          /\ native' = [o \in Orders |-> IF o \in stopped THEN "canceling" ELSE native[o]]
          /\ cancels' = cancels \cup {o \in stopped : native[o] = "open"}
          /\ skip' = (skip \/ stopped # {})
          /\ \/ pending' = None /\ failed' = TRUE
                /\ \/ stopped # {} \/ (Barred /\ pending # None)
                   \/ hit \in Unwanted /\ hit \in known'
             \/ stopped = {} /\ ~(Barred /\ pending # None) /\ UNCHANGED <<pending, failed>>
    /\ UNCHANGED <<ledger, recorded, openSells, recovery, loop, cached, venue, traded, wire,
                   world>>

\* What is pending for a barred signal is dropped.
DropPending ==
    /\ Barred /\ loop = NoLoop /\ pending # None /\ Unwanted = {}
    /\ pending' = None /\ failed' = TRUE
    /\ UNCHANGED <<durable, known, openSells, recovery, loop, cache, broker, world, faults>>

-----------------------------------------------------------------------------
(* Venue, connection, crash.                                               *)

VenueTakes(o) ==
    /\ venue[o] = "sent"
    /\ \/ venue' = [venue EXCEPT ![o] = "working"] /\ UNCHANGED wire
       \/ venue' = [venue EXCEPT ![o] = "closed"] /\ wire' = wire \cup {<<o, "closed", 0>>}
    /\ UNCHANGED <<durable, memory, cache, traded, cancels, world, faults>>

Trade(o) ==
    /\ venue[o] = "working"
    /\ traded' = [traded EXCEPT ![o] = @ + 1]
    /\ venue' = IF traded[o] + 1 = Qty THEN [venue EXCEPT ![o] = "filled"] ELSE venue
    /\ wire' = wire \cup {<<o, "fill", traded[o] + 1>>}
    /\ UNCHANGED <<durable, memory, cache, cancels, world, faults>>

\* Canceled on request, or expired or canceled by the venue.
VenueCloses(o) ==
    /\ venue[o] = "working"
    /\ venue' = [venue EXCEPT ![o] = "closed"]
    /\ cancels' = cancels \ {o}
    /\ wire' = wire \cup {<<o, "closed", 0>>}
    /\ UNCHANGED <<durable, memory, cache, traded, world, faults>>

VenueRefuses(o) ==
    /\ o \in cancels /\ venue[o] \in {"working", "filled", "closed"}
    /\ IF venue[o] = "working" THEN Fault ELSE UNCHANGED faults
    /\ cancels' = cancels \ {o}
    /\ wire' = wire \cup {<<o, "refused", 0>>}
    /\ UNCHANGED <<durable, memory, cache, venue, traded, world>>

\* The connection is lost: some messages and cancel requests never arrive, and the
\* account is not ready until a reconciliation.
Disconnect ==
    /\ Fault
    /\ \E lost \in SUBSET wire, dropped \in SUBSET cancels :
          wire' = wire \ lost /\ cancels' = cancels \ dropped
    /\ gate' = FALSE
    /\ UNCHANGED <<durable, memory, cache, venue, traded, plan, window, foreign>>

\* BrokerSession says ready only when nothing is missing (NothingMissed there).
Heard(o) ==
    /\ \A id \in 1..traded[o] : id \in cached[o] \/ <<o, "fill", id>> \in wire
    /\ venue[o] = "working" => native[o] \in {"open", "canceling"}
    /\ native[o] = "canceling" => o \in cancels \/ <<o, "refused", 0>> \in wire

GateOpens ==
    /\ ~gate /\ ~recovery /\ \A o \in Orders : Heard(o)
    /\ gate' = TRUE
    /\ UNCHANGED <<durable, memory, cache, broker, plan, window, foreign, faults>>

WindowCloses ==
    /\ window = "open" /\ window' = "closed"
    /\ UNCHANGED <<durable, memory, cache, broker, plan, gate, foreign, faults>>

ManualTrade ==
    /\ ~foreign /\ Fault /\ foreign' = TRUE
    /\ UNCHANGED <<durable, memory, cache, broker, plan, gate, window>>

\* The node dies and comes back: its memory, NT's cache and what was on its way to it
\* are gone; an order it had just handed over may never have left.
Crash ==
    /\ Fault
    /\ known' = {} /\ pending' = None /\ openSells' = None /\ failed' = FALSE
    /\ recovery' = FALSE /\ loop' = NoLoop
    /\ native' = [o \in Orders |-> None]
    /\ cached' = [o \in Orders |-> {}]
    /\ \E unsent \in SUBSET {o \in Orders : venue[o] = "sent"} :
          venue' = [o \in Orders |-> IF o \in unsent THEN "none" ELSE venue[o]]
    /\ wire' = {} /\ gate' = FALSE
    /\ UNCHANGED <<durable, traded, cancels, plan, window, foreign>>

Next ==
    \/ \E orders \in SUBSET Orders : Execute(orders)
    \/ RefuseBatch \/ GiveUpBatch \/ Prepare \/ Replan \/ SubmissionFails
    \/ StopAtFailure \/ StopAtRejection \/ CreateOrder \/ SubmitOrder
    \/ \E o \in Orders :
          \/ DeliverClosed(o) \/ DeliverRefusal(o)
          \/ \E id \in Shares : DeliverFill(o, id) \/ ReportFill(o, id)
          \/ ReportStatus(o) \/ ReportConflict(o) \/ ReconcileCache(o)
          \/ VenueTakes(o) \/ Trade(o) \/ VenueCloses(o) \/ VenueRefuses(o)
    \/ StopOrders \/ StopFails \/ DropPending
    \/ Disconnect \/ GateOpens \/ WindowCloses \/ ManualTrade \/ Crash

Spec == Init /\ [][Next]_vars

\* Callbacks run on; the poll comes round; the loss of a connection is followed by a
\* reconciliation; the venue answers; the window is a matter of time.
Fairness ==
    /\ WF_vars(Prepare \/ RefuseBatch \/ GiveUpBatch) /\ WF_vars(Replan)
    /\ WF_vars(StopAtFailure \/ StopAtRejection \/ CreateOrder) /\ WF_vars(SubmitOrder)
    /\ WF_vars(StopOrders) /\ WF_vars(WindowCloses)
    /\ \A o \in Orders :
          /\ WF_vars(ReconcileCache(o)) /\ WF_vars(VenueTakes(o))
          /\ WF_vars(DeliverClosed(o)) /\ WF_vars(DeliverRefusal(o))
          /\ WF_vars(o \in cancels /\ VenueCloses(o))

FairSpec == Spec /\ Fairness

-----------------------------------------------------------------------------
(* Properties.                                                             *)

LedgerOK ==
    /\ ledger \in [Orders -> {None, "OPEN", "PARTIAL", "CLOSED", "FILLED"}]
    /\ recorded \in [Orders -> SUBSET Shares]
    /\ skip \in BOOLEAN

MemoryOK ==
    /\ known \subseteq Orders
    /\ pending \in {None} \cup SUBSET Buys /\ openSells \in {None} \cup SUBSET Sells
    /\ failed \in BOOLEAN /\ recovery \in BOOLEAN

LoopOK ==
    /\ loop \in [step : {"idle", "replan", "prepare", "send", "submit"},
                 orders : SUBSET Orders, todo : Seq(Orders), last : {None} \cup Orders]
    /\ loop.step \in {"send", "submit"} => loop.todo # <<>>

VenueOK ==
    /\ native \in [Orders -> {None, "open", "canceling", "closed"}]
    /\ cached \in [Orders -> SUBSET Shares]
    /\ venue \in [Orders -> {"none", "sent", "working", "filled", "closed"}]
    /\ traded \in [Orders -> 0..Qty]
    /\ cancels \subseteq Orders
    /\ wire \subseteq Orders \X {"fill", "closed", "refused"} \X (0..Qty)

WorldOK ==
    /\ plan \in {None} \cup SUBSET Orders
    /\ gate \in BOOLEAN /\ window \in {"open", "closed", "none"} /\ foreign \in BOOLEAN
    /\ faults \in 0..MaxFaults

\* Every variable keeps the shape the code gives it.
TypeOK == LedgerOK /\ MemoryOK /\ LoopOK /\ VenueOK /\ WorldOK

Leaves(o) == venue[o] = "none" /\ venue'[o] = "sent"

\* A buy leaves only once every share of every sell of the plan has traded and is in
\* the fills table, whatever events were lost, repeated, late or handled inside
\* submit_order, and whatever was canceled or restarted.
BuysFollowSells ==
    [][\A o \in Buys : Leaves(o) =>
          \A s \in plan \cap Sells : traded[s] = Qty /\ recorded[s] = Shares]_vars

\* Once an order of the batch is on record as canceled, expired, rejected or denied, or
\* a factor signal is skipped, nothing more of the batch leaves.
StopsAfterFailure ==
    [][\A o \in Orders : Leaves(o) =>
          ~(Factor /\ skip) /\ \A p \in Orders : ledger[p] # "CLOSED"]_vars

\* The fills table holds trades of the venue only, each once: no inferred fill, no
\* double count of an event and a report.
RecordedAreTrades == \A o \in Orders : recorded[o] \subseteq 1..traded[o]

\* Whatever reached the broker can be claimed after a crash: its row came first.
Claimable == \A o \in Orders : venue[o] # "none" => Owned(o)

\* "Audited original fills that add up to the order's quantity prove FILLED on their
\* own" (docs/reference/technical-reference.md:323), in any order and from any source.
FilledIsProven == \A o \in Orders : recorded[o] = Shares => ledger[o] = "FILLED"

\* Whenever a further factor rebalance could be planned, no order of this one can still
\* trade: not after a crash around submit_order either.
NoOverlap ==
    Factor /\ gate /\ ~recovery /\ loop = NoLoop /\ Explained /\ Resolved
       => \A o \in Orders : venue[o] \notin {"sent", "working"}

\* No order of a factor signal stays at the venue: whatever restarts, losses and refused
\* cancels there were, it ends at the latest once the window has closed.
OrdersEnd == \A o \in Orders : venue[o] = "working" ~> venue[o] # "working"
================================================================================
