----------------------------- MODULE RebalanceProofs -----------------------------
(***************************************************************************)
(* Proofs about Rebalance for any plan, number of shares and faults: buys   *)
(* leave after the sells, nothing leaves after a failure, and the database  *)
(* tells what the venue has done.                                           *)
(***************************************************************************)
EXTENDS Rebalance, FiniteSetTheorems, SequenceTheorems, TLAPS

-----------------------------------------------------------------------------
(* The inductive invariant.                                                 *)

Unsent(S) == \A o \in S : venue[o] = "none"
InTodo    == {loop.todo[i] : i \in 1..Len(loop.todo)}
SellsDone == \A s \in plan \cap Sells : recorded[s] = Shares

\* An order has traded as far as its state at the venue says.
VenueInv ==
    \A o \in Orders :
        /\ venue[o] \in {"none", "sent"} => traded[o] = 0
        /\ venue[o] = "working" => traded[o] < Qty

\* A message on its way tells of something that has happened.
WireInv ==
    /\ \A o \in Orders, id \in 0..Qty : <<o, "fill", id>> \in wire => id \in 1..traded[o]
    /\ \A o \in Orders : <<o, "closed", 0>> \in wire => venue[o] = "closed"

\* What the database says of an order is true of it at the venue.
LedgerInv ==
    /\ Claimable /\ RecordedAreTrades /\ FilledIsProven
    /\ \A o \in Orders : ledger[o] = "CLOSED" => venue[o] = "closed"

\* Before the plan there is nothing; after it, only its sells are sent.
PlanInv ==
    /\ plan = None =>
          /\ loop = NoLoop /\ pending = None /\ openSells = None /\ ~failed /\ wire = {}
          /\ \A o \in Orders : venue[o] = "none" /\ ledger[o] = None
    /\ plan # None => Unsent(Sells \ plan)

\* While sells are waited for no buy has left, and a sell of the plan that is waited for no
\* more is filled, unless the batch has failed or never began.
SellInv ==
    openSells # None =>
        /\ plan # None /\ Unsent(Buys)
        /\ \/ failed
           \/ openSells = {} /\ Unsent(Sells)
           \/ \A s \in plan \cap Sells : s \in openSells \/ recorded[s] = Shares

\* The submission in hand: of sells, all of them registered, or of buys, behind the sells.
LoopInv ==
    /\ loop.step # "idle" =>
          /\ plan # None
          /\ \/ failed
             \/ \A o \in Orders : ledger[o] # "CLOSED"
          /\ openSells = None => SellsDone
    /\ loop.step = "replan" => openSells = None /\ Unsent(Buys)
    /\ loop.step = "prepare" =>
          IF openSells = None
          THEN loop.orders \subseteq Buys /\ Unsent(Buys)
          ELSE openSells = {} /\ Unsent(Sells) /\ loop.orders = plan \cap Sells

TodoInv ==
    /\ loop.step \in {"send", "submit"} =>
          /\ InTodo \subseteq IF openSells = None THEN Buys ELSE openSells \cap plan
          /\ Unsent(InTodo) /\ loop.last \notin InTodo
          /\ \A i, j \in 1..Len(loop.todo) : loop.todo[i] = loop.todo[j] => i = j
    /\ loop.step = "submit" => Owned(loop.todo[1]) /\ ~failed /\ ~(Factor /\ skip)

IInv == TypeOK /\ VenueInv /\ WireInv /\ LedgerInv /\ PlanInv /\ SellInv /\ LoopInv /\ TodoInv

-----------------------------------------------------------------------------
(* Values.                                                                  *)

Statuses == {"OPEN", "PARTIAL", "CLOSED", "FILLED"}
LoopType ==
    [step : {"idle", "replan", "prepare", "send", "submit"}, orders : SUBSET Orders,
     todo : Seq(Orders), last : {None} \cup Orders]

LEMMA NoneIsNoStatus == None \notin Statuses
  BY RebalanceAssumption DEF Statuses

\* The priority of a status.
LEMMA RankValues ==
    Rank(None) = 0 /\ Rank("OPEN") = 1 /\ Rank("PARTIAL") = 2 /\ Rank("CLOSED") = 3 /\ Rank("FILLED") = 4
<1>1. Rank(None) = 0
  BY DEF Rank
<1>2. Ranks[1] = "OPEN" /\ Ranks[2] = "PARTIAL" /\ Ranks[3] = "CLOSED" /\ Ranks[4] = "FILLED"
  BY DEF Ranks
<1>3. ASSUME NEW n \in 1..4 PROVE Rank(Ranks[n]) = n
  <2>1. n = 1 \/ n = 2 \/ n = 3 \/ n = 4
    BY <1>3
  <2>2. Ranks[n] # None
    BY <1>2, <2>1, NoneIsNoStatus DEF Statuses
  <2>3. \A i \in 1..4 : Ranks[i] = Ranks[n] => i = n
    <3>1. \A i \in 1..4 : i = 1 \/ i = 2 \/ i = 3 \/ i = 4
      OBVIOUS
    <3>2. QED
      BY <1>2, <2>1, <3>1
  <2>4. (CHOOSE i \in 1..4 : Ranks[i] = Ranks[n]) = n
    BY <1>3, <2>3
  <2>5. QED
    BY <2>2, <2>4 DEF Rank
<1>4. 1 \in 1..4 /\ 2 \in 1..4 /\ 3 \in 1..4 /\ 4 \in 1..4
  OBVIOUS
<1>5. QED
  BY <1>1, <1>2, <1>3, <1>4

\* A status is raised to the given one, or was as high already; FILLED is the highest.
LEMMA RaisedStatus ==
    ASSUME LedgerOK, NEW o \in Orders, NEW status \in Statuses
    PROVE  /\ Raised(o, status) \in [Orders -> {None} \cup Statuses]
           /\ \A p \in Orders \ {o} : Raised(o, status)[p] = ledger[p]
           /\ Raised(o, status)[o] \in {ledger[o], status} /\ Raised(o, status)[o] # None
           /\ status = "FILLED" \/ ledger[o] = "FILLED" => Raised(o, status)[o] = "FILLED"
<1>1. ledger \in [Orders -> {None} \cup Statuses]
  BY DEF LedgerOK, Statuses
<1>2. Raised(o, status)
         = [ledger EXCEPT ![o] = IF Rank(ledger[o]) < Rank(status) THEN status ELSE ledger[o]]
  BY DEF Raised
<1>3. Raised(o, status)[o] = IF Rank(ledger[o]) < Rank(status) THEN status ELSE ledger[o]
  BY <1>1, <1>2
<1>4. ledger[o] \in {None} \cup Statuses
  BY <1>1
<1>5. Rank(status) \in 1..4 /\ (ledger[o] = None => Rank(ledger[o]) = 0)
      /\ (ledger[o] # None => Rank(ledger[o]) \in 1..4)
      /\ \A s \in Statuses : Rank(s) = 4 <=> s = "FILLED"
  BY <1>4, RankValues DEF Statuses
<1>6. Raised(o, status)[o] \in {ledger[o], status} /\ Raised(o, status)[o] # None
  BY <1>3, <1>4, <1>5, NoneIsNoStatus
<1>7. status = "FILLED" \/ ledger[o] = "FILLED" => Raised(o, status)[o] = "FILLED"
  BY <1>3, <1>4, <1>5, RankValues DEF Statuses
<1>8. QED
  BY <1>1, <1>2, <1>3, <1>6, <1>7

\* The loop before it starts, and as it starts.
LEMMA LoopValues ==
    /\ NoLoop \in LoopType /\ NoLoop.step = "idle" /\ NoLoop.todo = <<>> /\ NoLoop.last = None
    /\ \A S \in SUBSET Orders :
          /\ Submission(S) \in LoopType /\ Submission(S).step = "prepare"
          /\ Submission(S).orders = S
    /\ [NoLoop EXCEPT !.step = "replan"] \in LoopType
    /\ [NoLoop EXCEPT !.step = "replan"].step = "replan"
    /\ \A todo \in Seq(Orders) :
          LET next == [NoLoop EXCEPT !.step = "send", !.todo = todo]
          IN  next \in LoopType /\ next.step = "send" /\ next.todo = todo /\ next.last = None
  BY EmptySeq DEF NoLoop, Submission, LoopType

\* All of the set, each once.
LEMMA SetToSeqsOrders ==
    ASSUME NEW S \in SUBSET Orders, NEW todo \in SetToSeqs(S)
    PROVE  /\ todo \in Seq(Orders) /\ {todo[i] : i \in 1..Len(todo)} \subseteq S
           /\ \A i, j \in 1..Len(todo) : todo[i] = todo[j] => i = j
<1>1. IsFiniteSet(S)
  BY RebalanceAssumption, FS_Union, FS_Subset DEF Orders
<1>2. Cardinality(S) \in Nat
  BY <1>1, FS_CardinalityType
<1>3. /\ todo \in [1..Cardinality(S) -> S]
      /\ \A i, j \in 1..Cardinality(S) : i # j => todo[i] # todo[j]
  BY DEF SetToSeqs
<1>4. todo \in Seq(S) /\ Len(todo) = Cardinality(S)
  BY <1>2, <1>3, SeqDef, LenProperties
<1>5. QED
  BY <1>3, <1>4

\* The fills of an order are all its shares when they are as many.
LEMMA AllShares ==
    ASSUME NEW F \in SUBSET Shares
    PROVE  Cardinality(F) = Qty <=> F = Shares
<1>1. Qty \in Nat \ {0}
  BY RebalanceAssumption
<1>2. IsFiniteSet(1..Qty) /\ Cardinality(1..Qty) = Qty
  BY <1>1, FS_Interval
<1>3. IsFiniteSet(Shares) /\ Cardinality(Shares) = Qty
  BY <1>2 DEF Shares
<1>4. QED
  BY <1>3, FS_Subset

-----------------------------------------------------------------------------
(* Types.                                                                   *)

NativeType == [Orders -> {None, "open", "canceling", "closed"}]

LEMMA LoopTyped == LoopOK <=> loop \in LoopType /\ (loop.step \in {"send", "submit"} => loop.todo # <<>>)
  BY DEF LoopOK, LoopType

\* What _finish_sell assigns.
LEMMA FinishType ==
    ASSUME TypeOK, NEW o \in Orders, NEW bad \in BOOLEAN, NEW shown \in NativeType,
           Finish(o, bad, shown)
    PROVE  /\ native' \in NativeType /\ cancels' \subseteq Orders /\ skip' \in BOOLEAN
           /\ pending' \in {None} \cup SUBSET Buys /\ openSells' \in {None} \cup SUBSET Sells
           /\ failed' \in BOOLEAN /\ LoopOK'
<1>1. native' \in NativeType
  <2> DEFINE stop == bad /\ o \in Buys
  <2>1. native' = [p \in Orders |-> IF stop /\ p \in {q \in known : q # o /\ shown[q] = "open"}
                                    THEN "canceling" ELSE shown[p]]
    BY DEF Finish
  <2> HIDE DEF stop
  <2>2. QED
    BY <2>1 DEF NativeType
<1>2. cancels' \subseteq Orders /\ skip' \in BOOLEAN
  BY DEF Finish, TypeOK, VenueOK, MemoryOK, LedgerOK, Factor
<1>3. /\ pending' \in {None} \cup SUBSET Buys /\ openSells' \in {None} \cup SUBSET Sells
      /\ failed' \in BOOLEAN
  BY DEF Finish, TypeOK, MemoryOK
<1>4. LoopOK'
  <2>1. \/ loop' = loop
        \/ loop' = [NoLoop EXCEPT !.step = "replan"]
        \/ pending # None /\ loop' = Submission(pending)
    BY DEF Finish
  <2>2. pending # None => pending \in SUBSET Orders
    BY DEF TypeOK, MemoryOK, Orders
  <2>3. CASE loop' = loop
    BY <2>3 DEF TypeOK, LoopOK
  <2>4. CASE loop' = [NoLoop EXCEPT !.step = "replan"]
    BY <2>4, LoopValues DEF LoopOK, LoopType
  <2>5. CASE pending # None /\ loop' = Submission(pending)
    BY <2>2, <2>5, LoopValues DEF LoopOK, LoopType
  <2>6. QED
    BY <2>1, <2>3, <2>4, <2>5
<1>5. QED
  BY <1>1, <1>2, <1>3, <1>4

\* What _accept_fill assigns to the database, and what becomes of the batch.
LEMMA AcceptEffect ==
    ASSUME TypeOK, NEW o \in Orders, NEW id \in Shares, NEW live \in BOOLEAN, NEW shown, NEW positions,
           AcceptFill(o, id, live, shown, positions)
    PROVE  /\ recorded' \in [Orders -> SUBSET Shares]
           /\ \A p \in Orders : recorded'[p] = IF p = o THEN recorded[o] \cup {id} ELSE recorded[p]
           /\ \/ ledger' = ledger /\ id \in recorded[o]
              \/ ledger' = Raised(o, FillStatus(recorded'[o]))
           /\ \/ NothingMore(shown)
              \/ /\ pending' = None /\ failed' = TRUE /\ native' = shown
                 /\ UNCHANGED <<openSells, loop, skip, cancels>>
              \/ Finish(o, FALSE, shown) /\ recorded'[o] = Shares
           /\ gate' \in {gate, FALSE}
<1>1. recorded \in [Orders -> SUBSET Shares]
  BY DEF TypeOK, LedgerOK
<1>2. CASE id \in recorded[o]
  BY <1>1, <1>2 DEF AcceptFill
<1>3. CASE id \notin recorded[o]
  <2> DEFINE fills == [recorded EXCEPT ![o] = @ \cup {id}]
  <2>1. recorded' = fills /\ ledger' = Raised(o, FillStatus(fills[o]))
    BY <1>3 DEF AcceptFill
  <2>2. /\ \/ NothingMore(shown)
           \/ /\ pending' = None /\ failed' = TRUE /\ native' = shown
              /\ UNCHANGED <<openSells, loop, skip, cancels>>
           \/ Finish(o, FALSE, shown) /\ FillStatus(fills[o]) = "FILLED"
        /\ gate' \in {gate, FALSE}
    BY <1>3 DEF AcceptFill
  <2>3. fills \in [Orders -> SUBSET Shares]
        /\ \A p \in Orders : fills[p] = IF p = o THEN recorded[o] \cup {id} ELSE recorded[p]
    BY <1>1
  <2>4. FillStatus(fills[o]) = "FILLED" => fills[o] = Shares
    BY <2>3, AllShares DEF FillStatus
  <2> HIDE DEF fills
  <2>5. QED
    BY <2>1, <2>2, <2>3, <2>4
<1>4. QED
  BY <1>2, <1>3

LEMMA AcceptType ==
    ASSUME TypeOK, NEW o \in Orders, NEW id \in Shares, NEW live \in BOOLEAN, NEW shown \in NativeType,
           NEW positions, AcceptFill(o, id, live, shown, positions)
    PROVE  /\ LedgerOK' /\ LoopOK' /\ native' \in NativeType /\ cancels' \subseteq Orders
           /\ pending' \in {None} \cup SUBSET Buys /\ openSells' \in {None} \cup SUBSET Sells
           /\ failed' \in BOOLEAN /\ gate' \in BOOLEAN
<1>1. ledger' \in [Orders -> {None} \cup Statuses]
  <2>1. FillStatus(recorded'[o]) \in Statuses
    BY DEF FillStatus, Statuses
  <2>2. LedgerOK
    BY DEF TypeOK
  <2>3. ledger' = ledger \/ ledger' = Raised(o, FillStatus(recorded'[o]))
    BY AcceptEffect
  <2>4. Raised(o, FillStatus(recorded'[o])) \in [Orders -> {None} \cup Statuses]
    BY <2>1, <2>2, RaisedStatus
  <2>5. ledger \in [Orders -> {None} \cup Statuses]
    BY <2>2 DEF LedgerOK, Statuses
  <2>6. QED
    BY <2>3, <2>4, <2>5
<1>2. /\ LoopOK' /\ native' \in NativeType /\ cancels' \subseteq Orders /\ skip' \in BOOLEAN
      /\ pending' \in {None} \cup SUBSET Buys /\ openSells' \in {None} \cup SUBSET Sells
      /\ failed' \in BOOLEAN
  <2>1. CASE NothingMore(shown)
    BY <2>1 DEF NothingMore, batch, TypeOK, LedgerOK, MemoryOK, LoopOK, VenueOK
  <2>2. CASE pending' = None /\ failed' = TRUE /\ native' = shown
             /\ UNCHANGED <<openSells, loop, skip, cancels>>
    BY <2>2 DEF TypeOK, LedgerOK, MemoryOK, LoopOK, VenueOK
  <2>3. CASE Finish(o, FALSE, shown)
    BY <2>3, FinishType
  <2>4. QED
    BY <2>1, <2>2, <2>3, AcceptEffect
<1>3. recorded' \in [Orders -> SUBSET Shares] /\ gate' \in BOOLEAN
  BY AcceptEffect DEF TypeOK, WorldOK
<1>4. QED
  BY <1>1, <1>2, <1>3 DEF LedgerOK, Statuses

\* What is left of an _accept_fill that raises: nothing, or the fill and the status it proves.
LEMMA AcceptFailsEffect ==
    ASSUME TypeOK, NEW o \in Orders, NEW id \in Shares, AcceptFails(o, id), skip' = skip
    PROVE  /\ LedgerOK' /\ known' \in {known, known \cup {o}}
           /\ recovery' \in {recovery, TRUE} /\ gate' \in {gate, FALSE}
           /\ \/ UNCHANGED <<ledger, recorded>>
              \/ /\ \A p \in Orders : recorded'[p] = IF p = o THEN recorded[o] \cup {id} ELSE recorded[p]
                 /\ recorded' \in [Orders -> SUBSET Shares]
                 /\ ledger' = Raised(o, FillStatus(recorded'[o]))
<1>1. LedgerOK
  BY DEF TypeOK
<1>2. CASE UNCHANGED <<ledger, recorded>>
  BY <1>1, <1>2 DEF AcceptFails, LedgerOK
<1>3. CASE /\ recorded' = [recorded EXCEPT ![o] = @ \cup {id}]
           /\ ledger' = Raised(o, FillStatus(recorded'[o]))
           /\ known' = known \cup {o} /\ UNCHANGED <<recovery, gate>>
  <2>1. /\ recorded' \in [Orders -> SUBSET Shares]
        /\ \A p \in Orders : recorded'[p] = IF p = o THEN recorded[o] \cup {id} ELSE recorded[p]
    BY <1>1, <1>3 DEF LedgerOK
  <2>2. FillStatus(recorded'[o]) \in Statuses
    BY DEF FillStatus, Statuses
  <2>3. ledger' \in [Orders -> {None} \cup Statuses]
    BY <1>1, <1>3, <2>2, RaisedStatus
  <2>4. QED
    BY <1>1, <1>3, <2>1, <2>3 DEF LedgerOK, Statuses
<1>4. QED
  BY <1>2, <1>3 DEF AcceptFails

LEMMA ExecuteTypes == ASSUME TypeOK, NEW orders \in SUBSET Orders, Execute(orders) PROVE TypeOK'
<1>1. orders \cap Sells \in SUBSET Orders /\ orders \cap Buys \in SUBSET Buys
  OBVIOUS
<1>2. LoopOK'
  <2>1. PICK S \in SUBSET Orders : loop' = Submission(S)
    BY <1>1 DEF Execute
  <2>2. QED
    BY <2>1, LoopValues DEF LoopOK, LoopType
<1>3. pending' \in {None} \cup SUBSET Buys /\ openSells' \in {None} \cup SUBSET Sells
  BY <1>1 DEF Execute, TypeOK, MemoryOK
<1>4. QED
  BY <1>2, <1>3 DEF Execute, TypeOK, LedgerOK, MemoryOK, VenueOK, WorldOK, durable, cache, broker

LEMMA PrepareTypes == ASSUME TypeOK, LoopInv, Prepare PROVE TypeOK'
<1>1. loop.orders \in SUBSET Orders
  BY DEF TypeOK, LoopOK
<1>2. PICK todo \in SetToSeqs(loop.orders) :
         loop' = IF todo = <<>> THEN NoLoop ELSE [NoLoop EXCEPT !.step = "send", !.todo = todo]
  BY DEF Prepare
<1>3. todo \in Seq(Orders)
  BY <1>1, SetToSeqsOrders
<1>4. LoopOK'
  BY <1>2, <1>3, LoopValues DEF LoopOK, LoopType
<1>5. openSells' \in {None} \cup SUBSET Sells
  <2>1. openSells = None => loop.orders \cap Sells = {}
    BY RebalanceAssumption DEF Prepare, LoopInv
  <2>2. QED
    BY <2>1 DEF Prepare, TypeOK, MemoryOK
<1>6. QED
  BY <1>1, <1>4, <1>5 DEF Prepare, TypeOK, LedgerOK, MemoryOK, VenueOK, WorldOK, durable, cache, broker,
     world

\* The other steps of a submission.
LEMMA SubmissionTypes ==
    ASSUME TypeOK,
           \/ RefuseBatch \/ GiveUpBatch \/ StopAtFailure \/ StopAtRejection \/ CreateOrder
           \/ SubmitOrder \/ SubmissionFails \/ Replan
    PROVE  TypeOK'
<1>1. /\ LedgerOK /\ LoopOK /\ loop \in LoopType
      /\ loop.step \in {"send", "submit"} => loop.todo # <<>> /\ loop.todo[1] \in Orders
  <2>1. LoopOK /\ loop \in LoopType /\ LedgerOK
    BY LoopTyped DEF TypeOK
  <2>2. loop.todo \in Seq(Orders)
    BY <2>1 DEF LoopType
  <2>3. loop.todo # <<>> => loop.todo[1] \in Orders
    BY <2>2, EmptySeq, ElementOfSeq, LenProperties
  <2>4. QED
    BY <2>1, <2>3 DEF LoopOK
<1>2. LedgerOK'
  <2>1. CASE CreateOrder
    <3>1. Raised(loop.todo[1], "OPEN") \in [Orders -> {None} \cup Statuses]
      BY <1>1, <2>1, RaisedStatus DEF CreateOrder, Sending, Statuses
    <3>2. QED
      BY <2>1, <3>1 DEF CreateOrder, CreateRow, LedgerOK, TypeOK, Statuses
  <2>2. CASE \/ RefuseBatch \/ GiveUpBatch \/ StopAtFailure \/ StopAtRejection
             \/ SubmitOrder \/ SubmissionFails \/ Replan
    BY <2>2 DEF RefuseBatch, GiveUpBatch, StopAtFailure, StopAtRejection, SubmitOrder, SubmissionFails,
       Replan, Factor, TypeOK, LedgerOK, durable
  <2>3. QED
    BY <2>1, <2>2
<1>3. LoopOK'
  <2>1. CASE CreateOrder
    BY <1>1, <2>1 DEF CreateOrder, Sending, LoopOK, LoopType
  <2>2. CASE SubmitOrder
    <3>1. Tail(loop.todo) \in Seq(Orders)
      BY <1>1, <2>2, HeadTailProperties DEF SubmitOrder, LoopType
    <3>2. Onward(Tail(loop.todo)) \in LoopType
          /\ (Onward(Tail(loop.todo)).step \in {"send", "submit"} => Onward(Tail(loop.todo)).todo # <<>>)
      BY <1>1, <2>2, <3>1, LoopValues DEF SubmitOrder, Onward, LoopType
    <3>3. QED
      BY <2>2, <3>2 DEF SubmitOrder, LoopOK, LoopType
  <2>3. CASE Replan
    <3>1. loop' = NoLoop \/ \E S \in SUBSET Orders : loop' = Submission(S)
      <4>1. \A S \in SUBSET Buys : S \in SUBSET Orders
        BY DEF Orders
      <4>2. QED
        BY <2>3, <4>1 DEF Replan
    <3>2. CASE loop' = NoLoop
      BY <3>2, LoopValues DEF LoopOK, LoopType
    <3>3. ASSUME NEW S \in SUBSET Orders, loop' = Submission(S) PROVE LoopOK'
      BY <3>3, LoopValues DEF LoopOK, LoopType
    <3>4. QED
      BY <3>1, <3>2, <3>3
  <2>4. CASE \/ RefuseBatch \/ GiveUpBatch \/ StopAtFailure \/ StopAtRejection \/ SubmissionFails
    <3>1. loop' = NoLoop
      BY <2>4 DEF RefuseBatch, GiveUpBatch, StopAtFailure, StopAtRejection, SubmissionFails
    <3>2. QED
      BY <3>1, LoopValues DEF LoopOK, LoopType
  <2>5. QED
    BY <2>1, <2>2, <2>3, <2>4
<1>4. MemoryOK'
  BY DEF RefuseBatch, GiveUpBatch, StopAtFailure, StopAtRejection, CreateOrder, SubmitOrder,
     SubmissionFails, Replan, TypeOK, MemoryOK, batch
<1>5. VenueOK'
  <2>1. CASE SubmitOrder
    BY <1>1, <2>1 DEF SubmitOrder, TypeOK, VenueOK
  <2>2. QED
    BY <2>1 DEF RefuseBatch, GiveUpBatch, StopAtFailure, StopAtRejection, CreateOrder, SubmissionFails,
       Replan, TypeOK, VenueOK, cache, broker
<1>6. WorldOK'
  BY RebalanceAssumption DEF RefuseBatch, GiveUpBatch, StopAtFailure, StopAtRejection, CreateOrder, SubmitOrder,
     SubmissionFails, Replan, Fault, TypeOK, WorldOK, world
<1>7. QED
  BY <1>2, <1>3, <1>4, <1>5, <1>6 DEF TypeOK

\* The gateway's handlers.
LEMMA HandlerTypes ==
    ASSUME TypeOK, NEW o \in Orders,
           \/ DeliverClosed(o) \/ DeliverRefusal(o) \/ ReportStatus(o) \/ ReportConflict(o)
           \/ ReconcileCache(o)
           \/ \E id \in Shares : DeliverFill(o, id) \/ ReportFill(o, id)
    PROVE  TypeOK'
<1>1. LedgerOK /\ MemoryOK /\ LoopOK /\ VenueOK /\ WorldOK /\ native \in NativeType
  BY DEF TypeOK, VenueOK, NativeType
<1>2. \A x \in {None, "open", "canceling", "closed"} : [native EXCEPT ![o] = x] \in NativeType
  BY <1>1 DEF NativeType
<1>3. faults' \in 0..MaxFaults \/ ~(UNCHANGED faults \/ Fault)
  BY <1>1, RebalanceAssumption DEF WorldOK, Fault
<1>4. \A p \in Orders, status \in Statuses : Raised(p, status) \in [Orders -> {None} \cup Statuses]
  BY <1>1, RaisedStatus
<1>5. ASSUME NEW id \in Shares, DeliverFill(o, id) PROVE TypeOK'
  <2> DEFINE positions == [cached EXCEPT ![o] = @ \cup {id}]
             shown == [native EXCEPT ![o] = IF Cardinality(positions[o]) = Qty THEN "closed" ELSE @]
  <2>1. /\ wire' = wire \ {<<o, "fill", id>>} /\ cached' = positions
        /\ UNCHANGED <<venue, traded, plan, window, foreign>>
        /\ \/ NothingMore(native) /\ UNCHANGED <<recorded, ledger, gate, recovery, known, faults>>
           \/ AcceptFill(o, id, TRUE, shown, positions) /\ known' = known \cup {o} /\ UNCHANGED <<recovery, faults>>
           \/ Fault /\ AcceptFails(o, id) /\ NothingMore(shown)
    BY <1>5 DEF DeliverFill
  <2>2. positions \in [Orders -> SUBSET Shares]
    BY <1>1 DEF VenueOK
  <2>3. shown \in NativeType
    BY <1>1, <1>2 DEF NativeType
  <2> HIDE DEF positions, shown
  <2>4. /\ LedgerOK' /\ LoopOK' /\ native' \in NativeType /\ cancels' \subseteq Orders
        /\ pending' \in {None} \cup SUBSET Buys /\ openSells' \in {None} \cup SUBSET Sells
        /\ failed' \in BOOLEAN /\ gate' \in BOOLEAN /\ recovery' \in BOOLEAN /\ known' \subseteq Orders
        /\ faults' \in 0..MaxFaults
    <3>1. CASE NothingMore(native) /\ UNCHANGED <<recorded, ledger, gate, recovery, known, faults>>
      BY <1>1, <3>1 DEF NothingMore, batch, LedgerOK, MemoryOK, LoopOK, VenueOK, WorldOK
    <3>2. CASE AcceptFill(o, id, TRUE, shown, positions) /\ known' = known \cup {o} /\ UNCHANGED <<recovery, faults>>
      BY <1>1, <2>3, <3>2, AcceptType DEF MemoryOK, WorldOK
    <3>3. CASE Fault /\ AcceptFails(o, id) /\ NothingMore(shown)
      <4>1. LedgerOK' /\ known' \subseteq Orders /\ recovery' \in BOOLEAN /\ gate' \in BOOLEAN
        <5>1. skip' = skip
          BY <3>3 DEF NothingMore
        <5>2. /\ LedgerOK' /\ known' \in {known, known \cup {o}}
              /\ recovery' \in {recovery, TRUE} /\ gate' \in {gate, FALSE}
          BY <3>3, <5>1, AcceptFailsEffect
        <5>3. QED
          BY <1>1, <5>2 DEF MemoryOK, WorldOK
      <4>2. /\ LoopOK' /\ native' \in NativeType /\ cancels' \subseteq Orders
            /\ pending' \in {None} \cup SUBSET Buys /\ openSells' \in {None} \cup SUBSET Sells
            /\ failed' \in BOOLEAN
        BY <1>1, <2>3, <3>3 DEF NothingMore, batch, MemoryOK, LoopOK, VenueOK
      <4>3. QED
        BY <1>3, <3>3, <4>1, <4>2
    <3>4. QED
      BY <2>1, <3>1, <3>2, <3>3
  <2>5. QED
    BY <1>1, <2>1, <2>2, <2>4 DEF TypeOK, MemoryOK, VenueOK, WorldOK, NativeType
<1>6. ASSUME NEW id \in Shares, ReportFill(o, id) PROVE TypeOK'
  <2>1. AcceptFill(o, id, FALSE, native, cached)
    BY <1>6 DEF ReportFill
  <2>2. /\ LedgerOK' /\ LoopOK' /\ native' \in NativeType /\ cancels' \subseteq Orders
        /\ pending' \in {None} \cup SUBSET Buys /\ openSells' \in {None} \cup SUBSET Sells
        /\ failed' \in BOOLEAN /\ gate' \in BOOLEAN
    BY <1>1, <2>1, AcceptType
  <2>3. QED
    BY <1>1, <1>6, <2>2 DEF ReportFill, TypeOK, MemoryOK, VenueOK, WorldOK, NativeType
<1>7. CASE DeliverClosed(o)
  <2> DEFINE shown == [native EXCEPT ![o] = "closed"]
  <2>1. /\ wire' = wire \ {<<o, "closed", 0>>} /\ known' \in {known, known \cup {o}}
        /\ UNCHANGED <<recorded, recovery, cached, venue, traded, world>>
        /\ \/ ledger' = Raised(o, "CLOSED") /\ Finish(o, TRUE, shown) /\ UNCHANGED faults
           \/ /\ Fault /\ ledger' = Raised(o, "CLOSED") /\ failed' = TRUE /\ native' = shown
              /\ UNCHANGED <<pending, openSells, loop, skip, cancels>>
           \/ Fault /\ NothingMore(shown) /\ UNCHANGED ledger
    BY <1>7 DEF DeliverClosed
  <2>2. shown \in NativeType
    BY <1>2
  <2> HIDE DEF shown
  <2>3. /\ LoopOK' /\ native' \in NativeType /\ cancels' \subseteq Orders /\ skip' \in BOOLEAN
        /\ pending' \in {None} \cup SUBSET Buys /\ openSells' \in {None} \cup SUBSET Sells
        /\ failed' \in BOOLEAN
    <3>1. CASE NothingMore(shown)
      BY <1>1, <2>2, <3>1 DEF NothingMore, batch, LedgerOK, MemoryOK, LoopOK, VenueOK
    <3>2. CASE Finish(o, TRUE, shown)
      BY <2>2, <3>2, FinishType
    <3>3. CASE failed' = TRUE /\ native' = shown /\ UNCHANGED <<pending, openSells, loop, skip, cancels>>
      BY <1>1, <2>2, <3>3 DEF LedgerOK, MemoryOK, LoopOK, VenueOK
    <3>4. QED
      BY <2>1, <3>1, <3>2, <3>3
  <2>4. ledger' \in [Orders -> {None} \cup Statuses] /\ faults' \in 0..MaxFaults
    BY <1>1, <1>3, <1>4, <2>1 DEF LedgerOK, Statuses
  <2>5. QED
    BY <1>1, <2>1, <2>3, <2>4
       DEF TypeOK, LedgerOK, MemoryOK, VenueOK, WorldOK, NativeType, Statuses, world
<1>8. CASE DeliverRefusal(o)
  <2>1. native' \in NativeType
    BY <1>1, <1>8 DEF DeliverRefusal, NativeType
  <2>2. LedgerOK' /\ MemoryOK'
    BY <1>1, <1>8 DEF DeliverRefusal, LedgerOK, MemoryOK
  <2>3. LoopOK' /\ VenueOK' /\ WorldOK'
    BY <1>1, <1>3, <1>8, <2>1 DEF DeliverRefusal, LoopOK, VenueOK, WorldOK, NativeType, world
  <2>4. QED
    BY <2>2, <2>3 DEF TypeOK
<1>9. CASE ReportStatus(o)
  <2>1. ledger' \in [Orders -> {None} \cup Statuses]
    <3>1. PICK status \in Statuses : ledger' = Raised(o, status)
      BY <1>9 DEF ReportStatus, Statuses
    <3>2. QED
      BY <1>4, <3>1
  <2>2. QED
    BY <1>1, <1>9, <2>1
       DEF ReportStatus, TypeOK, LedgerOK, MemoryOK, LoopOK, VenueOK, WorldOK, Statuses, world, batch,
           cache, broker
<1>10. CASE ReportConflict(o)
  BY <1>1, <1>3, <1>10
     DEF ReportConflict, TypeOK, LedgerOK, MemoryOK, LoopOK, VenueOK, WorldOK, durable, batch,
         cache, broker
<1>11. CASE ReconcileCache(o)
  <2>1. PICK x \in {None, "open", "canceling", "closed"} :
           /\ \/ ledger' = Raised(o, "CLOSED") /\ Finish(o, TRUE, [native EXCEPT ![o] = x])
                 /\ known' = known \cup {o}
              \/ NothingMore([native EXCEPT ![o] = x]) /\ UNCHANGED <<ledger, known>>
    <3> DEFINE x == CASE venue[o] = "none" -> native[o]
                      [] venue[o] \in {"filled", "closed"} -> "closed"
                      [] o \in cancels -> "canceling"
                      [] OTHER -> "open"
    <3>1. x \in {None, "open", "canceling", "closed"}
      BY <1>1 DEF NativeType
    <3>2. \/ ledger' = Raised(o, "CLOSED") /\ Finish(o, TRUE, [native EXCEPT ![o] = x])
             /\ known' = known \cup {o}
          \/ NothingMore([native EXCEPT ![o] = x]) /\ UNCHANGED <<ledger, known>>
      BY <1>11 DEF ReconcileCache
    <3> HIDE DEF x
    <3>3. QED
      BY <3>1, <3>2
  <2> DEFINE shown == [native EXCEPT ![o] = x]
  <2>2. shown \in NativeType
    BY <1>2
  <2> HIDE DEF shown
  <2>3. /\ LoopOK' /\ native' \in NativeType /\ cancels' \subseteq Orders /\ skip' \in BOOLEAN
        /\ pending' \in {None} \cup SUBSET Buys /\ openSells' \in {None} \cup SUBSET Sells
        /\ failed' \in BOOLEAN
    <3>1. CASE NothingMore(shown)
      BY <1>1, <2>2, <3>1 DEF NothingMore, batch, LedgerOK, MemoryOK, LoopOK, VenueOK
    <3>2. CASE Finish(o, TRUE, shown)
      BY <2>2, <3>2, FinishType
    <3>3. QED
      BY <2>1, <3>1, <3>2 DEF shown
  <2>4. ledger' \in [Orders -> {None} \cup Statuses] /\ known' \subseteq Orders
    BY <1>1, <1>4, <2>1 DEF LedgerOK, MemoryOK, Statuses
  <2>5. recorded' = recorded /\ cached' \in [Orders -> SUBSET Shares]
    <3>1. \A p \in Orders : 1..traded[p] \in SUBSET Shares
      BY <1>1, RebalanceAssumption DEF VenueOK, Shares
    <3>2. QED
      BY <1>1, <1>11, <3>1 DEF ReconcileCache, Booked, LedgerOK, VenueOK
  <2>6. QED
    BY <1>1, <1>11, <2>3, <2>4, <2>5
       DEF ReconcileCache, TypeOK, LedgerOK, MemoryOK, VenueOK, WorldOK, NativeType, Statuses, world
<1>12. QED
  BY <1>5, <1>6, <1>7, <1>8, <1>9, <1>10, <1>11

\* The poll, the venue, the connection and the world.
LEMMA WorldTypes ==
    ASSUME TypeOK, VenueInv,
           \/ StopOrders \/ StopFails \/ DropPending
           \/ Disconnect \/ GateOpens \/ WindowCloses \/ ManualTrade \/ Crash
           \/ \E o \in Orders : VenueTakes(o) \/ Trade(o) \/ VenueCloses(o) \/ VenueRefuses(o)
    PROVE  TypeOK'
<1>1. LedgerOK /\ MemoryOK /\ LoopOK /\ VenueOK /\ WorldOK /\ Qty \in Nat \ {0}
  BY RebalanceAssumption DEF TypeOK
<1>2. faults' \in 0..MaxFaults \/ ~(UNCHANGED faults \/ Fault)
  BY <1>1, RebalanceAssumption DEF WorldOK, Fault
<1>3. CASE StopOrders \/ StopFails
  <2>1. native' \in NativeType /\ cancels' \subseteq Orders
    <3>1. PICK stopped \in SUBSET Shown :
             /\ native' = [o \in Orders |-> IF o \in stopped THEN "canceling" ELSE native[o]]
             /\ cancels' = cancels \cup {o \in stopped : native[o] = "open"}
      BY <1>3 DEF StopOrders, StopFails
    <3>2. stopped \subseteq Orders
      BY DEF Shown
    <3>3. QED
      BY <1>1, <3>1, <3>2 DEF VenueOK, NativeType
  <2>2. known' \subseteq Orders /\ skip' \in BOOLEAN
    <3>1. Shown \subseteq Orders
      BY DEF Shown
    <3>2. QED
      BY <1>1, <1>3, <3>1 DEF StopOrders, StopFails, LedgerOK, MemoryOK
  <2>3. MemoryOK' /\ LedgerOK'
    BY <1>1, <1>3, <2>2 DEF StopOrders, StopFails, LedgerOK, MemoryOK
  <2>4. LoopOK' /\ VenueOK' /\ WorldOK'
    BY <1>1, <1>2, <1>3, <2>1 DEF StopOrders, StopFails, LoopOK, VenueOK, WorldOK, NativeType, world
  <2>5. QED
    BY <2>3, <2>4 DEF TypeOK
<1>4. CASE DropPending
  BY <1>1, <1>4 DEF DropPending, TypeOK, LedgerOK, MemoryOK, LoopOK, VenueOK, WorldOK, durable,
                    cache, broker, world
<1>5. CASE Disconnect \/ GateOpens \/ WindowCloses \/ ManualTrade
  <2>1. wire' \subseteq wire /\ cancels' \subseteq cancels
    BY <1>5 DEF Disconnect, GateOpens, WindowCloses, ManualTrade, broker
  <2>2. LedgerOK' /\ MemoryOK' /\ LoopOK'
    BY <1>1, <1>5 DEF Disconnect, GateOpens, WindowCloses, ManualTrade, LedgerOK, MemoryOK, LoopOK,
       durable, memory, batch
  <2>3. VenueOK'
    BY <1>1, <1>5, <2>1 DEF Disconnect, GateOpens, WindowCloses, ManualTrade, VenueOK, cache, broker
  <2>4. WorldOK'
    BY <1>1, <1>2, <1>5 DEF Disconnect, GateOpens, WindowCloses, ManualTrade, WorldOK
  <2>5. QED
    BY <2>2, <2>3, <2>4 DEF TypeOK
<1>6. CASE Crash
  <2>1. venue' \in [Orders -> {"none", "sent", "working", "filled", "closed"}]
    BY <1>1, <1>6 DEF Crash, VenueOK
  <2>2. LoopOK'
    BY <1>6, LoopValues DEF Crash, LoopOK, LoopType
  <2>3. native' \in NativeType /\ cached' \in [Orders -> SUBSET Shares]
    BY <1>6 DEF Crash, NativeType
  <2>4. MemoryOK' /\ LedgerOK' /\ WorldOK'
    BY <1>1, <1>2, <1>6 DEF Crash, MemoryOK, LedgerOK, WorldOK, durable
  <2>5. QED
    BY <1>1, <1>6, <2>1, <2>2, <2>3, <2>4 DEF Crash, TypeOK, VenueOK, NativeType
<1>7. ASSUME NEW o \in Orders, VenueTakes(o) \/ Trade(o) \/ VenueCloses(o) \/ VenueRefuses(o) PROVE TypeOK'
  <2>1. wire' \subseteq Orders \X {"fill", "closed", "refused"} \X (0..Qty) /\ traded' \in [Orders -> 0..Qty]
    <3>1. CASE Trade(o)
      <4>1. traded[o] \in 0..Qty /\ traded[o] < Qty
        BY <1>1, <3>1 DEF Trade, VenueInv, VenueOK
      <4>2. traded[o] + 1 \in 0..Qty
        BY <1>1, <4>1
      <4>3. QED
        BY <1>1, <3>1, <4>2 DEF Trade, VenueOK
    <3>2. CASE VenueTakes(o) \/ VenueCloses(o) \/ VenueRefuses(o)
      <4>1. 0 \in 0..Qty
        BY <1>1
      <4>2. QED
        BY <1>1, <3>2, <4>1 DEF VenueTakes, VenueCloses, VenueRefuses, VenueOK
    <3>3. QED
      BY <1>7, <3>1, <3>2
  <2>2. venue' \in [Orders -> {"none", "sent", "working", "filled", "closed"}] /\ cancels' \subseteq Orders
    BY <1>1, <1>7 DEF VenueTakes, Trade, VenueCloses, VenueRefuses, VenueOK
  <2>3. LedgerOK' /\ MemoryOK' /\ LoopOK'
    BY <1>1, <1>7 DEF VenueTakes, Trade, VenueCloses, VenueRefuses, LedgerOK, MemoryOK, LoopOK,
       durable, memory, batch
  <2>4. WorldOK' /\ UNCHANGED cache
    BY <1>1, <1>2, <1>7 DEF VenueTakes, Trade, VenueCloses, VenueRefuses, WorldOK, world
  <2>5. QED
    BY <1>1, <2>1, <2>2, <2>3, <2>4 DEF TypeOK, VenueOK, cache
<1>8. QED
  BY <1>3, <1>4, <1>5, <1>6, <1>7

LEMMA TypeStep == TypeOK /\ VenueInv /\ LoopInv /\ Next => TypeOK'
  BY ExecuteTypes, PrepareTypes, SubmissionTypes, HandlerTypes, WorldTypes DEF Next

-----------------------------------------------------------------------------
(* The venue, the wire and the database.                                    *)

\* The orders left to send are orders.
LEMMA TodoOrders ==
    ASSUME TypeOK
    PROVE  /\ InTodo \subseteq Orders
           /\ loop.step \in {"send", "submit"} => 1 \in 1..Len(loop.todo) /\ loop.todo[1] \in InTodo
<1>1. loop.todo \in Seq(Orders) /\ (loop.step \in {"send", "submit"} => loop.todo # <<>>)
  BY LoopTyped DEF TypeOK, LoopType
<1>2. \A i \in 1..Len(loop.todo) : loop.todo[i] \in Orders
  BY <1>1, ElementOfSeq
<1>3. loop.todo # <<>> => 1 \in 1..Len(loop.todo)
  BY <1>1, EmptySeq, LenProperties
<1>4. QED
  BY <1>1, <1>2, <1>3 DEF InTodo

\* Nothing trades backwards; an order leaves in SubmitOrder only; closed is for good.
LEMMA VenueMoves ==
    ASSUME TypeOK, VenueInv, TodoInv, Next
    PROVE  /\ VenueInv'
           /\ \A o \in Orders :
                 /\ traded[o] <= traded'[o]
                 /\ venue[o] = "closed" => venue'[o] = "closed"
                 /\ venue[o] = "none" => venue'[o] = "none" \/ (loop.step = "submit" /\ o = loop.todo[1])
<1>1. /\ venue \in [Orders -> {"none", "sent", "working", "filled", "closed"}]
      /\ traded \in [Orders -> 0..Qty] /\ Qty \in Nat \ {0}
  BY RebalanceAssumption DEF TypeOK, VenueOK
<1>2. \A o \in Orders : traded[o] \in Nat /\ traded[o] <= traded[o]
  BY <1>1
<1>3. CASE UNCHANGED <<venue, traded>>
  BY <1>2, <1>3 DEF VenueInv
<1>4. CASE SubmitOrder
  <2>1. loop.todo[1] \in Orders /\ venue[loop.todo[1]] = "none"
    BY <1>4, TodoOrders DEF SubmitOrder, TodoInv, Unsent
  <2>2. venue' = [venue EXCEPT ![loop.todo[1]] = "sent"] /\ traded' = traded
    BY <1>4 DEF SubmitOrder
  <2>3. loop.step = "submit"
    BY <1>4 DEF SubmitOrder
  <2>4. QED
    BY <1>1, <1>2, <2>1, <2>2, <2>3 DEF VenueInv
<1>5. ASSUME NEW o \in Orders, VenueTakes(o)
      PROVE  /\ UNCHANGED traded /\ venue[o] = "sent"
             /\ \E v \in {"working", "closed"} : venue' = [venue EXCEPT ![o] = v]
  BY <1>5 DEF VenueTakes
<1>6. CASE \E o \in Orders : VenueTakes(o)
  BY <1>1, <1>2, <1>5, <1>6 DEF VenueInv
<1>7. ASSUME NEW o \in Orders, Trade(o)
      PROVE  /\ venue[o] = "working" /\ traded[o] < Qty /\ traded' = [traded EXCEPT ![o] = traded[o] + 1]
             /\ \/ traded[o] + 1 = Qty /\ venue' = [venue EXCEPT ![o] = "filled"]
                \/ traded[o] + 1 < Qty /\ venue' = venue
  BY <1>1, <1>7 DEF Trade, VenueInv
<1>8. CASE \E o \in Orders : Trade(o)
  <2>1. PICK o \in Orders : Trade(o)
    BY <1>8
  <2>2. /\ \A p \in Orders : traded'[p] = IF p = o THEN traded[p] + 1 ELSE traded[p]
        /\ \A p \in Orders \ {o} : venue'[p] = venue[p]
        /\ venue[o] = "working"
        /\ venue'[o] = "filled" \/ (venue'[o] = "working" /\ traded[o] + 1 < Qty)
    BY <1>1, <1>7, <2>1
  <2>3. QED
    BY <1>1, <1>2, <2>2 DEF VenueInv
<1>9. CASE \E o \in Orders : VenueCloses(o)
  BY <1>1, <1>2, <1>9 DEF VenueCloses, VenueInv
<1>10. CASE Crash
  <2>1. /\ \A o \in Orders : venue'[o] = venue[o] \/ (venue[o] = "sent" /\ venue'[o] = "none")
        /\ traded' = traded
    BY <1>10 DEF Crash
  <2>2. QED
    BY <1>2, <2>1 DEF VenueInv
<1>11. QED
  BY <1>3, <1>4, <1>6, <1>8, <1>9, <1>10
     DEF Next, Execute, RefuseBatch, GiveUpBatch, Prepare, Replan, SubmissionFails, StopAtFailure,
         StopAtRejection, CreateOrder, DeliverClosed, DeliverRefusal, DeliverFill, ReportFill,
         ReportStatus, ReportConflict, ReconcileCache, VenueRefuses, StopOrders, StopFails, DropPending,
         Disconnect, GateOpens, WindowCloses, ManualTrade, broker

\* What is on its way stays true.
LEMMA WireStep ==
    ASSUME TypeOK, TypeOK', VenueInv, TodoInv, WireInv, Next
    PROVE  WireInv'
<1>1. /\ venue \in [Orders -> {"none", "sent", "working", "filled", "closed"}]
      /\ traded \in [Orders -> 0..Qty] /\ traded' \in [Orders -> 0..Qty] /\ Qty \in Nat \ {0}
  BY RebalanceAssumption DEF TypeOK, VenueOK
<1>2. \A o \in Orders, id \in 0..Qty : id \in 1..traded[o] => id \in 1..traded'[o]
  <2>1. ASSUME NEW o \in Orders, NEW id \in 0..Qty, id \in 1..traded[o] PROVE id \in 1..traded'[o]
    <3>1. traded[o] \in Nat /\ traded'[o] \in Nat /\ traded[o] <= traded'[o]
      BY <1>1, VenueMoves
    <3>2. QED
      BY <2>1, <3>1
  <2>2. QED
    BY <2>1
<1>3. CASE wire' \subseteq wire
  BY <1>2, <1>3, VenueMoves DEF WireInv
<1>4. ASSUME NEW o \in Orders, wire' = wire \cup {<<o, "refused", 0>>} PROVE WireInv'
  BY <1>2, <1>4, VenueMoves DEF WireInv
<1>5. ASSUME NEW o \in Orders, wire' = wire \cup {<<o, "closed", 0>>}, venue'[o] = "closed" PROVE WireInv'
  BY <1>2, <1>5, VenueMoves DEF WireInv
<1>6. CASE \E o \in Orders : Trade(o)
  <2>1. PICK o \in Orders : Trade(o)
    BY <1>6
  <2>2. wire' = wire \cup {<<o, "fill", traded[o] + 1>>} /\ traded'[o] = traded[o] + 1
    BY <1>1, <2>1 DEF Trade
  <2>3. traded[o] + 1 \in 1..traded'[o]
    BY <1>1, <2>2
  <2>4. QED
    BY <1>2, <2>2, <2>3, VenueMoves DEF WireInv
<1>7. ASSUME NEW o \in Orders, VenueTakes(o) \/ VenueCloses(o) \/ VenueRefuses(o)
      PROVE  \/ wire' = wire
             \/ wire' = wire \cup {<<o, "refused", 0>>}
             \/ wire' = wire \cup {<<o, "closed", 0>>} /\ venue'[o] = "closed"
  BY <1>1, <1>7 DEF VenueTakes, VenueCloses, VenueRefuses
<1>8. CASE \E o \in Orders : VenueTakes(o) \/ VenueCloses(o) \/ VenueRefuses(o)
  BY <1>3, <1>4, <1>5, <1>7, <1>8
<1>9. QED
  BY <1>3, <1>6, <1>8
     DEF Next, Execute, RefuseBatch, GiveUpBatch, Prepare, Replan, SubmissionFails, StopAtFailure,
         StopAtRejection, CreateOrder, SubmitOrder, DeliverClosed, DeliverRefusal, DeliverFill,
         ReportFill, ReportStatus, ReportConflict, ReconcileCache, StopOrders, StopFails, DropPending,
         Disconnect, GateOpens, WindowCloses, ManualTrade, Crash, broker

\* What a step may write about an order: a status that is proven, a fill that is a trade.
Written(o) ==
    /\ ledger[o] # None => ledger'[o] # None
    /\ ledger'[o] = "CLOSED" => ledger[o] = "CLOSED" \/ venue[o] = "closed"
    /\ recorded[o] \subseteq recorded'[o] /\ recorded'[o] \subseteq recorded[o] \cup 1..traded[o]
    /\ recorded'[o] = Shares => ledger'[o] = "FILLED"

LEMMA RaisedIsWritten ==
    ASSUME TypeOK, LedgerInv, UNCHANGED recorded,
           NEW o \in Orders, NEW status \in Statuses, ledger' = Raised(o, status),
           status = "CLOSED" => venue[o] = "closed"
    PROVE  \A p \in Orders : Written(p)
<1>1. /\ \A p \in Orders \ {o} : ledger'[p] = ledger[p]
      /\ ledger'[o] \in {ledger[o], status} /\ ledger'[o] # None
      /\ ledger[o] = "FILLED" => ledger'[o] = "FILLED"
  BY RaisedStatus DEF TypeOK
<1>2. QED
  BY <1>1 DEF Written, LedgerInv, FilledIsProven

\* A fill that is written with the status it proves.
LEMMA BookedIsWritten ==
    ASSUME TypeOK, LedgerInv, NEW o \in Orders, NEW id \in Shares, id \in 1..traded[o],
           recorded' \in [Orders -> SUBSET Shares],
           \A p \in Orders : recorded'[p] = IF p = o THEN recorded[o] \cup {id} ELSE recorded[p],
           ledger' = Raised(o, FillStatus(recorded'[o]))
    PROVE  \A p \in Orders : Written(p)
<1> DEFINE status == FillStatus(recorded'[o])
<1>1. status \in {"PARTIAL", "FILLED"} /\ (recorded'[o] = Shares => status = "FILLED")
  <2>1. recorded'[o] \in SUBSET Shares
    OBVIOUS
  <2>2. QED
    BY <2>1, AllShares DEF FillStatus
<1>2. ledger' = Raised(o, status)
  OBVIOUS
<1> HIDE DEF status
<1>3. /\ \A p \in Orders \ {o} : ledger'[p] = ledger[p]
      /\ ledger'[o] \in {ledger[o], status} /\ ledger'[o] # None
      /\ status = "FILLED" => ledger'[o] = "FILLED"
  BY <1>1, <1>2, RaisedStatus DEF TypeOK, Statuses
<1>4. QED
  BY <1>1, <1>3 DEF Written, LedgerInv, FilledIsProven

LEMMA FillIsWritten ==
    ASSUME TypeOK, LedgerInv, NEW o \in Orders, NEW id \in Shares, id \in 1..traded[o], NEW live \in BOOLEAN,
           NEW shown, NEW positions, AcceptFill(o, id, live, shown, positions)
    PROVE  \A p \in Orders : Written(p)
<1>1. /\ recorded' \in [Orders -> SUBSET Shares]
      /\ \A p \in Orders : recorded'[p] = IF p = o THEN recorded[o] \cup {id} ELSE recorded[p]
      /\ \/ ledger' = ledger /\ id \in recorded[o]
         \/ ledger' = Raised(o, FillStatus(recorded'[o]))
  BY AcceptEffect
<1>2. CASE ledger' = ledger /\ id \in recorded[o]
  BY <1>1, <1>2 DEF Written, LedgerInv, FilledIsProven
<1>3. CASE ledger' = Raised(o, FillStatus(recorded'[o]))
  BY <1>1, <1>3, BookedIsWritten
<1>4. QED
  BY <1>1, <1>2, <1>3

LEMMA LedgerMoves ==
    ASSUME TypeOK, WireInv, LedgerInv, Next
    PROVE  \A p \in Orders : Written(p)
<1>1. ASSUME UNCHANGED <<ledger, recorded>> PROVE \A p \in Orders : Written(p)
  BY <1>1 DEF Written, LedgerInv, FilledIsProven
<1>2. CASE CreateOrder
  <2>1. loop.todo[1] \in Orders /\ ledger' = Raised(loop.todo[1], "OPEN") /\ UNCHANGED recorded
    BY <1>2, TodoOrders DEF CreateOrder, CreateRow, Sending
  <2>2. QED
    BY <2>1, RaisedIsWritten DEF Statuses
<1>3. ASSUME NEW o \in Orders, NEW id \in Shares, DeliverFill(o, id) PROVE \A p \in Orders : Written(p)
  <2>1. id \in 1..traded[o]
    <3>1. id \in 0..Qty
      BY RebalanceAssumption DEF Shares
    <3>2. QED
      BY <1>3, <3>1 DEF DeliverFill, WireInv
  <2> DEFINE positions == [cached EXCEPT ![o] = @ \cup {id}]
             shown == [native EXCEPT ![o] = IF Cardinality(positions[o]) = Qty THEN "closed" ELSE @]
  <2>2. \/ UNCHANGED <<ledger, recorded>>
        \/ AcceptFill(o, id, TRUE, shown, positions)
        \/ AcceptFails(o, id) /\ skip' = skip
    <3>1. \/ UNCHANGED <<ledger, recorded>>
          \/ AcceptFill(o, id, TRUE, shown, positions)
          \/ AcceptFails(o, id) /\ NothingMore(shown)
      BY <1>3 DEF DeliverFill
    <3>2. QED
      BY <3>1 DEF NothingMore
  <2> HIDE DEF positions, shown
  <2>3. CASE AcceptFails(o, id) /\ skip' = skip
    <3>1. \/ UNCHANGED <<ledger, recorded>>
          \/ /\ \A p \in Orders : recorded'[p] = IF p = o THEN recorded[o] \cup {id} ELSE recorded[p]
             /\ recorded' \in [Orders -> SUBSET Shares]
             /\ ledger' = Raised(o, FillStatus(recorded'[o]))
      BY <2>3, AcceptFailsEffect
    <3>2. QED
      BY <1>1, <2>1, <3>1, BookedIsWritten
  <2>4. QED
    BY <1>1, <2>1, <2>2, <2>3, FillIsWritten
<1>4. ASSUME NEW o \in Orders, NEW id \in Shares, ReportFill(o, id) PROVE \A p \in Orders : Written(p)
  <2>1. id \in 1..traded[o] /\ AcceptFill(o, id, FALSE, native, cached)
    BY <1>4 DEF ReportFill
  <2>2. QED
    BY <2>1, FillIsWritten
<1>5. ASSUME NEW o \in Orders, DeliverClosed(o) \/ ReconcileCache(o) PROVE \A p \in Orders : Written(p)
  <2>1. recorded' = recorded
    <3>1. CASE DeliverClosed(o)
      BY <3>1 DEF DeliverClosed
    <3>2. CASE ReconcileCache(o)
      <4> DEFINE fills == IF cached[o] = 1..traded[o] THEN recorded[o] ELSE recorded[o] \cup Booked
      <4>1. recorded' = [recorded EXCEPT ![o] = fills]
        BY <3>2 DEF ReconcileCache
      <4>2. fills = recorded[o]
        BY DEF Booked
      <4>3. QED
        BY <4>1, <4>2 DEF TypeOK, LedgerOK
    <3>3. QED
      BY <1>5, <3>1, <3>2
  <2>2. ledger' = ledger \/ (ledger' = Raised(o, "CLOSED") /\ venue[o] = "closed")
    <3>1. CASE DeliverClosed(o)
      BY <3>1 DEF DeliverClosed, WireInv
    <3>2. CASE ReconcileCache(o)
      BY <3>2 DEF ReconcileCache
    <3>3. QED
      BY <1>5, <3>1, <3>2
  <2>3. QED
    BY <1>1, <2>1, <2>2, RaisedIsWritten DEF Statuses
<1>6. ASSUME NEW o \in Orders, ReportStatus(o) PROVE \A p \in Orders : Written(p)
  <2>1. PICK status \in Statuses : ledger' = Raised(o, status) /\ (status = "CLOSED" => venue[o] = "closed")
    BY <1>6 DEF ReportStatus, Statuses
  <2>2. QED
    BY <1>6, <2>1, RaisedIsWritten DEF ReportStatus
<1>7. QED
  BY <1>1, <1>2, <1>3, <1>4, <1>5, <1>6
     DEF Next, Execute, RefuseBatch, GiveUpBatch, Prepare, Replan, SubmissionFails, StopAtFailure,
         StopAtRejection, SubmitOrder, DeliverRefusal, ReportConflict, StopOrders, StopFails, DropPending,
         VenueTakes, Trade, VenueCloses, VenueRefuses,
         Disconnect, GateOpens, WindowCloses, ManualTrade, Crash, durable

LEMMA LedgerStep ==
    ASSUME TypeOK, TypeOK', VenueInv, WireInv, LedgerInv, TodoInv, Next
    PROVE  LedgerInv'
<1>1. ASSUME NEW o \in Orders
      PROVE  /\ venue'[o] # "none" => ledger'[o] # None
             /\ recorded'[o] \subseteq 1..traded'[o]
             /\ recorded'[o] = Shares => ledger'[o] = "FILLED"
             /\ ledger'[o] = "CLOSED" => venue'[o] = "closed"
  <2>1. Written(o)
    BY LedgerMoves
  <2>2. traded[o] \in Nat /\ traded'[o] \in Nat /\ traded[o] <= traded'[o]
    BY RebalanceAssumption, VenueMoves DEF TypeOK, VenueOK
  <2>3. 1..traded[o] \subseteq 1..traded'[o]
    BY <2>2
  <2>4. venue'[o] # "none" => ledger[o] # None
    BY VenueMoves DEF LedgerInv, Claimable, Owned, TodoInv
  <2>5. QED
    BY <2>1, <2>3, <2>4, VenueMoves DEF Written, LedgerInv, RecordedAreTrades
<1>2. QED
  BY <1>1 DEF LedgerInv, Claimable, Owned, RecordedAreTrades, FilledIsProven

-----------------------------------------------------------------------------
(* The batch and the submission in hand.                                    *)

BatchInv == PlanInv /\ SellInv /\ LoopInv /\ TodoInv

\* A filled order stays filled.
LEMMA FilledStays ==
    ASSUME TypeOK', NEW o \in Orders, Written(o), recorded[o] = Shares
    PROVE  recorded'[o] = Shares
  BY DEF TypeOK, LedgerOK, Written

\* A step that leaves the batch alone, or fails it; the submission goes on or ends.
LEMMA RestKeeps ==
    ASSUME IInv, TypeOK', UNCHANGED <<plan, openSells>>, loop' = loop \/ loop' = NoLoop,
           \A o \in Orders : Written(o) /\ (venue[o] = "none" => venue'[o] = "none"),
           plan = None => UNCHANGED <<pending, failed, wire, ledger>>,
           failed => failed',
           loop'.step = "idle" \/ failed' \/ (\A o \in Orders : ledger'[o] = "CLOSED" => ledger[o] = "CLOSED"),
           loop'.step = "submit" => UNCHANGED <<failed, skip>> /\ (Factor' => Factor)
    PROVE  BatchInv'
<1>1. /\ PlanInv /\ SellInv /\ LoopInv /\ TodoInv /\ NoLoop.step = "idle"
      /\ \A o \in Orders : recorded[o] = Shares => recorded'[o] = Shares
      /\ \A S \in SUBSET Orders : Unsent(S) => Unsent(S)'
  BY FilledStays, LoopValues DEF IInv, Unsent
<1>2. /\ Buys \in SUBSET Orders /\ Sells \in SUBSET Orders /\ Sells \ plan \in SUBSET Orders
      /\ \A s \in plan \cap Sells : s \in Orders
  BY DEF Orders
<1>3. PlanInv'
  <2>1. plan # None => Unsent(Sells \ plan)'
    BY <1>1, <1>2 DEF PlanInv
  <2>2. CASE plan = None
    BY <1>1, <2>2 DEF PlanInv
  <2>3. CASE plan # None
    BY <2>1, <2>3 DEF PlanInv, Unsent
  <2>4. QED
    BY <2>2, <2>3
<1>4. SellInv'
  BY <1>1, <1>2 DEF SellInv
<1>5. LoopInv'
  <2>1. CASE loop' = NoLoop
    BY <1>1, <2>1 DEF LoopInv
  <2>2. CASE loop' = loop
    <3>1. loop.step # "idle" => failed' \/ (\A o \in Orders : ledger'[o] # "CLOSED")
      BY <1>1, <2>2 DEF LoopInv
    <3>2. SellsDone => SellsDone'
      BY <1>1, <1>2 DEF SellsDone
    <3>3. QED
      BY <1>1, <1>2, <2>2, <3>1, <3>2 DEF LoopInv
  <2>3. QED
    BY <2>1, <2>2
<1>6. TodoInv'
  <2>1. CASE loop' = NoLoop
    BY <1>1, <2>1 DEF TodoInv
  <2>2. CASE loop' = loop
    <3>1. InTodo' = InTodo /\ InTodo \in SUBSET Orders
      BY <2>2, TodoOrders DEF InTodo, IInv
    <3>2. loop.step = "submit" => loop.todo[1] \in Orders
      BY TodoOrders DEF IInv
    <3>3. QED
      BY <1>1, <2>2, <3>1, <3>2 DEF TodoInv, Owned, Written
  <2>3. QED
    BY <2>1, <2>2
<1>7. QED
  BY <1>3, <1>4, <1>5, <1>6 DEF BatchInv

\* While sells are being sent, the end of one does not end them all.
LEMMA EndsWhenIdle ==
    ASSUME IInv, NEW o \in Orders, Handles(o), EndsSells(o)
    PROVE  loop = NoLoop
<1> SUFFICES ASSUME Sending, loop.last = o PROVE FALSE
  BY DEF Handles
<1>1. loop.todo[1] \in InTodo /\ InTodo \subseteq openSells /\ o \notin InTodo
  BY TodoOrders DEF IInv, TodoInv, Sending, EndsSells
<1>2. QED
  BY <1>1 DEF EndsSells

\* The end of an order: of a sell among others, of the last one, or of a buy.
LEMMA FinishKeeps ==
    ASSUME IInv, TypeOK', LedgerInv', NEW o \in Orders, NEW bad \in BOOLEAN, NEW shown,
           Handles(o), Finish(o, bad, shown), UNCHANGED <<plan, venue, window>>, venue[o] # "none",
           \A p \in Orders : Written(p),
           ~bad => recorded'[o] = Shares /\ \A p \in Orders : ledger'[p] = "CLOSED" => ledger[p] = "CLOSED"
    PROVE  BatchInv'
<1>1. /\ PlanInv /\ SellInv /\ LoopInv /\ TodoInv /\ NoLoop.step = "idle"
      /\ \A p \in Orders : recorded[p] = Shares => recorded'[p] = Shares
      /\ \A S : Unsent(S) <=> Unsent(S)'
      /\ Buys \subseteq Orders /\ Sells \subseteq Orders
  BY FilledStays, LoopValues DEF IInv, Unsent, Orders
<1>2. plan # None /\ plan' = plan
  BY <1>1 DEF PlanInv
<1>3. PlanInv'
  BY <1>1, <1>2 DEF PlanInv
<1>4. CASE EndsSells(o)
  <2>1. loop = NoLoop /\ o \in Sells /\ openSells # None /\ openSells \subseteq {o}
    BY <1>4, EndsWhenIdle DEF EndsSells
  <2>2. openSells' = None /\ failed' = FALSE
    BY <1>4 DEF Finish
  <2>3. SellInv'
    BY <2>2 DEF SellInv
  <2>4. CASE loop' = loop
    BY <1>1, <2>1, <2>3, <1>3, <2>4 DEF BatchInv, LoopInv, TodoInv
  <2>5. CASE loop' # loop
    <3>1. /\ ~failed /\ ~bad /\ pending # None
          /\ loop' = [NoLoop EXCEPT !.step = "replan"] \/ loop' = Submission(pending)
      BY <1>4, <2>5 DEF Finish
    <3>2. SellsDone' /\ Unsent(Buys)'
      <4>1. Unsent(Buys) /\ \A s \in plan \cap Sells : s \in openSells \/ recorded[s] = Shares
        BY <1>1, <2>1, <3>1 DEF SellInv, Unsent
      <4>2. QED
        BY <1>1, <1>2, <2>1, <3>1, <4>1 DEF SellsDone
    <3>3. \A p \in Orders : ledger'[p] # "CLOSED"
      <4>1. ASSUME NEW p \in Orders PROVE ledger'[p] # "CLOSED"
        <5>1. CASE p \in plan \cap Sells
          BY <1>2, <3>2, <5>1 DEF SellsDone, LedgerInv, FilledIsProven
        <5>2. CASE p \in Buys \/ p \in Sells \ plan
          <6>1. venue'[p] = "none"
            BY <1>1, <1>2, <3>2, <5>2 DEF Unsent, PlanInv
          <6>2. QED
            BY <6>1 DEF LedgerInv
        <5>3. QED
          BY <5>1, <5>2 DEF Orders
      <4>2. QED
        BY <4>1
    <3>4. LoopInv' /\ TodoInv'
      <4>1. pending \subseteq Buys /\ pending \in SUBSET Orders
        BY <1>1, <3>1 DEF IInv, TypeOK, MemoryOK
      <4>2. \/ loop'.step = "replan"
            \/ loop'.step = "prepare" /\ loop'.orders = pending
        <5>1. CASE loop' = [NoLoop EXCEPT !.step = "replan"]
          BY <5>1, LoopValues
        <5>2. CASE loop' = Submission(pending)
          BY <4>1, <5>2, LoopValues
        <5>3. QED
          BY <3>1, <5>1, <5>2
      <4>3. QED
        BY <1>2, <2>2, <3>2, <3>3, <4>1, <4>2 DEF LoopInv, TodoInv
    <3>5. QED
      BY <1>3, <2>3, <3>4 DEF BatchInv
  <2>6. QED
    BY <2>4, <2>5
<1>5. CASE ~EndsSells(o)
  <2>1. /\ loop' = loop /\ failed' = (failed \/ bad)
        /\ openSells' = IF o \in Sells /\ openSells # None THEN openSells \ {o} ELSE openSells
    BY <1>5 DEF Finish
  <2>2. openSells' = None <=> openSells = None
    BY <2>1, RebalanceAssumption DEF IInv, TypeOK, MemoryOK, Orders
  <2>3. SellInv'
    <3>1. CASE bad \/ failed
      BY <1>1, <1>2, <2>1, <2>2, <3>1 DEF SellInv
    <3>2. CASE ~bad /\ ~failed /\ openSells # None
      <4>1. CASE openSells = {} /\ Unsent(Sells)
        BY <1>1, <1>2, <2>1, <3>2, <4>1 DEF SellInv, Unsent
      <4>2. CASE \A s \in plan \cap Sells : s \in openSells \/ recorded[s] = Shares
        BY <1>1, <1>2, <2>1, <3>2, <4>2 DEF SellInv
      <4>3. QED
        BY <1>1, <3>2, <4>1, <4>2 DEF SellInv
    <3>3. QED
      BY <2>2, <3>1, <3>2 DEF SellInv
  <2>4. loop.step = "idle" \/ (loop.step = "send" /\ loop.last = o)
    BY <1>1 DEF Handles, Sending
  <2>5. LoopInv'
    <3>1. SellsDone => SellsDone'
      BY <1>1, <1>2 DEF SellsDone
    <3>2. loop.step # "idle" => failed' \/ \A p \in Orders : ledger'[p] # "CLOSED"
      BY <1>1, <2>1 DEF LoopInv
    <3>3. QED
      BY <1>1, <1>2, <2>1, <2>2, <2>4, <3>1, <3>2 DEF LoopInv
  <2>6. TodoInv'
    <3>1. InTodo' = InTodo
      BY <2>1 DEF InTodo
    <3>2. QED
      BY <1>1, <1>2, <2>1, <2>2, <2>4, <3>1 DEF TodoInv
  <2>7. QED
    BY <1>3, <2>3, <2>5, <2>6 DEF BatchInv
<1>6. QED
  BY <1>4, <1>5

\* A fill: it may end its order, fail the batch, or change nothing of it.
\* A fill closes nothing on record.
LEMMA FillClosesNothing ==
    ASSUME TypeOK, NEW o \in Orders, NEW fills, ledger' = Raised(o, FillStatus(fills)),
           NEW p \in Orders, ledger'[p] = "CLOSED"
    PROVE  ledger[p] = "CLOSED"
<1>1. FillStatus(fills) \in Statuses /\ FillStatus(fills) # "CLOSED"
  BY DEF FillStatus, Statuses
<1>2. QED
  BY <1>1, RaisedStatus DEF TypeOK

LEMMA AcceptKeeps ==
    ASSUME IInv, TypeOK', LedgerInv', NEW o \in Orders, NEW id \in Shares, NEW live \in BOOLEAN, NEW shown, NEW positions,
           Handles(o), AcceptFill(o, id, live, shown, positions), UNCHANGED <<plan, venue, window>>,
           venue[o] # "none", \A p \in Orders : Written(p)
    PROVE  BatchInv'
<1>1. TypeOK /\ PlanInv
  BY DEF IInv
<1>2. plan # None
  BY <1>1 DEF PlanInv
<1>3. \A p \in Orders : ledger'[p] = "CLOSED" => ledger[p] = "CLOSED"
  <2>1. ledger' = ledger \/ ledger' = Raised(o, FillStatus(recorded'[o]))
    BY <1>1, AcceptEffect
  <2>2. QED
    BY <1>1, <2>1, FillClosesNothing
<1>4. CASE NothingMore(shown)
  <2>1. UNCHANGED <<pending, openSells, failed, loop, skip>>
    BY <1>4 DEF NothingMore, batch
  <2>2. QED
    BY <1>2, <1>3, <2>1, RestKeeps DEF Factor
<1>5. CASE failed' = TRUE /\ UNCHANGED <<openSells, loop, skip>>
  <2>1. loop'.step # "submit"
    BY <1>5, LoopValues DEF Handles, Sending
  <2>2. QED
    BY <1>2, <1>3, <1>5, <2>1, RestKeeps
<1>6. CASE Finish(o, FALSE, shown) /\ recorded'[o] = Shares
  BY <1>3, <1>6, FinishKeeps
<1>7. QED
  <2>1. \/ NothingMore(shown)
        \/ failed' = TRUE /\ UNCHANGED <<openSells, loop, skip>>
        \/ Finish(o, FALSE, shown) /\ recorded'[o] = Shares
    <3>1. \/ NothingMore(shown)
          \/ /\ pending' = None /\ failed' = TRUE /\ native' = shown
             /\ UNCHANGED <<openSells, loop, skip, cancels>>
          \/ Finish(o, FALSE, shown) /\ recorded'[o] = Shares
      BY <1>1, AcceptEffect
    <3>2. QED
      BY <3>1
  <2>2. QED
    BY <1>4, <1>5, <1>6, <2>1

\* The handlers.
LEMMA HandlersKeep ==
    ASSUME IInv, TypeOK', LedgerInv', Next, NEW o \in Orders,
           \/ DeliverClosed(o) \/ DeliverRefusal(o) \/ ReportStatus(o) \/ ReportConflict(o)
           \/ ReconcileCache(o)
           \/ \E id \in Shares : DeliverFill(o, id) \/ ReportFill(o, id)
    PROVE  BatchInv'
<1>1. /\ TypeOK /\ VenueInv /\ WireInv /\ LedgerInv /\ PlanInv /\ NoLoop.step = "idle"
      /\ \A p \in Orders : Written(p)
  BY LedgerMoves, LoopValues DEF IInv
<1>2. UNCHANGED <<plan, venue, window>>
  BY DEF DeliverClosed, DeliverRefusal, ReportStatus, ReportConflict, ReconcileCache, DeliverFill, ReportFill,
         world, broker
<1>3. ASSUME NEW id \in 1..traded[o] PROVE venue[o] # "none"
  BY <1>1 DEF VenueInv
<1>4. ASSUME NEW id \in Shares, DeliverFill(o, id) PROVE BatchInv'
  <2>1. Handles(o) /\ venue[o] # "none"
    <3>1. id \in 0..Qty
      BY RebalanceAssumption DEF Shares
    <3>2. id \in 1..traded[o]
      BY <1>1, <1>4, <3>1 DEF DeliverFill, WireInv
    <3>3. QED
      BY <1>3, <1>4, <3>2 DEF DeliverFill
  <2> DEFINE positions == [cached EXCEPT ![o] = @ \cup {id}]
             shown == [native EXCEPT ![o] = IF Cardinality(positions[o]) = Qty THEN "closed" ELSE @]
  <2>2. \/ AcceptFill(o, id, TRUE, shown, positions)
        \/ /\ UNCHANGED <<pending, openSells, failed, loop, skip>>
           /\ ledger' = ledger \/ ledger' = Raised(o, FillStatus(recorded'[o]))
    BY <1>4 DEF DeliverFill, AcceptFails, NothingMore, batch
  <2> HIDE DEF positions, shown
  <2>3. CASE AcceptFill(o, id, TRUE, shown, positions)
    BY <1>1, <1>2, <2>1, <2>3, AcceptKeeps
  <2>4. CASE /\ UNCHANGED <<pending, openSells, failed, loop, skip>>
             /\ ledger' = ledger \/ ledger' = Raised(o, FillStatus(recorded'[o]))
    <3>1. plan # None
      BY <1>1, <2>1 DEF PlanInv
    <3>2. \A p \in Orders : ledger'[p] = "CLOSED" => ledger[p] = "CLOSED"
      BY <1>1, <2>4, FillClosesNothing
    <3>3. QED
      BY <1>1, <1>2, <2>4, <3>1, <3>2, RestKeeps DEF Factor
  <2>5. QED
    BY <2>2, <2>3, <2>4
<1>5. ASSUME NEW id \in Shares, ReportFill(o, id) PROVE BatchInv'
  <2>1. Handles(o) /\ venue[o] # "none" /\ AcceptFill(o, id, FALSE, native, cached)
    BY <1>3, <1>5 DEF ReportFill, Handles
  <2>2. QED
    BY <1>1, <1>2, <2>1, AcceptKeeps
<1>6. CASE DeliverClosed(o)
  <2>1. Handles(o) /\ venue[o] # "none"
    BY <1>1, <1>6 DEF DeliverClosed, WireInv
  <2>2. \/ Finish(o, TRUE, [native EXCEPT ![o] = "closed"])
        \/ UNCHANGED <<pending, openSells, failed, loop, skip, ledger>>
        \/ failed' = TRUE /\ UNCHANGED <<pending, openSells, loop, skip>>
    BY <1>6 DEF DeliverClosed, NothingMore, batch
  <2>3. CASE Finish(o, TRUE, [native EXCEPT ![o] = "closed"])
    BY <1>1, <1>2, <2>1, <2>3, FinishKeeps
  <2>4. CASE UNCHANGED <<pending, openSells, failed, loop, skip, ledger>>
    <3>1. plan # None
      BY <1>1, <2>1 DEF PlanInv
    <3>2. QED
      BY <1>1, <1>2, <2>4, <3>1, RestKeeps DEF Factor
  <2>5. CASE failed' = TRUE /\ UNCHANGED <<pending, openSells, loop, skip>>
    <3>1. plan # None
      BY <1>1, <2>1 DEF PlanInv
    <3>2. loop'.step # "submit"
      BY <2>1, <2>5, LoopValues DEF Handles, Sending
    <3>3. QED
      BY <1>1, <1>2, <2>5, <3>1, <3>2, RestKeeps
  <2>6. QED
    BY <2>2, <2>3, <2>4, <2>5
<1>7. CASE ReconcileCache(o)
  <2>1. loop = NoLoop
    BY <1>7 DEF ReconcileCache
  <2>2. \/ venue[o] = "closed" /\ \E shown : Finish(o, TRUE, shown)
        \/ UNCHANGED <<pending, openSells, failed, loop, skip, ledger>>
    <3> DEFINE shown == [native EXCEPT ![o] = CASE venue[o] = "none" -> @
                                                [] venue[o] \in {"filled", "closed"} -> "closed"
                                                [] o \in cancels -> "canceling"
                                                [] OTHER -> "open"]
    <3>1. \/ venue[o] = "closed" /\ Finish(o, TRUE, shown)
          \/ NothingMore(shown) /\ UNCHANGED ledger
      BY <1>7 DEF ReconcileCache
    <3> HIDE DEF shown
    <3>2. QED
      BY <3>1 DEF NothingMore, batch
  <2>3. CASE venue[o] = "closed" /\ \E shown : Finish(o, TRUE, shown)
    <3>1. PICK shown : Finish(o, TRUE, shown)
      BY <2>3
    <3>2. QED
      BY <1>1, <1>2, <2>1, <2>3, <3>1, FinishKeeps DEF Handles
  <2>4. CASE UNCHANGED <<pending, openSells, failed, loop, skip, ledger>>
    <3>1. wire' = wire
      BY <1>7 DEF ReconcileCache
    <3>2. QED
      BY <1>1, <1>2, <2>4, <3>1, RestKeeps DEF Factor
  <2>5. QED
    BY <2>2, <2>3, <2>4
<1>8. CASE DeliverRefusal(o)
  <2>1. plan # None
    BY <1>1, <1>8 DEF DeliverRefusal, PlanInv
  <2>2. Handles(o) /\ UNCHANGED <<openSells, loop, ledger>> /\ (failed => failed')
    BY <1>8 DEF DeliverRefusal
  <2>3. loop'.step # "submit"
    BY <2>2, LoopValues DEF Handles, Sending
  <2>4. QED
    BY <1>1, <1>2, <2>1, <2>2, <2>3, RestKeeps
<1>9. CASE ReportStatus(o) \/ ReportConflict(o)
  <2>1. plan # None
    BY <1>1, <1>9 DEF ReportStatus, ReportConflict, PlanInv, Owned
  <2>2. loop = NoLoop /\ UNCHANGED <<openSells, loop, failed>>
    BY <1>9 DEF ReportStatus, ReportConflict, batch
  <2>3. QED
    BY <1>1, <1>2, <2>1, <2>2, RestKeeps
<1>10. QED
  BY <1>4, <1>5, <1>6, <1>7, <1>8, <1>9

\* Steps of the submission that send nothing new.
LEMMA StopsKeep ==
    ASSUME IInv, TypeOK', Next,
           \/ RefuseBatch \/ GiveUpBatch \/ StopAtFailure \/ StopAtRejection \/ SubmissionFails
    PROVE  BatchInv'
<1>1. /\ TypeOK /\ PlanInv /\ SellInv /\ LoopInv /\ TodoInv /\ NoLoop.step = "idle"
      /\ \A p \in Orders : Written(p)
  BY LedgerMoves, LoopValues DEF IInv
<1>2. loop.step # "idle" /\ loop' = NoLoop /\ UNCHANGED <<plan, venue, window, ledger>>
  BY DEF RefuseBatch, GiveUpBatch, StopAtFailure, StopAtRejection, SubmissionFails, Sending, world,
         broker, durable
<1>3. plan # None
  BY <1>1, <1>2 DEF LoopInv
<1>4. CASE RefuseBatch \/ GiveUpBatch \/ StopAtFailure \/ SubmissionFails
  <2>1. UNCHANGED openSells /\ (failed => failed')
    BY <1>4 DEF RefuseBatch, GiveUpBatch, StopAtFailure, SubmissionFails, batch
  <2>2. QED
    BY <1>1, <1>2, <1>3, <2>1, RestKeeps
<1>5. CASE StopAtRejection
  <2>1. /\ failed' = TRUE
        /\ openSells' = IF openSells = None THEN None ELSE openSells \ InTodo
    BY <1>5 DEF StopAtRejection, InTodo
  <2>2. PlanInv'
    BY <1>1, <1>2, <1>3 DEF PlanInv, Unsent
  <2>3. SellInv'
    BY <1>1, <1>2, <1>3, <2>1 DEF SellInv, Unsent
  <2>4. LoopInv' /\ TodoInv'
    BY <1>1, <1>2 DEF LoopInv, TodoInv
  <2>5. QED
    BY <2>2, <2>3, <2>4 DEF BatchInv
<1>6. QED
  BY <1>4, <1>5

LEMMA ExecuteKeeps ==
    ASSUME IInv, TypeOK', NEW orders \in SUBSET Orders, Execute(orders) PROVE BatchInv'
<1>1. /\ plan = None /\ plan' = orders /\ ~failed /\ failed' = failed /\ openSells = None
      /\ UNCHANGED <<venue, ledger, recorded, pending, wire>> \/ orders \cap Sells # {}
      /\ UNCHANGED <<venue, ledger, recorded, wire>>
      /\ \A o \in Orders : venue[o] = "none" /\ ledger[o] = None
  BY DEF Execute, IInv, PlanInv, broker, durable
<1>2. plan' # None /\ Buys \subseteq Orders /\ Sells \subseteq Orders
  BY <1>1, RebalanceAssumption DEF Orders
<1>3. Unsent(Buys)' /\ Unsent(Sells)' /\ Unsent(Sells \ plan)' /\ \A o \in Orders : ledger'[o] # "CLOSED"
  BY <1>1, <1>2, NoneIsNoStatus DEF Unsent, Statuses
<1>4. PlanInv'
  BY <1>2, <1>3 DEF PlanInv
<1>5. CASE orders \cap Sells = {}
  <2>1. loop' = Submission(orders) /\ openSells' = None
    BY <1>1, <1>5 DEF Execute
  <2>2. loop'.step = "prepare" /\ loop'.orders = orders /\ orders \subseteq Buys
    BY <1>5, <2>1, LoopValues DEF Orders
  <2>3. SellsDone'
    BY <1>1, <1>5 DEF SellsDone
  <2>4. QED
    BY <1>2, <1>3, <1>4, <2>1, <2>2, <2>3 DEF BatchInv, SellInv, LoopInv, TodoInv
<1>6. CASE orders \cap Sells # {}
  <2>1. loop' = Submission(orders \cap Sells) /\ openSells' = {}
    BY <1>6 DEF Execute
  <2>2. loop'.step = "prepare" /\ loop'.orders = orders \cap Sells /\ openSells' # None
    <3>1. orders \cap Sells \in SUBSET Orders /\ {} \in SUBSET Orders
      OBVIOUS
    <3>2. QED
      BY <2>1, <3>1, LoopValues, RebalanceAssumption
  <2>3. QED
    BY <1>1, <1>2, <1>3, <1>4, <2>1, <2>2 DEF BatchInv, SellInv, LoopInv, TodoInv
<1>7. QED
  BY <1>5, <1>6

LEMMA PrepareKeeps ==
    ASSUME IInv, TypeOK', Prepare PROVE BatchInv'
<1>1. /\ TypeOK /\ PlanInv /\ SellInv /\ LoopInv /\ NoLoop.step = "idle" /\ loop.step = "prepare"
      /\ UNCHANGED <<venue, ledger, recorded, plan, failed, window, skip>>
      /\ loop.orders \in SUBSET Orders
  BY LoopValues DEF IInv, TypeOK, LoopOK, Prepare, broker, durable, world
<1>2. plan # None /\ Buys \subseteq Orders /\ Sells \subseteq Orders /\ Sells \cap Buys = {}
  BY <1>1, RebalanceAssumption DEF LoopInv, Orders
<1>3. PlanInv'
  BY <1>1, <1>2 DEF PlanInv, Unsent
<1>4. PICK todo \in SetToSeqs(loop.orders) :
         loop' = IF todo = <<>> THEN NoLoop ELSE [NoLoop EXCEPT !.step = "send", !.todo = todo]
  BY DEF Prepare
<1>5. /\ todo \in Seq(Orders) /\ {todo[i] : i \in 1..Len(todo)} \subseteq loop.orders
      /\ \A i, j \in 1..Len(todo) : todo[i] = todo[j] => i = j
  BY <1>1, SetToSeqsOrders
<1>6. openSells' = IF loop.orders \cap Sells = {} THEN openSells ELSE openSells \cup (loop.orders \cap Sells)
  BY DEF Prepare
<1>7. \/ openSells = None /\ openSells' = None /\ loop.orders \subseteq Buys /\ Unsent(Buys)
      \/ openSells # None /\ openSells' # None /\ openSells' = loop.orders /\ loop.orders = plan \cap Sells
         /\ Unsent(Sells)
  <2>1. CASE openSells = None
    BY <1>1, <1>2, <1>6, <2>1 DEF LoopInv
  <2>2. CASE openSells # None
    <3>1. openSells = {} /\ loop.orders = plan \cap Sells /\ Unsent(Sells)
      BY <1>1, <2>2 DEF LoopInv
    <3>2. openSells' = loop.orders
      BY <1>6, <3>1
    <3>3. QED
      BY <1>1, <2>2, <3>1, <3>2, RebalanceAssumption
  <2>3. QED
    BY <2>1, <2>2
<1>8. SellInv'
  BY <1>1, <1>2, <1>7 DEF SellInv, Unsent
<1>9. CASE loop' = NoLoop
  BY <1>1, <1>3, <1>8, <1>9 DEF BatchInv, LoopInv, TodoInv
<1>10. CASE todo # <<>>
  <2>1. loop'.step = "send" /\ loop'.todo = todo /\ loop'.last = None
    BY <1>4, <1>5, <1>10, LoopValues
  <2>2. LoopInv'
    BY <1>1, <1>2, <1>7, <2>1 DEF LoopInv, SellsDone
  <2>3. TodoInv'
    <3>1. InTodo' \subseteq loop.orders /\ None \notin InTodo'
      BY <1>1, <1>5, <2>1, RebalanceAssumption DEF InTodo
    <3>2. Unsent(InTodo)'
      BY <1>1, <1>2, <1>7, <3>1 DEF Unsent
    <3>3. InTodo' \subseteq IF openSells' = None THEN Buys ELSE openSells' \cap plan'
      <4>1. CASE openSells' = None
        BY <1>7, <3>1, <4>1
      <4>2. CASE openSells' # None
        BY <1>1, <1>7, <3>1, <4>2
      <4>3. QED
        BY <4>1, <4>2
    <3>4. \A i, j \in 1..Len(loop'.todo) : loop'.todo[i] = loop'.todo[j] => i = j
      BY <1>5, <2>1
    <3>5. QED
      BY <2>1, <3>1, <3>2, <3>3, <3>4 DEF TodoInv
  <2>4. QED
    BY <1>3, <1>8, <2>2, <2>3 DEF BatchInv
<1>11. QED
  BY <1>4, <1>9, <1>10

LEMMA ReplanKeeps ==
    ASSUME IInv, TypeOK', Next, Replan PROVE BatchInv'
<1>1. /\ TypeOK /\ PlanInv /\ LoopInv /\ NoLoop.step = "idle" /\ loop.step = "replan"
      /\ UNCHANGED <<venue, ledger, recorded, plan, failed, openSells, wire, pending>>
      /\ \A p \in Orders : Written(p)
  BY LoopValues, LedgerMoves DEF IInv, Replan, broker, world, batch
<1>2. plan # None /\ openSells = None /\ Unsent(Buys)
  BY <1>1 DEF LoopInv
<1>3. CASE loop' = NoLoop
  BY <1>1, <1>2, <1>3, RestKeeps
<1>4. ASSUME NEW buys \in SUBSET Buys, loop' = Submission(buys) PROVE BatchInv'
  <2>1. buys \in SUBSET Orders
    BY DEF Orders
  <2>2. loop'.step = "prepare" /\ loop'.orders = buys
    BY <1>4, <2>1, LoopValues
  <2>3. PlanInv' /\ SellInv'
    BY <1>1, <1>2 DEF PlanInv, SellInv, Unsent
  <2>4. LoopInv' /\ TodoInv'
    BY <1>1, <1>2, <2>2 DEF LoopInv, TodoInv, SellsDone, Unsent
  <2>5. QED
    BY <2>3, <2>4 DEF BatchInv
<1>5. QED
  BY <1>3, <1>4 DEF Replan

LEMMA CreateKeeps ==
    ASSUME IInv, TypeOK', CreateOrder PROVE BatchInv'
<1>1. /\ TypeOK /\ PlanInv /\ SellInv /\ LoopInv /\ TodoInv /\ loop.step = "send"
      /\ UNCHANGED <<venue, recorded, plan, failed, openSells, pending, wire, window, skip>>
      /\ ~failed /\ ~(Factor /\ skip)
  BY DEF IInv, CreateOrder, Sending, Halts, Rejected, Barred, broker, world, batch
<1>2. /\ loop.todo[1] \in InTodo /\ loop.todo[1] \in Orders
      /\ ledger' = Raised(loop.todo[1], "OPEN")
  BY <1>1, TodoOrders DEF CreateOrder, CreateRow
<1>3. ledger'[loop.todo[1]] # None /\ \A p \in Orders : ledger'[p] = "CLOSED" => ledger[p] = "CLOSED"
  <2>1. LedgerOK /\ "OPEN" \in Statuses /\ "OPEN" # "CLOSED"
    BY <1>1 DEF TypeOK, Statuses
  <2>2. QED
    BY <1>2, <2>1, RaisedStatus
<1>4. loop' = [loop EXCEPT !.step = "submit"] /\ loop \in LoopType
  BY <1>1, LoopTyped DEF CreateOrder, TypeOK
<1>5. loop'.step = "submit" /\ loop'.todo = loop.todo /\ loop'.last = loop.last
  BY <1>4 DEF LoopType
<1>6. plan # None
  BY <1>1 DEF LoopInv
<1>7. PlanInv' /\ SellInv'
  BY <1>1, <1>6 DEF PlanInv, SellInv, Unsent
<1>8. LoopInv'
  BY <1>1, <1>3, <1>5, <1>6 DEF LoopInv, SellsDone
<1>9. TodoInv'
  <2>1. InTodo' = InTodo
    BY <1>5 DEF InTodo
  <2>2. QED
    BY <1>1, <1>3, <1>5, <2>1 DEF TodoInv, Owned, Unsent, Factor
<1>10. QED
  BY <1>7, <1>8, <1>9 DEF BatchInv

LEMMA SubmitKeeps ==
    ASSUME IInv, TypeOK', SubmitOrder PROVE BatchInv'
<1> DEFINE o == loop.todo[1]
<1>1. /\ TypeOK /\ PlanInv /\ SellInv /\ LoopInv /\ TodoInv /\ loop.step = "submit"
      /\ UNCHANGED <<ledger, recorded, plan, failed, openSells, pending, wire, window, skip>>
      /\ loop' = Onward(Tail(loop.todo)) /\ NoLoop.step = "idle"
  BY LoopValues DEF IInv, SubmitOrder, world, batch, durable
<1>2. /\ plan # None /\ plan \subseteq Orders /\ Buys \subseteq Orders /\ Sells \subseteq Orders
      /\ Sells \cap Buys = {} /\ openSells \in {None} \cup SUBSET Sells
  BY <1>1, RebalanceAssumption DEF LoopInv, Orders, TypeOK, WorldOK, MemoryOK
<1>3. /\ o \in InTodo /\ o \in Orders /\ InTodo \subseteq Orders /\ loop.todo \in Seq(Orders) /\ loop.todo # <<>>
      /\ loop \in LoopType
  BY <1>1, TodoOrders, LoopTyped DEF TypeOK, LoopType
<1>4. /\ Tail(loop.todo) \in Seq(Orders) /\ Len(Tail(loop.todo)) = Len(loop.todo) - 1
      /\ \A i \in 1..Len(Tail(loop.todo)) : Tail(loop.todo)[i] = loop.todo[i + 1]
      /\ Len(loop.todo) \in Nat
  BY <1>3, HeadTailProperties
<1>5. \A p \in Orders : venue'[p] = IF p = o THEN "sent" ELSE venue[p]
  BY <1>3 DEF SubmitOrder, TypeOK, VenueOK
<1>6. InTodo \subseteq IF openSells = None THEN Buys ELSE openSells \cap plan
  BY <1>1 DEF TodoInv
<1> HIDE DEF o
<1>7. PlanInv'
  <2>1. o \notin Sells \ plan
    BY <1>2, <1>3, <1>6
  <2>2. Unsent(Sells \ plan)'
    BY <1>1, <1>2, <1>5, <2>1 DEF PlanInv, Unsent
  <2>3. QED
    BY <1>1, <1>2, <2>2 DEF PlanInv
<1>8. SellInv'
  <2> SUFFICES ASSUME openSells # None PROVE SellInv'
    BY <1>1 DEF SellInv
  <2>1. o \in openSells /\ o \notin Buys
    BY <1>2, <1>3, <1>6
  <2>2. Unsent(Buys)'
    BY <1>1, <1>2, <1>5, <2>1 DEF SellInv, Unsent
  <2>3. failed \/ \A s \in plan \cap Sells : s \in openSells \/ recorded[s] = Shares
    BY <1>1, <2>1 DEF SellInv
  <2>4. QED
    BY <1>1, <1>2, <2>2, <2>3 DEF SellInv
<1>9. CASE loop' = NoLoop
  BY <1>1, <1>7, <1>8, <1>9 DEF BatchInv, LoopInv, TodoInv
<1>10. CASE loop' # NoLoop
  <2>1. loop' = [loop EXCEPT !.step = "send", !.todo = Tail(loop.todo), !.last = loop.todo[1]]
    BY <1>1, <1>10 DEF Onward
  <2>2. loop'.step = "send" /\ loop'.todo = Tail(loop.todo) /\ loop'.last = o
    BY <1>3, <2>1 DEF LoopType, o
  <2>3. LoopInv'
    BY <1>1, <2>2 DEF LoopInv, SellsDone
  <2>4. InTodo' \subseteq InTodo /\ o \notin InTodo'
    <3>1. ASSUME NEW i \in 1..Len(Tail(loop.todo)) PROVE Tail(loop.todo)[i] \in InTodo \ {o}
      <4>1. i + 1 \in 1..Len(loop.todo) /\ 1 \in 1..Len(loop.todo) /\ i + 1 # 1
        BY <1>4, <3>1
      <4>2. loop.todo[i + 1] # o
        BY <1>1, <4>1 DEF TodoInv, o
      <4>3. QED
        BY <1>4, <3>1, <4>1, <4>2 DEF InTodo
    <3>2. QED
      BY <2>2, <3>1 DEF InTodo
  <2>5. Unsent(InTodo)'
    BY <1>1, <1>3, <1>5, <2>4 DEF TodoInv, Unsent
  <2>6. \A i, j \in 1..Len(loop'.todo) : loop'.todo[i] = loop'.todo[j] => i = j
    <3>1. ASSUME NEW i \in 1..Len(Tail(loop.todo)), NEW j \in 1..Len(Tail(loop.todo)),
                 Tail(loop.todo)[i] = Tail(loop.todo)[j]
          PROVE  i = j
      <4>1. i + 1 \in 1..Len(loop.todo) /\ j + 1 \in 1..Len(loop.todo) /\ loop.todo[i + 1] = loop.todo[j + 1]
        BY <1>4, <3>1
      <4>2. i + 1 = j + 1
        BY <1>1, <4>1 DEF TodoInv
      <4>3. QED
        BY <3>1, <4>2
    <3>2. QED
      BY <2>2, <3>1
  <2>7. InTodo' \subseteq IF openSells' = None THEN Buys ELSE openSells' \cap plan'
    BY <1>1, <1>6, <2>4
  <2>8. TodoInv'
    BY <2>2, <2>4, <2>5, <2>6, <2>7 DEF TodoInv
  <2>9. QED
    BY <1>7, <1>8, <2>3, <2>8 DEF BatchInv
<1>11. QED
  BY <1>9, <1>10

\* Memory is lost, the venue is not.
LEMMA CrashKeeps ==
    ASSUME IInv, TypeOK', Crash PROVE BatchInv'
<1>1. /\ PlanInv /\ NoLoop.step = "idle" /\ loop' = NoLoop /\ openSells' = None /\ pending' = None
      /\ failed' = FALSE /\ wire' = {} /\ UNCHANGED <<ledger, plan>>
  BY LoopValues DEF IInv, Crash, durable
<1>2. /\ \A o \in Sells : o \in Orders
      /\ \A o \in Orders : venue[o] = "none" => venue'[o] = "none"
  <2>1. PICK unsent \in SUBSET {o \in Orders : venue[o] = "sent"} :
           venue' = [o \in Orders |-> IF o \in unsent THEN "none" ELSE venue[o]]
    BY DEF Crash
  <2>2. QED
    BY <2>1 DEF Orders
<1>3. PlanInv'
  BY <1>1, <1>2 DEF PlanInv, Unsent
<1>4. QED
  BY <1>1, <1>3 DEF BatchInv, SellInv, LoopInv, TodoInv

\* The poll, the venue, the connection, the world.
LEMMA WorldKeeps ==
    ASSUME IInv, TypeOK', Next,
           \/ StopOrders \/ StopFails \/ DropPending
           \/ Disconnect \/ GateOpens \/ WindowCloses \/ ManualTrade
           \/ \E o \in Orders : VenueTakes(o) \/ Trade(o) \/ VenueCloses(o) \/ VenueRefuses(o)
    PROVE  BatchInv'
<1>1. /\ TypeOK /\ PlanInv /\ VenueInv /\ TodoInv /\ NoLoop.step = "idle"
      /\ \A p \in Orders : Written(p)
  BY LedgerMoves, LoopValues DEF IInv
<1>2. CASE \E o \in Orders : VenueTakes(o) \/ Trade(o) \/ VenueCloses(o) \/ VenueRefuses(o)
  <2>1. PICK o \in Orders : VenueTakes(o) \/ Trade(o) \/ VenueCloses(o) \/ VenueRefuses(o)
    BY <1>2
  <2>2. UNCHANGED <<plan, window, openSells, loop, failed, skip, ledger>> /\ venue[o] # "none"
    BY <2>1 DEF VenueTakes, Trade, VenueCloses, VenueRefuses, durable, memory, batch, world
  <2>3. plan # None
    BY <1>1, <2>2 DEF PlanInv
  <2>4. \A p \in Orders : venue[p] = "none" => venue'[p] = "none"
    <3>1. venue \in [Orders -> {"none", "sent", "working", "filled", "closed"}]
      BY <1>1 DEF TypeOK, VenueOK
    <3>2. \A p \in Orders \ {o} : venue'[p] = venue[p]
      BY <2>1, <3>1 DEF VenueTakes, Trade, VenueCloses, VenueRefuses
    <3>3. QED
      BY <2>2, <3>2
  <2>5. QED
    BY <1>1, <2>2, <2>3, <2>4, RestKeeps DEF Factor
<1>3. CASE StopOrders \/ StopFails \/ DropPending
  <2>1. plan # None
    <3>1. CASE StopOrders \/ StopFails
      <4>1. PICK o \in Orders : Owned(o)
        BY <3>1 DEF StopOrders, StopFails, Unwanted, Shown
      <4>2. QED
        BY <1>1, <4>1 DEF PlanInv, Owned
    <3>2. CASE DropPending
      BY <1>1, <3>2 DEF DropPending, PlanInv
    <3>3. QED
      BY <1>3, <3>1, <3>2
  <2>2. UNCHANGED <<plan, openSells, loop, venue>> /\ loop = NoLoop /\ (failed => failed')
    BY <1>3 DEF StopOrders, StopFails, DropPending, world, broker
  <2>3. QED
    BY <1>1, <2>1, <2>2, RestKeeps
<1>4. CASE Disconnect \/ GateOpens \/ WindowCloses \/ ManualTrade
  <2>1. /\ UNCHANGED <<plan, openSells, loop, failed, skip, ledger, pending, venue>>
        /\ wire' \subseteq wire /\ (Factor' => Factor)
    BY <1>4 DEF Disconnect, GateOpens, WindowCloses, ManualTrade, Factor, durable, memory, batch, broker
  <2>2. plan = None => wire' = wire
    BY <1>1, <2>1 DEF PlanInv
  <2>3. QED
    BY <1>1, <2>1, <2>2, RestKeeps
<1>5. QED
  BY <1>2, <1>3, <1>4

LEMMA BatchStep ==
    ASSUME IInv, TypeOK', LedgerInv', Next PROVE BatchInv'
  BY ExecuteKeeps, PrepareKeeps, ReplanKeeps, StopsKeep, CreateKeeps, SubmitKeeps, HandlersKeep,
     CrashKeeps, WorldKeeps DEF Next

LEMMA IInvInit == Init => IInv
<1> SUFFICES ASSUME Init PROVE IInv
  OBVIOUS
<1>1. Qty \in Nat \ {0} /\ MaxFaults \in Nat /\ Windows \subseteq {"open", "none"}
  BY RebalanceAssumption
<1>2. NoLoop \in LoopType /\ NoLoop.step = "idle"
  BY LoopValues
<1>3. TypeOK
  <2>1. LoopOK
    BY <1>2, LoopTyped DEF Init
  <2>2. LedgerOK /\ MemoryOK
    BY DEF Init, LedgerOK, MemoryOK
  <2>3. VenueOK
    BY <1>1 DEF Init, VenueOK
  <2>4. WorldOK
    <3>1. window \in {"open", "closed", "none"} /\ faults \in 0..MaxFaults
      BY <1>1 DEF Init
    <3>2. plan = None /\ gate = TRUE /\ foreign = FALSE
      BY DEF Init
    <3>3. QED
      BY <3>1, <3>2 DEF WorldOK
  <2>5. QED
    BY <2>1, <2>2, <2>3, <2>4 DEF TypeOK
<1>4. VenueInv /\ WireInv
  BY <1>1 DEF Init, VenueInv, WireInv
<1>5. LedgerInv
  <2>1. {} # Shares
    BY <1>1 DEF Shares
  <2>2. QED
    BY <2>1, NoneIsNoStatus DEF Init, LedgerInv, Claimable, RecordedAreTrades, FilledIsProven, Statuses
<1>6. PlanInv /\ SellInv /\ LoopInv /\ TodoInv
  BY <1>2 DEF Init, PlanInv, SellInv, LoopInv, TodoInv
<1>7. QED
  BY <1>3, <1>4, <1>5, <1>6 DEF IInv

LEMMA IInvStep == IInv /\ [Next]_vars => IInv'
<1>1. ASSUME IInv, Next PROVE IInv'
  <2>1. TypeOK /\ VenueInv /\ WireInv /\ LedgerInv /\ LoopInv /\ TodoInv
    BY <1>1 DEF IInv
  <2>2. TypeOK'
    BY <1>1, <2>1, TypeStep
  <2>3. VenueInv'
    BY <1>1, <2>1, VenueMoves
  <2>4. WireInv'
    BY <1>1, <2>1, <2>2, WireStep
  <2>5. LedgerInv'
    BY <1>1, <2>1, <2>2, LedgerStep
  <2>6. BatchInv'
    BY <1>1, <2>2, <2>5, BatchStep
  <2>7. QED
    BY <2>2, <2>3, <2>4, <2>5, <2>6 DEF IInv, BatchInv
<1>2. ASSUME IInv, UNCHANGED vars PROVE IInv'
  <2>1. UNCHANGED <<ledger, recorded, skip, known, pending, openSells, failed, recovery, loop, native, cached,
                    venue, traded, cancels, wire, plan, gate, window, foreign, faults>>
    BY <1>2 DEF vars, durable, memory, batch, cache, broker, world
  <2>2. TypeOK'
    BY <1>2, <2>1 DEF IInv, TypeOK, LedgerOK, MemoryOK, LoopOK, VenueOK, WorldOK
  <2>3. VenueInv' /\ WireInv' /\ LedgerInv'
    BY <1>2, <2>1 DEF IInv, VenueInv, WireInv, LedgerInv, Claimable, Owned, RecordedAreTrades, FilledIsProven
  <2>4. PlanInv' /\ SellInv' /\ LoopInv'
    BY <1>2, <2>1 DEF IInv, PlanInv, SellInv, LoopInv, Unsent, SellsDone
  <2>5. TodoInv'
    BY <1>2, <2>1 DEF IInv, TodoInv, InTodo, Unsent, Owned, Factor
  <2>6. QED
    BY <2>2, <2>3, <2>4, <2>5 DEF IInv
<1>3. QED
  BY <1>1, <1>2

-----------------------------------------------------------------------------
(* What follows from it.                                                    *)

\* Where the fills table holds every share, every share has traded.
LEMMA AllTraded ==
    ASSUME TypeOK, LedgerInv, NEW o \in Orders, recorded[o] = Shares
    PROVE  traded[o] = Qty
<1>1. traded[o] \in 0..Qty /\ Qty \in Nat \ {0}
  BY RebalanceAssumption DEF TypeOK, VenueOK
<1>2. Qty \in 1..traded[o]
  BY <1>1 DEF LedgerInv, RecordedAreTrades, Shares
<1>3. QED
  BY <1>1, <1>2

\* What the gateway finds resolved can trade no more.
LEMMA ResolvedIsOver ==
    ASSUME IInv, Resolved, NEW o \in Orders
    PROVE  venue[o] \notin {"sent", "working"}
<1>1. TypeOK /\ VenueInv /\ LedgerInv
  BY DEF IInv
<1>2. CASE ledger[o] = None \/ ledger[o] = "CLOSED"
  BY <1>1, <1>2 DEF LedgerInv, Claimable, Owned
<1>3. CASE ledger[o] = "FILLED"
  <2>1. recorded[o] \in SUBSET Shares
    BY <1>1 DEF TypeOK, LedgerOK
  <2>2. recorded[o] = Shares
    BY <1>3, <2>1, AllShares DEF Resolved
  <2>3. traded[o] = Qty /\ Qty \in Nat \ {0}
    BY <1>1, <2>2, AllTraded, RebalanceAssumption
  <2>4. QED
    BY <1>1, <2>3 DEF VenueInv
<1>4. QED
  BY <1>2, <1>3 DEF Resolved

LEMMA IInvImplies == IInv => NoOverlap
  BY ResolvedIsOver DEF NoOverlap

\* The step with which an order leaves.
LEMMA LeavesInOrder ==
    ASSUME IInv, Next, NEW o \in Orders, Leaves(o)
    PROVE  /\ ~(Factor /\ skip) /\ \A p \in Orders : ledger[p] # "CLOSED"
           /\ o \in Buys => \A s \in plan \cap Sells : traded[s] = Qty /\ recorded[s] = Shares
<1>1. TypeOK /\ VenueInv /\ LedgerInv /\ LoopInv /\ TodoInv
  BY DEF IInv
<1>2. loop.step = "submit" /\ o = loop.todo[1]
  BY <1>1, VenueMoves DEF Leaves
<1>3. ~failed /\ ~(Factor /\ skip) /\ \A p \in Orders : ledger[p] # "CLOSED"
  BY <1>1, <1>2 DEF TodoInv, LoopInv
<1>4. ASSUME o \in Buys PROVE \A s \in plan \cap Sells : traded[s] = Qty /\ recorded[s] = Shares
  <2>1. openSells = None
    <3>1. o \in InTodo /\ InTodo \subseteq IF openSells = None THEN Buys ELSE openSells \cap plan
      BY <1>1, <1>2, TodoOrders DEF TodoInv
    <3>2. openSells \in {None} \cup SUBSET Sells /\ Sells \cap Buys = {}
      BY <1>1, RebalanceAssumption DEF TypeOK, MemoryOK
    <3>3. QED
      BY <1>4, <3>1, <3>2
  <2>2. \A s \in plan \cap Sells : s \in Orders /\ recorded[s] = Shares
    BY <1>1, <1>2, <2>1 DEF LoopInv, SellsDone, Orders
  <2>3. QED
    BY <1>1, <2>2, AllTraded
<1>5. QED
  BY <1>3, <1>4

-----------------------------------------------------------------------------
(* Theorems.                                                                *)

LEMMA SpecIInv == Spec => []IInv
  BY IInvInit, IInvStep, PTL DEF Spec

\* The rows, the gateway's memory, the cache and the venue keep their shape.
THEOREM RebalanceTypeCorrect == Spec => []TypeOK
<1>1. IInv => TypeOK
  BY DEF IInv
<1>2. QED
  BY <1>1, SpecIInv, PTL

\* Whatever reached the broker has a row in the orders table, which was written first
\* (_submit_orders: record_order before submit_order), so a restarted gateway claims it.
THEOREM ClaimableAlways == Spec => []Claimable
<1>1. IInv => Claimable
  BY DEF IInv, LedgerInv
<1>2. QED
  BY <1>1, SpecIInv, PTL

\* The fills table holds trades of the venue only, each once, although a trade comes as
\* an event, as one or more reports, or both (_accept_fill, on_order_filled).
THEOREM FillsAreTrades == Spec => []RecordedAreTrades
<1>1. IInv => RecordedAreTrades
  BY DEF IInv, LedgerInv
<1>2. QED
  BY <1>1, SpecIInv, PTL

\* An order whose recorded fills add up to its quantity is FILLED in the database, in
\* whatever order fills, reports and cancellations came (_accept_fill, record_order).
THEOREM FillsProveFilled == Spec => []FilledIsProven
<1>1. IInv => FilledIsProven
  BY DEF IInv, LedgerInv
<1>2. QED
  BY <1>1, SpecIInv, PTL

\* Where the gateway would let a further factor rebalance begin (_ownership_rejection),
\* no order of this one can still trade, not even after a crash around submit_order.
THEOREM RebalancesDoNotOverlap == Spec => []NoOverlap
  BY IInvImplies, SpecIInv, PTL

\* A buy leaves only when every sell of the plan has traded in full and the fills table
\* says so (_finish_sell releases the buys; a failure or a restart never does).
THEOREM BuysComeLast == Spec => BuysFollowSells
<1>1. IInv /\ [Next]_vars =>
        [\A o \in Buys : Leaves(o) =>
            \A s \in plan \cap Sells : traded[s] = Qty /\ recorded[s] = Shares]_vars
  BY LeavesInOrder DEF Orders
<1>2. QED
  BY <1>1, SpecIInv, PTL DEF Spec, BuysFollowSells

\* Once an order of the batch is recorded as closed without a full fill, or the factor
\* signal is skipped, _submit_orders sends nothing more of the batch.
THEOREM NothingLeavesAfterFailure == Spec => StopsAfterFailure
<1>1. IInv /\ [Next]_vars =>
        [\A o \in Orders : Leaves(o) =>
            ~(Factor /\ skip) /\ \A p \in Orders : ledger[p] # "CLOSED"]_vars
  BY LeavesInOrder
<1>2. QED
  BY <1>1, SpecIInv, PTL DEF Spec, StopsAfterFailure
===============================================================================
