-------------------------- MODULE SignalWorkflowProofs --------------------------
(***************************************************************************)
(* Machine-checked facts about SignalWorkflow, for any number of signals,  *)
(* any windows and any bounds: its type invariant; that the orders of a    *)
(* signal leave at most once, on an approval of their own attempt, given   *)
(* by whom the mode demands, in the window, on the prices of their date;   *)
(* and that it implements SignalLifecycle.                                 *)
(***************************************************************************)
EXTENDS SignalWorkflow, FiniteSetTheorems, SequenceTheorems, TLAPS

-----------------------------------------------------------------------------
(* Lemmas about the sequences the gateway keeps.                           *)

\* Removing an element of a sequence leaves a sequence over the same set
\* (_deferred_signals.pop).
LEMMA RemoveAtType ==
    ASSUME NEW S, NEW q \in Seq(S), NEW i \in 1..Len(q)
    PROVE  RemoveAt(q, i) \in Seq(S)
<1>1. SubSeq(q, 1, i-1) \in Seq(S)
  BY SubSeqProperties
<1>2. SubSeq(q, i+1, Len(q)) \in Seq(S)
  BY SubSeqProperties
<1> QED
  BY <1>1, <1>2, ConcatProperties DEF RemoveAt

\* Every enumeration of a finite set of messages is a sequence of messages
\* (the rows of list_new_signal_workflows, in whatever order).
LEMMA SetToSeqsType ==
    ASSUME NEW S, NEW T, IsFiniteSet(S), S \subseteq T, NEW q \in SetToSeqs(S)
    PROVE  q \in Seq(T)
<1>1. Cardinality(S) \in Nat
  BY FS_CardinalityType
<1>2. q \in [1..Cardinality(S) -> T]
  BY DEF SetToSeqs
<1> QED
  BY <1>1, <1>2, IsASeq

\* The NEW rows are finitely many messages.
LEMMA NewMessagesType ==
    ASSUME TypeOK
    PROVE  /\ IsFiniteSet(NewMessages)
           /\ NewMessages \subseteq Message
<1> DEFINE New == {t \in Signals : status[t] = "NEW"}
<1>1. IsFiniteSet(New)
  BY WorkflowAssumption, FS_Subset
<1>2. IsFiniteSet(NewMessages)
  <2> DEFINE f == [s \in New |-> [sig |-> s, exp |-> expires[s]]]
  <2>1. NewMessages = {f[s] : s \in New}
    BY DEF NewMessages
  <2>2. f \in Surjection(New, NewMessages)
    BY <2>1 DEF Surjection
  <2> QED
    BY <1>1, <2>2, FS_Surjection
<1>3. NewMessages \subseteq Message
  BY DEF TypeOK, RowsOK, NewMessages, Message
<1> QED
  BY <1>2, <1>3

\* Keeping a message in _deferred_signals keeps it a sequence of such
\* messages.
LEMMA DeferredIn ==
    ASSUME NEW M, deferred \in Seq(M), NEW m \in M
    PROVE  /\ Held(m) \in Seq(M)
           /\ HeldAgain(m) \in Seq(M)
           /\ Kept(m) \in Seq(M)
<1>1. Held(m) \in Seq(M)
  BY AppendProperties DEF Held
<1>2. HeldAgain(m) \in Seq(M)
  <2>1. HeldAgain(m) \in [1..Len(Held(m)) -> M]
    BY <1>1, ElementOfSeq DEF HeldAgain
  <2> QED
    BY <1>1, <2>1, IsASeq, LenProperties
<1>3. Kept(m) \in Seq(M)
  BY RemoveAtType DEF Kept, Places
<1> QED
  BY <1>1, <1>2, <1>3

LEMMA DeferredType ==
    ASSUME deferred \in Seq(Message), NEW m \in Message
    PROVE  /\ Held(m) \in Seq(Message)
           /\ HeldAgain(m) \in Seq(Message)
           /\ Kept(m) \in Seq(Message)
  BY DeferredIn

\* A callback with messages of the right type is a frame, and owes nothing yet.
LEMMA CallbackType ==
    ASSUME NEW phase \in Phases, NEW q \in Seq(Message)
    PROVE  Callback(phase, q) \in Frames /\ Callback(phase, q).step = "next"
BY WorkflowAssumption DEF Callback, Frames, Steps

LEMMA IdleType == Idle \in Frames /\ Idle.step = "idle"
BY WorkflowAssumption, EmptySeq DEF Idle, Frames, Steps, Phases

\* The message in hand and what is left of the callback without it.
LEMMA TakingType ==
    ASSUME FrameOK, Taking
    PROVE  /\ Msg \in Message /\ Msg.sig \in Signals /\ Msg.exp \in 0..MaxTime
           /\ Tail(frame.queue) \in Seq(Message)
           /\ Rest \in Frames /\ Rest.step = "next"
<1>1. frame.queue \in Seq(Message) /\ frame.queue # <<>>
  BY DEF FrameOK, Frames, Taking
<1>2. Msg \in Message /\ Tail(frame.queue) \in Seq(Message)
  BY <1>1, HeadTailProperties DEF Msg
<1>3. Msg.sig \in Signals /\ Msg.exp \in 0..MaxTime
  BY <1>2 DEF Message
<1>4. Rest \in Frames /\ Rest.step = "next"
  BY <1>2 DEF FrameOK, Frames, Taking, Rest
<1> QED
  BY <1>2, <1>3, <1>4

\* The frame of a message whose transactions are still owed.
LEMMA OwedType ==
    ASSUME FrameOK, Taking, NEW step \in Steps, NEW verdict \in Verdicts
    PROVE  /\ Owed(step, verdict) \in Frames
           /\ Owed(step, verdict).step = step
           /\ Owed(step, verdict).sig = Msg.sig
           /\ Owed(step, verdict).verdict = verdict
           /\ Owed(step, verdict).claimed = (verdict = "APPROVED")
<1>1. frame.phase \in Phases
  BY DEF FrameOK, Frames
<1> QED
  BY <1>1, TakingType DEF Owed, Frames

\* Going on to another step of the same frame.
LEMMA StepType ==
    ASSUME frame \in Frames, NEW step \in Steps
    PROVE  /\ [frame EXCEPT !.step = step] \in Frames
           /\ [frame EXCEPT !.step = step].step = step
           /\ [frame EXCEPT !.step = step].sig = frame.sig
           /\ [frame EXCEPT !.step = step].verdict = frame.verdict
           /\ [frame EXCEPT !.step = step].claimed = frame.claimed
BY DEF Frames

-----------------------------------------------------------------------------
(* Type correctness.                                                       *)

LEMMA TypeInit == Init => TypeOK
BY WorkflowAssumption, EmptySeq
   DEF Init, TypeOK, RowsOK, LedgerOK, NodeOK, FrameOK, ChatOK, WorldOK, Frames, OwedSteps,
       Statuses, Steps, Phases, Idle, NoBotWork

\* A part of the state that a step leaves alone keeps its type.
LEMMA TypeUnchanged ==
    /\ RowsOK /\ UNCHANGED row => RowsOK'
    /\ LedgerOK /\ UNCHANGED <<rearms, audit, skip, orders>> => LedgerOK'
    /\ NodeOK /\ UNCHANGED <<node, mode, prices, alarm>> => NodeOK'
    /\ FrameOK /\ UNCHANGED <<deferred, frame>> => FrameOK'
    /\ ChatOK /\ UNCHANGED telegram => ChatOK'
    /\ WorldOK /\ UNCHANGED world => WorldOK'
<1>1. RowsOK /\ UNCHANGED row => RowsOK'
  BY DEF RowsOK, row
<1>2. LedgerOK /\ UNCHANGED <<rearms, audit, skip, orders>> => LedgerOK'
  BY DEF LedgerOK
<1>3. NodeOK /\ UNCHANGED <<node, mode, prices, alarm>> => NodeOK'
  BY DEF NodeOK
<1>4. FrameOK /\ UNCHANGED <<deferred, frame>> => FrameOK'
  BY DEF FrameOK
<1>5. ChatOK /\ UNCHANGED telegram => ChatOK'
  BY DEF ChatOK, telegram
<1>6. WorldOK /\ UNCHANGED world => WorldOK'
  BY DEF WorldOK, world
<1> QED
  BY <1>1, <1>2, <1>3, <1>4, <1>5, <1>6

LEMMA TypeStep == TypeOK /\ [Next]_vars => TypeOK'
<1> SUFFICES ASSUME TypeOK, [Next]_vars PROVE TypeOK'
  OBVIOUS
<1> USE WorkflowAssumption
<1>1. ASSUME StartActor PROVE TypeOK'
  <2>1. NodeOK'
    BY <1>1 DEF TypeOK, NodeOK, StartActor, row, db, memory, gateway, telegram, world
  <2> QED
    BY <1>1, <2>1, TypeUnchanged DEF TypeOK, StartActor, row, db, memory, gateway,
       telegram, world
<1>2. ASSUME StartGateway PROVE TypeOK'
  <2>1. NodeOK'
    BY <1>2 DEF TypeOK, NodeOK, StartGateway, Requested, row, db, memory, gateway,
       telegram, world
  <2> QED
    BY <1>2, <2>1, TypeUnchanged DEF TypeOK, StartGateway, row, db, memory, gateway,
       telegram, world
<1>3. ASSUME NEW s \in Signals, Publish(s) PROVE TypeOK'
  <2>1. RowsOK'
    BY <1>3 DEF TypeOK, RowsOK, Publish, Statuses, row, db, memory, gateway, telegram, world
  <2>2. FrameOK'
    <3> DEFINE q == <<[sig |-> s, exp |-> expires[s]]>>
    <3>1. [sig |-> s, exp |-> expires[s]] \in Message
      BY DEF TypeOK, RowsOK, Message
    <3>2. q \in Seq(Message)
      BY <3>1
    <3>3. Callback("single", q) \in Frames /\ Callback("single", q).step = "next"
      BY <3>2, CallbackType DEF Phases
    <3>4. deferred' = deferred /\ (frame' = frame \/ frame' = Callback("single", q))
      BY <1>3 DEF Publish
    <3> HIDE DEF q
    <3> QED
      BY <3>3, <3>4 DEF TypeOK, FrameOK, OwedSteps
  <2> QED
    BY <1>3, <2>1, <2>2, TypeUnchanged DEF TypeOK, Publish, row, db, memory, gateway,
       telegram, world
<1>4. ASSUME CatalogAnswers PROVE TypeOK'
  <2>1. NodeOK'
    BY <1>4 DEF TypeOK, NodeOK, CatalogAnswers, row, db, memory, gateway, telegram, world
  <2>2. FrameOK'
    <3>1. CASE UNCHANGED <<frame, deferred>>
      BY <3>1 DEF TypeOK, FrameOK
    <3>2. CASE frame' = Callback("deferred", deferred) /\ deferred' = <<>>
      <4>1. frame' \in Frames /\ frame'.step = "next"
        BY <3>2, CallbackType DEF TypeOK, FrameOK, Phases
      <4> QED
        BY <3>2, <4>1, EmptySeq DEF FrameOK, OwedSteps
    <3> QED
      BY <1>4, <3>1, <3>2 DEF CatalogAnswers
  <2> QED
    BY <1>4, <2>1, <2>2, TypeUnchanged DEF TypeOK, CatalogAnswers, row, db, memory,
       gateway, telegram, world
<1>5. ASSUME NEW s \in Signals, AlarmRings(s) PROVE TypeOK'
  <2>1. NodeOK'
    BY <1>5 DEF TypeOK, NodeOK, AlarmRings, row, db, memory, gateway, telegram, world
  <2>2. FrameOK'
    <3> DEFINE q == <<[sig |-> s, exp |-> alarm[s]]>>
    <3>1. alarm[s] \in 0..MaxTime
      BY <1>5 DEF TypeOK, NodeOK, AlarmRings
    <3>2. [sig |-> s, exp |-> alarm[s]] \in Message
      BY <3>1 DEF Message
    <3>3. q \in Seq(Message)
      BY <3>2
    <3>4. Callback("single", q) \in Frames /\ Callback("single", q).step = "next"
      BY <3>3, CallbackType DEF Phases
    <3>5. deferred' = deferred /\ frame' = Callback("single", q)
      BY <1>5 DEF AlarmRings
    <3> HIDE DEF q
    <3> QED
      BY <3>4, <3>5 DEF TypeOK, FrameOK, OwedSteps
  <2> QED
    BY <1>5, <2>1, <2>2, TypeUnchanged DEF TypeOK, AlarmRings, row, db, memory, gateway,
       telegram, world
<1>6. ASSUME Poll PROVE TypeOK'
  <2>1. FrameOK'
    <3>1. PICK q \in SetToSeqs({m \in NewMessages : m.exp <= now}) : frame' = Callback("stale", q)
      BY <1>6 DEF Poll
    <3>2. q \in Seq(Message)
      BY <3>1, NewMessagesType, SetToSeqsType, FS_Subset
    <3> QED
      BY <1>6, <3>1, <3>2, CallbackType DEF TypeOK, FrameOK, Poll, Phases, OwedSteps
  <2> QED
    BY <1>6, <2>1, TypeUnchanged DEF TypeOK, Poll, row, db, memory, gateway, telegram, world
<1>7. ASSUME HoldForPrices PROVE TypeOK'
  <2>1. NodeOK'
    BY <1>7, TakingType DEF TypeOK, NodeOK, HoldForPrices, Requested, PriceDate, row, db,
       memory, gateway, telegram, world
  <2>2. FrameOK'
    BY <1>7, TakingType, DeferredType DEF TypeOK, FrameOK, HoldForPrices, OwedSteps, row,
       db, memory, gateway, telegram, world
  <2> QED
    BY <1>7, <2>1, <2>2, TypeUnchanged DEF TypeOK, HoldForPrices, row, db, memory,
       gateway, telegram, world
<1>8. ASSUME DropHandled PROVE TypeOK'
  <2>1. FrameOK'
    BY <1>8, TakingType, DeferredType DEF TypeOK, FrameOK, DropHandled, OwedSteps, row,
       db, memory, gateway, telegram, world
  <2> QED
    BY <1>8, <2>1, TypeUnchanged DEF TypeOK, DropHandled, row, db, memory, gateway,
       telegram, world
<1>9. ASSUME HoldForAccount PROVE TypeOK'
  <2>1. FrameOK'
    BY <1>9, TakingType, DeferredType DEF TypeOK, FrameOK, HoldForAccount, OwedSteps, row,
       db, memory, gateway, telegram, world
  <2> QED
    BY <1>9, <2>1, TypeUnchanged DEF TypeOK, HoldForAccount, row, db, memory, gateway,
       telegram, world
<1>10. ASSUME NEW rejected \in BOOLEAN, RefuseNew(rejected) PROVE TypeOK'
  <2>1. RowsOK'
    BY <1>10 DEF TypeOK, RowsOK, RefuseNew, Statuses, row, db, memory, gateway, telegram, world
  <2>2. FrameOK'
    <3>1. FrameOK /\ Taking
      BY <1>10 DEF TypeOK, RefuseNew, Deciding
    <3>2. PICK step \in {"skip", "audit"}, verdict \in {"EXPIRED", "RISK_REJECTED"} :
             frame' = Owed(step, verdict)
      BY <1>10 DEF RefuseNew
    <3>3. step \in Steps /\ verdict \in Verdicts
      BY DEF Steps, Verdicts
    <3>4. frame' \in Frames /\ frame'.sig = Msg.sig /\ frame'.verdict = verdict
      BY <3>1, <3>2, <3>3, OwedType
    <3>5. Msg \in Message /\ Msg.sig \in Signals
      BY <3>1, TakingType
    <3>6. deferred' \in Seq(Message)
      BY <1>10, <3>1, <3>5, DeferredType DEF RefuseNew, FrameOK
    <3> QED
      BY <3>3, <3>4, <3>5, <3>6 DEF FrameOK
  <2> QED
    BY <1>10, <2>1, <2>2, TypeUnchanged DEF TypeOK, RefuseNew, row, db, memory, gateway,
       telegram, world
<1>11. ASSUME AskApproval PROVE TypeOK'
  <2>1. RowsOK'
    BY <1>11 DEF TypeOK, RowsOK, AskApproval, Statuses, row, db, memory, gateway,
       telegram, world
  <2>2. FrameOK'
    BY <1>11, TakingType, OwedType, DeferredType DEF TypeOK, FrameOK, AskApproval,
       OwedSteps, Steps, Verdicts, Deciding, row, db, memory, gateway, telegram, world
  <2> QED
    BY <1>11, <2>1, <2>2, TypeUnchanged DEF TypeOK, AskApproval, row, db, memory, gateway,
       telegram, world
<1>12. ASSUME WaitForOpening PROVE TypeOK'
  <2>1. NodeOK'
    BY <1>12, TakingType DEF TypeOK, NodeOK, WaitForOpening, Deciding, row, db, memory,
       gateway, telegram, world
  <2>2. FrameOK'
    BY <1>12, TakingType DEF TypeOK, FrameOK, WaitForOpening, OwedSteps, Deciding, row,
       db, memory, gateway, telegram, world
  <2> QED
    BY <1>12, <2>1, <2>2, TypeUnchanged DEF TypeOK, WaitForOpening, row, db, memory,
       gateway, telegram, world
<1>13. ASSUME ClaimAuto PROVE TypeOK'
  <2>1. RowsOK'
    BY <1>13 DEF TypeOK, RowsOK, ClaimAuto, Statuses, row, db, memory, gateway, telegram, world
  <2>2. LedgerOK'
    BY <1>13, TakingType DEF TypeOK, LedgerOK, ClaimAuto, Decisions, Verdicts, Deciding,
       row, db, memory, gateway, telegram, world
  <2>3. FrameOK'
    <3>1. FrameOK /\ Taking
      BY <1>13 DEF TypeOK, ClaimAuto, Deciding
    <3>2. CASE frame' = Rest
      BY <1>13, <3>1, <3>2, TakingType DEF FrameOK, ClaimAuto, OwedSteps
    <3>3. CASE frame' = Owed("execute", "APPROVED")
      <4>1. frame' \in Frames /\ frame'.sig = Msg.sig /\ frame'.verdict = "APPROVED"
        BY <3>1, <3>3, OwedType DEF Steps, Verdicts
      <4> QED
        BY <1>13, <3>1, <4>1, TakingType DEF FrameOK, ClaimAuto, Verdicts
    <3> QED
      BY <1>13, <3>2, <3>3 DEF ClaimAuto
  <2> QED
    BY <1>13, <2>1, <2>2, <2>3, TypeUnchanged DEF TypeOK, ClaimAuto, row, db, memory,
       gateway, telegram, world
<1>14. ASSUME PollGoesOn PROVE TypeOK'
  <2>1. NodeOK'
    BY <1>14 DEF TypeOK, NodeOK, PollGoesOn, Requested, row, db, memory, gateway,
       telegram, world
  <2>2. FrameOK'
    BY <1>14, CallbackType, IdleType, EmptySeq DEF TypeOK, FrameOK, PollGoesOn, Phases,
       OwedSteps, row, db, memory, gateway, telegram, world
  <2> QED
    BY <1>14, <2>1, <2>2, TypeUnchanged DEF TypeOK, PollGoesOn, row, db, memory, gateway,
       telegram, world
<1>15. ASSUME ListNew PROVE TypeOK'
  <2>1. FrameOK'
    <3>1. PICK q \in SetToSeqs(NewMessages) : frame' = Callback("new", q)
      BY <1>15 DEF ListNew
    <3>2. q \in Seq(Message)
      BY <3>1, NewMessagesType, SetToSeqsType, FS_Subset
    <3> QED
      BY <1>15, <3>1, <3>2, CallbackType DEF TypeOK, FrameOK, ListNew, Phases, OwedSteps
  <2> QED
    BY <1>15, <2>1, TypeUnchanged DEF TypeOK, ListNew, row, db, memory, gateway, telegram, world
<1>16. ASSUME Return PROVE TypeOK'
  <2>1. FrameOK'
    BY <1>16, IdleType DEF TypeOK, FrameOK, Return, OwedSteps, row, db, memory, gateway,
       telegram, world
  <2> QED
    BY <1>16, <2>1, TypeUnchanged DEF TypeOK, Return, row, db, memory, gateway, telegram, world
<1>17. ASSUME NEW s \in Signals, ClaimApproved(s) PROVE TypeOK'
  <2>1. RowsOK'
    BY <1>17 DEF TypeOK, RowsOK, ClaimApproved, Statuses, row, db, memory, gateway,
       telegram, world
  <2>2. FrameOK'
    <3>1. PICK verdict \in ClaimVerdicts(s) :
             frame' = [step |-> FirstOwed(verdict), phase |-> "claim", queue |-> <<>>, sig |-> s,
                       exp |-> expires[s], verdict |-> verdict, claimed |-> TRUE]
      BY <1>17 DEF ClaimApproved
    <3>2. verdict \in Verdicts
      BY DEF ClaimVerdicts, Verdicts
    <3>3. FirstOwed(verdict) \in Steps
      BY DEF FirstOwed, Steps
    <3>4. expires[s] \in 0..MaxTime /\ <<>> \in Seq(Message) /\ "claim" \in Phases
      BY EmptySeq DEF TypeOK, RowsOK, Phases
    <3>5. frame' \in Frames /\ frame'.sig = s /\ frame'.verdict = verdict
      BY <3>1, <3>2, <3>3, <3>4 DEF Frames
    <3>6. deferred' \in Seq(Message)
      BY <1>17 DEF ClaimApproved, TypeOK, FrameOK
    <3> QED
      BY <3>2, <3>5, <3>6 DEF FrameOK
  <2> QED
    BY <1>17, <2>1, <2>2, TypeUnchanged DEF TypeOK, ClaimApproved, row, db, memory,
       gateway, telegram, world
<1>18. ASSUME RecordSkip PROVE TypeOK'
  <2>1. LedgerOK'
    BY <1>18 DEF TypeOK, LedgerOK, RecordSkip, FrameOK, OwedSteps, row, db, memory,
       gateway, telegram, world
  <2>2. FrameOK'
    <3>1. PICK step \in {"finish", "audit"} : frame' = [frame EXCEPT !.step = step]
      BY <1>18 DEF RecordSkip
    <3>2. frame' \in Frames /\ frame'.sig = frame.sig /\ frame'.verdict = frame.verdict
      BY <3>1, StepType DEF TypeOK, FrameOK, Steps
    <3> QED
      BY <1>18, <3>2 DEF RecordSkip, TypeOK, FrameOK, OwedSteps
  <2> QED
    BY <1>18, <2>1, <2>2, TypeUnchanged DEF TypeOK, RecordSkip, row, db, memory, gateway,
       telegram, world
<1>19. ASSUME RecordVerdict PROVE TypeOK'
  <2>1. LedgerOK'
    BY <1>19 DEF TypeOK, LedgerOK, RecordVerdict, FrameOK, OwedSteps, Decisions, row, db,
       memory, gateway, telegram, world
  <2>2. FrameOK'
    BY <1>19, StepType, CallbackType DEF TypeOK, FrameOK, RecordVerdict, Steps, OwedSteps,
       Frames, Verdicts, row, db, memory, gateway, telegram, world
  <2> QED
    BY <1>19, <2>1, <2>2, TypeUnchanged DEF TypeOK, RecordVerdict, row, db, memory,
       gateway, telegram, world
<1>20. ASSUME Execute PROVE TypeOK'
  <2>1. LedgerOK'
    BY <1>20 DEF TypeOK, LedgerOK, Execute, FrameOK, OwedSteps, row, db, memory, gateway,
       telegram, world
  <2>2. FrameOK'
    <3>1. frame' = [frame EXCEPT !.step = "finish"] /\ deferred' = deferred
      BY <1>20 DEF Execute
    <3>2. frame' \in Frames /\ frame'.sig = frame.sig /\ frame'.verdict = frame.verdict
      BY <3>1, StepType DEF TypeOK, FrameOK, Steps
    <3> QED
      BY <1>20, <3>1, <3>2 DEF Execute, TypeOK, FrameOK, OwedSteps
  <2> QED
    BY <1>20, <2>1, <2>2, TypeUnchanged DEF TypeOK, Execute, row, db, memory, gateway,
       telegram, world
<1>21. ASSUME Finish PROVE TypeOK'
  <2>1. RowsOK'
    BY <1>21 DEF TypeOK, RowsOK, Finish, Statuses, FrameOK, OwedSteps, Verdicts, row, db,
       memory, gateway, telegram, world
  <2>2. FrameOK'
    BY <1>21, StepType, CallbackType DEF TypeOK, FrameOK, Finish, Steps, OwedSteps,
       Frames, Verdicts, row, db, memory, gateway, telegram, world
  <2> QED
    BY <1>21, <2>1, <2>2, TypeUnchanged DEF TypeOK, Finish, row, db, memory, gateway,
       telegram, world
<1>22. ASSUME GatewayStops PROVE TypeOK'
  <2>1. NodeOK'
    BY <1>22 DEF TypeOK, NodeOK, GatewayStops, row, db, memory, gateway, telegram, world
  <2>2. FrameOK'
    BY <1>22, IdleType, EmptySeq DEF TypeOK, FrameOK, GatewayStops, OwedSteps, row, db,
       memory, gateway, telegram, world
  <2>3. WorldOK'
    BY <1>22 DEF TypeOK, WorldOK, GatewayStops, row, db, memory, gateway, telegram, world
  <2> QED
    BY <1>22, <2>1, <2>2, <2>3, TypeUnchanged DEF TypeOK, GatewayStops, row, db, memory,
       gateway, telegram, world
<1>23. ASSUME CallbackFails PROVE TypeOK'
  <2>1. FrameOK'
    BY <1>23, IdleType, EmptySeq DEF TypeOK, FrameOK, CallbackFails, OwedSteps, row, db,
       memory, gateway, telegram, world
  <2>2. WorldOK'
    BY <1>23 DEF TypeOK, WorldOK, CallbackFails, row, db, memory, gateway, telegram, world
  <2> QED
    BY <1>23, <2>1, <2>2, TypeUnchanged DEF TypeOK, CallbackFails, row, db, memory,
       gateway, telegram, world
<1>24. ASSUME BotPolls PROVE TypeOK'
  <2>1. RowsOK'
    BY <1>24 DEF TypeOK, RowsOK, BotPolls, Statuses, ExpireOverdue, row, db, memory,
       gateway, telegram, world
  <2>2. ChatOK'
    <3> DEFINE notes == {<<s, "EXPIRED">> : s \in Overdue}
               outbox == {s \in Signals : status'[s] = "PENDING"} \ notified
    <3>1. notes \in SUBSET (Signals \X Decisions)
      BY DEF Overdue, Decisions, Verdicts
    <3>2. outbox \in SUBSET Signals
      OBVIOUS
    <3>3. bot' = [bot EXCEPT !.notes = notes, !.outbox = outbox] /\ cards' = cards
      BY <1>24 DEF BotPolls
    <3> HIDE DEF notes, outbox
    <3> QED
      BY <3>1, <3>2, <3>3 DEF TypeOK, ChatOK
  <2> QED
    BY <1>24, <2>1, <2>2, TypeUnchanged DEF TypeOK, BotPolls, row, db, memory, gateway,
       telegram, world
<1>25. ASSUME NEW s \in Signals, NEW decision \in Decisions, BotNotes(s, decision) PROVE TypeOK'
  <2>1. LedgerOK'
    BY <1>25 DEF TypeOK, LedgerOK, BotNotes, row, db, memory, gateway, telegram, world
  <2>2. ChatOK'
    BY <1>25 DEF TypeOK, ChatOK, BotNotes, row, db, memory, gateway, telegram, world
  <2> QED
    BY <1>25, <2>1, <2>2, TypeUnchanged DEF TypeOK, BotNotes, row, db, memory, gateway,
       telegram, world
<1>26. ASSUME NEW s \in Signals, BotSendsCard(s) PROVE TypeOK'
  <2>1. ChatOK'
    BY <1>26 DEF TypeOK, ChatOK, BotSendsCard, row, db, memory, gateway, telegram, world
  <2> QED
    BY <1>26, <2>1, TypeUnchanged DEF TypeOK, BotSendsCard, row, db, memory, gateway,
       telegram, world
<1>27. ASSUME BotMarksNotified PROVE TypeOK'
  <2>1. RowsOK'
    BY <1>27 DEF TypeOK, RowsOK, BotMarksNotified, ChatOK, row, db, memory, gateway,
       telegram, world
  <2>2. ChatOK'
    BY <1>27 DEF TypeOK, ChatOK, BotMarksNotified, row, db, memory, gateway, telegram, world
  <2> QED
    BY <1>27, <2>1, <2>2, TypeUnchanged DEF TypeOK, BotMarksNotified, row, db, memory,
       gateway, telegram, world
<1>28. ASSUME NEW s \in Signals, PressLate(s) PROVE TypeOK'
  <2>1. RowsOK'
    BY <1>28 DEF TypeOK, RowsOK, PressLate, Statuses, ExpireOverdue, row, db, memory,
       gateway, telegram, world
  <2>2. ChatOK'
    BY <1>28 DEF TypeOK, ChatOK, PressLate, Decisions, Verdicts, row, db, memory, gateway,
       telegram, world
  <2> QED
    BY <1>28, <2>1, <2>2, TypeUnchanged DEF TypeOK, PressLate, row, db, memory, gateway,
       telegram, world
<1>29. ASSUME NEW s \in Signals, NEW approve \in BOOLEAN, Press(s, approve) PROVE TypeOK'
  <2>1. RowsOK'
    BY <1>29 DEF TypeOK, RowsOK, Press, Statuses, row, db, memory, gateway, telegram, world
  <2>2. ChatOK'
    BY <1>29 DEF TypeOK, ChatOK, Press, UserDecision, Decisions, row, db, memory, gateway,
       telegram, world
  <2> QED
    BY <1>29, <2>1, <2>2, TypeUnchanged DEF TypeOK, Press, row, db, memory, gateway,
       telegram, world
<1>30. ASSUME BotStops PROVE TypeOK'
  <2>1. ChatOK'
    BY <1>30 DEF TypeOK, ChatOK, BotStops, NoBotWork, row, db, memory, gateway, telegram, world
  <2>2. WorldOK'
    BY <1>30 DEF TypeOK, WorldOK, BotStops, row, db, memory, gateway, telegram, world
  <2> QED
    BY <1>30, <2>1, <2>2, TypeUnchanged DEF TypeOK, BotStops, row, db, memory, gateway,
       telegram, world
<1>31. ASSUME BotStarts PROVE TypeOK'
  <2>1. ChatOK'
    BY <1>31 DEF TypeOK, ChatOK, BotStarts, NoBotWork, row, db, memory, gateway, telegram, world
  <2> QED
    BY <1>31, <2>1, TypeUnchanged DEF TypeOK, BotStarts, row, db, memory, gateway,
       telegram, world
<1>32. ASSUME NEW s \in Signals, NEW newExpiry \in 1..MaxTime, Rearm(s, newExpiry) PROVE TypeOK'
  <2>1. RowsOK'
    BY <1>32 DEF TypeOK, RowsOK, Rearm, Statuses, row, db, memory, gateway, telegram, world
  <2>2. LedgerOK'
    BY <1>32 DEF TypeOK, LedgerOK, Rearm, row, db, memory, gateway, telegram, world
  <2> QED
    BY <1>32, <2>1, <2>2, TypeUnchanged DEF TypeOK, Rearm, row, db, memory, gateway,
       telegram, world
<1>33. ASSUME Tick PROVE TypeOK'
  <2>1. WorldOK'
    BY <1>33 DEF TypeOK, WorldOK, Tick, row, db, memory, gateway, telegram, world
  <2> QED
    BY <1>33, <2>1, TypeUnchanged DEF TypeOK, Tick, row, db, memory, gateway, telegram, world
<1>34. ASSUME AccountChanges PROVE TypeOK'
  <2>1. WorldOK'
    BY <1>34 DEF TypeOK, WorldOK, AccountChanges, row, db, memory, gateway, telegram, world
  <2> QED
    BY <1>34, <2>1, TypeUnchanged DEF TypeOK, AccountChanges, row, db, memory, gateway,
       telegram, world
<1>35. ASSUME UNCHANGED vars PROVE TypeOK'
  BY <1>35, TypeUnchanged DEF TypeOK, vars, row, db, memory, gateway, telegram, world
<1> QED
  BY <1>1, <1>2, <1>3, <1>4, <1>5, <1>6, <1>7, <1>8, <1>9, <1>10, <1>11, <1>12, <1>13,
     <1>14, <1>15, <1>16, <1>17, <1>18, <1>19, <1>20, <1>21, <1>22, <1>23, <1>24, <1>25,
     <1>26, <1>27, <1>28, <1>29, <1>30, <1>31, <1>32, <1>33, <1>34, <1>35 DEF Next,
     GatewayStep, HandleMessage, BotStep

\* Every variable keeps the shape the code gives it, whatever steps are taken.
THEOREM TypeCorrect == Spec => []TypeOK
<1> QED
  BY TypeInit, TypeStep, PTL DEF Spec

-----------------------------------------------------------------------------
(* Orders leave at most once, on an approval of their own attempt.         *)

LEMMA IInvInit == Init => IInv
<1> SUFFICES ASSUME Init PROVE IInv
  OBVIOUS
<1>1. TypeOK
  BY TypeInit
<1>2. FrameShape /\ ClaimHeld
  BY DEF Init, Idle, FrameShape, ClaimHeld, Owning
<1>3. DecisionNamed /\ SubmitOnce /\ OrdersAreApproved
  BY DEF Init, DecisionNamed, SubmitOnce, OrdersAreApproved
<1> QED
  BY <1>1, <1>2, <1>3 DEF IInv

\* A frame in which the gateway owns no signal.
Loose == /\ ~frame.claimed
         /\ frame.step \notin {"finish", "execute"}
         /\ frame.step = "skip" => frame.verdict # "APPROVED"

\* What a step may do to the row of a signal the gateway does not own.
RowMoves(s) ==
    \/ status'[s] = status[s] /\ decidedBy'[s] = decidedBy[s] /\ rearms'[s] = rearms[s]
    \/ /\ status[s] \notin {"PROCESSING", "ORDERS_SUBMITTED"}
       /\ status'[s] \notin {"PROCESSING", "ORDERS_SUBMITTED"}
       /\ status'[s] = "APPROVED" => decidedBy'[s] # None

\* Steps that neither claim, execute nor finish a signal: whoever takes them, they
\* leave the rows the gateway owns alone.
LEMMA OthersStep ==
    ASSUME IInv, TypeOK', orders' = orders, audit \subseteq audit',
           \A s \in Signals : RowMoves(s), frame' = frame \/ Loose'
    PROVE  IInv'
<1>1. FrameShape'
  BY DEF IInv, FrameShape, Loose
<1>2. DecisionNamed'
  BY DEF IInv, DecisionNamed, RowMoves
<1>3. SubmitOnce'
  BY DEF IInv, SubmitOnce, RowMoves
<1>4. OrdersAreApproved'
  BY DEF IInv, SubmitOnce, OrdersAreApproved, RowMoves
<1>5. ClaimHeld'
  <2>1. CASE Loose'
    BY <2>1 DEF ClaimHeld, Owning, Loose
  <2>2. CASE frame' = frame /\ Owning
    <3>1. frame.sig \in Signals /\ status[frame.sig] = "PROCESSING"
      BY <2>2 DEF IInv, ClaimHeld, Owning, FrameShape, TypeOK, FrameOK
    <3>2. /\ status'[frame.sig] = status[frame.sig]
          /\ decidedBy'[frame.sig] = decidedBy[frame.sig]
          /\ rearms'[frame.sig] = rearms[frame.sig]
      BY <3>1 DEF RowMoves
    <3> QED
      BY <2>2, <3>2 DEF IInv, ClaimHeld
  <2>3. CASE frame' = frame /\ ~Owning
    BY <2>3 DEF ClaimHeld, Owning
  <2> QED
    BY <2>1, <2>2, <2>3
<1> QED
  BY <1>1, <1>2, <1>3, <1>4, <1>5 DEF IInv

\* Rows that do not move at all.
LEMMA RowsStay ==
    ASSUME UNCHANGED <<status, decidedBy, rearms>>
    PROVE  \A s \in Signals : RowMoves(s)
BY DEF RowMoves

\* Callbacks start, and return, owning nothing.
LEMMA LooseFrames ==
    /\ frame' = Idle => Loose'
    /\ \A phase, q : frame' = Callback(phase, q) => Loose'
    /\ IInv /\ Taking /\ frame' = Rest => Loose'
<1>1. frame' = Idle => Loose'
  BY DEF Loose, Idle
<1>2. \A phase, q : frame' = Callback(phase, q) => Loose'
  BY DEF Loose, Callback
<1>3. IInv /\ Taking /\ frame' = Rest => Loose'
  <2> SUFFICES ASSUME IInv, Taking, frame' = Rest PROVE Loose'
    OBVIOUS
  <2>1. frame \in Frames /\ frame.step = "next" /\ ~frame.claimed
    BY DEF IInv, TypeOK, FrameOK, FrameShape, Taking, OwedSteps
  <2>2. Rest.step = "next" /\ Rest.claimed = frame.claimed
    BY <2>1 DEF Rest, Frames
  <2> QED
    BY <2>1, <2>2 DEF Loose
<1> QED
  BY <1>1, <1>2, <1>3

LEMMA IInvStep == IInv /\ [Next]_vars => IInv'
<1> SUFFICES ASSUME IInv, [Next]_vars PROVE IInv'
  OBVIOUS
<1> USE WorkflowAssumption
<1>0. TypeOK /\ TypeOK'
  BY TypeStep DEF IInv
<1>1. ASSUME StartActor PROVE IInv'
  BY <1>1, <1>0, OthersStep, RowsStay DEF StartActor, row, db, memory, gateway, telegram, world
<1>2. ASSUME StartGateway PROVE IInv'
  BY <1>2, <1>0, OthersStep, RowsStay DEF StartGateway, row, db, memory, gateway, telegram,
     world
<1>3. ASSUME BotMarksNotified PROVE IInv'
  BY <1>3, <1>0, OthersStep, RowsStay DEF BotMarksNotified, row, db, memory, gateway,
     telegram, world
<1>4. ASSUME BotStops PROVE IInv'
  BY <1>4, <1>0, OthersStep, RowsStay DEF BotStops, row, db, memory, gateway, telegram, world
<1>5. ASSUME BotStarts PROVE IInv'
  BY <1>5, <1>0, OthersStep, RowsStay DEF BotStarts, row, db, memory, gateway, telegram, world
<1>6. ASSUME Tick PROVE IInv'
  BY <1>6, <1>0, OthersStep, RowsStay DEF Tick, row, db, memory, gateway, telegram, world
<1>7. ASSUME AccountChanges PROVE IInv'
  BY <1>7, <1>0, OthersStep, RowsStay DEF AccountChanges, row, db, memory, gateway,
     telegram, world
<1>8. ASSUME NEW s \in Signals, BotSendsCard(s) PROVE IInv'
  BY <1>8, <1>0, OthersStep, RowsStay DEF BotSendsCard, row, db, memory, gateway, telegram,
     world
<1>9. ASSUME UNCHANGED vars PROVE IInv'
  BY <1>9, <1>0, OthersStep, RowsStay DEF vars, row, db, memory, gateway, telegram, world
<1>10. ASSUME CatalogAnswers PROVE IInv'
  <2>1. frame' = frame \/ Loose'
    BY <1>10, LooseFrames DEF CatalogAnswers
  <2> QED
    BY <1>10, <1>0, <2>1, OthersStep, RowsStay DEF CatalogAnswers, row, db, memory,
       gateway, telegram, world
<1>11. ASSUME NEW s \in Signals, AlarmRings(s) PROVE IInv'
  <2>1. Loose'
    BY <1>11, LooseFrames DEF AlarmRings
  <2> QED
    BY <1>11, <1>0, <2>1, OthersStep, RowsStay DEF AlarmRings, row, db, memory, gateway,
       telegram, world
<1>12. ASSUME Poll PROVE IInv'
  <2>1. Loose'
    BY <1>12, LooseFrames DEF Poll
  <2> QED
    BY <1>12, <1>0, <2>1, OthersStep, RowsStay DEF Poll, row, db, memory, gateway,
       telegram, world
<1>13. ASSUME HoldForPrices PROVE IInv'
  <2>1. Loose'
    BY <1>13, LooseFrames DEF HoldForPrices
  <2> QED
    BY <1>13, <1>0, <2>1, OthersStep, RowsStay DEF HoldForPrices, row, db, memory,
       gateway, telegram, world
<1>14. ASSUME DropHandled PROVE IInv'
  <2>1. Loose'
    BY <1>14, LooseFrames DEF DropHandled
  <2> QED
    BY <1>14, <1>0, <2>1, OthersStep, RowsStay DEF DropHandled, row, db, memory, gateway,
       telegram, world
<1>15. ASSUME HoldForAccount PROVE IInv'
  <2>1. Loose'
    BY <1>15, LooseFrames DEF HoldForAccount
  <2> QED
    BY <1>15, <1>0, <2>1, OthersStep, RowsStay DEF HoldForAccount, row, db, memory,
       gateway, telegram, world
<1>16. ASSUME WaitForOpening PROVE IInv'
  <2>1. Loose'
    BY <1>16, LooseFrames DEF WaitForOpening, Deciding
  <2> QED
    BY <1>16, <1>0, <2>1, OthersStep, RowsStay DEF WaitForOpening, row, db, memory,
       gateway, telegram, world
<1>17. ASSUME PollGoesOn PROVE IInv'
  <2>1. Loose'
    BY <1>17, LooseFrames DEF PollGoesOn
  <2> QED
    BY <1>17, <1>0, <2>1, OthersStep, RowsStay DEF PollGoesOn, row, db, memory, gateway,
       telegram, world
<1>18. ASSUME ListNew PROVE IInv'
  <2>1. Loose'
    BY <1>18, LooseFrames DEF ListNew
  <2> QED
    BY <1>18, <1>0, <2>1, OthersStep, RowsStay DEF ListNew, row, db, memory, gateway,
       telegram, world
<1>19. ASSUME Return PROVE IInv'
  <2>1. Loose'
    BY <1>19, LooseFrames DEF Return
  <2> QED
    BY <1>19, <1>0, <2>1, OthersStep, RowsStay DEF Return, row, db, memory, gateway,
       telegram, world
<1>20. ASSUME GatewayStops PROVE IInv'
  <2>1. Loose'
    BY <1>20, LooseFrames DEF GatewayStops
  <2> QED
    BY <1>20, <1>0, <2>1, OthersStep, RowsStay DEF GatewayStops, row, db, memory, gateway,
       telegram, world
<1>21. ASSUME CallbackFails PROVE IInv'
  <2>1. Loose'
    BY <1>21, LooseFrames DEF CallbackFails
  <2> QED
    BY <1>21, <1>0, <2>1, OthersStep, RowsStay DEF CallbackFails, row, db, memory,
       gateway, telegram, world
<1>22. ASSUME NEW s \in Signals, Publish(s) PROVE IInv'
  <2>1. frame' = frame \/ Loose'
    BY <1>22, LooseFrames DEF Publish
  <2>2. \A t \in Signals : RowMoves(t)
    BY <1>22, <1>0 DEF Publish, RowMoves, TypeOK, RowsOK
  <2> QED
    BY <1>22, <1>0, <2>1, <2>2, OthersStep DEF Publish
<1>23. ASSUME NEW rejected \in BOOLEAN, RefuseNew(rejected) PROVE IInv'
  <2>1. Taking /\ FrameOK /\ Msg.sig \in Signals
    BY <1>23, <1>0, TakingType DEF RefuseNew, Deciding, TypeOK
  <2>2. PICK step \in {"skip", "audit"}, verdict \in {"EXPIRED", "RISK_REJECTED"} :
           /\ status' = [status EXCEPT ![Msg.sig] = verdict]
           /\ frame' = Owed(step, verdict)
    BY <1>23 DEF RefuseNew
  <2>3. Loose'
    BY <2>1, <2>2 DEF Loose, Owed
  <2>4. \A t \in Signals : RowMoves(t)
    BY <1>23, <1>0, <2>1, <2>2 DEF RefuseNew, Deciding, RowMoves, TypeOK, RowsOK
  <2> QED
    BY <1>23, <1>0, <2>3, <2>4, OthersStep DEF RefuseNew
<1>24. ASSUME AskApproval PROVE IInv'
  <2>1. Taking /\ FrameOK /\ Msg.sig \in Signals
    BY <1>24, <1>0, TakingType DEF AskApproval, Deciding, TypeOK
  <2>2. Loose'
    BY <1>24 DEF AskApproval, Loose, Owed
  <2>3. \A t \in Signals : RowMoves(t)
    BY <1>24, <1>0, <2>1 DEF AskApproval, Deciding, RowMoves, TypeOK, RowsOK
  <2> QED
    BY <1>24, <1>0, <2>2, <2>3, OthersStep DEF AskApproval
<1>25. ASSUME BotPolls PROVE IInv'
  <2>1. \A t \in Signals : RowMoves(t)
    BY <1>25, <1>0 DEF BotPolls, ExpireOverdue, Overdue, RowMoves, TypeOK, RowsOK
  <2> QED
    BY <1>25, <1>0, <2>1, OthersStep DEF BotPolls, row, db, memory, gateway, telegram, world
<1>26. ASSUME NEW s \in Signals, NEW decision \in Decisions, BotNotes(s, decision) PROVE IInv'
  BY <1>26, <1>0, RowsStay, OthersStep DEF BotNotes, row, db, memory, gateway, telegram, world
<1>27. ASSUME NEW s \in Signals, PressLate(s) PROVE IInv'
  <2>1. \A t \in Signals : RowMoves(t)
    BY <1>27, <1>0 DEF PressLate, ExpireOverdue, Overdue, RowMoves, TypeOK, RowsOK
  <2> QED
    BY <1>27, <1>0, <2>1, OthersStep DEF PressLate, row, db, memory, gateway, telegram, world
<1>28. ASSUME NEW s \in Signals, NEW approve \in BOOLEAN, Press(s, approve) PROVE IInv'
  <2>1. \A t \in Signals : RowMoves(t)
    <3>1. PICK verdict \in {"APPROVED", "DENIED"} : status' = [status EXCEPT ![s] = verdict]
      BY <1>28 DEF Press
    <3>2. status[s] = "PENDING" /\ decidedBy' = [decidedBy EXCEPT ![s] = "user"]
          /\ rearms' = rearms
      BY <1>28 DEF Press
    <3> QED
      BY <1>0, <3>1, <3>2 DEF RowMoves, TypeOK, RowsOK
  <2> QED
    BY <1>28, <1>0, <2>1, OthersStep DEF Press, row, db, memory, gateway, telegram, world
<1>29. ASSUME NEW s \in Signals, NEW newExpiry \in 1..MaxTime, Rearm(s, newExpiry) PROVE IInv'
  <2>1. \A t \in Signals : RowMoves(t)
    BY <1>29, <1>0 DEF Rearm, Rearmable, RowMoves, TypeOK, RowsOK, LedgerOK
  <2> QED
    BY <1>29, <1>0, <2>1, OthersStep DEF Rearm, row, db, memory, gateway, telegram, world
<1>30. ASSUME ClaimAuto PROVE IInv'
  <2>1. Taking /\ FrameOK /\ Msg.sig \in Signals
    BY <1>30, <1>0, TakingType DEF ClaimAuto, Deciding, TypeOK
  <2>2. CASE ~AutoClaimable(Msg.sig)
    <3>1. Loose'
      BY <1>30, <2>1, <2>2, LooseFrames DEF ClaimAuto
    <3> QED
      BY <1>30, <1>0, <2>2, <3>1, RowsStay, OthersStep DEF ClaimAuto
  <2>3. CASE AutoClaimable(Msg.sig)
    <3> DEFINE m == Msg.sig
    <3>1. status[m] = "NEW" /\ orders[m] = 0
      BY <1>0, <2>1, <2>3 DEF AutoClaimable, IInv, SubmitOnce, TypeOK, LedgerOK
    <3>2. /\ frame'.step = "execute" /\ frame'.sig = m
          /\ frame'.verdict = "APPROVED" /\ frame'.claimed
      <4>1. frame' = Owed("execute", "APPROVED")
        BY <1>30, <2>3 DEF ClaimAuto
      <4> QED
        BY <4>1 DEF Owed
    <3>3. /\ status' = [status EXCEPT ![m] = "PROCESSING"]
          /\ decidedBy' = [decidedBy EXCEPT ![m] = "auto"]
          /\ audit' = audit \cup {<<m, rearms[m], "APPROVED">>}
          /\ UNCHANGED <<orders, rearms>>
      BY <1>30, <2>3 DEF ClaimAuto
    <3>4. status'[m] = "PROCESSING" /\ decidedBy'[m] # None
      BY <1>0, <2>1, <3>3 DEF TypeOK, RowsOK
    <3>5. \A s \in Signals \ {m} : status'[s] = status[s] /\ decidedBy'[s] = decidedBy[s]
      BY <1>0, <3>3 DEF TypeOK, RowsOK
    <3> HIDE DEF m
    <3>6. FrameShape'
      BY <3>2 DEF FrameShape, OwedSteps
    <3>7. DecisionNamed'
      BY <3>4, <3>5 DEF IInv, DecisionNamed
    <3>8. SubmitOnce' /\ OrdersAreApproved'
      BY <3>1, <3>3, <3>5 DEF IInv, SubmitOnce, OrdersAreApproved
    <3>9. ClaimHeld'
      BY <3>1, <3>2, <3>3, <3>4 DEF ClaimHeld
    <3> QED
      BY <1>0, <3>6, <3>7, <3>8, <3>9 DEF IInv
  <2> QED
    BY <2>2, <2>3
<1>31. ASSUME NEW s \in Signals, ClaimApproved(s) PROVE IInv'
  <2>1. PICK verdict \in ClaimVerdicts(s) :
           frame' = [step |-> FirstOwed(verdict), phase |-> "claim", queue |-> <<>>, sig |-> s,
                     exp |-> expires[s], verdict |-> verdict, claimed |-> TRUE]
    BY <1>31 DEF ClaimApproved
  <2>2. status[s] = "APPROVED" /\ orders[s] = 0 /\ decidedBy[s] # None
    <3>1. status[s] = "APPROVED"
      BY <1>31 DEF ClaimApproved, Claimable
    <3>2. orders[s] \in Nat /\ ~(orders[s] > 0)
      BY <1>0, <3>1 DEF IInv, SubmitOnce, TypeOK, LedgerOK
    <3> QED
      BY <1>0, <3>1, <3>2 DEF IInv, DecisionNamed
  <2>3. /\ status' = [status EXCEPT ![s] = "PROCESSING"]
        /\ UNCHANGED <<orders, rearms, audit, decidedBy>>
    BY <1>31 DEF ClaimApproved
  <2>4. status'[s] = "PROCESSING" /\ \A t \in Signals \ {s} : status'[t] = status[t]
    BY <1>0, <2>3 DEF TypeOK, RowsOK
  <2>5. frame'.step \in {"audit", "skip", "finish"}
    BY <2>1 DEF FirstOwed
  <2>6. frame'.step = "skip" => frame'.verdict # "APPROVED"
    BY <2>1 DEF FirstOwed
  <2>7. FrameShape'
    <3>1. verdict # "PENDING"
      BY DEF ClaimVerdicts
    <3> QED
      BY <2>1, <2>5, <2>6, <3>1 DEF FrameShape, OwedSteps
  <2>8. DecisionNamed' /\ SubmitOnce' /\ OrdersAreApproved'
    BY <2>2, <2>3, <2>4 DEF IInv, DecisionNamed, SubmitOnce, OrdersAreApproved
  <2>9. ClaimHeld'
    BY <2>1, <2>2, <2>3, <2>4, <2>5 DEF ClaimHeld
  <2> QED
    BY <1>0, <2>7, <2>8, <2>9 DEF IInv
<1>32. ASSUME RecordSkip PROVE IInv'
  <2>1. PICK step \in {"finish", "audit"} :
           frame' = [frame EXCEPT !.step = step] /\ (step = "finish" <=> frame.claimed)
    BY <1>32 DEF RecordSkip
  <2>2. /\ frame.step = "skip" /\ frame.verdict # "APPROVED"
        /\ UNCHANGED <<status, decidedBy, rearms, audit, orders>>
    BY <1>32 DEF RecordSkip, IInv, FrameShape, row
  <2>3. /\ frame'.step = step /\ frame'.sig = frame.sig
        /\ frame'.verdict = frame.verdict /\ frame'.claimed = frame.claimed
    BY <1>0, <2>1, StepType DEF TypeOK, FrameOK, Steps
  <2>4. FrameShape'
    BY <2>1, <2>2, <2>3 DEF IInv, FrameShape, OwedSteps
  <2>5. DecisionNamed' /\ SubmitOnce' /\ OrdersAreApproved'
    BY <2>2 DEF IInv, DecisionNamed, SubmitOnce, OrdersAreApproved
  <2>6. ClaimHeld'
    BY <2>1, <2>2, <2>3 DEF IInv, ClaimHeld, Owning
  <2> QED
    BY <1>0, <2>4, <2>5, <2>6 DEF IInv
<1>33. ASSUME RecordVerdict PROVE IInv'
  <2> DEFINE r == <<frame.sig, rearms[frame.sig], frame.verdict>>
  <2>1. frame.step = "audit" /\ UNCHANGED <<status, decidedBy, rearms, orders>>
    BY <1>33 DEF RecordVerdict, row
  <2>2. audit' = audit \cup {r}
    BY <1>33 DEF RecordVerdict
  <2> HIDE DEF r
  <2>3. DecisionNamed' /\ SubmitOnce' /\ OrdersAreApproved'
    BY <2>1, <2>2 DEF IInv, DecisionNamed, SubmitOnce, OrdersAreApproved
  <2>4. CASE ~(frame.claimed /\ frame.verdict = "APPROVED")
    <3>1. Loose'
      BY <1>33, <2>4, LooseFrames DEF RecordVerdict
    <3> QED
      BY <1>33, <1>0, <2>1, <2>2, <3>1, RowsStay, OthersStep
  <2>5. CASE frame.claimed /\ frame.verdict = "APPROVED"
    <3>1. frame' = [frame EXCEPT !.step = "execute"]
      BY <1>33, <2>5 DEF RecordVerdict
    <3>2. /\ frame'.step = "execute" /\ frame'.sig = frame.sig
          /\ frame'.verdict = frame.verdict /\ frame'.claimed = frame.claimed
      BY <1>0, <3>1, StepType DEF TypeOK, FrameOK, Steps
    <3>3. FrameShape'
      BY <2>5, <3>2 DEF FrameShape, OwedSteps
    <3>4. ClaimHeld'
      BY <2>1, <2>2, <2>5, <3>2 DEF IInv, ClaimHeld, Owning, r
    <3> QED
      BY <1>0, <2>3, <3>3, <3>4 DEF IInv
  <2> QED
    BY <2>4, <2>5
<1>34. ASSUME Execute PROVE IInv'
  <2>1. /\ frame.step = "execute" /\ frame' = [frame EXCEPT !.step = "finish"]
        /\ UNCHANGED <<status, decidedBy, rearms, audit>>
        /\ orders' = orders \/ orders' = [orders EXCEPT ![frame.sig] = @ + 1]
    BY <1>34 DEF Execute, row
  <2>2. /\ frame'.step = "finish" /\ frame'.sig = frame.sig
        /\ frame'.verdict = frame.verdict /\ frame'.claimed = frame.claimed
    BY <1>0, <2>1, StepType DEF TypeOK, FrameOK, Steps
  <2>3. frame.claimed /\ frame.verdict = "APPROVED" /\ frame.sig \in Signals
    BY <1>0, <2>1 DEF IInv, FrameShape, TypeOK, FrameOK, OwedSteps
  <2>4. /\ status[frame.sig] = "PROCESSING" /\ decidedBy[frame.sig] # None
        /\ orders[frame.sig] = 0
        /\ <<frame.sig, rearms[frame.sig], "APPROVED">> \in audit
    BY <1>0, <2>1, <2>3 DEF IInv, ClaimHeld, Owning, TypeOK, LedgerOK
  <2>5. \A s \in Signals : orders'[s] = orders[s] \/ (s = frame.sig /\ orders'[s] = 1)
    BY <1>0, <2>1, <2>4 DEF TypeOK, LedgerOK
  <2>6. FrameShape'
    BY <2>2, <2>3 DEF FrameShape, OwedSteps
  <2>7. DecisionNamed'
    BY <2>1 DEF IInv, DecisionNamed
  <2>8. SubmitOnce' /\ OrdersAreApproved'
    BY <2>1, <2>4, <2>5 DEF IInv, SubmitOnce, OrdersAreApproved
  <2>9. ClaimHeld'
    BY <2>1, <2>2, <2>3, <2>4 DEF ClaimHeld
  <2> QED
    BY <1>0, <2>6, <2>7, <2>8, <2>9 DEF IInv
<1>35. ASSUME Finish PROVE IInv'
  <2> DEFINE m == frame.sig
             last == IF frame.verdict = "APPROVED" THEN "ORDERS_SUBMITTED" ELSE frame.verdict
  <2>1. frame.step = "finish" /\ UNCHANGED <<decidedBy, rearms, audit, orders>>
    BY <1>35 DEF Finish
  <2>2. frame.claimed /\ m \in Signals /\ Owning
    BY <1>0, <2>1 DEF IInv, FrameShape, TypeOK, FrameOK, OwedSteps, Owning
  <2>3. /\ status[m] = "PROCESSING" /\ decidedBy[m] # None
        /\ frame.verdict # "APPROVED" => orders[m] = 0
    BY <1>0, <2>1, <2>2 DEF IInv, ClaimHeld, TypeOK, LedgerOK
  <2>4. status' = [status EXCEPT ![m] = last]
    BY <1>35, <2>3 DEF Finish
  <2>5. status'[m] = last /\ \A s \in Signals \ {m} : status'[s] = status[s]
    BY <1>0, <2>2, <2>4 DEF TypeOK, RowsOK
  <2>6. DecisionNamed' /\ SubmitOnce' /\ OrdersAreApproved'
    <3> HIDE DEF m
    <3>1. DecisionNamed'
      BY <2>1, <2>3, <2>5 DEF IInv, DecisionNamed
    <3>2. orders[m] > 0 => last = "ORDERS_SUBMITTED"
      BY <2>3
    <3> HIDE DEF last
    <3> QED
      BY <2>1, <2>5, <3>1, <3>2 DEF IInv, SubmitOnce, OrdersAreApproved
  <2>7. FrameShape' /\ ClaimHeld'
    <3>1. CASE frame.verdict = "APPROVED"
      <4>1. Loose'
        BY <1>35, <3>1, LooseFrames DEF Finish
      <4> QED
        BY <4>1 DEF FrameShape, ClaimHeld, Owning, Loose
    <3>2. CASE frame.verdict # "APPROVED"
      <4>1. frame' = [frame EXCEPT !.step = "audit"]
        BY <1>35, <3>2 DEF Finish
      <4>2. /\ frame'.step = "audit" /\ frame'.verdict = frame.verdict
            /\ frame'.claimed = frame.claimed
        BY <1>0, <4>1, StepType DEF TypeOK, FrameOK, Steps
      <4> QED
        BY <2>1, <2>2, <3>2, <4>2 DEF IInv, FrameShape, ClaimHeld, Owning, OwedSteps
    <3> QED
      BY <3>1, <3>2
  <2> QED
    BY <1>0, <2>6, <2>7 DEF IInv
<1> QED
  BY <1>1, <1>2, <1>3, <1>4, <1>5, <1>6, <1>7, <1>8, <1>9, <1>10, <1>11, <1>12, <1>13,
     <1>14, <1>15, <1>16, <1>17, <1>18, <1>19, <1>20, <1>21, <1>22, <1>23, <1>24, <1>25,
     <1>26, <1>27, <1>28, <1>29, <1>30, <1>31, <1>32, <1>33, <1>34, <1>35 DEF Next,
     GatewayStep, HandleMessage, BotStep

\* No crash, failing transaction, late answer, press or rearm makes the orders of a
\* signal leave twice, for any number of signals, any windows and any bounds.
THEOREM OrdersLeaveOnce == Spec => []SubmitOnce
<1>1. IInv => SubmitOnce
  BY DEF IInv
<1> QED
  BY <1>1, IInvInit, IInvStep, PTL DEF Spec

\* Whatever left rests on an approval of its own attempt, already on disk.
THEOREM OrdersRestOnApproval == Spec => []OrdersAreApproved
<1>1. IInv => OrdersAreApproved
  BY DEF IInv
<1> QED
  BY <1>1, IInvInit, IInvStep, PTL DEF Spec

\* Nobody moves the row of a signal the gateway has claimed.
THEOREM ClaimIsHeld == Spec => []ClaimHeld
<1>1. IInv => ClaimHeld
  BY DEF IInv
<1> QED
  BY <1>1, IInvInit, IInvStep, PTL DEF Spec

-----------------------------------------------------------------------------
(* SignalWorkflow implements SignalLifecycle.                              *)

\* A move of one row along an edge, taken before any order has left, is a move of
\* the lifecycle.
LEMMA MoveMaps ==
    ASSUME IInv, NEW s \in Signals, NEW to \in Statuses, orders' = orders,
           status' = [status EXCEPT ![s] = to], <<status[s], to>> \in Lifecycle!Edges,
           status[s] = "PROCESSING" => to = "ORDERS_SUBMITTED" \/ orders[s] = 0
    PROVE  Lifecycle!Next
<1>1. orders[s] > 0 => to = "ORDERS_SUBMITTED"
  <2>1. CASE status[s] = "PROCESSING"
    BY <2>1
  <2>2. CASE status[s] # "PROCESSING"
    <3>1. status[s] # "ORDERS_SUBMITTED"
      BY DEF Lifecycle!Edges, Lifecycle!Retriable
    <3> QED
      BY <2>2, <3>1 DEF IInv, SubmitOnce
  <2> QED
    BY <2>1, <2>2
<1>2. Lifecycle!Move(s, to)
  BY <1>1 DEF Lifecycle!Move
<1>3. to \in Lifecycle!Statuses
  BY DEF Statuses, Lifecycle!Statuses
<1> QED
  BY <1>2, <1>3 DEF Lifecycle!Next

\* Expiring every overdue row is one step of the lifecycle.
LEMMA ExpireMaps ==
    ASSUME IInv, status' = ExpireOverdue, orders' = orders
    PROVE  Lifecycle!Next
<1>1. \A s \in Overdue : s \in Signals /\ status[s] = "PENDING" /\ orders[s] = 0
  BY DEF Overdue, IInv, SubmitOnce, TypeOK, LedgerOK
<1>2. Lifecycle!ExpirePending(Overdue)
  BY <1>1 DEF Lifecycle!ExpirePending, ExpireOverdue
<1>3. Overdue \in SUBSET Signals
  BY <1>1
<1> QED
  BY <1>2, <1>3 DEF Lifecycle!Next

LEMMA StepMaps == IInv /\ [Next]_vars => Lifecycle!Next \/ UNCHANGED <<status, orders>>
<1> SUFFICES ASSUME IInv, [Next]_vars
             PROVE  Lifecycle!Next \/ UNCHANGED <<status, orders>>
  OBVIOUS
<1> USE WorkflowAssumption
<1>0. TypeOK
  BY DEF IInv
<1>1. ASSUME \/ StartActor \/ StartGateway \/ CatalogAnswers \/ Poll \/ PollGoesOn
             \/ HoldForPrices \/ DropHandled \/ HoldForAccount \/ WaitForOpening
             \/ ListNew \/ Return \/ RecordSkip \/ RecordVerdict
             \/ GatewayStops \/ CallbackFails
             \/ BotMarksNotified \/ BotStops \/ BotStarts \/ Tick \/ AccountChanges
             \/ UNCHANGED vars
      PROVE  UNCHANGED <<status, orders>>
  <2>1. CASE StartActor
    BY <2>1 DEF StartActor, row, db, memory, gateway, telegram, world
  <2>2. CASE StartGateway
    BY <2>2 DEF StartGateway, row, db, memory, gateway, telegram, world
  <2>3. CASE CatalogAnswers
    BY <2>3 DEF CatalogAnswers, row, db, memory, gateway, telegram, world
  <2>4. CASE Poll
    BY <2>4 DEF Poll, row, db, memory, gateway, telegram, world
  <2>5. CASE HoldForPrices
    BY <2>5 DEF HoldForPrices, row, db, memory, gateway, telegram, world
  <2>6. CASE DropHandled
    BY <2>6 DEF DropHandled, row, db, memory, gateway, telegram, world
  <2>7. CASE HoldForAccount
    BY <2>7 DEF HoldForAccount, row, db, memory, gateway, telegram, world
  <2>8. CASE WaitForOpening
    BY <2>8 DEF WaitForOpening, row, db, memory, gateway, telegram, world
  <2>9. CASE PollGoesOn
    BY <2>9 DEF PollGoesOn, row, db, memory, gateway, telegram, world
  <2>10. CASE ListNew
    BY <2>10 DEF ListNew, row, db, memory, gateway, telegram, world
  <2>11. CASE Return
    BY <2>11 DEF Return, row, db, memory, gateway, telegram, world
  <2>12. CASE RecordSkip
    BY <2>12 DEF RecordSkip, row, db, memory, gateway, telegram, world
  <2>13. CASE RecordVerdict
    BY <2>13 DEF RecordVerdict, row, db, memory, gateway, telegram, world
  <2>14. CASE GatewayStops
    BY <2>14 DEF GatewayStops, row, db, memory, gateway, telegram, world
  <2>15. CASE CallbackFails
    BY <2>15 DEF CallbackFails, row, db, memory, gateway, telegram, world
  <2>16. CASE BotMarksNotified
    BY <2>16 DEF BotMarksNotified, row, db, memory, gateway, telegram, world
  <2>17. CASE BotStops
    BY <2>17 DEF BotStops, row, db, memory, gateway, telegram, world
  <2>18. CASE BotStarts
    BY <2>18 DEF BotStarts, row, db, memory, gateway, telegram, world
  <2>19. CASE Tick
    BY <2>19 DEF Tick, row, db, memory, gateway, telegram, world
  <2>20. CASE AccountChanges
    BY <2>20 DEF AccountChanges, row, db, memory, gateway, telegram, world
  <2>21. CASE UNCHANGED vars
    BY <2>21 DEF vars, row, db, memory, gateway, telegram, world
  <2> QED
    BY <1>1, <2>1, <2>2, <2>3, <2>4, <2>5, <2>6, <2>7, <2>8, <2>9, <2>10, <2>11, <2>12,
       <2>13, <2>14, <2>15, <2>16, <2>17, <2>18, <2>19, <2>20, <2>21
<1>2. ASSUME NEW s \in Signals,
             \/ AlarmRings(s) \/ BotSendsCard(s)
             \/ \E decision \in Decisions : BotNotes(s, decision)
      PROVE  UNCHANGED <<status, orders>>
  BY <1>2 DEF AlarmRings, BotSendsCard, BotNotes, row, db, memory, gateway, telegram, world
<1>3. ASSUME NEW s \in Signals, Publish(s)
      PROVE  Lifecycle!Next \/ UNCHANGED <<status, orders>>
  <2>1. status' = status \/ (status[s] = "ABSENT" /\ status' = [status EXCEPT ![s] = "NEW"])
    BY <1>3 DEF Publish
  <2>2. orders' = orders
    BY <1>3 DEF Publish
  <2>3. <<"ABSENT", "NEW">> \in Lifecycle!Edges /\ "NEW" \in Statuses
    BY DEF Lifecycle!Edges, Statuses
  <2> QED
    BY <2>1, <2>2, <2>3, MoveMaps
<1>4. ASSUME NEW rejected \in BOOLEAN, RefuseNew(rejected)
      PROVE  Lifecycle!Next \/ UNCHANGED <<status, orders>>
  <2>1. Taking /\ FrameOK /\ Msg.sig \in Signals /\ status[Msg.sig] = "NEW"
    BY <1>4, <1>0, TakingType DEF RefuseNew, Deciding, TypeOK
  <2>2. PICK verdict \in {"EXPIRED", "RISK_REJECTED"} :
           status' = [status EXCEPT ![Msg.sig] = verdict]
    BY <1>4 DEF RefuseNew
  <2>3. <<"NEW", verdict>> \in Lifecycle!Edges /\ verdict \in Statuses
    BY DEF Lifecycle!Edges, Statuses
  <2>4. orders' = orders
    BY <1>4 DEF RefuseNew
  <2> QED
    BY <2>1, <2>2, <2>3, <2>4, MoveMaps
<1>5. ASSUME AskApproval
      PROVE  Lifecycle!Next \/ UNCHANGED <<status, orders>>
  <2>1. Taking /\ FrameOK /\ Msg.sig \in Signals /\ status[Msg.sig] = "NEW"
    BY <1>5, <1>0, TakingType DEF AskApproval, Deciding, TypeOK
  <2>2. status' = [status EXCEPT ![Msg.sig] = "PENDING"] /\ orders' = orders
    BY <1>5 DEF AskApproval
  <2>3. <<"NEW", "PENDING">> \in Lifecycle!Edges /\ "PENDING" \in Statuses
    BY DEF Lifecycle!Edges, Statuses
  <2> QED
    BY <2>1, <2>2, <2>3, MoveMaps
<1>6. ASSUME ClaimAuto
      PROVE  Lifecycle!Next \/ UNCHANGED <<status, orders>>
  <2>1. Taking /\ FrameOK /\ Msg.sig \in Signals /\ status[Msg.sig] = "NEW"
    BY <1>6, <1>0, TakingType DEF ClaimAuto, Deciding, TypeOK
  <2>2. status' = status \/ status' = [status EXCEPT ![Msg.sig] = "PROCESSING"]
    BY <1>6 DEF ClaimAuto
  <2>3. orders' = orders
    BY <1>6 DEF ClaimAuto
  <2>4. <<"NEW", "PROCESSING">> \in Lifecycle!Edges /\ "PROCESSING" \in Statuses
    BY DEF Lifecycle!Edges, Statuses
  <2> QED
    BY <2>1, <2>2, <2>3, <2>4, MoveMaps
<1>7. ASSUME NEW s \in Signals, ClaimApproved(s)
      PROVE  Lifecycle!Next \/ UNCHANGED <<status, orders>>
  <2>1. status[s] = "APPROVED" /\ status' = [status EXCEPT ![s] = "PROCESSING"]
        /\ orders' = orders
    BY <1>7 DEF ClaimApproved, Claimable
  <2>2. <<"APPROVED", "PROCESSING">> \in Lifecycle!Edges /\ "PROCESSING" \in Statuses
    BY DEF Lifecycle!Edges, Statuses
  <2> QED
    BY <2>1, <2>2, MoveMaps
<1>8. ASSUME Execute
      PROVE  Lifecycle!Next \/ UNCHANGED <<status, orders>>
  <2>1. frame.step = "execute" /\ status' = status
        /\ (orders' = orders \/ orders' = [orders EXCEPT ![frame.sig] = @ + 1])
    BY <1>8 DEF Execute, row
  <2>2. frame.sig \in Signals /\ Owning
    BY <1>0, <2>1 DEF IInv, FrameShape, TypeOK, FrameOK, OwedSteps, Owning
  <2>3. status[frame.sig] = "PROCESSING" /\ orders[frame.sig] = 0
    BY <1>0, <2>1, <2>2 DEF IInv, ClaimHeld, TypeOK, LedgerOK
  <2>4. orders' = orders \/ orders' = [orders EXCEPT ![frame.sig] = 1]
    BY <2>1, <2>3
  <2>5. orders' # orders => Lifecycle!SendOrders(frame.sig)
    BY <2>1, <2>3, <2>4 DEF Lifecycle!SendOrders
  <2> QED
    BY <2>1, <2>2, <2>5 DEF Lifecycle!Next
<1>9. ASSUME Finish
      PROVE  Lifecycle!Next \/ UNCHANGED <<status, orders>>
  <2> DEFINE last == IF frame.verdict = "APPROVED" THEN "ORDERS_SUBMITTED" ELSE frame.verdict
  <2>1. frame.step = "finish" /\ orders' = orders
    BY <1>9 DEF Finish
  <2>2. frame.sig \in Signals /\ Owning /\ frame.claimed /\ frame.verdict \in Verdicts
    BY <1>0, <2>1 DEF IInv, FrameShape, TypeOK, FrameOK, OwedSteps, Owning
  <2>3. /\ status[frame.sig] = "PROCESSING"
        /\ last = "ORDERS_SUBMITTED" \/ orders[frame.sig] = 0
    BY <1>0, <2>1, <2>2 DEF IInv, ClaimHeld, TypeOK, LedgerOK
  <2>4. status' = [status EXCEPT ![frame.sig] = last]
    BY <1>9, <2>3 DEF Finish
  <2>5. frame.verdict # "PENDING"
    BY <2>1, <2>2 DEF IInv, FrameShape
  <2>6. <<"PROCESSING", last>> \in Lifecycle!Edges /\ last \in Statuses
    BY <2>2, <2>5 DEF Lifecycle!Edges, Statuses, Verdicts
  <2> QED
    BY <2>1, <2>2, <2>3, <2>4, <2>6, MoveMaps
<1>10. ASSUME BotPolls \/ \E s \in Signals : PressLate(s)
       PROVE  Lifecycle!Next
  BY <1>10, ExpireMaps DEF BotPolls, PressLate
<1>11. ASSUME NEW s \in Signals, NEW approve \in BOOLEAN, Press(s, approve)
      PROVE  Lifecycle!Next \/ UNCHANGED <<status, orders>>
  <2>1. PICK verdict \in {"APPROVED", "DENIED"} : status' = [status EXCEPT ![s] = verdict]
    BY <1>11 DEF Press
  <2>2. status[s] = "PENDING" /\ orders' = orders
    BY <1>11 DEF Press
  <2>3. <<"PENDING", verdict>> \in Lifecycle!Edges /\ verdict \in Statuses
    BY DEF Lifecycle!Edges, Statuses
  <2> QED
    BY <2>1, <2>2, <2>3, MoveMaps
<1>12. ASSUME NEW s \in Signals, NEW newExpiry \in 1..MaxTime, Rearm(s, newExpiry)
      PROVE  Lifecycle!Next \/ UNCHANGED <<status, orders>>
  <2>1. status[s] \in {"RISK_REJECTED", "EXPIRED"} /\ orders' = orders
        /\ status' = [status EXCEPT ![s] = "NEW"]
    BY <1>12 DEF Rearm, Rearmable
  <2>2. <<status[s], "NEW">> \in Lifecycle!Edges /\ "NEW" \in Statuses
    BY <2>1 DEF Lifecycle!Edges, Lifecycle!Retriable, Statuses
  <2> QED
    BY <2>1, <2>2, MoveMaps
<1> QED
  BY <1>1, <1>2, <1>3, <1>4, <1>5, <1>6, <1>7, <1>8, <1>9, <1>10, <1>11, <1>12
     DEF Next, GatewayStep, HandleMessage, BotStep

\* The three processes together implement the documented state machine of a signal:
\* its rows move only along its edges and its orders leave once, while PROCESSING.
THEOREM ImplementsLifecycle == Spec => LifecycleSpec
<1>1. Init => Lifecycle!Init
  BY DEF Init, Lifecycle!Init
<1>2. IInv /\ [Next]_vars => [Lifecycle!Next]_(Lifecycle!vars)
  BY StepMaps DEF Lifecycle!vars
<1> QED
  BY <1>1, <1>2, IInvInit, IInvStep, PTL DEF Spec, LifecycleSpec, Lifecycle!Spec

-----------------------------------------------------------------------------
(* When, on whose decision, and on which prices: what a callback carries.   *)

\* Messages that do not outlive the published window, and those that are overdue.
InTime == {m \in Message : Factor => m.exp <= Expires[m.sig]}
Due    == {m \in InTime : m.exp <= now}

\* Whose decisions the running node executes.
Decider == IF mode = "auto" THEN "auto" ELSE "user"

\* Every copy of a message keeps the published window, and the row too, which a rearm may
\* only shorten; an approved row was approved by a person.
CopiesInv ==
    /\ \A s \in Signals : Factor => expires[s] <= Expires[s]
    /\ deferred \in Seq(InTime)
    /\ \A s \in Signals : alarm[s] # None => [sig |-> s, exp |-> alarm[s]] \in InTime
    /\ \A s \in Signals : status[s] = "APPROVED" => decidedBy[s] = "user"

\* So does the callback in hand; the poll handles without prices only what is overdue, and
\* claims what a person approved in manual mode only.
CallbackInv ==
    /\ frame.queue \in Seq(IF frame.phase = "stale" THEN Due ELSE InTime)
    /\ frame.step \in OwedSteps /\ Factor => frame.exp <= Expires[frame.sig]
    /\ frame.phase = "claim" /\ frame.step # "idle" => mode = "manual"
    /\ frame.step # "idle" => node = "up"
    /\ Owning => decidedBy[frame.sig] = Decider

RulesInv == IInv /\ CopiesInv /\ CallbackInv

LEMMA SeqWiden == ASSUME NEW S, NEW T, S \subseteq T, NEW q \in Seq(S) PROVE q \in Seq(T)
<1>1. q \in [1..Len(q) -> T] /\ Len(q) \in Nat
  BY ElementOfSeq, LenProperties
<1> QED
  BY <1>1, IsASeq

\* The message in hand, and those after it.
LEMMA MessageInHand ==
    ASSUME RulesInv, Taking
    PROVE  /\ Msg \in InTime /\ (frame.phase = "stale" => Msg.exp <= now)
           /\ Tail(frame.queue) \in Seq(IF frame.phase = "stale" THEN Due ELSE InTime)
<1> DEFINE M == IF frame.phase = "stale" THEN Due ELSE InTime
<1>1. frame.queue \in Seq(M) /\ frame.queue # <<>>
  BY DEF RulesInv, CallbackInv, Taking
<1> HIDE DEF M
<1>2. Msg \in M /\ Tail(frame.queue) \in Seq(M)
  BY <1>1, HeadTailProperties DEF Msg
<1> QED
  BY <1>2 DEF M, Due

\* The NEW rows as messages.
LEMMA NewInTime ==
    ASSUME RulesInv
    PROVE  /\ \A q \in SetToSeqs(NewMessages) : q \in Seq(InTime)
           /\ \A q \in SetToSeqs({m \in NewMessages : m.exp <= now}) : q \in Seq(Due)
<1>1. IsFiniteSet(NewMessages) /\ NewMessages \subseteq Message
  BY NewMessagesType DEF RulesInv, IInv
<1>2. NewMessages \subseteq InTime
  BY <1>1 DEF RulesInv, CopiesInv, NewMessages, InTime
<1>3. {m \in NewMessages : m.exp <= now} \subseteq Due
  BY <1>2 DEF Due
<1>4. IsFiniteSet({m \in NewMessages : m.exp <= now})
  BY <1>1, FS_Subset
<1> QED
  BY <1>1, <1>2, <1>3, <1>4, SetToSeqsType

LEMMA RulesInit == Init => RulesInv
<1> SUFFICES ASSUME Init PROVE RulesInv
  OBVIOUS
<1>1. \A t \in Signals : Expires[t] <= Expires[t]
  BY WorkflowAssumption
<1>2. CopiesInv
  BY <1>1, EmptySeq DEF Init, CopiesInv
<1>3. CallbackInv
  BY EmptySeq DEF Init, Idle, CallbackInv, OwedSteps, Owning
<1> QED
  BY <1>2, <1>3, IInvInit DEF RulesInv

LEMMA CopiesStep ==
    ASSUME RulesInv, IInv', [Next]_vars
    PROVE  CopiesInv'
<1>0. TypeOK /\ CopiesInv
  BY DEF RulesInv, IInv
<1>1. \A s \in Signals : Factor => expires'[s] <= Expires[s]
  <2>1. CASE UNCHANGED expires
    BY <1>0, <2>1 DEF CopiesInv
  <2>2. CASE \E t \in Signals, newExpiry \in 1..MaxTime : Rearm(t, newExpiry)
    <3>1. PICK t \in Signals, newExpiry \in 1..MaxTime : Rearm(t, newExpiry)
      BY <2>2
    <3>2. /\ \A s \in Signals : expires[s] \in Nat /\ Expires[s] \in Nat /\ (Factor => expires[s] <= Expires[s])
          /\ newExpiry \in Nat
      BY <1>0, WorkflowAssumption DEF CopiesInv, TypeOK, RowsOK
    <3>3. \A s \in Signals : expires'[s] = IF s = t THEN newExpiry ELSE expires[s]
      BY <1>0, <3>1 DEF Rearm, TypeOK, RowsOK
    <3>4. Factor => newExpiry <= expires[t]
      BY <3>1 DEF Rearm, Rearmable
    <3> QED
      BY <3>2, <3>3, <3>4
  <2> QED
    BY <2>1, <2>2 DEF Next, GatewayStep, HandleMessage, BotStep, StartActor, StartGateway,
       Publish, CatalogAnswers, AlarmRings, Poll, HoldForPrices, DropHandled, HoldForAccount, RefuseNew,
       AskApproval, WaitForOpening, ClaimAuto, PollGoesOn, ListNew, Return, ClaimApproved, RecordSkip,
       RecordVerdict, Execute, Finish, GatewayStops, CallbackFails, BotPolls, BotNotes, BotSendsCard,
       BotMarksNotified, PressLate, Press, BotStops, BotStarts, Tick, AccountChanges, vars, db, row
<1>2. deferred' \in Seq(InTime)
  <2>1. \/ deferred' = deferred
        \/ deferred' = <<>>
        \/ Taking /\ deferred' \in {Held(Msg), HeldAgain(Msg), Kept(Msg)}
    BY DEF Next, GatewayStep, HandleMessage, BotStep, StartActor, StartGateway,
       Publish, CatalogAnswers, AlarmRings, Poll, HoldForPrices, DropHandled, HoldForAccount, RefuseNew,
       Deciding, AskApproval, WaitForOpening, ClaimAuto, PollGoesOn, ListNew, Return, ClaimApproved, RecordSkip,
       RecordVerdict, Execute, Finish, GatewayStops, CallbackFails, BotPolls, BotNotes, BotSendsCard,
       BotMarksNotified, PressLate, Press, BotStops, BotStarts, Rearm, Tick, AccountChanges, vars, gateway, memory
  <2>2. deferred \in Seq(InTime)
    BY <1>0 DEF CopiesInv
  <2>3. Taking => Msg \in InTime
    BY MessageInHand
  <2> QED
    BY <2>1, <2>2, <2>3, DeferredIn, EmptySeq
<1>3. \A s \in Signals : alarm'[s] # None => [sig |-> s, exp |-> alarm'[s]] \in InTime
  <2>1. CASE WaitForOpening
    <3>1. Taking
      BY <2>1 DEF WaitForOpening, Deciding
    <3>2. Msg \in InTime /\ Msg \in Message
      BY <3>1, MessageInHand DEF InTime
    <3>3. Msg = [sig |-> Msg.sig, exp |-> Msg.exp] /\ Msg.sig \in Signals
      BY <3>2 DEF Message
    <3>4. \A s \in Signals : alarm'[s] = alarm[s] \/ (s = Msg.sig /\ alarm'[s] = Msg.exp)
      BY <1>0, <2>1, <3>3 DEF WaitForOpening, TypeOK, NodeOK
    <3> QED
      BY <1>0, <3>2, <3>3, <3>4 DEF CopiesInv
  <2>2. CASE ~WaitForOpening
    <3>1. \A s \in Signals : alarm'[s] = alarm[s] \/ alarm'[s] = None
      <4>1. CASE \E s \in Signals : AlarmRings(s)
        BY <1>0, <4>1 DEF AlarmRings, TypeOK, NodeOK
      <4>2. CASE GatewayStops
        BY <4>2 DEF GatewayStops
      <4>3. CASE alarm' = alarm
        BY <4>3
      <4> QED
        BY <2>2, <4>1, <4>2, <4>3
           DEF Next, GatewayStep, HandleMessage, BotStep, StartActor, StartGateway,
           Publish, CatalogAnswers, Poll, HoldForPrices, DropHandled, HoldForAccount, RefuseNew,
           AskApproval, ClaimAuto, PollGoesOn, ListNew, Return, ClaimApproved, RecordSkip,
           RecordVerdict, Execute, Finish, CallbackFails, BotPolls, BotNotes, BotSendsCard,
           BotMarksNotified, PressLate, Press, BotStops, BotStarts, Rearm, Tick, AccountChanges, vars, gateway, memory
    <3> QED
      BY <1>0, <3>1 DEF CopiesInv
  <2> QED
    BY <2>1, <2>2
<1>4. \A s \in Signals : status'[s] = "APPROVED" => decidedBy'[s] = "user"
  <2>1. CASE UNCHANGED <<status, decidedBy>>
    BY <1>0, <2>1 DEF CopiesInv
  <2>2. ASSUME NEW t \in Signals, NEW to \in Statuses, status' = [status EXCEPT ![t] = to], to # "APPROVED",
               \A s \in Signals \ {t} : decidedBy'[s] = decidedBy[s]
        PROVE  \A s \in Signals : status'[s] = "APPROVED" => decidedBy'[s] = "user"
    BY <1>0, <2>2 DEF CopiesInv, TypeOK, RowsOK
  <2>3. CASE \E t \in Signals : Publish(t)
    BY <2>1, <2>2, <2>3 DEF Publish, Statuses
  <2>4. ASSUME NEW rejected \in BOOLEAN, RefuseNew(rejected)
        PROVE  \A s \in Signals : status'[s] = "APPROVED" => decidedBy'[s] = "user"
    <3>1. Msg.sig \in Signals
      BY <1>0, <2>4, TakingType DEF RefuseNew, Deciding, TypeOK
    <3> QED
      BY <2>2, <2>4, <3>1 DEF RefuseNew, Statuses
  <2>5. CASE AskApproval
    <3>1. Msg.sig \in Signals
      BY <1>0, <2>5, TakingType DEF AskApproval, Deciding, TypeOK
    <3> QED
      BY <2>2, <2>5, <3>1 DEF AskApproval, Statuses
  <2>6. CASE ClaimAuto
    <3>1. Msg.sig \in Signals
      BY <1>0, <2>6, TakingType DEF ClaimAuto, Deciding, TypeOK
    <3>2. \A s \in Signals \ {Msg.sig} : decidedBy'[s] = decidedBy[s]
      BY <1>0, <2>6, <3>1 DEF ClaimAuto, TypeOK, RowsOK
    <3> QED
      BY <2>1, <2>2, <2>6, <3>1, <3>2 DEF ClaimAuto, Statuses
  <2>7. CASE \E t \in Signals : ClaimApproved(t)
    BY <2>2, <2>7 DEF ClaimApproved, Statuses
  <2>8. CASE Finish
    <3>1. frame.sig \in Signals /\ frame.verdict \in Verdicts /\ decidedBy' = decidedBy
      BY <1>0, <2>8 DEF Finish, TypeOK, FrameOK, OwedSteps
    <3>2. /\ \A s \in Signals \ {frame.sig} : status'[s] = status[s]
          /\ status'[frame.sig] = status[frame.sig] \/ status[frame.sig] = "PROCESSING"
      BY <1>0, <2>8, <3>1 DEF Finish, TypeOK, RowsOK
    <3>3. status[frame.sig] = "PROCESSING" => status'[frame.sig] # "APPROVED"
      BY <1>0, <2>8, <3>1 DEF Finish, TypeOK, RowsOK
    <3> QED
      BY <1>0, <3>1, <3>2, <3>3 DEF CopiesInv
  <2>9. CASE BotPolls \/ \E t \in Signals : PressLate(t)
    <3>1. decidedBy' = decidedBy /\ \A s \in Signals : status'[s] = status[s] \/ status'[s] = "EXPIRED"
      BY <2>9 DEF BotPolls, PressLate, ExpireOverdue
    <3> QED
      BY <1>0, <3>1 DEF CopiesInv
  <2>10. ASSUME NEW t \in Signals, NEW approve \in BOOLEAN, Press(t, approve)
         PROVE  \A s \in Signals : status'[s] = "APPROVED" => decidedBy'[s] = "user"
    <3>1. \A s \in Signals \ {t} : status'[s] = status[s] /\ decidedBy'[s] = decidedBy[s]
      BY <1>0, <2>10 DEF Press, TypeOK, RowsOK
    <3>2. decidedBy'[t] = "user"
      BY <1>0, <2>10 DEF Press, TypeOK, RowsOK
    <3> QED
      BY <1>0, <3>1, <3>2 DEF CopiesInv
  <2>11. CASE \E t \in Signals, newExpiry \in 1..MaxTime : Rearm(t, newExpiry)
    <3>1. PICK t \in Signals, newExpiry \in 1..MaxTime : Rearm(t, newExpiry)
      BY <2>11
    <3>2. \A s \in Signals \ {t} : decidedBy'[s] = decidedBy[s]
      BY <1>0, <3>1 DEF Rearm, TypeOK, RowsOK
    <3> QED
      BY <2>2, <3>1, <3>2 DEF Rearm, Statuses
  <2> QED
    BY <2>1, <2>3, <2>4, <2>5, <2>6, <2>7, <2>8, <2>9, <2>10, <2>11
       DEF Next, GatewayStep, HandleMessage, BotStep, StartActor, StartGateway,
       CatalogAnswers, AlarmRings, Poll, HoldForPrices, DropHandled, HoldForAccount, WaitForOpening,
       PollGoesOn, ListNew, Return, RecordSkip,
       RecordVerdict, Execute, GatewayStops, CallbackFails, BotNotes, BotSendsCard,
       BotMarksNotified, BotStops, BotStarts, Tick, AccountChanges, vars, db, row
<1> QED
  BY <1>1, <1>2, <1>3, <1>4 DEF CopiesInv, InTime

\* The same frame, while time passes and others move rows.
LEMMA FrameStays ==
    ASSUME RulesInv, frame' = frame, TypeOK', now <= now',
           frame.step = "idle" \/ UNCHANGED <<node, mode>>,
           \A s \in Signals : status[s] = "PROCESSING" => decidedBy'[s] = decidedBy[s]
    PROVE  CallbackInv'
<1>1. now \in Nat /\ now' \in Nat
  BY WorkflowAssumption DEF RulesInv, IInv, TypeOK, WorldOK
<1>2. Due \subseteq Due'
  <2>1. \A m \in InTime : m.exp \in Nat
    BY WorkflowAssumption DEF InTime, Message
  <2> QED
    BY <1>1, <2>1 DEF Due, InTime
<1>3. frame'.queue \in Seq(IF frame'.phase = "stale" THEN Due' ELSE InTime')
  BY <1>2, SeqWiden DEF RulesInv, CallbackInv, InTime
<1>4. Owning => frame.sig \in Signals /\ status[frame.sig] = "PROCESSING" /\ frame.step # "idle"
  BY DEF RulesInv, IInv, ClaimHeld, FrameShape, TypeOK, FrameOK, Owning, OwedSteps
<1>5. Owning' => decidedBy'[frame'.sig] = Decider'
  BY <1>4 DEF RulesInv, CallbackInv, Owning, Decider
<1> QED
  BY <1>3, <1>5 DEF RulesInv, CallbackInv

\* A callback that begins, goes on with the next message, or ends.
LEMMA FrameLoose ==
    ASSUME RulesInv, FrameShape', frame'.step \in {"idle", "next"}, UNCHANGED <<node, mode>> \/ frame'.step = "idle",
           frame'.queue \in Seq(IF frame'.phase = "stale" THEN Due' ELSE InTime),
           frame'.step = "next" => node = "up" /\ (frame'.phase = "claim" => mode = "manual")
    PROVE  CallbackInv'
<1>1. ~Owning'
  BY DEF FrameShape, Owning, OwedSteps
<1> QED
  BY <1>1 DEF CallbackInv, OwedSteps, InTime

\* The transactions of a signal in hand, one after the other.
LEMMA FrameGoesOn ==
    ASSUME RulesInv, frame.step \in OwedSteps, NEW step \in OwedSteps, frame' = [frame EXCEPT !.step = step],
           UNCHANGED <<node, mode, decidedBy, now>>, Owning' => Owning
    PROVE  CallbackInv'
<1>1. frame \in Frames
  BY DEF RulesInv, IInv, TypeOK, FrameOK
<1>2. /\ frame'.queue = frame.queue /\ frame'.phase = frame.phase /\ frame'.exp = frame.exp
      /\ frame'.sig = frame.sig /\ frame'.step = step
  BY <1>1 DEF Frames
<1> QED
  BY <1>2 DEF RulesInv, CallbackInv, Decider, Due, InTime, OwedSteps

\* The first transaction of a signal in hand.
LEMMA FrameOwes ==
    ASSUME RulesInv, Taking, NEW step \in OwedSteps, NEW verdict \in Verdicts, frame' = Owed(step, verdict),
           UNCHANGED <<node, mode, now>>,
           verdict = "APPROVED" => mode = "auto" /\ decidedBy'[Msg.sig] = "auto"
    PROVE  CallbackInv'
<1>1. /\ frame'.queue = Tail(frame.queue) /\ frame'.phase = frame.phase /\ frame'.exp = Msg.exp
      /\ frame'.sig = Msg.sig /\ frame'.step = step /\ frame'.claimed = (verdict = "APPROVED")
  BY DEF Owed
<1>2. Factor => Msg.exp <= Expires[Msg.sig]
  BY MessageInHand DEF InTime
<1>3. node = "up" /\ (frame.phase = "claim" => mode = "manual")
  BY DEF RulesInv, CallbackInv, Taking
<1>4. frame'.queue \in Seq(IF frame'.phase = "stale" THEN Due' ELSE InTime')
  BY <1>1, MessageInHand DEF Due, InTime
<1> QED
  BY <1>1, <1>2, <1>3, <1>4 DEF CallbackInv, Owning, Decider

LEMMA CallbackStep ==
    ASSUME RulesInv, IInv', [Next]_vars
    PROVE  CallbackInv'
<1>0. /\ TypeOK /\ TypeOK' /\ FrameOK /\ CopiesInv /\ CallbackInv /\ FrameShape /\ FrameShape' /\ IInv
      /\ now \in Nat /\ now <= now
  BY WorkflowAssumption DEF RulesInv, IInv, TypeOK, WorldOK
<1>1. CASE \/ StartActor \/ StartGateway \/ UNCHANGED vars \/ BotStep \/ BotStops \/ BotStarts
           \/ Tick \/ AccountChanges
           \/ \E s \in Signals : PressLate(s) \/ Press(s, TRUE) \/ Press(s, FALSE)
           \/ \E s \in Signals, newExpiry \in 1..MaxTime : Rearm(s, newExpiry)
  <2>1. frame' = frame
    BY <1>1 DEF StartActor, StartGateway, BotStep, BotPolls, BotNotes, BotSendsCard, BotMarksNotified,
       BotStops, BotStarts, Tick, AccountChanges, PressLate, Press, Rearm, vars, gateway, memory
  <2>2. now <= now'
    <3>1. now' = now \/ now' = now + 1
      BY <1>1 DEF StartActor, StartGateway, BotStep, BotPolls, BotNotes, BotSendsCard, BotMarksNotified,
         BotStops, BotStarts, Tick, AccountChanges, PressLate, Press, Rearm, vars, world
    <3> QED
      BY <1>0, <3>1
  <2>3. frame.step = "idle" \/ UNCHANGED <<node, mode>>
    BY <1>0, <1>1 DEF StartActor, StartGateway, BotStep, BotPolls, BotNotes, BotSendsCard, BotMarksNotified,
       BotStops, BotStarts, Tick, AccountChanges, PressLate, Press, Rearm, vars, gateway, CallbackInv
  <2>4. \A s \in Signals : status[s] = "PROCESSING" => decidedBy'[s] = decidedBy[s]
    <3>1. CASE \E s \in Signals : Press(s, TRUE) \/ Press(s, FALSE)
      BY <1>0, <3>1 DEF Press, TypeOK, RowsOK
    <3>2. CASE \E s \in Signals, newExpiry \in 1..MaxTime : Rearm(s, newExpiry)
      BY <1>0, <3>2 DEF Rearm, Rearmable, TypeOK, RowsOK
    <3> QED
      BY <1>1, <3>1, <3>2
         DEF StartActor, StartGateway, BotStep, BotPolls, BotNotes, BotSendsCard, BotMarksNotified,
         BotStops, BotStarts, Tick, AccountChanges, PressLate, vars, db, row
  <2> QED
    BY <1>0, <2>1, <2>2, <2>3, <2>4, FrameStays
<1>2. ASSUME NEW s \in Signals, Publish(s) PROVE CallbackInv'
  <2>1. CASE node = "up"
    <3> DEFINE m == [sig |-> s, exp |-> expires[s]]
    <3>1. frame' = Callback("single", <<m>>) /\ UNCHANGED <<node, mode, now>>
      BY <1>2, <2>1 DEF Publish, world
    <3>2. m \in InTime
      BY <1>0 DEF InTime, Message, TypeOK, RowsOK, CopiesInv
    <3> HIDE DEF m
    <3>3. frame'.step = "next" /\ frame'.phase = "single" /\ frame'.queue = <<m>>
      BY <3>1 DEF Callback
    <3>4. <<m>> \in Seq(InTime)
      BY <3>2
    <3> QED
      BY <1>0, <2>1, <3>1, <3>3, <3>4, FrameLoose
  <2>2. CASE node # "up"
    <3>1. frame' = frame /\ UNCHANGED <<node, mode, now, decidedBy>>
      BY <1>2, <2>2 DEF Publish, world
    <3> QED
      BY <1>0, <3>1, FrameStays
  <2> QED
    BY <2>1, <2>2
<1>3. CASE CatalogAnswers
  <2>1. UNCHANGED <<node, mode, now, decidedBy>> /\ node = "up"
    BY <1>3 DEF CatalogAnswers, db, row, world
  <2>2. CASE frame' = frame
    BY <1>0, <2>1, <2>2, FrameStays
  <2>3. CASE frame' = Callback("deferred", deferred)
    <3>1. frame'.step = "next" /\ frame'.phase = "deferred" /\ frame'.queue = deferred
      BY <2>3 DEF Callback
    <3>2. deferred \in Seq(InTime)
      BY <1>0 DEF CopiesInv
    <3> QED
      BY <1>0, <2>1, <3>1, <3>2, FrameLoose
  <2> QED
    BY <1>3, <2>2, <2>3 DEF CatalogAnswers
<1>4. ASSUME NEW s \in Signals, AlarmRings(s) PROVE CallbackInv'
  <2> DEFINE m == [sig |-> s, exp |-> alarm[s]]
  <2>1. frame' = Callback("single", <<m>>) /\ UNCHANGED <<node, mode>> /\ node = "up"
    BY <1>4 DEF AlarmRings
  <2>2. m \in InTime
    BY <1>0, <1>4 DEF AlarmRings, CopiesInv
  <2> HIDE DEF m
  <2>3. frame'.step = "next" /\ frame'.phase = "single" /\ frame'.queue = <<m>>
    BY <2>1 DEF Callback
  <2>4. <<m>> \in Seq(InTime)
    BY <2>2
  <2> QED
    BY <1>0, <2>1, <2>3, <2>4, FrameLoose
<1>5. CASE Poll
  <2>1. PICK q \in SetToSeqs({m \in NewMessages : m.exp <= now}) : frame' = Callback("stale", q)
    BY <1>5 DEF Poll
  <2>2. UNCHANGED <<node, mode, now>> /\ node = "up"
    BY <1>5 DEF Poll, world
  <2>3. q \in Seq(Due)
    BY NewInTime
  <2>4. frame'.step = "next" /\ frame'.phase = "stale" /\ frame'.queue = q
    BY <2>1 DEF Callback
  <2>5. q \in Seq(Due')
    BY <2>2, <2>3 DEF Due, InTime
  <2> QED
    BY <1>0, <2>2, <2>4, <2>5, FrameLoose
<1>6. ASSUME Taking, frame' = Rest, UNCHANGED <<node, mode, now>> PROVE CallbackInv'
  <2>1. frame \in Frames /\ frame.step = "next"
    BY <1>0, <1>6 DEF FrameOK, Taking
  <2>2. frame'.step = "next" /\ frame'.phase = frame.phase /\ frame'.queue = Tail(frame.queue)
    BY <1>6, <2>1 DEF Rest, Frames
  <2>3. frame'.queue \in Seq(IF frame'.phase = "stale" THEN Due' ELSE InTime)
    BY <1>6, <2>2, MessageInHand DEF Due, InTime
  <2>4. node = "up" /\ (frame.phase = "claim" => mode = "manual")
    BY <1>0, <2>1 DEF CallbackInv
  <2> QED
    BY <1>0, <1>6, <2>2, <2>3, <2>4, FrameLoose
<1>7. CASE HoldForPrices \/ DropHandled \/ HoldForAccount \/ WaitForOpening
  <2>1. Taking /\ frame' = Rest /\ UNCHANGED <<node, mode, now>>
    BY <1>7 DEF HoldForPrices, DropHandled, HoldForAccount, WaitForOpening, Deciding, world
  <2> QED
    BY <1>6, <2>1
<1>8. ASSUME NEW rejected \in BOOLEAN, RefuseNew(rejected) PROVE CallbackInv'
  <2>1. PICK step \in {"skip", "audit"}, verdict \in {"EXPIRED", "RISK_REJECTED"} : frame' = Owed(step, verdict)
    BY <1>8 DEF RefuseNew
  <2>2. Taking /\ UNCHANGED <<node, mode, now>> /\ step \in OwedSteps /\ verdict \in Verdicts /\ verdict # "APPROVED"
    BY <1>8 DEF RefuseNew, Deciding, OwedSteps, Verdicts, world
  <2> QED
    BY <2>1, <2>2, FrameOwes
<1>9. CASE AskApproval
  <2>1. Taking /\ UNCHANGED <<node, mode, now>> /\ frame' = Owed("audit", "PENDING")
    BY <1>9 DEF AskApproval, Deciding, world
  <2>2. "audit" \in OwedSteps /\ "PENDING" \in Verdicts
    BY DEF OwedSteps, Verdicts
  <2> QED
    BY <2>1, <2>2, FrameOwes
<1>10. CASE ClaimAuto
  <2>1. Taking /\ UNCHANGED <<node, mode, now>> /\ mode = "auto"
    BY <1>10 DEF ClaimAuto, Deciding, world
  <2>2. CASE frame' = Rest
    BY <1>6, <2>1, <2>2
  <2>3. CASE frame' = Owed("execute", "APPROVED") /\ decidedBy' = [decidedBy EXCEPT ![Msg.sig] = "auto"]
    <3>1. decidedBy'[Msg.sig] = "auto"
      BY <1>0, <2>1, <2>3, TakingType DEF TypeOK, RowsOK
    <3>2. "execute" \in OwedSteps /\ "APPROVED" \in Verdicts
      BY DEF OwedSteps, Verdicts
    <3> QED
      BY <2>1, <2>3, <3>1, <3>2, FrameOwes
  <2> QED
    BY <1>10, <2>2, <2>3 DEF ClaimAuto
<1>11. CASE PollGoesOn
  <2>1. UNCHANGED <<node, mode, now>> /\ node = "up"
    BY <1>0, <1>11 DEF PollGoesOn, AllTaken, CallbackInv, world
  <2>2. \/ frame' = Idle
        \/ frame' = Callback("deferred", deferred)
        \/ frame' = Callback("claim", <<>>) /\ mode = "manual"
    BY <1>0, <1>11, WorkflowAssumption DEF PollGoesOn, TypeOK, NodeOK
  <2>3. frame'.step \in {"idle", "next"} /\ frame'.phase # "stale" /\ (frame'.phase = "claim" => mode = "manual")
    BY <2>2 DEF Idle, Callback
  <2>4. frame'.queue \in Seq(InTime)
    <3>1. frame'.queue = <<>> \/ frame'.queue = deferred
      BY <2>2 DEF Idle, Callback
    <3> QED
      BY <1>0, <3>1, EmptySeq DEF CopiesInv
  <2> QED
    BY <1>0, <2>1, <2>3, <2>4, FrameLoose
<1>12. CASE ListNew
  <2>1. PICK q \in SetToSeqs(NewMessages) : frame' = Callback("new", q)
    BY <1>12 DEF ListNew
  <2>2. UNCHANGED <<node, mode, now>> /\ node = "up"
    BY <1>0, <1>12 DEF ListNew, AllTaken, CallbackInv, world
  <2>3. q \in Seq(InTime)
    BY NewInTime
  <2>4. frame'.step = "next" /\ frame'.phase = "new" /\ frame'.queue = q
    BY <2>1 DEF Callback
  <2> QED
    BY <1>0, <2>2, <2>3, <2>4, FrameLoose
<1>13. CASE Return \/ GatewayStops \/ CallbackFails
  <2>1. frame' = Idle
    BY <1>13 DEF Return, GatewayStops, CallbackFails
  <2>2. frame'.step = "idle" /\ frame'.phase = "single" /\ frame'.queue \in Seq(InTime)
    BY <2>1, EmptySeq DEF Idle
  <2> QED
    BY <1>0, <2>2, FrameLoose
<1>14. ASSUME NEW s \in Signals, ClaimApproved(s) PROVE CallbackInv'
  <2>1. PICK verdict \in ClaimVerdicts(s) :
           frame' = [step |-> FirstOwed(verdict), phase |-> "claim", queue |-> <<>>, sig |-> s,
                     exp |-> expires[s], verdict |-> verdict, claimed |-> TRUE]
    BY <1>14 DEF ClaimApproved
  <2>2. /\ UNCHANGED <<node, mode, now, decidedBy>> /\ node = "up" /\ mode = "manual" /\ status[s] = "APPROVED"
    BY <1>0, <1>14 DEF ClaimApproved, AllTaken, Claimable, CallbackInv, world
  <2>3. frame'.phase = "claim" /\ frame'.queue = <<>> /\ frame'.sig = s /\ frame'.exp = expires[s]
    BY <2>1
  <2>4. decidedBy[s] = "user" /\ (Factor => expires[s] <= Expires[s])
    BY <1>0, <2>2 DEF CopiesInv
  <2> QED
    BY <2>2, <2>3, <2>4, EmptySeq DEF CallbackInv, Decider, InTime
<1>15. ASSUME frame.step \in OwedSteps, frame' = Callback(frame.phase, frame.queue), UNCHANGED <<node, mode, now>>
       PROVE  CallbackInv'
  <2>1. frame'.step = "next" /\ frame'.phase = frame.phase /\ frame'.queue = frame.queue
    BY <1>15 DEF Callback
  <2>2. node = "up" /\ (frame.phase = "claim" => mode = "manual")
    BY <1>0, <1>15 DEF CallbackInv, OwedSteps
  <2>3. frame'.queue \in Seq(IF frame'.phase = "stale" THEN Due' ELSE InTime)
    BY <1>0, <1>15, <2>1 DEF CallbackInv, Due, InTime
  <2> QED
    BY <1>0, <1>15, <2>1, <2>2, <2>3, FrameLoose
<1>16. ASSUME RecordSkip \/ RecordVerdict \/ Execute \/ Finish PROVE CallbackInv'
  <2>1. frame.step \in OwedSteps /\ UNCHANGED <<node, mode, now, decidedBy>>
    BY <1>16 DEF RecordSkip, RecordVerdict, Execute, Finish, OwedSteps, row, world
  <2>2. CASE frame' = Callback(frame.phase, frame.queue)
    BY <1>15, <2>1, <2>2
  <2>3. ASSUME NEW step \in OwedSteps, frame' = [frame EXCEPT !.step = step],
               step = "audit" => ~frame.claimed \/ frame.verdict # "APPROVED",
               frame.step = "audit" => frame.verdict = "APPROVED"
        PROVE  CallbackInv'
    <3>1. /\ frame'.claimed = frame.claimed /\ frame'.verdict = frame.verdict /\ frame'.step = step
      BY <1>0, <2>3, StepType DEF FrameOK, OwedSteps, Steps
    <3>2. Owning' => Owning
      BY <2>3, <3>1 DEF Owning
    <3> QED
      BY <2>1, <2>3, <3>2, FrameGoesOn
  <2>4. CASE RecordSkip
    <3>1. PICK step \in OwedSteps : frame' = [frame EXCEPT !.step = step] /\ (step = "audit" => ~frame.claimed)
      BY <2>4 DEF RecordSkip, OwedSteps
    <3> QED
      BY <2>3, <2>4, <3>1 DEF RecordSkip
  <2>5. CASE RecordVerdict
    BY <2>2, <2>3, <2>5 DEF RecordVerdict, OwedSteps
  <2>6. CASE Execute
    BY <2>3, <2>6 DEF Execute, OwedSteps
  <2>7. CASE Finish
    BY <2>2, <2>3, <2>7 DEF Finish, OwedSteps
  <2> QED
    BY <1>16, <2>4, <2>5, <2>6, <2>7
<1> QED
  BY <1>1, <1>2, <1>3, <1>4, <1>5, <1>7, <1>8, <1>9, <1>10, <1>11, <1>12, <1>13, <1>14, <1>16
     DEF Next, GatewayStep, HandleMessage

LEMMA RulesStep == RulesInv /\ [Next]_vars => RulesInv'
<1>1. RulesInv => IInv
  BY DEF RulesInv
<1>2. RulesInv /\ [Next]_vars => IInv'
  BY <1>1, IInvStep
<1> QED
  BY <1>2, CopiesStep, CallbackStep DEF RulesInv

LEMMA SpecRules == Spec => []RulesInv
  BY RulesInit, RulesStep, PTL DEF Spec

\* Orders leave in Execute, for the signal the gateway owns.
LEMMA OrdersLeaveInExecute ==
    ASSUME RulesInv, [Next]_vars, NEW s \in Signals, orders'[s] # orders[s]
    PROVE  s = frame.sig /\ Owning /\ frame.step = "execute" /\ MaySubmit(frame.sig, frame.exp)
<1>1. Execute
  BY DEF Next, GatewayStep, HandleMessage, BotStep, StartActor, StartGateway,
     Publish, CatalogAnswers, AlarmRings, Poll, HoldForPrices, DropHandled, HoldForAccount, RefuseNew,
     AskApproval, WaitForOpening, ClaimAuto, PollGoesOn, ListNew, Return, ClaimApproved, RecordSkip,
     RecordVerdict, Finish, GatewayStops, CallbackFails, BotPolls, BotNotes, BotSendsCard,
     BotMarksNotified, PressLate, Press, BotStops, BotStarts, Rearm, Tick, AccountChanges, vars, db
<1>2. PICK sent \in {FALSE} \cup {b \in {TRUE} : MaySubmit(frame.sig, frame.exp)} :
         orders' = IF sent THEN [orders EXCEPT ![frame.sig] = @ + 1] ELSE orders
  BY <1>1 DEF Execute
<1>3. sent = TRUE /\ MaySubmit(frame.sig, frame.exp)
  BY <1>2
<1>4. s = frame.sig
  BY <1>2, <1>3 DEF RulesInv, IInv, TypeOK, LedgerOK
<1> QED
  BY <1>1, <1>3, <1>4 DEF Execute, RulesInv, IInv, FrameShape, Owning

\* Orders of a factor signal leave inside its published window only: every copy of the
\* message, held, deferred or timed, keeps its expiry or a shorter one, and the check
\* before each submit_order looks at it (_factor_rejection).
THEOREM WindowIsKept == Spec => FactorWindowKept
<1>1. RulesInv /\ [Next]_vars =>
        [\A s \in Signals :
            Factor /\ orders'[s] # orders[s] => NotBefore[s] <= now /\ now < Expires[s]]_vars
  <2> SUFFICES ASSUME RulesInv, [Next]_vars, NEW s \in Signals, Factor, orders'[s] # orders[s]
               PROVE  NotBefore[s] <= now /\ now < Expires[s]
    OBVIOUS
  <2>1. s = frame.sig /\ frame.step = "execute" /\ MaySubmit(frame.sig, frame.exp)
    BY OrdersLeaveInExecute
  <2>2. now \in Nat /\ frame.exp \in Nat /\ Expires[s] \in Nat /\ frame.exp <= Expires[s]
    BY <2>1, WorkflowAssumption
       DEF RulesInv, IInv, TypeOK, WorldOK, FrameOK, Frames, CallbackInv, OwedSteps
  <2>3. NotBefore[s] <= now /\ ~(now >= frame.exp)
    BY <2>1 DEF MaySubmit, FactorRejects
  <2> QED
    BY <2>2, <2>3
<1> QED
  BY <1>1, SpecRules, PTL DEF Spec, FactorWindowKept

\* A node trades on the decisions of its own mode only, although the mode may change at
\* every restart (claim_auto_signal takes NEW rows, claim_next_approved approved ones).
THEOREM ModesStayApart == Spec => ModeKeepsToItsClaims
<1>1. RulesInv /\ [Next]_vars =>
        [\A s \in Signals :
            orders'[s] # orders[s] => decidedBy[s] = IF mode = "auto" THEN "auto" ELSE "user"]_vars
  <2> SUFFICES ASSUME RulesInv, [Next]_vars, NEW s \in Signals, orders'[s] # orders[s]
               PROVE  decidedBy[s] = IF mode = "auto" THEN "auto" ELSE "user"
    OBVIOUS
  <2>1. s = frame.sig /\ Owning
    BY OrdersLeaveInExecute
  <2> QED
    BY <2>1 DEF RulesInv, CallbackInv, Decider
<1> QED
  BY <1>1, SpecRules, PTL DEF Spec, ModeKeepsToItsClaims

\* Where a NEW row becomes pending or is claimed, the prices are those of its own date.
LEMMA PlannedInTime ==
    ASSUME RulesInv, [Next]_vars, NEW s \in Signals, status[s] = "NEW", status'[s] \in {"PENDING", "PROCESSING"}
    PROVE  prices.ready /\ (Factor => prices.date = s)
<1>0. TypeOK
  BY DEF RulesInv, IInv
<1>1. AskApproval \/ ClaimAuto
  <2>1. CASE \E t \in Signals : Publish(t)
    BY <1>0, <2>1 DEF Publish, TypeOK, RowsOK
  <2>2. CASE \E t \in Signals : ClaimApproved(t)
    BY <1>0, <2>2 DEF ClaimApproved, Claimable, TypeOK, RowsOK
  <2>3. CASE \E rejected \in BOOLEAN : RefuseNew(rejected)
    BY <1>0, <2>3 DEF RefuseNew, TypeOK, RowsOK
  <2>4. CASE Finish
    <3>1. status' = status \/ (status[frame.sig] = "PROCESSING" /\ \E x : status' = [status EXCEPT ![frame.sig] = x])
      BY <2>4 DEF Finish
    <3> QED
      BY <1>0, <3>1 DEF TypeOK, RowsOK
  <2>5. CASE BotPolls \/ \E t \in Signals : PressLate(t)
    BY <2>5 DEF BotPolls, PressLate, ExpireOverdue, Overdue
  <2>6. CASE \E t \in Signals : Press(t, TRUE) \/ Press(t, FALSE)
    BY <1>0, <2>6 DEF Press, TypeOK, RowsOK
  <2>7. CASE \E t \in Signals, newExpiry \in 1..MaxTime : Rearm(t, newExpiry)
    BY <1>0, <2>7 DEF Rearm, TypeOK, RowsOK
  <2> QED
    BY <2>1, <2>2, <2>3, <2>4, <2>5, <2>6, <2>7
       DEF Next, GatewayStep, HandleMessage, BotStep, StartActor, StartGateway,
       CatalogAnswers, AlarmRings, Poll, HoldForPrices, DropHandled, HoldForAccount, WaitForOpening,
       PollGoesOn, ListNew, Return, RecordSkip,
       RecordVerdict, Execute, GatewayStops, CallbackFails, BotNotes, BotSendsCard,
       BotMarksNotified, BotStops, BotStarts, Tick, AccountChanges, vars, db, row
<1>2. Taking /\ ~Unpriced /\ now < Msg.exp
  BY <1>1 DEF AskApproval, ClaimAuto, Deciding
<1>3. Msg.sig = s
  <2>1. status' = status \/ \E x : status' = [status EXCEPT ![Msg.sig] = x]
    BY <1>1 DEF AskApproval, ClaimAuto
  <2> QED
    BY <1>0, <2>1 DEF TypeOK, RowsOK
<1>4. frame.phase # "stale"
  <2>1. now \in Nat /\ Msg.exp \in Nat
    BY <1>0, <1>2, TakingType, WorkflowAssumption DEF TypeOK, WorldOK
  <2> QED
    BY <1>2, <2>1, MessageInHand
<1> QED
  BY <1>2, <1>3, <1>4 DEF Unpriced

\* No signal is planned on prices that were not asked for its own date, although requests of
\* several signals displace each other and the poll handles overdue rows without any.
THEOREM OwnPricesOnly == Spec => PlannedOnOwnPrices
<1>1. RulesInv /\ [Next]_vars =>
        [\A s \in Signals :
            status[s] = "NEW" /\ status'[s] \in {"PENDING", "PROCESSING"}
               => prices.ready /\ (Factor => prices.date = s)]_vars
  BY PlannedInTime
<1> QED
  BY <1>1, SpecRules, PTL DEF Spec, PlannedOnOwnPrices
================================================================================
