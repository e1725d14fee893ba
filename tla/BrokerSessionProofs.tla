--------------------------- MODULE BrokerSessionProofs ---------------------------
(***************************************************************************)
(* Machine-checked facts about BrokerSession, for any finite set of fills  *)
(* and any number of faults: what the session's readiness means.           *)
(***************************************************************************)
EXTENDS BrokerSession, FiniteSetTheorems, TLAPS

\* Equal quantities of a set of fills and of a part of it are the same fills: what
\* comparing positions by quantity shows (_reconcile).
LEMMA SameQuantity ==
    ASSUME NEW A \in SUBSET Fills, NEW B \in SUBSET A, Cardinality(A) = Cardinality(B)
    PROVE  A = B
<1>1. IsFiniteSet(A)
  BY SessionAssumption, FS_Subset
<1> QED
  BY <1>1, FS_Subset

\* A consistent set of answers means that nothing is lost (_reconcile, after the gather).
LEMMA ConsistentIsWhole ==
    ASSUME TypeOK, WorldOK, SessionOK, CycleOK, AnswersHold, Consistent, cycle.stage = "gather",
           cycle.positions # None, cycle.epoch = stamp
    PROVE  Lost = {}
<1>1. /\ cycle.report \subseteq cache /\ cycle.report \subseteq cycle.positions
      /\ cycle.positions \subseteq book /\ book \ cycle.positions \subseteq cache \cup inflight
      /\ cache \subseteq book /\ book \subseteq Fills
  BY DEF TypeOK, WorldOK, SessionOK, CycleOK, AnswersHold
<1>2. cycle.report = cache
  BY <1>1, SameQuantity DEF Consistent
<1>3. cycle.report = cycle.positions
  <2>1. cycle.positions \in SUBSET Fills /\ cycle.report \in SUBSET cycle.positions
    BY <1>1
  <2>2. Cardinality(cycle.positions) = Cardinality(cycle.report)
    BY DEF Consistent
  <2> QED
    BY <2>1, <2>2, SameQuantity
<1> QED
  BY <1>1, <1>2, <1>3 DEF Lost

-----------------------------------------------------------------------------
(* The invariant holds at first, and every step keeps it.                  *)

LEMMA SessionInit == Init => SessionInv
<1> SUFFICES ASSUME Init
             PROVE  SessionInv
  OBVIOUS
<1>1. WorldOK
  <2>1. 0 \in 0..MaxFaults /\ 0 \in 0..0
    BY SessionAssumption
  <2>2. faults \in 0..MaxFaults /\ stamp \in 0..faults
    BY <2>1 DEF Init
  <2> QED
    BY <2>2 DEF Init, WorldOK
<1>2. SessionOK /\ CycleOK
  BY SessionAssumption DEF Init, NoCycle, SessionOK, CycleOK, Answers, Stages
<1>3. AnswersHold
  BY DEF Init, NoCycle, AnswersHold
<1>4. ReadinessHolds
  BY DEF Init, ReadinessHolds
<1> QED
  BY <1>1, <1>2, <1>3, <1>4 DEF SessionInv, TypeOK

\* Every step keeps the shape of broker, cache and account.
LEMMA WorldStep == SessionInv /\ [Next]_vars => WorldOK'
<1> SUFFICES ASSUME SessionInv, [Next]_vars
             PROVE  WorldOK'
  OBVIOUS
<1> USE SessionAssumption DEF SessionInv, TypeOK
<1>1. CASE Connect
  BY <1>1 DEF WorldOK, broker, known, Connect
<1>2. CASE Disconnect
  BY <1>2 DEF WorldOK, broker, known, Disconnect, Fault
<1>3. CASE Busy
  BY <1>3 DEF WorldOK, broker, known, Busy, Fault
<1>4. CASE AccountUpdate
  BY <1>4 DEF WorldOK, broker, known, AccountUpdate
<1>5. CASE TraderStarts \/ StatusRead
  BY <1>5 DEF WorldOK, broker, known, TraderStarts, StatusRead
<1>6. CASE Invalidate \/ RequestFails \/ DeadlinePasses
  <2>1. UNCHANGED <<broker, known, running>> /\ Fault
    BY <1>6 DEF Invalidate, RequestFails, DeadlinePasses
  <2> QED
    BY <2>1 DEF WorldOK, broker, known, Fault
<1>7. CASE StatusReturns \/ ReadPositions \/ ReadExecutions \/ GatherReturns
  BY <1>7 DEF WorldOK, broker, known, StatusReturns, ReadPositions, ReadExecutions,
     GatherReturns
<1>8. CASE StartCycle \/ ApplyResult \/ StopMonitor \/ Close \/ CloseEnds
  BY <1>8 DEF WorldOK, broker, known, StartCycle, ApplyResult, StopMonitor, Close, CloseEnds
<1>9. ASSUME NEW f \in Fills, Fill(f)
      PROVE  WorldOK'
  BY <1>9 DEF WorldOK, broker, known, Fill
<1>10. ASSUME NEW f \in Fills, FillArrives(f)
      PROVE  WorldOK'
  BY <1>10 DEF WorldOK, broker, known, FillArrives
<1>11. ASSUME NEW fills \in SUBSET Fills, Report(fills)
      PROVE  WorldOK'
  BY <1>11 DEF WorldOK, broker, known, Report, Fault
<1>12. ASSUME NEW fills \in SUBSET Fills, OldReport(fills)
      PROVE  WorldOK'
  BY <1>12 DEF WorldOK, broker, known, OldReport, Fault
<1>13. CASE UNCHANGED vars
  BY <1>13 DEF WorldOK, broker, known, vars
<1> QED
  BY <1>1, <1>2, <1>3, <1>4, <1>5, <1>6, <1>7, <1>8, <1>9, <1>10, <1>11, <1>12, <1>13
     DEF Next, Task, Monitor

\* Every step keeps the shape of the session.
LEMMA SessionTypeStep == SessionInv /\ [Next]_vars => SessionOK'
<1> SUFFICES ASSUME SessionInv, [Next]_vars
             PROVE  SessionOK'
  OBVIOUS
<1> USE SessionAssumption DEF SessionInv, TypeOK
<1>1. CASE StatusRead
  <2>1. session' = [session EXCEPT !.reconciled = TRUE]
        \/ session' = [session EXCEPT !.reconciled = FALSE]
    BY <1>1 DEF StatusRead, Ready
  <2> QED
    BY <2>1 DEF SessionOK
<1>2. CASE ApplyResult
  <2>1. cycle.epoch \in 0..MaxFaults
    BY DEF CycleOK
  <2>2. PICK good \in BOOLEAN :
           session' = [session EXCEPT !.reconciled = good, !.epoch = cycle.epoch]
    BY <1>2 DEF ApplyResult, Good
  <2> QED
    BY <2>1, <2>2 DEF SessionOK
<1>3. CASE Invalidate \/ StartCycle \/ DeadlinePasses \/ StopMonitor \/ Close
  BY <1>3 DEF SessionOK, Invalidate, StartCycle, DeadlinePasses, StopMonitor, Close
<1>4. CASE UNCHANGED session
  BY <1>4 DEF SessionOK
<1> QED
  BY <1>1, <1>2, <1>3, <1>4
     DEF Next, Task, Monitor, vars, Connect, Disconnect, Busy, AccountUpdate, TraderStarts,
         Fill, FillArrives, Report, OldReport, StatusReturns, ReadPositions,
         ReadExecutions, RequestFails, GatherReturns, CloseEnds

\* Every step keeps the shape of the cycle.
LEMMA CycleTypeStep == SessionInv /\ [Next]_vars => CycleOK'
<1> SUFFICES ASSUME SessionInv, [Next]_vars
             PROVE  CycleOK'
  OBVIOUS
<1> USE SessionAssumption DEF SessionInv, TypeOK
<1>1. CASE Invalidate
  BY <1>1 DEF CycleOK, Invalidate
<1>2. ASSUME NEW fills \in SUBSET Fills, Report(fills)
      PROVE  CycleOK'
  <2>1. PICK report \in Answers :
           cycle' = [cycle EXCEPT !.stage = "reported", !.report = report]
    BY <1>2 DEF Report, Answers
  <2> QED
    BY <2>1 DEF CycleOK, Stages
<1>3. CASE StatusReturns
  BY <1>3 DEF CycleOK, Stages, StatusReturns, Ended
<1>4. CASE ReadPositions \/ ReadExecutions
  <2>1. book \in Answers
    BY DEF WorldOK, Answers
  <2> QED
    BY <1>4, <2>1 DEF CycleOK, ReadPositions, ReadExecutions
<1>5. CASE RequestFails
  BY <1>5 DEF CycleOK, Stages, RequestFails, Ended
<1>6. CASE GatherReturns
  <2>1. PICK result \in BOOLEAN :
           cycle' = [cycle EXCEPT !.stage = "done", !.result = result]
    BY <1>6 DEF GatherReturns, Ended, Connected, Consistent
  <2> QED
    BY <2>1 DEF CycleOK, Stages
<1>7. CASE StartCycle
  <2>1. stamp \in 0..MaxFaults
    BY DEF WorldOK
  <2> QED
    BY <1>7, <2>1 DEF CycleOK, Stages, Answers, StartCycle, FreshCycle, NoCycle
<1>8. CASE DeadlinePasses
  BY <1>8 DEF CycleOK, DeadlinePasses
<1>9. CASE ApplyResult
  BY <1>9 DEF CycleOK, Stages, Answers, ApplyResult, NoCycle
<1>10. CASE CloseEnds
  BY <1>10 DEF CycleOK, Stages, Answers, CloseEnds, NoCycle
<1>11. CASE UNCHANGED cycle
  BY <1>11 DEF CycleOK
<1> QED
  BY <1>1, <1>2, <1>3, <1>4, <1>5, <1>6, <1>7, <1>8, <1>9, <1>10, <1>11
     DEF Next, Task, Monitor, vars, Connect, Disconnect, Busy, AccountUpdate, TraderStarts,
         Fill, FillArrives, OldReport, StatusRead, StopMonitor, Close

\* Every step keeps what the answers of a cycle mean.
LEMMA AnswersStep == SessionInv /\ [Next]_vars => AnswersHold'
<1> SUFFICES ASSUME SessionInv, [Next]_vars
             PROVE  AnswersHold'
  OBVIOUS
<1> USE SessionAssumption DEF SessionInv
<1>1. CASE Connect
  BY <1>1 DEF Connect, TypeOK, WorldOK, SessionOK, CycleOK, Answers, Stages, AnswersHold,
     Lost, broker, known
<1>2. CASE Disconnect
  BY <1>2 DEF Disconnect, Fault, TypeOK, WorldOK, SessionOK, CycleOK, Answers, Stages,
     AnswersHold, Lost, broker, known
<1>3. CASE Busy
  BY <1>3 DEF Busy, Fault, TypeOK, WorldOK, SessionOK, CycleOK, Answers, Stages,
     AnswersHold, Lost, broker, known
<1>4. CASE AccountUpdate
  BY <1>4 DEF AccountUpdate, TypeOK, WorldOK, SessionOK, CycleOK, Answers, Stages,
     AnswersHold, Lost, broker, known
<1>5. CASE TraderStarts
  BY <1>5 DEF TraderStarts, TypeOK, WorldOK, SessionOK, CycleOK, Answers, Stages,
     AnswersHold, Lost, broker, known
<1>6. CASE StatusRead
  BY <1>6 DEF StatusRead, Ready, TypeOK, WorldOK, SessionOK, CycleOK, Answers, Stages,
     AnswersHold, Lost, broker, known
<1>7. CASE Invalidate
  BY <1>7 DEF Invalidate, Fault, TypeOK, WorldOK, SessionOK, CycleOK, Answers, Stages,
     AnswersHold, Lost, broker, known
<1>8. CASE StatusReturns
  BY <1>8 DEF StatusReturns, Ended, AccountFresh, TypeOK, WorldOK, SessionOK, CycleOK,
     Answers, Stages, AnswersHold, Lost, broker, known
<1>9. CASE ReadPositions
  BY <1>9 DEF ReadPositions, Connected, TypeOK, WorldOK, SessionOK, CycleOK, Answers,
     Stages, AnswersHold, Lost, broker, known
<1>10. CASE ReadExecutions
  BY <1>10 DEF ReadExecutions, Connected, TypeOK, WorldOK, SessionOK, CycleOK, Answers,
     Stages, AnswersHold, Lost, broker, known
<1>11. CASE RequestFails
  BY <1>11 DEF RequestFails, Fault, Ended, TypeOK, WorldOK, SessionOK, CycleOK, Answers,
     Stages, AnswersHold, Lost, broker, known
<1>12. CASE GatherReturns
  BY <1>12, ConsistentIsWhole DEF GatherReturns, Ended, TypeOK, WorldOK, SessionOK, CycleOK,
     Answers, Stages, AnswersHold, Lost, broker, known
<1>13. CASE StartCycle
  BY <1>13 DEF StartCycle, FreshCycle, NoCycle, Connected, TypeOK, WorldOK, SessionOK,
     CycleOK, Answers, Stages, AnswersHold, Lost, broker, known
<1>14. CASE DeadlinePasses
  BY <1>14 DEF DeadlinePasses, Fault, TypeOK, WorldOK, SessionOK, CycleOK, Answers, Stages,
     AnswersHold, Lost, broker, known
<1>15. CASE ApplyResult
  BY <1>15 DEF ApplyResult, NoCycle, Good, Connected, TypeOK, WorldOK, SessionOK, CycleOK,
     Answers, Stages, AnswersHold, Lost, broker, known
<1>16. CASE StopMonitor
  BY <1>16 DEF StopMonitor, TypeOK, WorldOK, SessionOK, CycleOK, Answers, Stages,
     AnswersHold, Lost, broker, known
<1>17. CASE Close
  BY <1>17 DEF Close, TypeOK, WorldOK, SessionOK, CycleOK, Answers, Stages, AnswersHold,
     Lost, broker, known
<1>18. CASE CloseEnds
  BY <1>18 DEF CloseEnds, NoCycle, TypeOK, WorldOK, SessionOK, CycleOK, Answers, Stages,
     AnswersHold, Lost, broker, known
<1>19. ASSUME NEW f \in Fills, Fill(f)
      PROVE  AnswersHold'
  BY <1>19 DEF Fill, TypeOK, WorldOK, SessionOK, CycleOK, Answers, Stages, AnswersHold,
     Lost, broker, known
<1>20. ASSUME NEW f \in Fills, FillArrives(f)
      PROVE  AnswersHold'
  BY <1>20 DEF FillArrives, TypeOK, WorldOK, SessionOK, CycleOK, Answers, Stages,
     AnswersHold, Lost, broker, known
<1>21. ASSUME NEW fills \in SUBSET Fills, Report(fills)
      PROVE  AnswersHold'
  BY <1>21 DEF Report, Accepted, Fault, Connected, TypeOK, WorldOK, SessionOK, CycleOK,
     Answers, Stages, AnswersHold, Lost, broker, known
<1>22. ASSUME NEW fills \in SUBSET Fills, OldReport(fills)
      PROVE  AnswersHold'
  BY <1>22 DEF OldReport, Fault, Connected, TypeOK, WorldOK, SessionOK, CycleOK, Answers,
     Stages, AnswersHold, Lost, broker, known
<1>23. CASE UNCHANGED vars
  BY <1>23 DEF vars, TypeOK, WorldOK, SessionOK, CycleOK, Answers, Stages, AnswersHold,
     Lost, broker, known
<1> QED
  BY <1>1, <1>2, <1>3, <1>4, <1>5, <1>6, <1>7, <1>8, <1>9, <1>10, <1>11, <1>12, <1>13,
     <1>14, <1>15, <1>16, <1>17, <1>18, <1>19, <1>20, <1>21, <1>22, <1>23
     DEF Next, Task, Monitor

\* Every step keeps what readiness rests on.
LEMMA ReadinessStep == SessionInv /\ [Next]_vars => ReadinessHolds'
<1> SUFFICES ASSUME SessionInv, [Next]_vars
             PROVE  ReadinessHolds'
  OBVIOUS
<1> USE SessionAssumption DEF SessionInv
<1>1. CASE Connect
  BY <1>1 DEF Connect, TypeOK, WorldOK, SessionOK, CycleOK, Answers, Stages, AnswersHold,
     ReadinessHolds, Lost, broker, known
<1>2. CASE Disconnect
  BY <1>2 DEF Disconnect, Fault, TypeOK, WorldOK, SessionOK, CycleOK, Answers, Stages,
     AnswersHold, ReadinessHolds, Lost, broker, known
<1>3. CASE Busy
  BY <1>3 DEF Busy, Fault, TypeOK, WorldOK, SessionOK, CycleOK, Answers, Stages,
     AnswersHold, ReadinessHolds, Lost, broker, known
<1>4. CASE AccountUpdate
  BY <1>4 DEF AccountUpdate, TypeOK, WorldOK, SessionOK, CycleOK, Answers, Stages,
     AnswersHold, ReadinessHolds, Lost, broker, known
<1>5. CASE TraderStarts
  BY <1>5 DEF TraderStarts, TypeOK, WorldOK, SessionOK, CycleOK, Answers, Stages,
     AnswersHold, ReadinessHolds, Lost, broker, known
<1>6. CASE StatusRead
  BY <1>6 DEF StatusRead, Ready, TypeOK, WorldOK, SessionOK, CycleOK, Answers, Stages,
     AnswersHold, ReadinessHolds, Lost, broker, known
<1>7. CASE Invalidate
  BY <1>7 DEF Invalidate, Fault, TypeOK, WorldOK, SessionOK, CycleOK, Answers, Stages,
     AnswersHold, ReadinessHolds, Lost, broker, known
<1>8. CASE StatusReturns
  BY <1>8 DEF StatusReturns, Ended, AccountFresh, TypeOK, WorldOK, SessionOK, CycleOK,
     Answers, Stages, AnswersHold, ReadinessHolds, Lost, broker, known
<1>9. CASE ReadPositions
  BY <1>9 DEF ReadPositions, Connected, TypeOK, WorldOK, SessionOK, CycleOK, Answers,
     Stages, AnswersHold, ReadinessHolds, Lost, broker, known
<1>10. CASE ReadExecutions
  BY <1>10 DEF ReadExecutions, Connected, TypeOK, WorldOK, SessionOK, CycleOK, Answers,
     Stages, AnswersHold, ReadinessHolds, Lost, broker, known
<1>11. CASE RequestFails
  BY <1>11 DEF RequestFails, Fault, Ended, TypeOK, WorldOK, SessionOK, CycleOK, Answers,
     Stages, AnswersHold, ReadinessHolds, Lost, broker, known
<1>12. CASE GatherReturns
  BY <1>12 DEF GatherReturns, Ended, TypeOK, WorldOK, SessionOK, CycleOK, Answers, Stages,
     AnswersHold, ReadinessHolds, Lost, broker, known
<1>13. CASE StartCycle
  BY <1>13 DEF StartCycle, FreshCycle, NoCycle, Connected, TypeOK, WorldOK, SessionOK,
     CycleOK, Answers, Stages, AnswersHold, ReadinessHolds, Lost, broker, known
<1>14. CASE DeadlinePasses
  BY <1>14 DEF DeadlinePasses, Fault, TypeOK, WorldOK, SessionOK, CycleOK, Answers, Stages,
     AnswersHold, ReadinessHolds, Lost, broker, known
<1>15. CASE ApplyResult
  BY <1>15 DEF ApplyResult, NoCycle, Good, Connected, TypeOK, WorldOK, SessionOK, CycleOK,
     Answers, Stages, AnswersHold, ReadinessHolds, Lost, broker, known
<1>16. CASE StopMonitor
  BY <1>16 DEF StopMonitor, TypeOK, WorldOK, SessionOK, CycleOK, Answers, Stages,
     AnswersHold, ReadinessHolds, Lost, broker, known
<1>17. CASE Close
  BY <1>17 DEF Close, TypeOK, WorldOK, SessionOK, CycleOK, Answers, Stages, AnswersHold,
     ReadinessHolds, Lost, broker, known
<1>18. CASE CloseEnds
  BY <1>18 DEF CloseEnds, NoCycle, TypeOK, WorldOK, SessionOK, CycleOK, Answers, Stages,
     AnswersHold, ReadinessHolds, Lost, broker, known
<1>19. ASSUME NEW f \in Fills, Fill(f)
      PROVE  ReadinessHolds'
  BY <1>19 DEF Fill, TypeOK, WorldOK, SessionOK, CycleOK, Answers, Stages, AnswersHold,
     ReadinessHolds, Lost, broker, known
<1>20. ASSUME NEW f \in Fills, FillArrives(f)
      PROVE  ReadinessHolds'
  BY <1>20 DEF FillArrives, TypeOK, WorldOK, SessionOK, CycleOK, Answers, Stages,
     AnswersHold, ReadinessHolds, Lost, broker, known
<1>21. ASSUME NEW fills \in SUBSET Fills, Report(fills)
      PROVE  ReadinessHolds'
  BY <1>21 DEF Report, Accepted, Fault, Connected, TypeOK, WorldOK, SessionOK, CycleOK,
     Answers, Stages, AnswersHold, ReadinessHolds, Lost, broker, known
<1>22. ASSUME NEW fills \in SUBSET Fills, OldReport(fills)
      PROVE  ReadinessHolds'
  BY <1>22 DEF OldReport, Fault, Connected, TypeOK, WorldOK, SessionOK, CycleOK, Answers,
     Stages, AnswersHold, ReadinessHolds, Lost, broker, known
<1>23. CASE UNCHANGED vars
  BY <1>23 DEF vars, TypeOK, WorldOK, SessionOK, CycleOK, Answers, Stages, AnswersHold,
     ReadinessHolds, Lost, broker, known
<1> QED
  BY <1>1, <1>2, <1>3, <1>4, <1>5, <1>6, <1>7, <1>8, <1>9, <1>10, <1>11, <1>12, <1>13,
     <1>14, <1>15, <1>16, <1>17, <1>18, <1>19, <1>20, <1>21, <1>22, <1>23
     DEF Next, Task, Monitor

LEMMA SessionStep == SessionInv /\ [Next]_vars => SessionInv'
BY WorldStep, SessionTypeStep, CycleTypeStep, AnswersStep, ReadinessStep DEF SessionInv, TypeOK

LEMMA SessionInvariant == Spec => []SessionInv
BY SessionInit, SessionStep, PTL DEF Spec

-----------------------------------------------------------------------------
(* What a reader of the session may rely on.                               *)

\* The variables of BrokerSession keep their shape.
THEOREM SessionTypeCorrect == Spec => []TypeOK
<1>1. SessionInv => TypeOK
  BY DEF SessionInv
<1> QED
  BY <1>1, SessionInvariant, PTL

\* A ready session misses no fill, whatever partial reports, reconnections and fills
\* during the cycle there were (status, _reconcile, monitor).
THEOREM ReadyMissesNothing == Spec => []NothingMissed
<1>1. SessionInv => NothingMissed
  BY DEF SessionInv, ReadinessHolds, NothingMissed, Ready, Lost
<1> QED
  BY <1>1, SessionInvariant, PTL

\* The account figures of a ready session came over the connection that stands.
THEOREM ReadyAccountIsCurrent == Spec => []AccountIsCurrent
<1>1. SessionInv => AccountIsCurrent
  BY SessionAssumption DEF SessionInv, TypeOK, WorldOK, SessionOK, ReadinessHolds,
     AccountIsCurrent, Ready
<1> QED
  BY <1>1, SessionInvariant, PTL

\* An invalidation is only overcome by a cycle begun after it.
THEOREM InvalidationIsKept == Spec => []InvalidationHolds
<1>1. SessionInv => InvalidationHolds
  BY DEF SessionInv, ReadinessHolds, InvalidationHolds, Ready
<1> QED
  BY <1>1, SessionInvariant, PTL
================================================================================
