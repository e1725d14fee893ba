---------------------------- MODULE RadarDailyProofs ----------------------------
(***************************************************************************)
(* Proofs about RadarDaily, and RadarStatus that reads what it leaves, for *)
(* any jobs, sessions, budgets, intervals, limits and mishaps: the budget  *)
(* of attempts is kept across restarts, audits agree, sources keep their   *)
(* promise, no page refuses what is in the database, and a job that is     *)
(* shown as blocked is not tried again for its due time.                   *)
(***************************************************************************)
EXTENDS RadarStatus, SequenceTheorems, WellFoundedInduction, TLAPS

-----------------------------------------------------------------------------
(* Newest elements, and the clock.                                          *)

\* Some date, or attempt, is the newest of any.
LEMMA HasNewest ==
    ASSUME NEW n \in Nat, NEW S \in SUBSET (0..n), S # {}
    PROVE  \E m \in S : \A k \in S : k <= m
<1> DEFINE T == {n - k : k \in S}
           R == {p \in Nat \X Nat : p[1] < p[2]}
<1>1. T \subseteq Nat /\ T # {}
  <2>1. \A k \in S : n - k \in Nat
    OBVIOUS
  <2>2. QED
    BY <2>1
<1>2. R = OpToRel(<, Nat)
  BY DEF OpToRel
<1>3. IsWellFoundedOn(R, Nat)
  BY <1>2, NatLessThanWellFounded
<1> HIDE DEF T, R
<1>4. PICK t \in T : \A u \in T : ~(<<u, t>> \in R)
  BY <1>1, <1>3, WFMin
<1>5. PICK m \in S : t = n - m
  BY DEF T
<1>6. SUFFICES ASSUME NEW k \in S PROVE k <= m
  OBVIOUS
<1>7. n - k \in T
  BY DEF T
<1>8. ~(n - k < n - m)
  BY <1>1, <1>4, <1>5, <1>7 DEF R
<1>9. QED
  BY <1>8

LEMMA MaxIsNewest ==
    ASSUME NEW n \in Nat, NEW S \in SUBSET (0..n), S # {}
    PROVE  Max(S) \in S /\ \A k \in S : k <= Max(S)
<1>1. PICK m \in S : \A k \in S : k <= m
  BY HasNewest
<1>2. \A k \in S : m >= k
  BY <1>1
<1>3. Max(S) = CHOOSE x \in S : \A y \in S : x >= y
  BY DEF Max
<1>4. Max(S) \in S /\ \A k \in S : Max(S) >= k
  BY <1>2, <1>3
<1>5. QED
  BY <1>4

LEMMA MaxIsThis ==
    ASSUME NEW n \in Nat, NEW S \in SUBSET (0..n), NEW m \in S, \A k \in S : k <= m
    PROVE  Max(S) = m
<1> DEFINE x == Max(S)
<1>1. x \in S /\ \A k \in S : k <= x
  BY MaxIsNewest
<1> HIDE DEF x
<1>2. m <= x /\ x <= m
  BY <1>1
<1>3. m \in 0..n /\ x \in 0..n
  BY <1>1
<1>4. x = m
  BY <1>2, <1>3
<1>5. QED
  BY <1>4 DEF x

LEMMA Days ==
    ASSUME NEW t \in Nat, NEW u \in Nat, t <= u, StartTime <= t
    PROVE  /\ Day(t) \in Nat /\ Day(t) <= Day(u)
           /\ Day(ScheduledAt(t)) \in Nat /\ Day(ScheduledAt(t)) <= Day(ScheduledAt(u))
           /\ Day(ScheduledAt(t)) <= Day(t) /\ Day(ScheduledAt(StartTime)) <= Day(ScheduledAt(t))
           /\ ScheduledAt(t) \in Nat /\ ScheduledAt(t) <= ScheduledAt(u) /\ ScheduledAt(t) <= t
<1>1. StartTime \in Nat /\ StartTime >= 3
  BY DailyAssumption
<1>2. QED
  BY <1>1 DEF Day, ScheduledAt

\* The date the bars should have is a session before today, and never moves back.
LEMMA PriceDates ==
    ASSUME NEW t \in Nat, NEW u \in Nat, t <= u, StartTime <= t
    PROVE  /\ ExpectedPriceDate(t) \in Nat /\ ExpectedPriceDate(t) < Day(t)
           /\ ExpectedPriceDate(t) <= ExpectedPriceDate(u)
<1> DEFINE before(d) == {s \in Sessions : s < d}
           d0 == Day(ScheduledAt(t))
           d1 == Day(ScheduledAt(u))
<1>1. d0 \in Nat /\ d1 \in Nat /\ d0 <= d1 /\ d0 <= Day(t) /\ Day(t) \in Nat
      /\ Day(ScheduledAt(StartTime)) <= d0 /\ Day(ScheduledAt(StartTime)) \in Nat
  <2>1. StartTime \in Nat /\ StartTime <= StartTime /\ StartTime <= u /\ u <= u
    BY DailyAssumption
  <2>2. QED
    BY <2>1, Days
<1>2. \A s \in Sessions : s \in Nat
  BY DailyAssumption
<1>3. ExpectedPriceDate(t) = Max(before(d0)) /\ ExpectedPriceDate(u) = Max(before(d1))
  BY DEF ExpectedPriceDate, PreviousSession
<1> HIDE DEF d0, d1
<1>4. PICK s \in Sessions : s < Day(ScheduledAt(StartTime))
  BY DailyAssumption
<1>5. s \in before(d0)
  BY <1>1, <1>2, <1>4
<1>6. before(d0) \in SUBSET (0..d0) /\ before(d1) \in SUBSET (0..d1)
  BY <1>1, <1>2
<1>7. before(d0) \subseteq before(d1)
  BY <1>1, <1>2
<1>8. before(d0) # {} /\ before(d1) # {}
  BY <1>5, <1>7
<1> HIDE DEF before
<1>9. Max(before(d0)) \in before(d0) /\ \A k \in before(d1) : k <= Max(before(d1))
  BY <1>1, <1>6, <1>8, MaxIsNewest
<1>10. Max(before(d0)) <= Max(before(d1))
  BY <1>7, <1>9
<1>11. Max(before(d0)) \in Nat /\ Max(before(d0)) < d0
  BY <1>1, <1>2, <1>9 DEF before
<1>12. QED
  BY <1>1, <1>3, <1>10, <1>11

-----------------------------------------------------------------------------
(* The invariant of the attempts.                                           *)

Targets == {Target(j, t) : j \in DailyJobs, t \in Nat}

RunType == [status : {"none", "RUNNING", "FAILED", "COMPLETE"}, started : Nat, completed : Nat]

AttemptType ==
    [job : DailyJobs, due : Int, target : Targets, number : 1..MaxAttempts, started : Nat,
     status : {"running", "failed", "waiting_source", "interrupted", "complete"},
     retry : Nat \cup {None}, run : RunType]

SyncSteps == {"sync", "pipeline", "writing", "answer", "publish", "published", "failed"}
Outcomes == {Broken, Temporary, NotReady}

SvcType ==
    [step : {"down", "recover", "idle", "job"} \cup SyncSteps, todo : SUBSET DailyJobs, at : Nat,
     cur : Nat, end : {None} \cup Outcomes, said : SUBSET (DailyJobs \X Targets),
     checked : SUBSET (DailyJobs \X Targets)]

TypeInv ==
    now \in Nat /\ jobs \subseteq DailyJobs /\ att \in Seq(AttemptType) /\ svc \in SvcType

\* Outside a sync nothing runs, unless it is left to recovery.
SvcInv ==
    /\ svc.at <= now
    /\ svc.step \in {"idle", "job"} => \A i \in DOMAIN att : att[i].status # "running"
    /\ svc.step \in SyncSteps =>
          /\ svc.cur \in DOMAIN att
          /\ \A i \in DOMAIN att : att[i].status = "running" => i = svc.cur
    /\ svc.step = "failed" => svc.end \in Outcomes

\* A retry is not due before its attempt began; what is complete has none.
RetryInv ==
    \A i \in DOMAIN att :
        /\ att[i].started <= now
        /\ att[i].retry # None => att[i].started <= att[i].retry
        /\ att[i].status = "complete" => att[i].retry = None

\* Among the attempts for one due time there is a newest.
NewestInv ==
    \A i \in DOMAIN att : \E k \in DOMAIN att :
        /\ att[k].job = att[i].job /\ att[k].due = att[i].due
        /\ \A n \in DOMAIN att : att[n].job = att[i].job /\ att[n].due = att[i].due => n <= k

RadarInv == TypeInv /\ SvcInv /\ RetryInv /\ NewestInv /\ BudgetKept

-----------------------------------------------------------------------------
(* What a transaction does to the attempts.                                 *)

\* The attempts are the same but for their runs, and for how those in the set ended.
SameBut(ended) ==
    /\ att' \in Seq(AttemptType) /\ Len(att') = Len(att)
    /\ \A k \in 1..Len(att) :
          /\ att'[k].job = att[k].job /\ att'[k].due = att[k].due
          /\ att'[k].number = att[k].number /\ att'[k].started = att[k].started
          /\ att'[k].target = att[k].target
          /\ k \notin ended => att'[k].status = att[k].status /\ att'[k].retry = att[k].retry

LEMMA SameStore ==
    ASSUME TypeInv, UNCHANGED att PROVE SameBut({})
  BY DEF TypeInv, SameBut

\* The runs of the other attempts are the same.
SameRuns(touched) == \A k \in 1..Len(att) : k \notin touched => att'[k].run = att[k].run

\* A run begins, fails, or is complete: the attempt itself is not touched.
LEMMA RunSet ==
    ASSUME TypeInv, NEW i \in DOMAIN att, NEW r \in RunType,
           att' = [att EXCEPT ![i] = [att[i] EXCEPT !.run = r]]
    PROVE  SameBut({}) /\ SameRuns({i}) /\ att'[i].run = r
<1> DEFINE e == [att[i] EXCEPT !.run = r]
<1>1. i \in 1..Len(att) /\ att[i] \in AttemptType /\ att \in Seq(AttemptType)
  BY LenProperties, ElementOfSeq DEF TypeInv
<1>2. e \in AttemptType
  BY <1>1 DEF AttemptType
<1>3. e.job = att[i].job /\ e.due = att[i].due /\ e.number = att[i].number
      /\ e.started = att[i].started /\ e.status = att[i].status /\ e.retry = att[i].retry
      /\ e.target = att[i].target /\ e.run = r
  BY <1>1 DEF AttemptType
<1>4. att' = [att EXCEPT ![i] = e]
  OBVIOUS
<1> HIDE DEF e
<1>5. /\ att' \in Seq(AttemptType) /\ Len(att') = Len(att)
      /\ \A k \in 1..Len(att) : att'[k] = IF k = i THEN e ELSE att[k]
  BY <1>1, <1>2, <1>4, ExceptSeq
<1>6. QED
  BY <1>1, <1>3, <1>5 DEF SameBut, SameRuns

LEMMA RunEnds ==
    ASSUME TypeInv, NEW i \in DOMAIN att, NEW t \in Nat, NEW status \in {"FAILED", "COMPLETE"},
           att' = [att EXCEPT ![i].run.status = status, ![i].run.completed = t]
    PROVE  /\ SameBut({}) /\ SameRuns({i})
           /\ att'[i].run = [status |-> status, started |-> att[i].run.started, completed |-> t]
<1>1. i \in 1..Len(att) /\ att[i] \in AttemptType /\ att \in Seq(AttemptType)
  BY LenProperties, ElementOfSeq DEF TypeInv
<1>2. att[i].run \in RunType
  BY <1>1 DEF AttemptType
<1> DEFINE r == [status |-> status, started |-> att[i].run.started, completed |-> t]
           x == [att[i].run EXCEPT !.status = status]
           a == [att EXCEPT ![i] = [att[i] EXCEPT !.run = x]]
<1>3. r \in RunType
  BY <1>2 DEF RunType
<1>4. a[i] = [att[i] EXCEPT !.run = x] /\ a[i].run = x
  BY <1>1 DEF AttemptType
<1>5. [x EXCEPT !.completed = t] = r
  <2>1. x \in RunType /\ x.status = status /\ x.started = att[i].run.started
    BY <1>2 DEF RunType
  <2> HIDE DEF x
  <2>2. QED
    BY <2>1 DEF RunType
<1>6. att' = [att EXCEPT ![i] = [att[i] EXCEPT !.run = r]]
  <2>1. att' = [a EXCEPT ![i] = [a[i] EXCEPT !.run = [a[i].run EXCEPT !.completed = t]]]
    OBVIOUS
  <2>2. [a[i] EXCEPT !.run = r] = [att[i] EXCEPT !.run = r]
    BY <1>1, <1>4 DEF AttemptType
  <2>3. att' = [a EXCEPT ![i] = [att[i] EXCEPT !.run = r]]
    BY <1>4, <1>5, <2>1, <2>2
  <2>4. QED
    BY <1>1, <2>3
<1> HIDE DEF r
<1>7. SameBut({}) /\ SameRuns({i}) /\ att'[i].run = r
  BY <1>3, <1>6, RunSet
<1>8. QED
  BY <1>7 DEF r

LEMMA RunStarts ==
    ASSUME TypeInv, NEW i \in DOMAIN att, NEW t \in Nat, StartRun(i, t)
    PROVE  /\ SameBut({}) /\ SameRuns({i})
           /\ att'[i].run = [status |-> "RUNNING", started |-> t, completed |-> 0]
<1> DEFINE r == [status |-> "RUNNING", started |-> t, completed |-> 0]
<1>1. r \in RunType
  BY DEF RunType
<1>2. att[i] \in AttemptType
  BY LenProperties, ElementOfSeq DEF TypeInv
<1>3. att' = [att EXCEPT ![i] = [att[i] EXCEPT !.run = r]]
  BY <1>2 DEF StartRun, AttemptType
<1> HIDE DEF r
<1>4. SameBut({}) /\ SameRuns({i}) /\ att'[i].run = r
  BY <1>1, <1>3, RunSet
<1>5. QED
  BY <1>4 DEF r

LEMMA RunChanges ==
    ASSUME TypeInv, NEW i \in DOMAIN att, NEW t \in Nat,
           StartRun(i, t) \/ FailRun(i, t) \/ CompleteRun(i, t)
    PROVE  SameBut({})
<1>1. CASE StartRun(i, t)
  BY <1>1, RunStarts
<1>2. CASE FailRun(i, t)
  BY <1>2, RunEnds DEF FailRun
<1>3. CASE CompleteRun(i, t)
  BY <1>3, RunEnds DEF CompleteRun
<1>4. QED
  BY <1>1, <1>2, <1>3

LEMMA FinishChanges ==
    ASSUME TypeInv, NEW i \in DOMAIN att, NEW retry \in Nat \cup {None},
           NEW status \in {"failed", "waiting_source", "interrupted", "complete"},
           FinishAttempt(i, status, retry)
    PROVE  /\ SameBut({i}) /\ SameRuns({}) /\ att[i].status = "running"
           /\ att'[i].status = status /\ att'[i].retry = retry
<1> DEFINE e == [att[i] EXCEPT !.status = status, !.retry = retry]
<1>1. i \in 1..Len(att) /\ att[i] \in AttemptType /\ att \in Seq(AttemptType)
  BY LenProperties, ElementOfSeq DEF TypeInv
<1>2. e \in AttemptType
  BY <1>1 DEF AttemptType
<1>3. e.job = att[i].job /\ e.due = att[i].due /\ e.number = att[i].number
      /\ e.started = att[i].started /\ e.status = status /\ e.retry = retry
      /\ e.target = att[i].target /\ e.run = att[i].run
  BY <1>1 DEF AttemptType
<1>4. att' = [att EXCEPT ![i] = e]
  BY <1>1 DEF FinishAttempt, AttemptType
<1> HIDE DEF e
<1>5. /\ att' \in Seq(AttemptType) /\ Len(att') = Len(att)
      /\ \A k \in 1..Len(att) : att'[k] = IF k = i THEN e ELSE att[k]
  BY <1>1, <1>2, <1>4, ExceptSeq
<1>6. QED
  BY <1>1, <1>3, <1>5 DEF SameBut, SameRuns, FinishAttempt

LEMMA NewestStays ==
    ASSUME NewestInv, DOMAIN att' = DOMAIN att,
           \A k \in DOMAIN att : att'[k].job = att[k].job /\ att'[k].due = att[k].due
    PROVE  NewestInv'
<1> SUFFICES ASSUME NEW i \in DOMAIN att
             PROVE  \E k \in DOMAIN att :
                       /\ att'[k].job = att'[i].job /\ att'[k].due = att'[i].due
                       /\ \A n \in DOMAIN att :
                             att'[n].job = att'[i].job /\ att'[n].due = att'[i].due => n <= k
  BY DEF NewestInv
<1>1. PICK k \in DOMAIN att :
         /\ att[k].job = att[i].job /\ att[k].due = att[i].due
         /\ \A n \in DOMAIN att : att[n].job = att[i].job /\ att[n].due = att[i].due => n <= k
  BY DEF NewestInv
<1>2. QED
  BY <1>1

\* Nothing that is said of the attempts depends on their runs.
LEMMA SameKeeps ==
    ASSUME RadarInv, SameBut({}), now' \in Nat, now <= now'
    PROVE  /\ DOMAIN att' = DOMAIN att /\ \A k \in DOMAIN att : att'[k].status = att[k].status
           /\ RetryInv' /\ NewestInv' /\ BudgetKept'
<1>1. DOMAIN att = 1..Len(att) /\ DOMAIN att' = 1..Len(att) /\ Len(att) \in Nat
  BY LenProperties DEF RadarInv, TypeInv, SameBut
<1>2. \A k \in 1..Len(att) :
         /\ att'[k].job = att[k].job /\ att'[k].due = att[k].due
         /\ att'[k].number = att[k].number /\ att'[k].started = att[k].started
         /\ att'[k].status = att[k].status /\ att'[k].retry = att[k].retry
         /\ att[k].started \in Nat
  <2>1. \A k \in 1..Len(att) : att[k] \in AttemptType
    BY ElementOfSeq DEF RadarInv, TypeInv
  <2>2. QED
    BY <2>1 DEF SameBut, AttemptType
<1>3. RetryInv'
  BY <1>1, <1>2 DEF RadarInv, TypeInv, RetryInv
<1>4. NewestInv'
  BY <1>1, <1>2, NewestStays DEF RadarInv
<1>5. BudgetKept'
  BY <1>1, <1>2 DEF RadarInv, BudgetKept, Earlier
<1>6. QED
  BY <1>1, <1>2, <1>3, <1>4, <1>5

\* Only a running attempt is finished, and it has no successor yet.
LEMMA FinishKeeps ==
    ASSUME RadarInv, UNCHANGED now, NEW i \in DOMAIN att, NEW retry \in Nat \cup {None},
           NEW status \in {"failed", "waiting_source", "interrupted", "complete"},
           FinishAttempt(i, status, retry),
           retry # None => now <= retry, status = "complete" => retry = None
    PROVE  /\ att' \in Seq(AttemptType) /\ DOMAIN att' = DOMAIN att
           /\ \A k \in DOMAIN att : att'[k].status = "running" => att[k].status = "running" /\ k # i
           /\ RetryInv' /\ NewestInv' /\ BudgetKept'
<1>1. /\ SameBut({i}) /\ att[i].status = "running"
      /\ att'[i].status = status /\ att'[i].retry = retry
  BY FinishChanges DEF RadarInv
<1>2. DOMAIN att = 1..Len(att) /\ DOMAIN att' = 1..Len(att) /\ Len(att) \in Nat
  BY <1>1, LenProperties DEF RadarInv, TypeInv, SameBut
<1>3. \A k \in 1..Len(att) : att[k].started \in Nat
  <2>1. \A k \in 1..Len(att) : att[k] \in AttemptType
    BY ElementOfSeq DEF RadarInv, TypeInv
  <2>2. QED
    BY <2>1 DEF AttemptType
<1>4. RetryInv'
  <2>1. SUFFICES ASSUME NEW k \in 1..Len(att)
                 PROVE  /\ att'[k].started <= now
                        /\ att'[k].retry # None => att'[k].started <= att'[k].retry
                        /\ att'[k].status = "complete" => att'[k].retry = None
    BY <1>2 DEF RetryInv
  <2>2. CASE k = i
    BY <1>1, <1>2, <1>3, <2>2 DEF RadarInv, TypeInv, RetryInv, SameBut
  <2>3. CASE k # i
    BY <1>1, <1>2, <2>3 DEF RadarInv, RetryInv, SameBut
  <2>4. QED
    BY <2>2, <2>3
<1>5. NewestInv'
  BY <1>1, <1>2, NewestStays DEF RadarInv, SameBut
<1>6. BudgetKept'
  <2>1. \A k \in 1..Len(att) : i \notin Earlier(k)
    BY <1>1, <1>2 DEF RadarInv, BudgetKept
  <2>2. \A k \in 1..Len(att) : Earlier(k)' = Earlier(k)
    BY <1>1, <1>2 DEF Earlier, SameBut
  <2>3. \A k \in 1..Len(att) : Earlier(k) \subseteq 1..Len(att)
    BY <1>2 DEF Earlier
  <2>4. QED
    BY <1>1, <1>2, <2>1, <2>2, <2>3 DEF RadarInv, BudgetKept, SameBut
<1>7. QED
  BY <1>1, <1>2, <1>4, <1>5, <1>6 DEF SameBut

-----------------------------------------------------------------------------
(* A new attempt.                                                           *)

LEMMA ScheduledIsInt == ASSUME NEW t \in Nat PROVE ScheduledAt(t) \in Int
  BY DEF ScheduledAt, Day

\* The service looks at the latest of the attempts by start and number: it is the newest
\* of them, since each began no earlier than the retry of the one before.
LEMMA LatestIsNewest ==
    ASSUME RadarInv, NEW j, NEW due, AttemptsDue(j, due) # {}
    PROVE  \E m \in AttemptsDue(j, due) :
              /\ LatestAttempt(AttemptsDue(j, due)) = m
              /\ \A k \in AttemptsDue(j, due) : k <= m
<1> DEFINE T == AttemptsDue(j, due)
           Later(i) == \A k \in T : \/ att[k].started < att[i].started
                                    \/ att[k].started = att[i].started /\ att[k].number <= att[i].number
<1>1. T \subseteq DOMAIN att /\ DOMAIN att \subseteq Nat
      /\ \A k \in DOMAIN att : k \in T <=> (att[k].job = j /\ att[k].due = due)
  BY LenProperties DEF AttemptsDue, AttemptsOf, RadarInv, TypeInv
<1>2. PICK m \in T : \A k \in T : k <= m
  BY <1>1 DEF RadarInv, NewestInv
<1>3. \A k \in DOMAIN att : /\ att[k].started \in Nat /\ att[k].number \in Nat
                            /\ att[k].retry \in Nat \cup {None}
  <2>1. \A k \in DOMAIN att : att[k] \in AttemptType
    BY LenProperties, ElementOfSeq DEF RadarInv, TypeInv
  <2>2. QED
    BY <2>1 DEF AttemptType
<1>4. ASSUME NEW k \in T, k # m
      PROVE  att[k].number < att[m].number /\ att[k].started <= att[m].started
  <2>1. k \in Earlier(m)
    BY <1>1, <1>2, <1>4 DEF Earlier
  <2>2. att[k].number < att[m].number /\ att[k].retry # None /\ att[k].retry <= att[m].started
    BY <1>1, <2>1 DEF RadarInv, BudgetKept
  <2>3. att[k].started <= att[k].retry /\ att[k].retry \in Nat
    BY <1>1, <1>3, <2>2 DEF RadarInv, RetryInv
  <2>4. QED
    BY <1>1, <1>3, <2>2, <2>3
<1>5. Later(m)
  <2>1. SUFFICES ASSUME NEW k \in T
                 PROVE  \/ att[k].started < att[m].started
                        \/ att[k].started = att[m].started /\ att[k].number <= att[m].number
    OBVIOUS
  <2>2. CASE k = m
    BY <1>1, <1>3, <2>2
  <2>3. CASE k # m
    BY <1>1, <1>3, <1>4, <2>3
  <2>4. QED
    BY <2>2, <2>3
<1>6. ASSUME NEW i \in T, Later(i) PROVE i = m
  <2>1. \/ att[m].started < att[i].started
        \/ att[m].started = att[i].started /\ att[m].number <= att[i].number
    BY <1>6
  <2>2. QED
    BY <1>1, <1>3, <1>4, <2>1
<1>7. LatestAttempt(T) = CHOOSE i \in T : Later(i)
  BY DEF LatestAttempt
<1> HIDE DEF T, Later
<1>8. LatestAttempt(T) = m
  BY <1>5, <1>6, <1>7
<1>9. QED
  BY <1>2, <1>8 DEF T

\* Every attempt for the due time has ended, and the new one comes after the retry times
\* of all of them.
LEMMA NextFits ==
    ASSUME RadarInv, NEW j \in jobs, BeginAttempt(j)
    PROVE  /\ NextNumber(j) \in 1..MaxAttempts
           /\ \A k \in AttemptsDue(j, ScheduledAt(svc.at)) :
                 /\ att[k].number < NextNumber(j)
                 /\ att[k].status \notin {"running", "complete"}
                 /\ att[k].retry # None /\ att[k].retry <= svc.at
<1> DEFINE T == AttemptsDue(j, ScheduledAt(svc.at))
<1>1. /\ T = Tried(j) /\ T \subseteq DOMAIN att /\ DOMAIN att \subseteq Nat
      /\ \A k \in DOMAIN att : k \in T <=> (att[k].job = j /\ att[k].due = ScheduledAt(svc.at))
  BY LenProperties DEF Tried, AttemptsDue, AttemptsOf, RadarInv, TypeInv
<1>2. svc.at \in Nat /\ svc.step = "job" /\ MaxAttempts \in Nat \ {0}
  BY DailyAssumption DEF RadarInv, TypeInv, SvcType, BeginAttempt, InHand
<1>3. \A k \in DOMAIN att : /\ att[k].started \in Nat /\ att[k].number \in 1..MaxAttempts
                            /\ att[k].retry \in Nat \cup {None}
  <2>1. \A k \in DOMAIN att : att[k] \in AttemptType
    BY LenProperties, ElementOfSeq DEF RadarInv, TypeInv
  <2>2. QED
    BY <2>1 DEF AttemptType
<1>4. CASE T = {}
  BY <1>1, <1>2, <1>4 DEF NextNumber
<1>5. CASE T # {}
  <2>1. PICK m \in T : LatestAttempt(T) = m /\ \A k \in T : k <= m
    BY <1>5, LatestIsNewest
  <2>2. LastTry(j) = att[m]
    BY <1>1, <2>1 DEF LastTry
  <2>3. /\ att[m].number \in 1..MaxAttempts /\ ~(att[m].number >= MaxAttempts)
        /\ att[m].retry # None /\ ~(att[m].retry > svc.at)
    BY <1>1, <1>3, <1>5, <2>2 DEF BeginAttempt, Blocked, MustWait
  <2>4. ASSUME NEW k \in T
        PROVE  /\ att[k].number <= att[m].number
               /\ att[k].retry # None /\ att[k].retry <= svc.at
    <3>1. CASE k = m
      BY <1>1, <1>2, <1>3, <2>3, <3>1
    <3>2. CASE k # m
      <4>1. k \in Earlier(m)
        BY <1>1, <2>1, <3>2 DEF Earlier
      <4>2. att[k].number < att[m].number /\ att[k].retry # None /\ att[k].retry <= att[m].started
        BY <1>1, <4>1 DEF RadarInv, BudgetKept
      <4>3. att[m].started <= att[m].retry
        BY <1>1, <2>3 DEF RadarInv, RetryInv
      <4>4. QED
        BY <1>1, <1>2, <1>3, <2>3, <4>2, <4>3
    <3>3. QED
      BY <3>1, <3>2
  <2> DEFINE numbers == {att[i].number : i \in T}
  <2>5. Max(numbers) = att[m].number
    <3>1. \A y \in numbers : y \in Int /\ att[m].number >= y
      BY <1>1, <1>3, <2>4
    <3>2. att[m].number \in numbers
      OBVIOUS
    <3> HIDE DEF numbers
    <3>3. \A x \in numbers : (\A y \in numbers : x >= y) => x = att[m].number
      BY <3>1, <3>2
    <3>4. Max(numbers) = CHOOSE x \in numbers : \A y \in numbers : x >= y
      BY DEF Max
    <3>5. QED
      BY <3>1, <3>2, <3>3, <3>4
  <2>6. NextNumber(j) = att[m].number + 1
    BY <1>1, <1>5, <2>5 DEF NextNumber
  <2>7. \A k \in T : att[k].status \notin {"running", "complete"}
    BY <1>1, <1>2, <2>4 DEF RadarInv, SvcInv, RetryInv
  <2>8. \A k \in T : att[k].number < NextNumber(j)
    BY <1>1, <1>3, <2>3, <2>4, <2>6
  <2>9. QED
    BY <1>2, <2>3, <2>4, <2>6, <2>7, <2>8
<1>6. QED
  BY <1>4, <1>5

LEMMA BeginKeeps ==
    ASSUME RadarInv, NEW j \in jobs, BeginAttempt(j) PROVE RadarInv'
<1> DEFINE N == Len(att) + 1
           due == ScheduledAt(svc.at)
           e == [job |-> j, due |-> due, target |-> Target(j, svc.at), number |-> NextNumber(j),
                 started |-> svc.at, status |-> "running", retry |-> None, run |-> NoRun]
           found == IF j = "breadth" THEN {<<"prices", Target(j, svc.at)>>} ELSE {}
<1>1. /\ att' = Append(att, e) /\ UNCHANGED <<now, jobs>>
      /\ svc' = [svc EXCEPT !.step = "sync", !.at = 0, !.cur = N, !.checked = @ \cup found]
      /\ svc.step = "job"
  BY DEF BeginAttempt, StartAttempt, InHand
<1>2. /\ att \in Seq(AttemptType) /\ Len(att) \in Nat /\ DOMAIN att = 1..Len(att)
      /\ svc \in SvcType /\ svc.at \in Nat /\ now \in Nat /\ svc.at <= now /\ j \in DailyJobs
  BY LenProperties DEF RadarInv, TypeInv, SvcType, SvcInv
<1>3. e \in AttemptType
  <2>1. NoRun \in RunType
    BY DEF NoRun, RunType
  <2>2. Target(j, svc.at) \in Targets
    BY <1>2 DEF Targets
  <2>3. due \in Int
    BY <1>2, ScheduledIsInt
  <2>4. NextNumber(j) \in 1..MaxAttempts
    BY NextFits
  <2> HIDE DEF due
  <2>5. QED
    BY <1>2, <2>1, <2>2, <2>3, <2>4 DEF AttemptType
<1>4. e.job = j /\ e.due = due /\ e.number = NextNumber(j) /\ e.started = svc.at
      /\ e.status = "running" /\ e.retry = None
  OBVIOUS
<1> HIDE DEF e, due
<1>5. /\ att' \in Seq(AttemptType) /\ Len(att') = N
      /\ \A k \in 1..Len(att) : att'[k] = att[k]
      /\ att'[N] = e
  BY <1>1, <1>2, <1>3, AppendProperties
<1>6. DOMAIN att' = 1..N /\ N \in Nat /\ 1..N = (1..Len(att)) \cup {N} /\ N \notin 1..Len(att)
  BY <1>2, <1>5, LenProperties
<1>7. svc' \in SvcType /\ svc'.step = "sync" /\ svc'.at = 0 /\ svc'.cur = N
  <2>1. svc.checked \cup found \subseteq DailyJobs \X Targets
    BY <1>2 DEF SvcType, Targets, DailyJobs
  <2> HIDE DEF found
  <2>2. QED
    BY <1>1, <1>2, <1>6, <2>1 DEF SvcType, SyncSteps
<1>8. TypeInv'
  BY <1>1, <1>5, <1>7 DEF RadarInv, TypeInv
<1>9. SvcInv'
  <2>1. \A k \in 1..Len(att) : att[k].status # "running"
    BY <1>1, <1>2 DEF RadarInv, SvcInv
  <2>2. \A k \in 1..N : att'[k].status = "running" => k = N
    BY <1>5, <1>6, <2>1
  <2>3. svc'.at <= now'
    BY <1>1, <1>2, <1>7
  <2>4. QED
    BY <1>6, <1>7, <2>2, <2>3 DEF SvcInv
<1>10. RetryInv'
  <2>1. \A k \in 1..Len(att) :
           /\ att'[k].started <= now'
           /\ att'[k].retry # None => att'[k].started <= att'[k].retry
           /\ att'[k].status = "complete" => att'[k].retry = None
    BY <1>1, <1>2, <1>5 DEF RadarInv, RetryInv
  <2>2. QED
    BY <1>1, <1>2, <1>4, <1>5, <1>6, <2>1 DEF RetryInv
<1>11. NewestInv'
  <2>1. SUFFICES ASSUME NEW i \in 1..N
                 PROVE  \E k \in 1..N :
                           /\ att'[k].job = att'[i].job /\ att'[k].due = att'[i].due
                           /\ \A n \in 1..N :
                                 att'[n].job = att'[i].job /\ att'[n].due = att'[i].due => n <= k
    BY <1>6 DEF NewestInv
  <2>2. CASE att'[i].job = j /\ att'[i].due = due
    BY <1>4, <1>5, <1>6, <2>2
  <2>3. CASE ~(att'[i].job = j /\ att'[i].due = due)
    <3>1. i \in 1..Len(att) /\ att'[i] = att[i]
      BY <1>4, <1>5, <1>6, <2>3
    <3>2. PICK k \in 1..Len(att) :
             /\ att[k].job = att[i].job /\ att[k].due = att[i].due
             /\ \A n \in 1..Len(att) :
                   att[n].job = att[i].job /\ att[n].due = att[i].due => n <= k
      BY <1>2, <3>1 DEF RadarInv, NewestInv
    <3>3. \A n \in 1..N : att'[n].job = att'[i].job /\ att'[n].due = att'[i].due => n <= k
      <4>1. SUFFICES ASSUME NEW n \in 1..N,
                            att'[n].job = att'[i].job /\ att'[n].due = att'[i].due
                     PROVE  n <= k
        OBVIOUS
      <4>2. n # N
        BY <1>4, <1>5, <2>3, <4>1
      <4>3. n \in 1..Len(att) /\ att'[n] = att[n]
        BY <1>5, <1>6, <4>2
      <4>4. QED
        BY <3>1, <3>2, <4>1, <4>3
    <3>4. QED
      BY <1>5, <1>6, <3>1, <3>2, <3>3
  <2>4. QED
    BY <2>2, <2>3
<1>12. BudgetKept'
  <2>1. ASSUME NEW i \in 1..Len(att)
        PROVE  /\ att'[i].number \in 1..MaxAttempts
               /\ \A k \in Earlier(i)' :
                     /\ att'[k].number < att'[i].number
                     /\ att'[k].status \notin {"running", "complete"}
                     /\ att'[k].retry # None /\ att'[k].retry <= att'[i].started
    <3>1. \A k \in Earlier(i)' : k \in Earlier(i) /\ att'[k] = att[k]
      BY <1>2, <1>5, <1>6, <2>1 DEF Earlier
    <3>2. QED
      BY <1>2, <1>5, <2>1, <3>1 DEF RadarInv, BudgetKept
  <2> DEFINE before == {k \in 1..N : /\ k < N /\ att'[k].job = att'[N].job
                                     /\ att'[k].due = att'[N].due}
  <2>2. /\ att'[N].number \in 1..MaxAttempts
        /\ \A k \in before :
              /\ att'[k].number < att'[N].number
              /\ att'[k].status \notin {"running", "complete"}
              /\ att'[k].retry # None /\ att'[k].retry <= att'[N].started
    <3>1. ASSUME NEW k \in before PROVE k \in AttemptsDue(j, due) /\ att'[k] = att[k]
      <4>1. k \in 1..Len(att) /\ att'[k] = att[k]
        BY <1>5, <1>6
      <4>2. QED
        BY <1>2, <1>4, <1>5, <4>1 DEF AttemptsDue, AttemptsOf
    <3>2. QED
      BY <1>4, <1>5, <3>1, NextFits DEF due
  <2>3. ASSUME NEW i \in 1..N
        PROVE  /\ att'[i].number \in 1..MaxAttempts
               /\ \A k \in Earlier(i)' :
                     /\ att'[k].number < att'[i].number
                     /\ att'[k].status \notin {"running", "complete"}
                     /\ att'[k].retry # None /\ att'[k].retry <= att'[i].started
    <3>1. CASE i = N
      <4>1. Earlier(i)' = before
        BY <1>6, <3>1 DEF Earlier
      <4>2. QED
        BY <2>2, <3>1, <4>1
    <3>2. CASE i # N
      BY <1>6, <2>1, <2>3, <3>2
    <3>3. QED
      BY <3>1, <3>2
  <2>4. QED
    BY <1>6, <2>3 DEF BudgetKept
<1>13. QED
  BY <1>8, <1>9, <1>10, <1>11, <1>12 DEF RadarInv

-----------------------------------------------------------------------------
(* The invariant is kept, action by action.                                 *)

\* Steps that begin and finish no attempt.
LEMMA RestKeeps ==
    ASSUME RadarInv, SameBut({}), UNCHANGED jobs, now' \in Nat, now <= now',
           svc' \in SvcType, svc'.at <= now',
           svc'.step \in {"idle", "job"} => svc.step \in {"idle", "job"} \/ Running = {},
           svc'.step \in SyncSteps => svc.step \in SyncSteps /\ svc'.cur = svc.cur,
           svc'.step = "failed" => svc'.end \in Outcomes
    PROVE  RadarInv'
<1>1. /\ DOMAIN att' = DOMAIN att /\ \A k \in DOMAIN att : att'[k].status = att[k].status
      /\ RetryInv' /\ NewestInv' /\ BudgetKept'
  BY SameKeeps
<1>2. TypeInv'
  BY DEF RadarInv, TypeInv, SameBut
<1>3. SvcInv'
  <2>1. svc'.step \in {"idle", "job"} => \A k \in DOMAIN att : att[k].status # "running"
    BY DEF RadarInv, SvcInv, Running
  <2>2. svc'.step \in SyncSteps =>
           /\ svc'.cur \in DOMAIN att
           /\ \A k \in DOMAIN att : att[k].status = "running" => k = svc'.cur
    BY DEF RadarInv, SvcInv
  <2>3. QED
    BY <1>1, <2>1, <2>2 DEF SvcInv
<1>4. QED
  BY <1>1, <1>2, <1>3 DEF RadarInv

\* The tick itself: decisions without an attempt.
LEMMA DecisionKeeps ==
    ASSUME RadarInv, BeginTick \/ EndTick \/ \E j \in jobs : ReportComplete(j) \/ Postpone(j)
    PROVE  RadarInv'
<1>1. svc \in SvcType /\ now \in Nat /\ jobs \subseteq DailyJobs /\ svc.at \in Nat /\ 0 <= now /\ now <= now
  BY DEF RadarInv, TypeInv, SvcType
<1>2. UNCHANGED <<att, now, jobs>>
  BY DEF BeginTick, EndTick, ReportComplete, Postpone, store
<1>3. /\ svc.step \in {"idle", "job"} /\ svc'.step \in {"idle", "job"} /\ svc'.at \in Nat
      /\ svc'.at <= now /\ svc' \in SvcType
  <2>1. CASE BeginTick
    BY <1>1, <2>1 DEF BeginTick, SvcType
  <2>2. CASE EndTick
    BY <1>1, <2>2 DEF EndTick, SvcType
  <2>3. ASSUME NEW j \in jobs, Postpone(j)
        PROVE  /\ svc.step \in {"idle", "job"} /\ svc'.step \in {"idle", "job"} /\ svc'.at \in Nat
               /\ svc'.at <= now /\ svc' \in SvcType
    BY <1>1, <2>3 DEF Postpone, InHand, SvcType
  <2>4. ASSUME NEW j \in jobs, ReportComplete(j)
        PROVE  /\ svc.step \in {"idle", "job"} /\ svc'.step \in {"idle", "job"} /\ svc'.at \in Nat
               /\ svc'.at <= now /\ svc' \in SvcType
    <3> DEFINE told == {<<j, Target(j, svc.at)>>}
    <3>1. told \subseteq DailyJobs \X Targets
      BY <1>1, <2>4 DEF Targets
    <3>2. /\ svc' = [svc EXCEPT !.todo = @ \ {j}, !.at = now, !.said = @ \cup told,
                                !.checked = IF j \in PriceJobs THEN @ \cup told ELSE @]
          /\ svc.step = "job"
      BY <2>4 DEF ReportComplete, InHand
    <3> HIDE DEF told
    <3>3. /\ svc.said \cup told \subseteq DailyJobs \X Targets
          /\ (IF j \in PriceJobs THEN svc.checked \cup told ELSE svc.checked)
                \subseteq DailyJobs \X Targets
      BY <1>1, <3>1 DEF SvcType
    <3>4. QED
      BY <1>1, <3>2, <3>3 DEF SvcType
  <2>5. QED
    BY <2>1, <2>2, <2>3, <2>4
<1>4. svc'.step \notin SyncSteps /\ svc'.step # "failed"
  BY <1>3 DEF SyncSteps
<1>5. SameBut({})
  BY <1>2, SameStore DEF RadarInv
<1>6. QED
  BY <1>1, <1>2, <1>3, <1>4, <1>5, RestKeeps

\* A sync on its way, or its end without an outcome on record.
LEMMA SyncKeeps ==
    ASSUME RadarInv,
           \/ BeginRun \/ PipelineWrites \/ PipelineEnds \/ AnswerArrives
           \/ \E ready \in BOOLEAN, age \in {0, 1} : Publish(ready, age)
           \/ \E o \in Outcomes : \/ FailEarly(o) \/ SyncFails(o) \/ SyncFailsUnrecorded(o)
                                  \/ \E torn \in BOOLEAN : PipelineFails(o, torn)
    PROVE  RadarInv'
<1>1. svc \in SvcType /\ now \in Nat /\ svc.at \in Nat /\ svc.at <= now /\ 0 <= now /\ now <= now
  BY DEF RadarInv, TypeInv, SvcInv, SvcType
<1>2. svc.step \in SyncSteps
  BY DEF BeginRun, PipelineWrites, PipelineEnds, AnswerArrives, Publish, FailEarly, SyncFails,
     SyncFailsUnrecorded, PipelineFails, SyncSteps
<1>3. svc.cur \in DOMAIN att
  BY <1>2 DEF RadarInv, SvcInv
<1>4. UNCHANGED <<now, jobs>>
  BY DEF BeginRun, PipelineWrites, PipelineEnds, AnswerArrives, Publish, FailEarly, SyncFails,
     SyncFailsUnrecorded, PipelineFails
<1>5. SameBut({})
  <2>1. ASSUME UNCHANGED att PROVE SameBut({})
    BY <2>1, SameStore DEF RadarInv
  <2>2. ASSUME NEW t \in Nat,
               StartRun(svc.cur, t) \/ FailRun(svc.cur, t) \/ CompleteRun(svc.cur, t)
        PROVE  SameBut({})
    BY <1>3, <2>2, RunChanges DEF RadarInv
  <2>3. CASE BeginRun
    BY <1>1, <2>2, <2>3 DEF BeginRun
  <2>4. CASE PipelineWrites \/ PipelineEnds \/ AnswerArrives
             \/ \E o \in Outcomes : FailEarly(o) \/ SyncFailsUnrecorded(o)
    BY <2>1, <2>4 DEF PipelineWrites, PipelineEnds, AnswerArrives, FailEarly, SyncFailsUnrecorded,
       store
  <2>5. CASE \E o \in Outcomes : SyncFails(o) \/ \E torn \in BOOLEAN : PipelineFails(o, torn)
    BY <1>1, <2>2, <2>5 DEF SyncFails, PipelineFails
  <2>6. CASE \E ready \in BOOLEAN, age \in {0, 1} : Publish(ready, age)
    <3>1. CompleteRun(svc.cur, svc.at)
      BY <2>6 DEF Publish, PublishSource, PublishPrices, PublishBreadth, PublishMacro,
         PublishEarnings, PublishFundamentals, PublishEconomicEvents
    <3>2. QED
      BY <1>1, <2>2, <3>1
  <2>7. QED
    BY <2>3, <2>4, <2>5, <2>6
<1>6. /\ svc' \in SvcType /\ svc'.step \in SyncSteps /\ svc'.cur = svc.cur
      /\ svc'.at \in Nat /\ svc'.at <= now
      /\ svc'.step = "failed" => svc'.end \in Outcomes
  <2>1. CASE BeginRun
    BY <1>1, <2>1 DEF BeginRun, SvcType, SyncSteps
  <2>2. CASE PipelineWrites
    BY <1>1, <2>2 DEF PipelineWrites, SvcType, SyncSteps
  <2>3. CASE PipelineEnds
    BY <1>1, <2>3 DEF PipelineEnds, SvcType, SyncSteps
  <2>4. CASE AnswerArrives
    BY <1>1, <2>4 DEF AnswerArrives, SvcType, SyncSteps
  <2>5. CASE \E ready \in BOOLEAN, age \in {0, 1} : Publish(ready, age)
    <3>1. svc' = [svc EXCEPT !.step = "published", !.at = 0]
      BY <2>5 DEF Publish
    <3>2. QED
      BY <1>1, <3>1 DEF SvcType, SyncSteps
  <2>6. ASSUME NEW o \in Outcomes, FailsWith(o)
        PROVE  /\ svc' \in SvcType /\ svc'.step = "failed" /\ svc'.cur = svc.cur
               /\ svc'.at = 0 /\ svc'.end = o
    BY <1>1, <2>6 DEF FailsWith, SvcType, SyncSteps
  <2>7. CASE \E o \in Outcomes : \/ FailEarly(o) \/ SyncFails(o) \/ SyncFailsUnrecorded(o)
                                 \/ \E torn \in BOOLEAN : PipelineFails(o, torn)
    <3>1. PICK o \in Outcomes : FailsWith(o)
      BY <2>7 DEF FailEarly, SyncFails, SyncFailsUnrecorded, PipelineFails
    <3>2. QED
      BY <1>1, <2>6, <3>1 DEF SyncSteps
  <2>8. QED
    BY <2>1, <2>2, <2>3, <2>4, <2>5, <2>7
<1>7. svc'.step \notin {"idle", "job"}
  BY <1>6 DEF SyncSteps
<1>8. QED
  BY <1>1, <1>2, <1>4, <1>5, <1>6, <1>7, RestKeeps

\* The end of a process, its start, its recovery before the attempts are settled, the
\* Catalog and the clock.
LEMMA ProcessKeeps ==
    ASSUME RadarInv,
           \/ ProcessEnds \/ DatabaseFails \/ CatalogReplaced \/ StartService \/ EndRecovery
           \/ TimePasses \/ \E i \in DOMAIN att : RecoverRun(i)
    PROVE  RadarInv'
<1>1. /\ svc \in SvcType /\ now \in Nat /\ svc.at \in Nat /\ svc.at <= now
      /\ svc.step = "failed" => svc.end \in Outcomes
  BY DEF RadarInv, TypeInv, SvcInv, SvcType
<1>2. UNCHANGED jobs /\ now' \in Nat /\ now <= now'
  BY <1>1 DEF ProcessEnds, DatabaseFails, CatalogReplaced, StartService, EndRecovery, TimePasses,
     RecoverRun
<1>3. SameBut({})
  <2>1. CASE UNCHANGED att
    BY <2>1, SameStore DEF RadarInv
  <2>2. CASE DatabaseFails
    <3>1. svc.cur \in DOMAIN att
      BY <2>2 DEF DatabaseFails, RadarInv, SvcInv, SyncSteps
    <3>2. QED
      BY <1>1, <2>2, <3>1, RunChanges DEF DatabaseFails, RadarInv
  <2>3. CASE \E i \in DOMAIN att : RecoverRun(i)
    BY <1>1, <2>3, RunChanges DEF RecoverRun, RadarInv
  <2>4. QED
    BY <2>1, <2>2, <2>3 DEF ProcessEnds, CatalogReplaced, StartService, EndRecovery, TimePasses, store
<1>4. Down \in SvcType /\ Down.step = "down" /\ Down.at = 0
  BY DEF Down, SvcType
<1>5. CASE UNCHANGED svc
  BY <1>1, <1>2, <1>3, <1>5, RestKeeps
<1>6. CASE svc' = Down
  BY <1>1, <1>2, <1>3, <1>4, <1>6, RestKeeps DEF SyncSteps
<1>7. CASE StartService
  <2>1. svc' \in SvcType /\ svc'.step = "recover" /\ svc'.at = 0
    BY <1>4, <1>7 DEF StartService, SvcType
  <2>2. QED
    BY <1>1, <1>2, <1>3, <2>1, RestKeeps DEF SyncSteps
<1>8. CASE EndRecovery
  <2>1. svc' \in SvcType /\ svc'.step = "idle" /\ svc'.at = svc.at /\ Running = {}
    BY <1>1, <1>8 DEF EndRecovery, SvcType
  <2>2. QED
    BY <1>1, <1>2, <1>3, <2>1, RestKeeps DEF SyncSteps
<1>9. QED
  BY <1>5, <1>6, <1>7, <1>8 DEF ProcessEnds, DatabaseFails, CatalogReplaced, TimePasses, RecoverRun

LEMMA RetryAtLater ==
    ASSUME NEW t \in Nat, NEW number \in Nat
    PROVE  /\ RetryAt(t, number) \in Nat \cup {None}
           /\ RetryAt(t, number) # None => t <= RetryAt(t, number)
  BY DailyAssumption DEF RetryAt

\* How an attempt ends: with a retry after this moment, or complete, or for good.
LEMMA EndKeeps ==
    ASSUME RadarInv, FinishPublished \/ FinishFailed \/ \E i \in DOMAIN att : RecoverAttempt(i)
    PROVE  RadarInv'
<1>1. /\ svc \in SvcType /\ now \in Nat /\ svc.at \in Nat /\ svc.at <= now
      /\ UNCHANGED <<now, jobs>>
  BY DEF RadarInv, TypeInv, SvcInv, SvcType, FinishPublished, FinishFailed, RecoverAttempt
<1>2. \A k \in DOMAIN att : /\ att[k].number \in Nat /\ att[k].job \in DailyJobs
                            /\ att[k].target \in Targets
  <2>1. \A k \in DOMAIN att : att[k] \in AttemptType
    BY LenProperties, ElementOfSeq DEF RadarInv, TypeInv
  <2>2. QED
    BY <2>1, DailyAssumption DEF AttemptType
<1> DEFINE Ends(i) ==
        \E status \in {"failed", "waiting_source", "interrupted", "complete"},
           retry \in Nat \cup {None} :
              /\ FinishAttempt(i, status, retry)
              /\ retry # None => now <= retry
              /\ status = "complete" => retry = None
<1>3. ASSUME NEW i \in DOMAIN att, Ends(i)
      PROVE  /\ att' \in Seq(AttemptType) /\ DOMAIN att' = DOMAIN att
             /\ \A k \in DOMAIN att : att'[k].status = "running" => att[k].status = "running" /\ k # i
             /\ RetryInv' /\ NewestInv' /\ BudgetKept'
  BY <1>1, <1>3, FinishKeeps
<1>4. ASSUME NEW i \in DOMAIN att, RecoverAttempt(i) PROVE RadarInv'
  <2>1. Ends(i)
    <3> DEFINE whole == Published(i) /\ Satisfies(Publication(att[i].job), att[i].target)
               result == IF whole THEN "complete"
                         ELSE IF Published(i) THEN "waiting_source" ELSE "interrupted"
               next == IF whole THEN None ELSE RetryAt(now, att[i].number)
    <3>1. FinishAttempt(i, result, next)
      BY <1>4 DEF RecoverAttempt
    <3>2. /\ next \in Nat \cup {None} /\ (next # None => now <= next)
          /\ result \in {"failed", "waiting_source", "interrupted", "complete"}
          /\ result = "complete" => next = None
      BY <1>1, <1>2, RetryAtLater
    <3> HIDE DEF whole, result, next
    <3>3. QED
      BY <3>1, <3>2
  <2>2. svc.step = "recover" /\ UNCHANGED svc
    BY <1>4 DEF RecoverAttempt
  <2>3. TypeInv' /\ SvcInv'
    BY <1>1, <1>3, <2>1, <2>2 DEF RadarInv, TypeInv, SvcInv, SyncSteps
  <2>4. QED
    BY <1>3, <2>1, <2>3 DEF RadarInv
<1>5. ASSUME svc.cur \in DOMAIN att, svc.step \in SyncSteps, Ends(svc.cur),
             NEW told \in SUBSET (DailyJobs \X Targets), Settled(told)
      PROVE  RadarInv'
  <2>1. svc.said \cup told \subseteq DailyJobs \X Targets
        /\ svc.checked \cup told \subseteq DailyJobs \X Targets
    BY <1>1 DEF SvcType
  <2>2. svc' \in SvcType /\ svc'.step = "job" /\ svc'.at = now
    BY <1>1, <1>5, <2>1 DEF Settled, SvcType
  <2>3. \A k \in DOMAIN att' : att'[k].status # "running"
    BY <1>3, <1>5 DEF RadarInv, SvcInv
  <2>4. TypeInv' /\ SvcInv'
    BY <1>1, <1>3, <1>5, <2>2, <2>3 DEF RadarInv, TypeInv, SvcInv, SyncSteps
  <2>5. QED
    BY <1>3, <1>5, <2>4 DEF RadarInv
<1>6. CASE FinishPublished
  <2>1. svc.step \in SyncSteps /\ svc.cur \in DOMAIN att
    BY <1>6 DEF FinishPublished, RadarInv, SvcInv, SyncSteps
  <2> DEFINE p == Publication(This.job)
             mine == p \notin {None, Corrupt} /\ p.run = svc.cur
             whole == mine /\ Satisfies(p, This.target)
             result == IF whole THEN "complete" ELSE IF mine THEN "waiting_source" ELSE "failed"
             next == IF mine /\ ~whole THEN RetryAt(now, This.number) ELSE None
             told == IF whole THEN {<<This.job, This.target>>} ELSE {}
  <2>2. FinishAttempt(svc.cur, result, next) /\ Settled(told)
    BY <1>6 DEF FinishPublished
  <2>3. /\ next \in Nat \cup {None} /\ (next # None => now <= next)
        /\ result \in {"failed", "waiting_source", "interrupted", "complete"}
        /\ result = "complete" => next = None
    BY <1>1, <1>2, <2>1, RetryAtLater DEF This
  <2>4. told \in SUBSET (DailyJobs \X Targets)
    BY <1>2, <2>1 DEF This
  <2> HIDE DEF result, next, told
  <2>5. Ends(svc.cur)
    BY <2>2, <2>3
  <2>6. QED
    BY <1>5, <2>1, <2>2, <2>4, <2>5
<1>7. CASE FinishFailed
  <2>1. svc.step \in SyncSteps /\ svc.cur \in DOMAIN att /\ svc.end \in Outcomes
    BY <1>7 DEF FinishFailed, RadarInv, SvcInv, SyncSteps
  <2> DEFINE retry == IF svc.end.again THEN RetryAt(now, This.number) ELSE None
  <2>2. FinishAttempt(svc.cur, svc.end.status, retry) /\ Settled({})
    BY <1>7 DEF FinishFailed
  <2>3. svc.end.status \in {"failed", "waiting_source"}
    BY <2>1 DEF Outcomes, Broken, Temporary, NotReady
  <2>4. retry \in Nat \cup {None} /\ (retry # None => now <= retry)
    BY <1>1, <1>2, <2>1, RetryAtLater DEF This
  <2> HIDE DEF retry
  <2>5. Ends(svc.cur)
    BY <2>2, <2>3, <2>4
  <2>6. QED
    BY <1>5, <2>1, <2>2, <2>5
<1>8. QED
  BY <1>4, <1>6, <1>7

LEMMA RadarInvStep == RadarInv /\ [Next]_vars => RadarInv'
<1> SUFFICES ASSUME RadarInv, [Next]_vars PROVE RadarInv'
  OBVIOUS
<1>1. CASE UNCHANGED vars
  <2>1. UNCHANGED <<att, now, jobs, svc>> /\ now \in Nat /\ svc \in SvcType /\ svc.at \in Nat
        /\ svc.at <= now /\ (svc.step = "failed" => svc.end \in Outcomes)
    BY <1>1 DEF vars, store, RadarInv, TypeInv, SvcInv, SvcType
  <2>2. SameBut({})
    BY <2>1, SameStore DEF RadarInv
  <2>3. QED
    BY <2>1, <2>2, RestKeeps
<1>2. CASE Deciding
  BY <1>2, DecisionKeeps, BeginKeeps DEF Deciding
<1>3. CASE Syncing
  BY <1>3, SyncKeeps DEF Syncing, Outcomes
<1>4. CASE Settling
  BY <1>4, EndKeeps, ProcessKeeps DEF Settling
<1>5. CASE Mishap
  BY <1>5, SyncKeeps, ProcessKeeps DEF Mishap, Outcomes
<1>6. CASE TimePasses
  BY <1>6, ProcessKeeps
<1>7. QED
  BY <1>1, <1>2, <1>3, <1>4, <1>5, <1>6 DEF Next, ServiceStep

LEMMA RadarInvInit == Init => RadarInv
<1> SUFFICES ASSUME Init PROVE RadarInv
  OBVIOUS
<1>1. att \in Seq(AttemptType) /\ DOMAIN att = {}
  BY EmptySeq, LenProperties DEF Init, StoreInit
<1>2. now \in Nat /\ jobs \subseteq DailyJobs
  BY DailyAssumption DEF Init
<1>3. svc \in SvcType /\ svc.step = "down" /\ svc.at = 0
  BY DEF Init, Down, SvcType
<1>4. TypeInv /\ SvcInv
  BY <1>1, <1>2, <1>3 DEF TypeInv, SvcInv, SyncSteps
<1>5. RetryInv /\ NewestInv /\ BudgetKept
  BY <1>1 DEF RetryInv, NewestInv, BudgetKept
<1>6. QED
  BY <1>4, <1>5 DEF RadarInv

-----------------------------------------------------------------------------
(* The theorem.                                                             *)

\* No job is tried more often for one due time than max_attempts_per_day allows, nor before
\* its retry time, nor while or after it succeeded, whatever is killed and restarted
\* (market_radar/daily.py _run_job; market_radar/storage.py start_daily_attempt).
THEOREM AttemptsBudgeted == Spec => []BudgetKept
<1>1. RadarInv /\ [Next]_vars => RadarInv'
  BY RadarInvStep
<1>2. RadarInv => BudgetKept
  BY DEF RadarInv
<1>3. QED
  BY RadarInvInit, <1>1, <1>2, PTL DEF Spec

-----------------------------------------------------------------------------
(* The invariant of the database.                                          *)

\* Attempts begin in the order of the decisions.
ClockInv ==
    /\ StartTime <= now /\ now <= MaxTime
    /\ svc.step = "job" =>
          /\ StartTime <= svc.at
          /\ \A i \in DOMAIN att : att[i].started <= svc.at
    /\ svc.step \in SyncSteps => svc.cur = Len(att) /\ att[svc.cur].status = "running"

\* Runs begin in the order of their attempts, of which only the last may still run.
OrderInv ==
    \A i \in DOMAIN att :
        LET a == att[i]
        IN /\ a.due = ScheduledAt(a.started) /\ a.target = Target(a.job, a.started)
           /\ StartTime <= a.started
           /\ a.status = "running" => i = Len(att)
           /\ a.run.status # "none" => a.started <= a.run.started /\ a.run.started <= now
           /\ \A k \in DOMAIN att :
                 i < k => /\ a.started <= att[k].started
                          /\ a.run.status # "none" /\ att[k].run.status # "none" =>
                                a.run.started <= att[k].run.started

\* How far the run of the attempt in hand has come.
SyncInv ==
    svc.step \in SyncSteps =>
       LET a == att[svc.cur]
       IN /\ svc.step = "sync" => a.run.status = "none"
          /\ svc.step \in {"pipeline", "writing"} => a.job \in PriceJobs
          /\ svc.step \in {"pipeline", "writing", "answer", "publish"} => a.run.status = "RUNNING"
          /\ svc.step = "failed" => a.run.status # "COMPLETE"
          /\ svc.step = "published" => a.run.status = "COMPLETE"
          /\ svc.step = "publish" =>
                /\ a.run.started <= svc.at
                /\ a.job \notin PriceJobs => Day(svc.at) = Day(a.run.started)

\* The job whose run publishes a table.
Source(table) ==
    IF table = "risk" THEN "macro" ELSE IF table = "calendar" THEN "earnings" ELSE table

\* A row is what its run published, and its run is complete.
RowHolds(table, d) ==
    LET r == row[table][d]
        run == RunOf(r)
    IN /\ r.run \in DOMAIN att /\ att[r.run].job = Source(table) /\ d = AsOfDate(r.run)
       /\ run.status = "COMPLETE" /\ run.completed = r.at
       /\ run.started <= r.at /\ r.at <= now
       /\ r.payload.asOf = d /\ r.payload.at = r.at /\ r.payload.of <= d
       /\ Source(table) \notin PriceJobs => Day(r.at) = d

RowsInv ==
    /\ row \in [Tables -> [0..MaxDay -> Rows \cup {None}]]
    /\ \A table \in Tables : \A d \in DatesOf(table) : RowHolds(table, d)
    /\ row["calendar"] = row["earnings"]

\* What a killed process had published is still the newest of its source at recovery.
PublishedInv ==
    \A i \in DOMAIN att :
        att[i].status = "running" /\ att[i].run.status = "COMPLETE" => Published(i)

\* Breadth is tried only when the prices of its date are published.
BreadthInv ==
    \A i \in DOMAIN att :
        att[i].job = "breadth" => \E e \in DatesOf("prices") : e >= att[i].target

StoreInv ==
    /\ RadarInv /\ ClockInv /\ OrderInv /\ SyncInv /\ RowsInv /\ PublishedInv
    /\ BreadthInv /\ AuditsAgree

-----------------------------------------------------------------------------
(* Readers.                                                                 *)

LEMMA RowShape ==
    ASSUME RowsInv, NEW table \in Tables, NEW d \in DatesOf(table)
    PROVE  /\ d \in 0..MaxDay /\ d \in Nat /\ row[table][d] \in Rows
           /\ row[table][d].payload \in Payloads
           /\ RowHolds(table, d) /\ d \in CompletedDates(table) /\ ColumnsMatch(table, d)
<1>1. d \in 0..MaxDay /\ row[table][d] # None /\ row[table][d] \in Rows \cup {None}
  BY DEF RowsInv, DatesOf
<1>2. d \in Nat
  BY <1>1, DailyAssumption
<1>3. row[table][d].payload \in Payloads
  BY <1>1 DEF Rows
<1>4. RowHolds(table, d)
  BY DEF RowsInv
<1>5. QED
  BY <1>1, <1>2, <1>3, <1>4 DEF RowHolds, CompletedDates, ColumnsMatch, RunOf

LEMMA NewestDate ==
    ASSUME RowsInv, NEW table \in Tables, DatesOf(table) # {}
    PROVE  Max(DatesOf(table)) \in DatesOf(table) /\ \A d \in DatesOf(table) : d <= Max(DatesOf(table))
<1>1. DatesOf(table) \in SUBSET (0..MaxDay) /\ MaxDay \in Nat
  BY DailyAssumption DEF DatesOf
<1>2. QED
  BY <1>1, MaxIsNewest

\* A source that has rows is read without an error: the answer is its newest row.
LEMMA PublicationIs ==
    ASSUME RowsInv, NEW j \in DailyJobs, DatesOf(j) # {}, NEW d, d = Max(DatesOf(j))
    PROVE  /\ d \in DatesOf(j)
           /\ Publication(j) = [run |-> row[j][d].run, asOf |-> d, at |-> row[j][d].at,
                                ready |-> row[j][d].payload.ready]
           /\ Publication(j) \notin {None, Corrupt}
<1>1. j \in Tables
  BY DEF Tables
<1>2. d \in DatesOf(j)
  BY <1>1, NewestDate
<1> DEFINE r == row[j][d]
<1>3. /\ RunOf(r).status = "COMPLETE" /\ att[r.run].job = j /\ ColumnsMatch(j, d)
      /\ r.at = RunOf(r).completed
  BY <1>1, <1>2, RowShape DEF RowHolds, Source, DailyJobs
<1>4. r \in Rows /\ d \in Nat /\ r.payload \in Payloads
  BY <1>1, <1>2, RowShape
<1>5. r.at \in Nat /\ r.run \in Nat /\ r.payload.ready \in BOOLEAN
  BY <1>4 DEF Rows, Payloads
<1>6. r.at <= RunOf(r).completed
  BY <1>3, <1>5
<1> DEFINE p == [run |-> r.run, asOf |-> d, at |-> r.at, ready |-> r.payload.ready]
<1>7. Publication(j) = p
  BY <1>2, <1>3, <1>6 DEF Publication
<1>8. p \in [run : Nat, asOf : Nat, at : Nat, ready : BOOLEAN]
  BY <1>4, <1>5
<1>9. p \notin {None, Corrupt}
  BY <1>8, StoreAssumption
<1>10. QED
  BY <1>2, <1>7, <1>9

-----------------------------------------------------------------------------
(* What most steps leave alone.                                             *)

\* An attempt keeps what it was begun with, and a complete run stays as it is.
Kept ==
    /\ DOMAIN att \subseteq DOMAIN att'
    /\ \A k \in DOMAIN att :
          /\ att'[k].job = att[k].job /\ att'[k].target = att[k].target
          /\ att'[k].started = att[k].started
          /\ att[k].run.status = "COMPLETE" => att'[k].run = att[k].run

LEMMA RowKeeps ==
    ASSUME Kept, NEW table \in Tables, NEW d, RowHolds(table, d), RowsInv, d \in DatesOf(table),
           row'[table][d] = row[table][d], now \in Nat, now' \in Nat, now <= now'
    PROVE  RowHolds(table, d)'
<1>0. PICK r : r = row[table][d]
  OBVIOUS
<1>1. /\ r.run \in DOMAIN att /\ att[r.run].job = Source(table) /\ d = AsOfDate(r.run)
      /\ att[r.run].run.status = "COMPLETE" /\ att[r.run].run.completed = r.at
      /\ att[r.run].run.started <= r.at /\ r.at <= now
      /\ r.payload.asOf = d /\ r.payload.at = r.at /\ r.payload.of <= d
      /\ Source(table) \notin PriceJobs => Day(r.at) = d
  BY <1>0 DEF RowHolds, RunOf
<1>2. r.at \in Nat
  BY <1>0, RowShape DEF Rows
<1>3. /\ r.run \in DOMAIN att' /\ att'[r.run].job = att[r.run].job
      /\ att'[r.run].target = att[r.run].target /\ att'[r.run].run = att[r.run].run
  BY <1>1 DEF Kept
<1>4. AsOfDate(r.run)' = AsOfDate(r.run)
  BY <1>3 DEF AsOfDate
<1>5. r.at <= now'
  BY <1>1, <1>2
<1>6. row'[table][d] = r
  BY <1>0
<1>7. QED
  BY <1>1, <1>3, <1>4, <1>5, <1>6 DEF RowHolds, RunOf

\* What is read of a source whose rows do not change stays the same.
LEMMA SourceRests ==
    ASSUME RowsInv, Kept, NEW j \in DailyJobs, \A e \in 0..MaxDay : row'[j][e] = row[j][e]
    PROVE  Publication(j)' = Publication(j)
<1>1. j \in Tables /\ DatesOf(j)' = DatesOf(j)
  BY DEF Tables, DatesOf
<1>2. CASE DatesOf(j) = {}
  BY <1>1, <1>2 DEF Publication
<1>3. CASE DatesOf(j) # {}
  <2> DEFINE d == Max(DatesOf(j))
             r == row[j][d]
  <2>1. d \in DatesOf(j) /\ d \in 0..MaxDay /\ RowHolds(j, d)
    BY <1>1, <1>3, NewestDate, RowShape
  <2>2. /\ att'[r.run].job = att[r.run].job /\ att'[r.run].run = att[r.run].run
    BY <2>1 DEF RowHolds, RunOf, Kept
  <2>3. d' = d /\ row'[j][d] = r
    BY <1>1, <2>1
  <2> HIDE DEF d, r
  <2>4. QED
    BY <1>1, <1>3, <2>2, <2>3 DEF Publication, RunOf, ColumnsMatch, d, r
<1>4. QED
  BY <1>2, <1>3

\* No row changes: what is read stays the same.
LEMMA RowsRest ==
    ASSUME RowsInv, Kept, UNCHANGED row, now \in Nat, now' \in Nat, now <= now'
    PROVE  /\ RowsInv'
           /\ \A table \in Tables : DatesOf(table)' = DatesOf(table)
           /\ \A j \in DailyJobs : Publication(j)' = Publication(j)
<1>1. \A table \in Tables : DatesOf(table)' = DatesOf(table)
  BY DEF DatesOf
<1>2. RowsInv'
  <2>1. ASSUME NEW table \in Tables, NEW d \in DatesOf(table)' PROVE RowHolds(table, d)'
    <3>1. d \in DatesOf(table) /\ RowHolds(table, d) /\ row'[table][d] = row[table][d]
      BY <1>1, <2>1 DEF RowsInv
    <3>2. QED
      BY <3>1, RowKeeps
  <2>2. QED
    BY <2>1 DEF RowsInv
<1>3. \A j \in DailyJobs : Publication(j)' = Publication(j)
  BY SourceRests
<1>4. QED
  BY <1>1, <1>2, <1>3

LEMMA PublishedRests ==
    ASSUME StoreInv, Kept, UNCHANGED row, now' \in Nat, now <= now',
           \A k \in DOMAIN att' : att'[k].status = "running" /\ att'[k].run.status = "COMPLETE" =>
              k \in DOMAIN att /\ att[k].status = "running" /\ att[k].run.status = "COMPLETE"
    PROVE  PublishedInv'
<1>1. SUFFICES ASSUME NEW k \in DOMAIN att', att'[k].status = "running",
                      att'[k].run.status = "COMPLETE"
               PROVE  Published(k)'
  BY DEF PublishedInv
<1>2. k \in DOMAIN att /\ att[k].status = "running" /\ att[k].run.status = "COMPLETE"
  BY <1>1
<1>3. Published(k) /\ att'[k].job = att[k].job /\ att[k].job \in DailyJobs
  <2>1. att[k] \in AttemptType
    BY <1>2, LenProperties, ElementOfSeq DEF StoreInv, RadarInv, TypeInv
  <2>2. QED
    BY <1>2, <2>1 DEF StoreInv, PublishedInv, Kept, AttemptType
<1>4. Publication(att[k].job)' = Publication(att[k].job)
  <2> DEFINE j == att[k].job
  <2> HIDE DEF j
  <2>1. j \in DailyJobs
    BY <1>3 DEF j
  <2>2. now \in Nat /\ RowsInv
    BY DEF StoreInv, RadarInv, TypeInv
  <2>3. \A x \in DailyJobs : Publication(x)' = Publication(x)
    BY <2>2, RowsRest
  <2>4. j' = j
    BY <1>3 DEF j
  <2>5. QED
    BY <2>1, <2>3, <2>4 DEF j
<1>5. QED
  BY <1>1, <1>3, <1>4 DEF Published

\* Nothing begins; and no run completes either.
NoneBegins ==
    \A k \in 1..Len(att) :
        /\ att'[k].run.started = att[k].run.started
        /\ (att'[k].run.status = "none") = (att[k].run.status = "none")
        /\ att[k].run.status = "COMPLETE" => att'[k].run = att[k].run
        /\ att'[k].status = "running" => att[k].status = "running"

Quiet ==
    /\ NoneBegins
    /\ \A k \in 1..Len(att) :
          att'[k].run.status = "COMPLETE" => att[k].run.status = "COMPLETE"

LEMMA SameIsKept ==
    ASSUME RadarInv, NEW ended, SameBut(ended),
           \A k \in 1..Len(att) : att[k].run.status = "COMPLETE" => att'[k].run = att[k].run
    PROVE  /\ Kept /\ DOMAIN att' = DOMAIN att /\ Len(att') = Len(att)
           /\ DOMAIN att = 1..Len(att) /\ Len(att) \in Nat
           /\ \A k \in DOMAIN att : att[k] \in AttemptType /\ att'[k] \in AttemptType
<1>1. att \in Seq(AttemptType) /\ att' \in Seq(AttemptType) /\ Len(att') = Len(att)
  BY DEF RadarInv, TypeInv, SameBut
<1>2. DOMAIN att = 1..Len(att) /\ DOMAIN att' = 1..Len(att) /\ Len(att) \in Nat
  BY <1>1, LenProperties
<1>3. \A k \in DOMAIN att : att[k] \in AttemptType /\ att'[k] \in AttemptType
  BY <1>1, <1>2, ElementOfSeq
<1>4. Kept
  BY <1>2 DEF Kept, SameBut
<1>5. QED
  BY <1>1, <1>2, <1>3, <1>4

LEMMA OrderRests ==
    ASSUME StoreInv, NEW ended, SameBut(ended), NoneBegins, now' \in Nat, now <= now'
    PROVE  OrderInv'
<1>1. /\ DOMAIN att' = DOMAIN att /\ Len(att') = Len(att) /\ DOMAIN att = 1..Len(att)
      /\ Len(att) \in Nat /\ \A k \in DOMAIN att : att[k] \in AttemptType
  BY SameIsKept DEF StoreInv, NoneBegins
<1>2. SUFFICES ASSUME NEW i \in DOMAIN att
               PROVE  /\ att'[i].due = ScheduledAt(att'[i].started)
                      /\ att'[i].target = Target(att'[i].job, att'[i].started)
                      /\ StartTime <= att'[i].started
                      /\ att'[i].status = "running" => i = Len(att)
                      /\ att'[i].run.status # "none" =>
                            att'[i].started <= att'[i].run.started /\ att'[i].run.started <= now'
                      /\ \A k \in DOMAIN att :
                            i < k => /\ att'[i].started <= att'[k].started
                                     /\ att'[i].run.status # "none" /\ att'[k].run.status # "none" =>
                                           att'[i].run.started <= att'[k].run.started
  BY <1>1 DEF OrderInv
<1>3. /\ att[i].due = ScheduledAt(att[i].started)
      /\ att[i].target = Target(att[i].job, att[i].started)
      /\ StartTime <= att[i].started
      /\ att[i].status = "running" => i = Len(att)
      /\ att[i].run.status # "none" =>
            att[i].started <= att[i].run.started /\ att[i].run.started <= now
      /\ \A k \in DOMAIN att :
            i < k => /\ att[i].started <= att[k].started
                     /\ att[i].run.status # "none" /\ att[k].run.status # "none" =>
                           att[i].run.started <= att[k].run.started
  BY DEF StoreInv, OrderInv
<1>4. \A k \in DOMAIN att :
         /\ att'[k].job = att[k].job /\ att'[k].due = att[k].due /\ att'[k].target = att[k].target
         /\ att'[k].started = att[k].started
         /\ att'[k].run.started = att[k].run.started
         /\ (att'[k].run.status = "none") = (att[k].run.status = "none")
         /\ att'[k].status = "running" => att[k].status = "running"
  BY <1>1 DEF SameBut, NoneBegins
<1>5. att[i].run.started \in Nat /\ now \in Nat
  BY <1>1 DEF AttemptType, RunType, StoreInv, RadarInv, TypeInv
<1>6. att'[i].run.status # "none" => att'[i].run.started <= now'
  BY <1>3, <1>4, <1>5
<1>7. QED
  BY <1>3, <1>4, <1>6

LEMMA BreadthRests ==
    ASSUME StoreInv, NEW ended, SameBut(ended), DatesOf("prices") \subseteq DatesOf("prices")'
    PROVE  BreadthInv'
<1>1. DOMAIN att' = 1..Len(att) /\ DOMAIN att = 1..Len(att)
  BY LenProperties DEF StoreInv, RadarInv, TypeInv, SameBut
<1>2. \A k \in 1..Len(att) : att'[k].job = att[k].job /\ att'[k].target = att[k].target
  BY DEF SameBut
<1>3. \A i \in 1..Len(att) :
         att[i].job = "breadth" => \E e \in DatesOf("prices")' : e >= att[i].target
  BY <1>1 DEF StoreInv, BreadthInv
<1>4. QED
  BY <1>1, <1>2, <1>3 DEF BreadthInv

\* No row changes, no run begins or completes.
LEMMA StoreRests ==
    ASSUME StoreInv, NEW ended, SameBut(ended), Quiet, UNCHANGED row, now' \in Nat, now <= now'
    PROVE  /\ OrderInv' /\ RowsInv' /\ PublishedInv' /\ BreadthInv'
           /\ \A table \in Tables : DatesOf(table)' = DatesOf(table)
           /\ \A j \in DailyJobs : Publication(j)' = Publication(j)
<1>1. /\ Kept /\ DOMAIN att' = DOMAIN att /\ DOMAIN att = 1..Len(att)
  BY SameIsKept DEF StoreInv, Quiet, NoneBegins
<1>2. RowsInv /\ now \in Nat
  BY DEF StoreInv, RadarInv, TypeInv
<1>3. /\ RowsInv' /\ \A table \in Tables : DatesOf(table)' = DatesOf(table)
      /\ \A j \in DailyJobs : Publication(j)' = Publication(j)
  BY <1>1, <1>2, RowsRest
<1>4. PublishedInv'
  BY <1>1, PublishedRests DEF Quiet, NoneBegins
<1>5. BreadthInv'
  <2>1. "prices" \in Tables
    BY DEF Tables, DailyJobs
  <2>2. DatesOf("prices") \subseteq DatesOf("prices")'
    BY <1>3, <2>1
  <2>3. QED
    BY <2>2, BreadthRests
<1>6. OrderInv'
  BY OrderRests DEF Quiet
<1>7. QED
  BY <1>3, <1>4, <1>5, <1>6

\* No attempt ends.
LEMMA AuditRests ==
    ASSUME StoreInv, SameBut({}),
           \A k \in 1..Len(att) : att[k].run.status = "COMPLETE" => att'[k].run = att[k].run,
           \A k \in 1..Len(att) : att'[k].run.status = "COMPLETE" =>
              att[k].run.status = "COMPLETE" \/ att[k].status = "running",
           \A j \in DailyJobs : DatesOf(j) \subseteq DatesOf(j)'
    PROVE  AuditsAgree'
<1>1. /\ DOMAIN att' = DOMAIN att /\ DOMAIN att = 1..Len(att)
      /\ \A k \in DOMAIN att : att[k] \in AttemptType
  BY SameIsKept DEF StoreInv
<1>2. SUFFICES ASSUME NEW i \in DOMAIN att
               PROVE  /\ att'[i].status = "complete" =>
                            /\ att'[i].run.status = "COMPLETE"
                            /\ \E d \in 0..MaxDay :
                                  row'[att'[i].job][d] # None /\ d >= att'[i].target
                      /\ att'[i].run.status = "COMPLETE" =>
                            att'[i].status \in {"running", "complete", "waiting_source"}
  BY <1>1 DEF AuditsAgree, DatesOf
<1>3. att'[i].status = att[i].status /\ att'[i].job = att[i].job /\ att'[i].target = att[i].target
      /\ att[i].job \in DailyJobs
  BY <1>1 DEF SameBut, AttemptType
<1>4. /\ att[i].status = "complete" =>
            /\ att[i].run.status = "COMPLETE"
            /\ \E d \in 0..MaxDay : row[att[i].job][d] # None /\ d >= att[i].target
      /\ att[i].run.status = "COMPLETE" =>
            att[i].status \in {"running", "complete", "waiting_source"}
  BY DEF StoreInv, AuditsAgree, DatesOf
<1>5. \A j \in DailyJobs : \A d \in 0..MaxDay : row[j][d] # None => row'[j][d] # None
  BY DEF DatesOf
<1>6. QED
  BY <1>1, <1>3, <1>4, <1>5

LEMMA KnownSoFar ==
    ASSUME StoreInv
    PROVE  /\ StartTime \in Nat /\ now \in Nat /\ svc \in SvcType /\ svc.at \in Nat /\ svc.at <= now
           /\ \A k \in DOMAIN att :
                 /\ att[k] \in AttemptType /\ att[k].started \in Nat /\ att[k].started <= now
                 /\ att[k].run \in RunType /\ att[k].run.started \in Nat /\ att[k].job \in DailyJobs
                 /\ att[k].job \in PriceJobs =>
                       /\ att[k].target = ExpectedPriceDate(att[k].started)
                       /\ att[k].target \in Nat /\ att[k].target < Day(att[k].started)
<1>1. StartTime \in Nat /\ now \in Nat /\ svc \in SvcType /\ svc.at \in Nat /\ svc.at <= now
      /\ att \in Seq(AttemptType)
  BY DailyAssumption DEF StoreInv, RadarInv, TypeInv, SvcInv, SvcType
<1>2. \A k \in DOMAIN att : att[k] \in AttemptType
  BY <1>1, LenProperties, ElementOfSeq
<1>3. \A k \in DOMAIN att :
         /\ att[k].started \in Nat /\ att[k].run \in RunType /\ att[k].run.started \in Nat
         /\ att[k].job \in DailyJobs /\ att[k].started <= now /\ StartTime <= att[k].started
         /\ att[k].target = Target(att[k].job, att[k].started)
  BY <1>2 DEF AttemptType, RunType, StoreInv, RadarInv, RetryInv, OrderInv
<1>4. ASSUME NEW k \in DOMAIN att, att[k].job \in PriceJobs
      PROVE  /\ att[k].target = ExpectedPriceDate(att[k].started)
             /\ att[k].target \in Nat /\ att[k].target < Day(att[k].started)
  <2>1. att[k].target = ExpectedPriceDate(att[k].started)
    BY <1>3, <1>4 DEF Target
  <2>2. att[k].started <= att[k].started
    BY <1>3
  <2>3. QED
    BY <1>3, <2>1, <2>2, PriceDates
<1>5. QED
  BY <1>1, <1>2, <1>3, <1>4

LEMMA NothingOnRecord ==
    ASSUME StoreInv, UNCHANGED store PROVE SameBut({}) /\ Quiet
  BY SameStore DEF store, StoreInv, RadarInv, Quiet, NoneBegins

\* A run that was not complete fails.
LEMMA FailIsQuiet ==
    ASSUME StoreInv, NEW i \in DOMAIN att, NEW t \in Nat, FailRun(i, t)
    PROVE  /\ SameBut({}) /\ Quiet /\ UNCHANGED row
           /\ att'[i].run.status = "FAILED" /\ att'[i].run.started = att[i].run.started
<1>1. /\ SameBut({}) /\ SameRuns({i})
      /\ att'[i].run = [status |-> "FAILED", started |-> att[i].run.started, completed |-> t]
  BY RunEnds DEF FailRun, StoreInv, RadarInv
<1>2. att[i].run.status = "RUNNING" /\ UNCHANGED row
  BY DEF FailRun
<1>3. \A k \in 1..Len(att) : att'[k].status = att[k].status
  BY <1>1 DEF SameBut
<1>4. \A k \in 1..Len(att) : k # i => att'[k].run = att[k].run
  BY <1>1 DEF SameRuns
<1>5. att'[i].run.status = "FAILED" /\ att'[i].run.started = att[i].run.started
  BY <1>1
<1>6. QED
  BY <1>1, <1>2, <1>3, <1>4, <1>5 DEF Quiet, NoneBegins

-----------------------------------------------------------------------------
(* Each step.                                                               *)

LEMMA StoreDecision ==
    ASSUME StoreInv, BeginTick \/ EndTick \/ \E j \in jobs : ReportComplete(j) \/ Postpone(j)
    PROVE  StoreInv'
<1>1. UNCHANGED <<store, now>> /\ svc.step \in {"idle", "job"}
  BY DEF BeginTick, EndTick, ReportComplete, Postpone, InHand
<1>2. /\ now \in Nat /\ svc \in SvcType
      /\ \A k \in DOMAIN att : att[k].started \in Nat /\ att[k].started <= now
  BY KnownSoFar
<1>3. SameBut({}) /\ Quiet /\ now' = now /\ now' \in Nat /\ now <= now'
  BY <1>1, <1>2, NothingOnRecord
<1>4. RadarInv'
  BY DecisionKeeps DEF StoreInv
<1>5. UNCHANGED <<att, row>>
  BY <1>1 DEF store
<1>6. OrderInv' /\ RowsInv' /\ PublishedInv' /\ BreadthInv'
  BY <1>3, <1>5, StoreRests
<1>7. AuditsAgree'
  BY <1>5 DEF StoreInv, AuditsAgree, DatesOf
<1>8. svc'.step \in {"idle", "job"} /\ (svc'.step = "job" => svc'.at = now)
  BY <1>2 DEF BeginTick, EndTick, Postpone, ReportComplete, InHand, SvcType
<1>9. ClockInv' /\ SyncInv'
  BY <1>2, <1>3, <1>5, <1>8 DEF StoreInv, ClockInv, SyncInv, SyncSteps
<1>10. QED
  BY <1>4, <1>6, <1>7, <1>9 DEF StoreInv

LEMMA StoreProcess ==
    ASSUME StoreInv,
           \/ ProcessEnds \/ DatabaseFails \/ CatalogReplaced \/ StartService \/ EndRecovery
           \/ TimePasses \/ \E i \in DOMAIN att : RecoverRun(i)
    PROVE  StoreInv'
<1>1. /\ now \in Nat /\ svc \in SvcType
      /\ StartTime \in Nat /\ MaxTime \in Nat /\ StartTime <= now /\ now <= MaxTime
      /\ svc.step \in SyncSteps => svc.cur \in DOMAIN att
  BY KnownSoFar, DailyAssumption DEF StoreInv, ClockInv, RadarInv, SvcInv
<1>2. RadarInv'
  BY ProcessKeeps DEF StoreInv
<1>3. now' \in Nat /\ now <= now' /\ now' <= MaxTime
  BY <1>1 DEF ProcessEnds, DatabaseFails, CatalogReplaced, StartService, EndRecovery, TimePasses,
     RecoverRun
<1>4. SameBut({}) /\ Quiet /\ UNCHANGED row
  <2>1. CASE UNCHANGED store
    BY <2>1, NothingOnRecord DEF store
  <2>2. CASE DatabaseFails
    BY <1>1, <2>2, FailIsQuiet DEF DatabaseFails, SyncSteps
  <2>3. CASE \E i \in DOMAIN att : RecoverRun(i)
    BY <1>1, <2>3, FailIsQuiet DEF RecoverRun
  <2>4. QED
    BY <2>1, <2>2, <2>3 DEF ProcessEnds, CatalogReplaced, StartService, EndRecovery, TimePasses
<1>5. OrderInv' /\ RowsInv' /\ PublishedInv' /\ BreadthInv'
      /\ \A table \in Tables : DatesOf(table)' = DatesOf(table)
  BY <1>3, <1>4, StoreRests
<1>6. AuditsAgree'
  BY <1>4, <1>5, AuditRests DEF Quiet, NoneBegins, Tables
<1>7. ClockInv' /\ SyncInv'
  <2>1. CASE svc'.step \in {"down", "recover", "idle"}
    BY <1>1, <1>3, <2>1 DEF ClockInv, SyncInv, SyncSteps
  <2>2. CASE svc' = Down \/ StartService \/ EndRecovery
    BY <1>1, <2>1, <2>2 DEF StartService, EndRecovery, Down, SvcType
  <2>3. CASE CatalogReplaced \/ \E i \in DOMAIN att : RecoverRun(i)
    BY <2>1, <2>3 DEF CatalogReplaced, RecoverRun
  <2>4. CASE TimePasses
    <3>1. UNCHANGED <<svc, att>>
      BY <2>4 DEF TimePasses, store
    <3>2. QED
      BY <1>1, <1>3, <3>1 DEF StoreInv, ClockInv, SyncInv
  <2>5. QED
    BY <2>2, <2>3, <2>4 DEF ProcessEnds, DatabaseFails
<1>8. QED
  BY <1>2, <1>5, <1>6, <1>7 DEF StoreInv

\* The attempt in hand is the last one.
LEMMA SyncStays ==
    ASSUME StoreInv, svc.step \in SyncSteps, svc'.step \in SyncSteps, svc'.cur = svc.cur,
           now' = now, SameBut({})
    PROVE  ClockInv'
<1>1. /\ svc.cur \in DOMAIN att /\ svc.cur = Len(att) /\ Len(att') = Len(att)
      /\ DOMAIN att = 1..Len(att) /\ svc'.step # "job"
      /\ StartTime <= now /\ now <= MaxTime /\ att[svc.cur].status = "running"
  BY LenProperties DEF StoreInv, RadarInv, SvcInv, ClockInv, TypeInv, SameBut, SyncSteps
<1>2. att'[svc.cur].status = "running"
  BY <1>1 DEF SameBut
<1>3. QED
  BY <1>1, <1>2 DEF ClockInv

LEMMA StoreSync ==
    ASSUME StoreInv,
           \/ PipelineWrites \/ PipelineEnds \/ AnswerArrives
           \/ \E o \in Outcomes : \/ FailEarly(o) \/ SyncFails(o) \/ SyncFailsUnrecorded(o)
                                  \/ \E torn \in BOOLEAN : PipelineFails(o, torn)
    PROVE  StoreInv'
<1>1. /\ svc.step \in SyncSteps /\ svc.cur \in DOMAIN att /\ svc \in SvcType /\ now \in Nat
      /\ DOMAIN att = 1..Len(att) /\ now <= now
      /\ att[svc.cur].run.started \in Nat
      /\ att[svc.cur].run.status # "none" => att[svc.cur].run.started <= now
  <2>1. svc.step \in SyncSteps
    BY DEF PipelineWrites, PipelineEnds, AnswerArrives, FailEarly, SyncFails,
       SyncFailsUnrecorded, PipelineFails, SyncSteps
  <2>2. QED
    BY <2>1, KnownSoFar, LenProperties DEF StoreInv, RadarInv, SvcInv, OrderInv, TypeInv
<1>2. UNCHANGED now
  BY DEF PipelineWrites, PipelineEnds, AnswerArrives, FailEarly, SyncFails,
     SyncFailsUnrecorded, PipelineFails
<1>3. RadarInv'
  BY SyncKeeps DEF StoreInv
<1>4. SameBut({}) /\ Quiet /\ UNCHANGED row
  <2>1. CASE UNCHANGED store
    BY <2>1, NothingOnRecord DEF store
  <2>2. CASE FailRun(svc.cur, now)
    BY <1>1, <2>2, FailIsQuiet
  <2>3. QED
    BY <2>1, <2>2 DEF PipelineWrites, PipelineEnds, AnswerArrives, FailEarly, SyncFails,
       SyncFailsUnrecorded, PipelineFails
<1>5. OrderInv' /\ RowsInv' /\ PublishedInv' /\ BreadthInv'
      /\ \A table \in Tables : DatesOf(table)' = DatesOf(table)
  BY <1>1, <1>2, <1>4, StoreRests
<1>6. AuditsAgree'
  BY <1>4, <1>5, AuditRests DEF Quiet, NoneBegins, Tables
<1>7. /\ svc'.cur = svc.cur
      /\ svc'.step \in {"writing", "answer", "publish", "failed"}
  BY <1>1 DEF PipelineWrites, PipelineEnds, AnswerArrives, FailEarly, SyncFails,
     SyncFailsUnrecorded, PipelineFails, FailsWith, SvcType
<1>10. ClockInv'
  BY <1>1, <1>2, <1>4, <1>7, SyncStays DEF SyncSteps
<1>11. /\ att'[svc.cur].job = This.job /\ att'[svc.cur].target = This.target
       /\ att'[svc.cur].run.started = This.run.started
  BY <1>1, <1>4 DEF SameBut, Quiet, NoneBegins, This
<1>12. SyncInv'
  <2>1. CASE PipelineWrites
    <3>1. svc'.step = "writing" /\ UNCHANGED att /\ svc.step = "pipeline"
      BY <1>1, <2>1 DEF PipelineWrites, SvcType, store
    <3>2. QED
      BY <1>1, <1>7, <3>1 DEF SyncInv, StoreInv
  <2>2. CASE PipelineEnds
    <3>1. /\ svc'.step \in {"answer", "publish"} /\ UNCHANGED att /\ svc.step = "writing"
          /\ svc'.at = now
      BY <1>1, <2>2 DEF PipelineEnds, SvcType, store
    <3>2. This.job \in PriceJobs /\ This.run.status = "RUNNING"
      BY <1>1, <3>1 DEF SyncInv, StoreInv, This
    <3>3. This.run.started <= now
      BY <1>1, <3>2 DEF This
    <3>4. QED
      BY <1>1, <1>7, <3>1, <3>2, <3>3 DEF SyncInv, This
  <2>3. CASE AnswerArrives
    <3>1. /\ svc'.step = "publish" /\ UNCHANGED att /\ svc.step = "answer"
          /\ svc'.at = now /\ SameCapture
      BY <1>1, <2>3 DEF AnswerArrives, SvcType, store
    <3>2. This.run.status = "RUNNING"
      BY <1>1, <3>1 DEF SyncInv, StoreInv, This
    <3>3. This.run.started <= now
      BY <1>1, <3>2 DEF This
    <3>4. QED
      BY <1>1, <1>7, <3>1, <3>2, <3>3 DEF SyncInv, This, SameCapture
  <2>4. ASSUME NEW o \in Outcomes,
               \/ FailEarly(o) \/ SyncFails(o) \/ SyncFailsUnrecorded(o)
               \/ \E torn \in BOOLEAN : PipelineFails(o, torn)
        PROVE  SyncInv'
    <3>1. svc'.step = "failed"
      BY <1>1, <2>4 DEF FailEarly, SyncFails, SyncFailsUnrecorded, PipelineFails, FailsWith, SvcType
    <3>2. att[svc.cur].run.status # "COMPLETE"
      BY <1>1, <2>4 DEF FailEarly, SyncFails, SyncFailsUnrecorded, PipelineFails, SyncInv, StoreInv
    <3>3. att'[svc.cur].run.status # "COMPLETE"
      BY <1>1, <1>4, <3>2 DEF Quiet, NoneBegins
    <3>4. QED
      BY <1>7, <3>1, <3>3 DEF SyncInv
  <2>5. QED
    BY <2>1, <2>2, <2>3, <2>4
<1>13. QED
  BY <1>3, <1>5, <1>6, <1>10, <1>12 DEF StoreInv

LEMMA StoreBeginRun ==
    ASSUME StoreInv, BeginRun PROVE StoreInv'
<1> DEFINE c == svc.cur
<1>1. /\ svc.step = "sync" /\ svc.step \in SyncSteps /\ c \in DOMAIN att /\ c = Len(att)
      /\ svc \in SvcType /\ now \in Nat /\ now <= now /\ DOMAIN att = 1..Len(att)
      /\ att[c].run.status = "none" /\ UNCHANGED <<now, row>> /\ StartRun(c, now)
      /\ svc' = [svc EXCEPT !.step = IF This.job \in PriceJobs THEN "pipeline" ELSE "answer"]
  BY KnownSoFar, LenProperties
  DEF BeginRun, StartRun, SyncSteps, StoreInv, RadarInv, TypeInv, SvcInv, ClockInv
<1>2. /\ SameBut({}) /\ SameRuns({c})
      /\ att'[c].run = [status |-> "RUNNING", started |-> now, completed |-> 0]
  BY <1>1, RunStarts DEF StoreInv, RadarInv
<1>3. RadarInv'
  BY SyncKeeps DEF StoreInv
<1>4. /\ \A k \in 1..Len(att) : k # c => att'[k].run = att[k].run
      /\ att'[c].run.status = "RUNNING" /\ att'[c].run.started = now
      /\ \A k \in 1..Len(att) :
            /\ att'[k].job = att[k].job /\ att'[k].due = att[k].due
            /\ att'[k].target = att[k].target /\ att'[k].started = att[k].started
            /\ att'[k].status = att[k].status
  BY <1>2 DEF SameRuns, SameBut
<1> HIDE DEF c
<1>5. /\ \A k \in 1..Len(att) : att[k].run.status = "COMPLETE" => att'[k].run = att[k].run
      /\ \A k \in 1..Len(att) : att'[k].run.status = "COMPLETE" => att[k].run.status = "COMPLETE"
  BY <1>1, <1>4
<1>6. Kept /\ DOMAIN att' = DOMAIN att /\ Len(att') = Len(att)
  BY <1>2, <1>5, SameIsKept DEF StoreInv
<1>7. /\ RowsInv' /\ \A table \in Tables : DatesOf(table)' = DatesOf(table)
  BY <1>1, <1>6, RowsRest DEF StoreInv
<1>8. PublishedInv'
  BY <1>1, <1>4, <1>5, <1>6, PublishedRests
<1>9. BreadthInv' /\ AuditsAgree'
  BY <1>2, <1>5, <1>7, BreadthRests, AuditRests DEF Tables, DailyJobs
<1>10. /\ svc'.step \in {"pipeline", "answer"} /\ svc'.cur = svc.cur
       /\ svc'.step = "pipeline" <=> This.job \in PriceJobs
  BY <1>1 DEF SvcType
<1>11. ClockInv'
  BY <1>1, <1>2, <1>10, SyncStays DEF SyncSteps
<1>12. SyncInv'
  BY <1>1, <1>4, <1>10 DEF SyncInv, This, c
<1>13. OrderInv'
  <2>1. SUFFICES ASSUME NEW i \in 1..Len(att)
                 PROVE  /\ att'[i].due = ScheduledAt(att'[i].started)
                        /\ att'[i].target = Target(att'[i].job, att'[i].started)
                        /\ StartTime <= att'[i].started
                        /\ att'[i].status = "running" => i = Len(att)
                        /\ att'[i].run.status # "none" =>
                              att'[i].started <= att'[i].run.started /\ att'[i].run.started <= now
                        /\ \A k \in 1..Len(att) :
                              i < k => /\ att'[i].started <= att'[k].started
                                       /\ att'[i].run.status # "none" /\ att'[k].run.status # "none" =>
                                             att'[i].run.started <= att'[k].run.started
    BY <1>1, <1>6 DEF OrderInv
  <2>2. /\ att[i].due = ScheduledAt(att[i].started)
        /\ att[i].target = Target(att[i].job, att[i].started)
        /\ StartTime <= att[i].started /\ att[i].started <= now
        /\ att[i].status = "running" => i = Len(att)
        /\ att[i].run.status # "none" =>
              att[i].started <= att[i].run.started /\ att[i].run.started <= now
        /\ \A k \in 1..Len(att) :
              i < k => /\ att[i].started <= att[k].started
                       /\ att[i].run.status # "none" /\ att[k].run.status # "none" =>
                           att[i].run.started <= att[k].run.started
    BY <1>1, KnownSoFar DEF StoreInv, OrderInv
  <2>3. CASE i = c
    BY <1>1, <1>4, <2>2, <2>3
  <2>4. CASE i # c
    BY <1>1, <1>4, <2>2, <2>4
  <2>5. QED
    BY <2>3, <2>4
<1>14. QED
  BY <1>3, <1>7, <1>8, <1>9, <1>11, <1>12, <1>13 DEF StoreInv

-----------------------------------------------------------------------------
(* A publication.                                                           *)

RowTables == [Tables -> [0..MaxDay -> Rows \cup {None}]]

Put(R, table, d, v) == [R EXCEPT ![table][d] = v]

LEMMA OneWrite ==
    ASSUME NEW R \in RowTables, NEW table \in Tables, NEW d \in 0..MaxDay, NEW v \in Rows, NEW S,
           S = Put(R, table, d, v)
    PROVE  /\ S \in RowTables
           /\ \A u \in Tables, e \in 0..MaxDay :
                 S[u][e] = IF u = table /\ e = d THEN v ELSE R[u][e]
<1>1. PICK f \in [0..MaxDay -> Rows \cup {None}] : f = [R[table] EXCEPT ![d] = v]
  BY DEF RowTables
<1>2. \A e \in 0..MaxDay : f[e] = IF e = d THEN v ELSE R[table][e]
  BY <1>1 DEF RowTables
<1>3. S = [R EXCEPT ![table] = f]
  BY <1>1 DEF Put
<1>4. S \in RowTables
  BY <1>1, <1>3 DEF RowTables
<1>5. ASSUME NEW u \in Tables, NEW e \in 0..MaxDay
      PROVE  S[u][e] = IF u = table /\ e = d THEN v ELSE R[u][e]
  <2>1. CASE u = table
    <3>1. S[u] = f
      BY <1>3, <2>1 DEF RowTables
    <3>2. QED
      BY <1>2, <2>1, <3>1
  <2>2. CASE u # table
    <3>1. S[u] = R[u]
      BY <1>3, <2>2 DEF RowTables
    <3>2. QED
      BY <2>2, <3>1
  <2>3. QED
    BY <2>1, <2>2
<1>6. QED
  BY <1>4, <1>5

\* The rows a run may write for a date.
RowsBy(c, d, t) ==
    {r \in Rows : /\ r.run = c /\ r.at = t
                  /\ r.payload.asOf = d /\ r.payload.at = t /\ r.payload.of <= d}

LEMMA RowIsOne ==
    ASSUME NEW c \in Nat, NEW d \in Nat, NEW t \in Nat, NEW ready \in BOOLEAN, NEW of \in Int, of <= d
    PROVE  Row(c, d, t, ready, of) \in RowsBy(c, d, t)
<1> DEFINE p == [asOf |-> d, at |-> t, ready |-> ready, of |-> of]
<1>1. p \in Payloads /\ p.asOf = d /\ p.at = t /\ p.of <= d
  BY DEF Payloads
<1>2. Row(c, d, t, ready, of) = [run |-> c, at |-> t, payload |-> p]
  BY DEF Row
<1> HIDE DEF p
<1>3. QED
  BY <1>1, <1>2 DEF RowsBy, Rows

\* A publication writes the row of its date into each of its tables, and nothing else.
Writes(c, j, d, t) ==
    /\ row' \in RowTables
    /\ \A u \in Tables, e \in 0..MaxDay :
          IF Source(u) = j /\ e = d THEN row'[u][e] \in RowsBy(c, d, t)
          ELSE row'[u][e] = row[u][e]
    /\ row'["calendar"] = row'["earnings"]

LEMMA WritesOne ==
    ASSUME RowsInv, NEW c \in Nat, NEW j \in DailyJobs \ {"macro", "earnings"}, NEW d \in 0..MaxDay,
           NEW t \in Nat, NEW v \in RowsBy(c, d, t), row' = [row EXCEPT ![j][d] = v]
    PROVE  Writes(c, j, d, t)
<1>1. row \in RowTables /\ j \in Tables /\ v \in Rows
  BY DEF RowsInv, RowTables, Tables, RowsBy
<1>2. /\ row' \in RowTables
      /\ \A u \in Tables, e \in 0..MaxDay :
            row'[u][e] = IF u = j /\ e = d THEN v ELSE row[u][e]
  <2>1. PICK R, S : R = row /\ S = row'
    OBVIOUS
  <2>2. R \in RowTables /\ S = Put(R, j, d, v)
    BY <1>1, <2>1 DEF Put
  <2>3. /\ S \in RowTables
        /\ \A u \in Tables, e \in 0..MaxDay : S[u][e] = IF u = j /\ e = d THEN v ELSE R[u][e]
    BY <1>1, <2>2, OneWrite
  <2>4. QED
    BY <2>1, <2>3
<1>3. \A u \in Tables : Source(u) = j <=> u = j
  BY DEF Source, Tables, DailyJobs
<1>4. row'["calendar"] = row'["earnings"]
  <2>1. row["calendar"] = row["earnings"] /\ "calendar" # j /\ "earnings" # j
    BY DEF RowsInv, DailyJobs
  <2>2. row' = [row EXCEPT ![j] = [row[j] EXCEPT ![d] = v]]
    OBVIOUS
  <2>3. row'["calendar"] = row["calendar"] /\ row'["earnings"] = row["earnings"]
    BY <1>1, <2>1, <2>2 DEF RowTables, Tables, DailyJobs
  <2>4. QED
    BY <2>1, <2>3
<1>5. QED
  BY <1>2, <1>3, <1>4 DEF Writes

LEMMA SameFunction ==
    ASSUME NEW S, NEW X, NEW f \in [S -> X], NEW g \in [S -> X], \A e \in S : f[e] = g[e]
    PROVE  f = g
  OBVIOUS

LEMMA WritesTwo ==
    ASSUME RowsInv, NEW c \in Nat, NEW d \in 0..MaxDay, NEW t \in Nat,
           NEW v \in RowsBy(c, d, t), NEW w \in RowsBy(c, d, t), NEW j, NEW twin,
           \/ j = "macro" /\ twin = "risk"
           \/ j = "earnings" /\ twin = "calendar" /\ v = w,
           row' = [row EXCEPT ![j][d] = v, ![twin][d] = w]
    PROVE  Writes(c, j, d, t)
<1>1. /\ row \in RowTables /\ v \in Rows /\ w \in Rows /\ row["calendar"] = row["earnings"]
      /\ "earnings" \in Tables /\ "calendar" \in Tables /\ j \in Tables /\ twin \in Tables
      /\ j # twin
  BY DEF RowsInv, RowTables, Tables, DailyJobs, RowsBy
<1>2. PICK R, S, T : R = row /\ T = row' /\ S = Put(R, j, d, v)
  OBVIOUS
<1>0. R \in RowTables /\ j \in Tables /\ v \in Rows /\ S = Put(R, j, d, v)
  BY <1>1, <1>2
<1>3. T = Put(S, twin, d, w)
  BY <1>2 DEF Put
<1>4. /\ S \in RowTables
      /\ \A u \in Tables, e \in 0..MaxDay : S[u][e] = IF u = j /\ e = d THEN v ELSE R[u][e]
  BY <1>0, OneWrite
<1>5. /\ T \in RowTables
      /\ \A u \in Tables, e \in 0..MaxDay : T[u][e] = IF u = twin /\ e = d THEN w ELSE S[u][e]
  <2>1. S \in RowTables /\ twin \in Tables /\ w \in Rows
    BY <1>1, <1>4
  <2>2. QED
    BY <1>3, <2>1, OneWrite
<1>6. \A u \in Tables : Source(u) = j <=> u \in {j, twin}
  BY DEF Source, Tables, DailyJobs
<1>7. T["calendar"] = T["earnings"]
  <2>1. SUFFICES ASSUME NEW e \in 0..MaxDay PROVE T["calendar"][e] = T["earnings"][e]
    <3>1. PICK f, g : f = T["calendar"] /\ g = T["earnings"]
      OBVIOUS
    <3>2. f \in [0..MaxDay -> Rows \cup {None}] /\ g \in [0..MaxDay -> Rows \cup {None}]
      BY <1>1, <1>5, <3>1 DEF RowTables
    <3>3. SUFFICES ASSUME \A e \in 0..MaxDay : f[e] = g[e] PROVE f = g
      BY <3>1
    <3>4. PICK D, X : D = 0..MaxDay /\ X = Rows \cup {None}
      OBVIOUS
    <3>5. f \in [D -> X] /\ g \in [D -> X] /\ \A e \in D : f[e] = g[e]
      BY <3>2, <3>3, <3>4
    <3>6. QED
      BY <3>5, SameFunction
  <2>2. R["calendar"][e] = R["earnings"][e]
    BY <1>1, <1>2
  <2>3. CASE j = "macro" /\ twin = "risk"
    BY <1>1, <1>4, <1>5, <2>2, <2>3
  <2>4. CASE j = "earnings" /\ twin = "calendar" /\ v = w
    BY <1>1, <1>4, <1>5, <2>2, <2>4
  <2>5. QED
    BY <2>3, <2>4
<1>8. ASSUME NEW u \in Tables, NEW e \in 0..MaxDay
      PROVE  IF Source(u) = j /\ e = d THEN T[u][e] \in RowsBy(c, d, t) ELSE T[u][e] = R[u][e]
  BY <1>1, <1>4, <1>5, <1>6
<1>9. row' \in RowTables /\ row'["calendar"] = row'["earnings"]
  BY <1>2, <1>5, <1>7
<1>10. \A u \in Tables, e \in 0..MaxDay :
          IF Source(u) = j /\ e = d THEN row'[u][e] \in RowsBy(c, d, t) ELSE row'[u][e] = row[u][e]
  BY <1>2, <1>8
<1>11. QED
  BY <1>9, <1>10 DEF Writes

LEMMA PublishWrites ==
    ASSUME RowsInv, NEW c \in Nat, NEW j \in DailyJobs, att[c].job = j, NEW d \in 0..MaxDay,
           NEW t \in Nat, NEW ready \in BOOLEAN, NEW of \in Int, of <= d,
           PublishSource(c, d, t, ready, of)
    PROVE  Writes(c, j, d, t) /\ CompleteRun(c, t)
<1>1. d \in Nat /\ d \in Int /\ d <= d /\ TRUE \in BOOLEAN
  BY DailyAssumption
<1>2. /\ Row(c, d, t, ready, d) \in RowsBy(c, d, t) /\ Row(c, d, t, TRUE, of) \in RowsBy(c, d, t)
      /\ Row(c, d, t, TRUE, d) \in RowsBy(c, d, t)
  BY <1>1, RowIsOne
<1>3. ASSUME NEW x \in DailyJobs \ {"macro", "earnings"}, j = x,
             NEW v \in RowsBy(c, d, t), row' = [row EXCEPT ![x][d] = v]
      PROVE  Writes(c, j, d, t)
  BY <1>3, WritesOne
<1>4. CASE j = "prices" /\ PublishPrices(c, d, t, ready)
  BY <1>2, <1>3, <1>4 DEF PublishPrices, DailyJobs
<1>5. CASE j = "breadth" /\ PublishBreadth(c, d, t, of)
  BY <1>2, <1>3, <1>5 DEF PublishBreadth, DailyJobs
<1>6. CASE j = "fundamentals" /\ PublishFundamentals(c, d, t)
  BY <1>2, <1>3, <1>6 DEF PublishFundamentals, DailyJobs
<1>7. CASE j = "economic_events" /\ PublishEconomicEvents(c, d, t)
  BY <1>2, <1>3, <1>7 DEF PublishEconomicEvents, DailyJobs
<1>8. CASE j = "macro" /\ PublishMacro(c, d, t, of)
  <2>1. PICK v, w : v = Row(c, d, t, TRUE, of) /\ w = Row(c, d, t, TRUE, d)
    OBVIOUS
  <2>2. row' = [row EXCEPT !["macro"][d] = v, !["risk"][d] = w] /\ CompleteRun(c, t)
    BY <1>8, <2>1 DEF PublishMacro
  <2>3. v \in RowsBy(c, d, t) /\ w \in RowsBy(c, d, t)
    BY <1>2, <2>1
  <2>4. PICK x, y : x = "macro" /\ y = "risk"
    OBVIOUS
  <2>5. row' = [row EXCEPT ![x][d] = v, ![y][d] = w]
    BY <2>2, <2>4
  <2>6. Writes(c, x, d, t)
    BY <2>3, <2>4, <2>5, WritesTwo
  <2>7. QED
    BY <1>8, <2>2, <2>4, <2>6
<1>9. CASE j = "earnings" /\ PublishEarnings(c, d, t)
  <2>1. PICK v, w : v = Row(c, d, t, TRUE, d) /\ w = Row(c, d, t, TRUE, d)
    OBVIOUS
  <2>2. row' = [row EXCEPT !["earnings"][d] = v, !["calendar"][d] = w] /\ CompleteRun(c, t)
    BY <1>9, <2>1 DEF PublishEarnings
  <2>3. v \in RowsBy(c, d, t) /\ w \in RowsBy(c, d, t) /\ v = w
    BY <1>2, <2>1
  <2>4. PICK x, y : x = "earnings" /\ y = "calendar"
    OBVIOUS
  <2>5. row' = [row EXCEPT ![x][d] = v, ![y][d] = w]
    BY <2>2, <2>4
  <2>6. Writes(c, x, d, t)
    BY <2>3, <2>4, <2>5, WritesTwo
  <2>7. QED
    BY <1>9, <2>2, <2>4, <2>6
<1>10. QED
  BY <1>4, <1>5, <1>6, <1>7, <1>8, <1>9 DEF PublishSource

\* The date of the run in hand is one of the model's, and no row of its source is later.
LEMMA RunIsNewest ==
    ASSUME StoreInv, svc.step = "publish"
    PROVE  /\ svc.cur \in DOMAIN att /\ AsOfDate(svc.cur) \in 0..MaxDay
           /\ AsOfDate(svc.cur) \in Nat /\ This.job \in DailyJobs
           /\ \A e \in DatesOf(This.job) : e <= AsOfDate(svc.cur)
<1> DEFINE c == svc.cur
           a == att[c]
<1>1. /\ c \in DOMAIN att /\ c = Len(att) /\ DOMAIN att = 1..Len(att) /\ Len(att) \in Nat
      /\ a.run.status = "RUNNING" /\ a.job \in DailyJobs
      /\ StartTime <= a.started /\ a.started <= a.run.started /\ a.run.started <= now
      /\ now <= MaxTime /\ StartTime \in Nat /\ MaxTime \in Nat /\ MaxDay \in Nat /\ now \in Nat
      /\ a.started \in Nat /\ a.run.started \in Nat /\ Day(MaxTime) <= MaxDay
      /\ a.job \in PriceJobs => a.target = ExpectedPriceDate(a.started)
  BY KnownSoFar, LenProperties, DailyAssumption
  DEF StoreInv, RadarInv, TypeInv, SvcInv, ClockInv, OrderInv, SyncInv, SyncSteps
<1>2. /\ a.started <= a.started /\ StartTime <= a.run.started /\ a.run.started <= MaxTime
      /\ a.started <= MaxTime
  BY <1>1
<1>3. /\ Day(a.run.started) \in Nat /\ Day(a.run.started) <= MaxDay
      /\ Day(a.started) \in Nat /\ Day(a.started) <= MaxDay
  <2>1. /\ Day(a.run.started) \in Nat /\ Day(a.run.started) <= Day(MaxTime)
        /\ Day(a.started) \in Nat /\ Day(a.started) <= Day(MaxTime) /\ Day(MaxTime) \in Nat
    <3>1. StartTime <= MaxTime /\ MaxTime <= MaxTime
      BY <1>1, <1>2
    <3>2. QED
      BY <1>1, <1>2, <3>1, Days
  <2>2. QED
    BY <1>1, <2>1
<1>4. AsOfDate(c) \in 0..MaxDay /\ AsOfDate(c) \in Nat
  <2>1. CASE a.job \in PriceJobs
    <3>1. AsOfDate(c) = ExpectedPriceDate(a.started)
      BY <1>1, <2>1 DEF AsOfDate
    <3>2. ExpectedPriceDate(a.started) \in Nat /\ ExpectedPriceDate(a.started) < Day(a.started)
      BY <1>1, <1>2, PriceDates
    <3>3. QED
      BY <1>1, <1>3, <3>1, <3>2
  <2>2. CASE a.job \notin PriceJobs
    BY <1>1, <1>3, <2>2 DEF AsOfDate
  <2>3. QED
    BY <2>1, <2>2
<1>5. ASSUME NEW e \in DatesOf(a.job) PROVE e <= AsOfDate(c)
  <2>1. a.job \in Tables /\ Source(a.job) = a.job
    BY <1>1 DEF Tables, Source, DailyJobs
  <2>2. RowHolds(a.job, e)
    BY <2>1 DEF StoreInv, RowsInv
  <2>3. PICK i \in DOMAIN att :
           att[i].job = a.job /\ e = AsOfDate(i) /\ att[i].run.status = "COMPLETE"
    BY <2>1, <2>2 DEF RowHolds, RunOf
  <2>4. i < c
    BY <1>1, <2>3
  <2>5. /\ att[i].started <= a.started /\ att[i].run.started <= a.run.started
        /\ StartTime <= att[i].started /\ att[i].started <= att[i].run.started
    BY <1>1, <2>3, <2>4 DEF StoreInv, OrderInv
  <2>6. /\ att[i].started \in Nat /\ att[i].run.started \in Nat
        /\ att[i].job \in PriceJobs => att[i].target = ExpectedPriceDate(att[i].started)
    BY KnownSoFar
  <2>7. CASE a.job \in PriceJobs
    <3>1. e = ExpectedPriceDate(att[i].started) /\ AsOfDate(c) = ExpectedPriceDate(a.started)
      BY <1>1, <2>3, <2>6, <2>7 DEF AsOfDate
    <3>2. QED
      BY <1>1, <2>5, <2>6, <3>1, PriceDates
  <2>8. CASE a.job \notin PriceJobs
    <3>1. e = Day(att[i].run.started) /\ AsOfDate(c) = Day(a.run.started)
      BY <1>1, <2>3, <2>8 DEF AsOfDate
    <3>2. StartTime <= att[i].run.started
      BY <1>1, <2>5, <2>6
    <3>3. QED
      BY <1>1, <2>5, <2>6, <3>1, <3>2, Days
  <2>9. QED
    BY <2>7, <2>8
<1>6. QED
  BY <1>1, <1>4, <1>5 DEF This

ReadsNewest ==
    \A j \in DailyJobs : \A d \in DatesOf(j) :
        d = Max(DatesOf(j)) =>
           /\ Publication(j) = [run |-> row[j][d].run, asOf |-> d, at |-> row[j][d].at,
                                ready |-> row[j][d].payload.ready]
           /\ Publication(j) \notin {None, Corrupt}

LEMMA NewestIsRead == RowsInv => ReadsNewest
  BY PublicationIs DEF ReadsNewest

\* What a publication reads and writes: the run c of the job j, for the date d at the instant t.
PublishMade(c, j, d, t) ==
    /\ c = svc.cur /\ j = This.job /\ d = AsOfDate(c) /\ t = svc.at
    /\ svc.step = "publish" /\ svc.step \in SyncSteps /\ svc \in SvcType /\ UNCHANGED <<now, catalog>>
    /\ svc' = [svc EXCEPT !.step = "published", !.at = 0]
    /\ c \in DOMAIN att /\ c = Len(att) /\ DOMAIN att = 1..Len(att) /\ Len(att) \in Nat /\ c \in Nat
    /\ d \in 0..MaxDay /\ d \in Nat /\ j \in DailyJobs /\ j = att[c].job /\ j \in Tables
    /\ \A e \in DatesOf(j) : e <= d
    /\ att[c].run.status = "RUNNING" /\ att[c].status = "running"
    /\ att[c].run.started <= t /\ t <= now /\ t \in Nat /\ now \in Nat
    /\ j \notin PriceJobs => Day(t) = d /\ Day(att[c].run.started) = d
    /\ att[c].run \in RunType
    /\ Writes(c, j, d, t) /\ CompleteRun(c, t)
    /\ SameBut({}) /\ SameRuns({c})
    /\ att'[c].run.status = "COMPLETE" /\ att'[c].run.started = att[c].run.started
    /\ att'[c].run.completed = t
    /\ \A k \in 1..Len(att) :
          /\ att'[k].status = att[k].status /\ att'[k].job = att[k].job
          /\ att'[k].target = att[k].target
          /\ k # c => att'[k].run = att[k].run
    /\ NoneBegins /\ Kept /\ DOMAIN att' = DOMAIN att /\ Len(att') = Len(att)
    /\ \A u \in Tables : DatesOf(u) \subseteq DatesOf(u)'
    /\ \A e \in DatesOf(j)' : e \in DatesOf(j) \/ e = d
    /\ d \in DatesOf(j)' /\ row'[j][d].run = c

LEMMA PublishMakes ==
    ASSUME StoreInv, NEW ready \in BOOLEAN, NEW age \in {0, 1}, Publish(ready, age)
    PROVE  \E c, j, d, t : PublishMade(c, j, d, t)
<1>1. PICK c, j, d, t : c = svc.cur /\ j = This.job /\ d = AsOfDate(c) /\ t = svc.at
  OBVIOUS
<1>2. /\ svc.step = "publish" /\ svc.step \in SyncSteps /\ svc \in SvcType /\ UNCHANGED <<now, catalog>>
      /\ svc' = [svc EXCEPT !.step = "published", !.at = 0]
      /\ PublishSource(c, d, t, ready, d - age)
  BY <1>1, KnownSoFar DEF Publish, SyncSteps
<1>3. /\ c \in DOMAIN att /\ c = Len(att) /\ DOMAIN att = 1..Len(att) /\ Len(att) \in Nat /\ c \in Nat
      /\ d \in 0..MaxDay /\ d \in Nat /\ j \in DailyJobs /\ j = att[c].job /\ j \in Tables
      /\ \A e \in DatesOf(j) : e <= d
  BY <1>1, <1>2, RunIsNewest, LenProperties
  DEF StoreInv, RadarInv, TypeInv, ClockInv, This, Tables
<1>4. /\ att[c].run.status = "RUNNING" /\ att[c].status = "running"
      /\ att[c].run.started <= t /\ t <= now /\ t \in Nat /\ now \in Nat /\ now <= now
      /\ j \notin PriceJobs => Day(t) = d /\ Day(att[c].run.started) = d
      /\ att[c].run \in RunType
  BY <1>1, <1>2, <1>3, KnownSoFar DEF StoreInv, SyncInv, ClockInv, AsOfDate
<1>5. Writes(c, j, d, t) /\ CompleteRun(c, t)
  <2>1. d - age \in Int /\ d - age <= d
    BY <1>3
  <2>2. RowsInv /\ att[c].job = j
    BY <1>3 DEF StoreInv
  <2>3. QED
    BY <1>2, <1>3, <1>4, <2>1, <2>2, PublishWrites
<1>6. /\ SameBut({}) /\ SameRuns({c})
      /\ att'[c].run = [status |-> "COMPLETE", started |-> att[c].run.started, completed |-> t]
  BY <1>3, <1>4, <1>5, RunEnds DEF CompleteRun, StoreInv, RadarInv
<1>7. /\ att'[c].run.status = "COMPLETE" /\ att'[c].run.started = att[c].run.started
      /\ att'[c].run.completed = t
      /\ \A k \in 1..Len(att) :
            /\ att'[k].status = att[k].status /\ att'[k].job = att[k].job
            /\ att'[k].target = att[k].target
            /\ k # c => att'[k].run = att[k].run
  BY <1>6 DEF SameBut, SameRuns
<1>8. NoneBegins
  BY <1>3, <1>4, <1>7 DEF NoneBegins
<1>9. Kept /\ DOMAIN att' = DOMAIN att /\ Len(att') = Len(att)
  BY <1>6, <1>8, SameIsKept DEF NoneBegins, StoreInv
<1>10. /\ \A u \in Tables : DatesOf(u) \subseteq DatesOf(u)'
       /\ \A e \in DatesOf(j)' : e \in DatesOf(j) \/ e = d
       /\ d \in DatesOf(j)' /\ row'[j][d].run = c
  <2>1. \A r \in RowsBy(c, d, t) : r # None /\ r.run = c
    BY StoreAssumption DEF RowsBy
  <2>2. Source(j) = j
    BY <1>3 DEF Source, DailyJobs
  <2>3. QED
    BY <1>3, <1>5, <2>1, <2>2 DEF Writes, DatesOf
<1>11. PublishMade(c, j, d, t)
  BY <1>1, <1>2, <1>3, <1>4, <1>5, <1>6, <1>7, <1>8, <1>9, <1>10 DEF PublishMade
<1>12. QED
  BY <1>11

LEMMA StorePublish ==
    ASSUME StoreInv, NEW ready \in BOOLEAN, NEW age \in {0, 1}, Publish(ready, age)
    PROVE  StoreInv'
<1>0. PICK c, j, d, t : PublishMade(c, j, d, t)
  BY PublishMakes
<1>1. c = svc.cur /\ j = This.job /\ d = AsOfDate(c) /\ t = svc.at
  BY <1>0 DEF PublishMade
<1>2. /\ svc.step = "publish" /\ svc.step \in SyncSteps /\ svc \in SvcType /\ UNCHANGED <<now, catalog>>
      /\ svc' = [svc EXCEPT !.step = "published", !.at = 0]
  BY <1>0 DEF PublishMade
<1>3. /\ c \in DOMAIN att /\ c = Len(att) /\ DOMAIN att = 1..Len(att) /\ Len(att) \in Nat /\ c \in Nat
      /\ d \in 0..MaxDay /\ d \in Nat /\ j \in DailyJobs /\ j = att[c].job /\ j \in Tables
      /\ \A e \in DatesOf(j) : e <= d
  BY <1>0 DEF PublishMade
<1>4. /\ att[c].run.status = "RUNNING" /\ att[c].status = "running"
      /\ att[c].run.started <= t /\ t <= now /\ t \in Nat /\ now \in Nat /\ now <= now
      /\ j \notin PriceJobs => Day(t) = d /\ Day(att[c].run.started) = d
  BY <1>0 DEF PublishMade
<1>5. Writes(c, j, d, t) /\ CompleteRun(c, t)
  BY <1>0 DEF PublishMade
<1>6. SameBut({}) /\ SameRuns({c})
  BY <1>0 DEF PublishMade
<1>7. /\ att'[c].run.status = "COMPLETE" /\ att'[c].run.started = att[c].run.started
      /\ att'[c].run.completed = t
      /\ \A k \in 1..Len(att) :
            /\ att'[k].status = att[k].status /\ att'[k].job = att[k].job
            /\ att'[k].target = att[k].target
            /\ k # c => att'[k].run = att[k].run
  BY <1>0 DEF PublishMade
<1>8. NoneBegins
  BY <1>0 DEF PublishMade
<1>9. Kept /\ DOMAIN att' = DOMAIN att /\ Len(att') = Len(att)
  BY <1>0 DEF PublishMade
<1>10. /\ \A u \in Tables : DatesOf(u) \subseteq DatesOf(u)'
       /\ \A e \in DatesOf(j)' : e \in DatesOf(j) \/ e = d
       /\ d \in DatesOf(j)' /\ row'[j][d].run = c
  BY <1>0 DEF PublishMade
<1>11. RowsInv'
  <2>1. ASSUME NEW u \in Tables, NEW e \in DatesOf(u)' PROVE RowHolds(u, e)'
    <3>1. e \in 0..MaxDay /\ row'[u][e] # None
      BY <2>1 DEF DatesOf
    <3>2. CASE Source(u) = j /\ e = d
      <4>1. PICK r \in RowsBy(c, d, t) : r = row'[u][e]
        BY <1>5, <3>1, <3>2 DEF Writes
      <4>2. /\ r.run = c /\ r.at = t /\ r.payload.asOf = d /\ r.payload.at = t
            /\ r.payload.of <= d
        BY DEF RowsBy
      <4>3. AsOfDate(c)' = d
        BY <1>1, <1>3, <1>7 DEF AsOfDate
      <4>4. QED
        BY <1>2, <1>3, <1>4, <1>7, <1>9, <3>2, <4>1, <4>2, <4>3 DEF RowHolds, RunOf
    <3>3. CASE ~(Source(u) = j /\ e = d)
      <4>1. row'[u][e] = row[u][e]
        BY <1>5, <3>1, <3>3 DEF Writes
      <4>2. e \in DatesOf(u)
        BY <3>1, <4>1 DEF DatesOf
      <4>3. RowHolds(u, e) /\ RowsInv
        BY <4>2 DEF StoreInv, RowsInv
      <4>4. now' \in Nat /\ now <= now'
        BY <1>2, <1>4
      <4>5. QED
        BY <1>4, <1>9, <4>1, <4>2, <4>3, <4>4, RowKeeps
    <3>4. QED
      BY <3>2, <3>3
  <2>2. QED
    BY <1>5, <2>1 DEF RowsInv, Writes, RowTables
<1>12. PublishedInv'
  <2>1. SUFFICES ASSUME NEW i \in DOMAIN att', att'[i].status = "running"
                 PROVE  Published(i)'
    BY DEF PublishedInv
  <2>2. i = c
    BY <1>1, <1>2, <1>3, <1>7, <1>9, <2>1 DEF StoreInv, RadarInv, SvcInv, SyncSteps
  <2>3. Max(DatesOf(j)') = d
    <3>1. DatesOf(j)' \in SUBSET (0..MaxDay) /\ MaxDay \in Nat
      BY DailyAssumption DEF DatesOf
    <3>2. \A e \in DatesOf(j)' : e <= d
      BY <1>3, <1>10
    <3>3. QED
      BY <1>10, <3>1, <3>2, MaxIsThis
  <2>4. ReadsNewest'
    BY <1>11, NewestIsRead, PTL
  <2>5. /\ Publication(j)' = [run |-> c, asOf |-> d, at |-> row'[j][d].at,
                              ready |-> row'[j][d].payload.ready]
        /\ Publication(j)' \notin {None, Corrupt}
    BY <1>3, <1>10, <2>3, <2>4 DEF ReadsNewest
  <2>6. Publication(j)'.run = c
    BY <2>5
  <2>7. att'[c].job = j /\ att'[c].run.status = "COMPLETE"
    BY <1>3, <1>7
  <2>8. QED
    BY <2>2, <2>5, <2>6, <2>7 DEF Published
<1>13. RadarInv'
  BY SyncKeeps DEF StoreInv
<1>14. BreadthInv'
  <2>1. DatesOf("prices") \subseteq DatesOf("prices")'
    BY <1>10 DEF Tables, DailyJobs
  <2>2. QED
    BY <1>6, <2>1, BreadthRests
<1>15. AuditsAgree'
  <2>1. \A k \in 1..Len(att) : att[k].run.status = "COMPLETE" => att'[k].run = att[k].run
    BY <1>8 DEF NoneBegins
  <2>2. \A k \in 1..Len(att) : att'[k].run.status = "COMPLETE" =>
           att[k].run.status = "COMPLETE" \/ att[k].status = "running"
    BY <1>4, <1>7
  <2>3. \A u \in DailyJobs : DatesOf(u) \subseteq DatesOf(u)'
    BY <1>10 DEF Tables
  <2>4. QED
    BY <1>6, <2>1, <2>2, <2>3, AuditRests
<1>16. OrderInv'
  <2>1. now' \in Nat /\ now <= now'
    BY <1>2, <1>4
  <2>2. QED
    BY <1>6, <1>8, <2>1, OrderRests
<1>17. svc'.step = "published" /\ svc'.cur = c
  BY <1>1, <1>2 DEF SvcType
<1>18. ClockInv'
  BY <1>1, <1>2, <1>6, <1>17, SyncStays DEF SyncSteps
<1>19. SyncInv'
  BY <1>2, <1>3, <1>4, <1>7, <1>17 DEF SyncInv
<1>20. QED
  BY <1>11, <1>12, <1>13, <1>14, <1>15, <1>16, <1>18, <1>19 DEF StoreInv

\* A new attempt: it begins no earlier than the others, and a breadth has its prices.
LEMMA StoreBegin ==
    ASSUME StoreInv, NEW j \in jobs, BeginAttempt(j) PROVE StoreInv'
<1> DEFINE N == Len(att) + 1
           e == [job |-> j, due |-> ScheduledAt(svc.at), target |-> Target(j, svc.at),
                 number |-> NextNumber(j), started |-> svc.at, status |-> "running",
                 retry |-> None, run |-> NoRun]
           found == IF j = "breadth" THEN {<<"prices", Target(j, svc.at)>>} ELSE {}
<1>1. /\ att' = Append(att, e) /\ UNCHANGED <<now, jobs, row>>
      /\ svc' = [svc EXCEPT !.step = "sync", !.at = 0, !.cur = N, !.checked = @ \cup found]
      /\ svc.step = "job" /\ ~LacksPrices(j)
  BY DEF BeginAttempt, StartAttempt, InHand
<1>2. /\ att \in Seq(AttemptType) /\ Len(att) \in Nat /\ DOMAIN att = 1..Len(att)
      /\ svc \in SvcType /\ svc.at \in Nat /\ now \in Nat /\ svc.at <= now /\ j \in DailyJobs
      /\ StartTime <= svc.at /\ StartTime <= now /\ now <= MaxTime
      /\ \A k \in 1..Len(att) : att[k].started <= svc.at /\ att[k].status # "running"
  BY <1>1, LenProperties
  DEF StoreInv, ClockInv, RadarInv, TypeInv, SvcType, SvcInv
<1>3. RadarInv'
  BY BeginKeeps DEF StoreInv
<1>4. /\ e.job = j /\ e.due = ScheduledAt(svc.at) /\ e.target = Target(j, svc.at)
      /\ e.started = svc.at /\ e.status = "running" /\ e.run.status = "none"
  BY DEF NoRun
<1> HIDE DEF e
<1>5. /\ att'[N] = e /\ Len(att') = N /\ DOMAIN att' = 1..N
      /\ \A k \in 1..Len(att) : att'[k] = att[k]
      /\ N \in Nat /\ 1..N = (1..Len(att)) \cup {N} /\ N \notin 1..Len(att)
  <2>1. Len(att') = N /\ DOMAIN att' = 1..N /\ \A k \in 1..N : att'[k] = IF k = N THEN e ELSE att[k]
    BY <1>1, <1>2
  <2>2. N \in Nat /\ 1..N = (1..Len(att)) \cup {N} /\ N \notin 1..Len(att)
    BY <1>2
  <2>3. QED
    BY <2>1, <2>2
<1>6. svc'.step = "sync" /\ svc'.cur = N
  BY <1>1, <1>2 DEF SvcType
<1> HIDE DEF N
<1>7. Kept
  BY <1>2, <1>5 DEF Kept
<1>8. /\ RowsInv' /\ \A table \in Tables : DatesOf(table)' = DatesOf(table)
      /\ \A k \in DailyJobs : Publication(k)' = Publication(k)
  <2>1. RowsInv /\ UNCHANGED row /\ now' \in Nat /\ now <= now'
    BY <1>1, <1>2 DEF StoreInv
  <2>2. QED
    BY <1>2, <1>7, <2>1, RowsRest
<1>9. PublishedInv'
  BY <1>2, <1>4, <1>5 DEF PublishedInv
<1>10. ClockInv'
  BY <1>1, <1>2, <1>4, <1>5, <1>6 DEF ClockInv
<1>11. SyncInv'
  BY <1>4, <1>5, <1>6 DEF SyncInv
<1>12. OrderInv'
  <2>1. SUFFICES ASSUME NEW i \in 1..N
                 PROVE  /\ att'[i].due = ScheduledAt(att'[i].started)
                        /\ att'[i].target = Target(att'[i].job, att'[i].started)
                        /\ StartTime <= att'[i].started
                        /\ att'[i].status = "running" => i = N
                        /\ att'[i].run.status # "none" =>
                              att'[i].started <= att'[i].run.started /\ att'[i].run.started <= now
                        /\ \A k \in 1..N :
                              i < k => /\ att'[i].started <= att'[k].started
                                       /\ att'[i].run.status # "none" /\ att'[k].run.status # "none" =>
                                             att'[i].run.started <= att'[k].run.started
    BY <1>1, <1>5 DEF OrderInv
  <2>2. CASE i = N
    <3>1. \A k \in 1..N : ~(N < k)
      BY <1>5
    <3>2. QED
      BY <1>2, <1>4, <1>5, <2>2, <3>1
  <2>3. CASE i \in 1..Len(att)
    <3>1. /\ att[i].due = ScheduledAt(att[i].started)
          /\ att[i].target = Target(att[i].job, att[i].started)
          /\ StartTime <= att[i].started /\ att[i].started <= svc.at
          /\ att[i].status # "running"
          /\ att[i].run.status # "none" =>
                att[i].started <= att[i].run.started /\ att[i].run.started <= now
          /\ \A k \in 1..Len(att) :
                i < k => /\ att[i].started <= att[k].started
                         /\ att[i].run.status # "none" /\ att[k].run.status # "none" =>
                               att[i].run.started <= att[k].run.started
      BY <1>2, <2>3 DEF StoreInv, OrderInv
    <3>2. QED
      BY <1>4, <1>5, <2>3, <3>1
  <2>4. QED
    BY <1>5, <2>2, <2>3
<1>13. BreadthInv'
  <2>1. "prices" \in DailyJobs /\ "prices" \in Tables
    BY DEF DailyJobs, Tables
  <2>2. DatesOf("prices")' = DatesOf("prices")
    BY <1>8, <2>1
  <2>3. j = "breadth" => \E d \in DatesOf("prices") : d >= Target(j, svc.at)
    <3>1. SUFFICES ASSUME j = "breadth"
                   PROVE  \E d \in DatesOf("prices") : d >= Target(j, svc.at)
      OBVIOUS
    <3>2. /\ Publication("prices") # None /\ ~(Publication("prices").asOf < Target(j, svc.at))
      BY <1>1, <3>1 DEF LacksPrices
    <3>3. DatesOf("prices") # {}
      BY <3>2 DEF Publication
    <3>4. PICK d : d = Max(DatesOf("prices"))
      OBVIOUS
    <3>5. d \in DatesOf("prices") /\ Publication("prices").asOf = d
      BY <2>1, <3>3, <3>4, PublicationIs DEF StoreInv
    <3>6. d \in Nat /\ Target(j, svc.at) \in Nat
      <4>1. d \in Nat
        BY <2>1, <3>5, RowShape DEF StoreInv
      <4>2. Target(j, svc.at) = ExpectedPriceDate(svc.at)
        BY <3>1 DEF Target, PriceJobs
      <4>3. svc.at <= svc.at
        BY <1>2
      <4>4. QED
        BY <1>2, <4>1, <4>2, <4>3, PriceDates
    <3>7. QED
      BY <3>2, <3>5, <3>6
  <2>4. \A i \in 1..Len(att) :
           att[i].job = "breadth" => \E d \in DatesOf("prices") : d >= att[i].target
    BY <1>2 DEF StoreInv, BreadthInv
  <2>5. QED
    BY <1>4, <1>5, <2>2, <2>3, <2>4 DEF BreadthInv
<1>14. AuditsAgree'
  <2>1. \A k \in DailyJobs : DatesOf(k)' = DatesOf(k)
    BY <1>8 DEF Tables
  <2>2. \A i \in 1..Len(att) : att[i].job \in DailyJobs
    BY <1>2, KnownSoFar
  <2>3. ASSUME NEW i \in 1..N
        PROVE  /\ att'[i].status = "complete" =>
                     /\ att'[i].run.status = "COMPLETE"
                     /\ \E d \in 0..MaxDay : row'[att'[i].job][d] # None /\ d >= att'[i].target
               /\ att'[i].run.status = "COMPLETE" =>
                     att'[i].status \in {"running", "complete", "waiting_source"}
    <3>1. CASE i = N
      BY <1>4, <1>5, <3>1
    <3>2. CASE i \in 1..Len(att)
      BY <1>1, <1>2, <1>5, <3>2 DEF StoreInv, AuditsAgree, DatesOf
    <3>3. QED
      BY <1>5, <3>1, <3>2
  <2>4. QED
    BY <1>5, <2>3 DEF AuditsAgree, DatesOf
<1>15. QED
  BY <1>3, <1>8, <1>9, <1>10, <1>11, <1>12, <1>13, <1>14 DEF StoreInv

LEMMA SatisfiedHasDate ==
    ASSUME RowsInv, NEW j \in DailyJobs, NEW target, Satisfies(Publication(j), target)
    PROVE  \E d \in DatesOf(j) : d >= target
<1>1. Publication(j) # None /\ Publication(j).asOf >= target
  BY DEF Satisfies
<1>2. DatesOf(j) # {}
  BY <1>1 DEF Publication
<1>3. PICK d : d = Max(DatesOf(j))
  OBVIOUS
<1>4. d \in DatesOf(j) /\ Publication(j).asOf = d
  BY <1>2, <1>3, PublicationIs
<1>5. QED
  BY <1>1, <1>4

\* An attempt ends as its run and what it published allow.
LEMMA StoreFinish ==
    ASSUME StoreInv, UNCHANGED now, NEW i \in DOMAIN att, NEW retry \in Nat \cup {None},
           NEW status \in {"failed", "waiting_source", "interrupted", "complete"},
           FinishAttempt(i, status, retry),
           att[i].run.status = "COMPLETE" => status \in {"complete", "waiting_source"},
           status = "complete" =>
              /\ att[i].run.status = "COMPLETE"
              /\ \E d \in DatesOf(att[i].job) : d >= att[i].target
    PROVE  /\ OrderInv' /\ RowsInv' /\ PublishedInv' /\ BreadthInv' /\ AuditsAgree'
           /\ DOMAIN att' = DOMAIN att /\ \A k \in DOMAIN att : att'[k].started = att[k].started
<1>1. /\ SameBut({i}) /\ SameRuns({}) /\ att[i].status = "running" /\ UNCHANGED row
      /\ att'[i].status = status
  BY FinishChanges DEF StoreInv, RadarInv, FinishAttempt
<1>2. /\ DOMAIN att = 1..Len(att)
      /\ \A k \in DOMAIN att : att[k] \in AttemptType
  BY LenProperties, ElementOfSeq DEF StoreInv, RadarInv, TypeInv
<1>3. \A k \in 1..Len(att) :
         /\ att'[k].run = att[k].run /\ att'[k].job = att[k].job
         /\ att'[k].target = att[k].target /\ att'[k].started = att[k].started
         /\ k # i => att'[k].status = att[k].status
  BY <1>1 DEF SameBut, SameRuns
<1>4. Quiet
  BY <1>1, <1>2, <1>3 DEF Quiet, NoneBegins
<1>5. /\ DOMAIN att' = DOMAIN att /\ now' \in Nat /\ now <= now'
  <2>1. now \in Nat
    BY KnownSoFar
  <2>2. QED
    BY <1>1, <1>4, <2>1, SameIsKept DEF StoreInv, Quiet, NoneBegins
<1>6. OrderInv' /\ RowsInv' /\ PublishedInv' /\ BreadthInv'
  BY <1>1, <1>4, <1>5, StoreRests
<1>7. ASSUME NEW k \in DOMAIN att
      PROVE  /\ att'[k].status = "complete" =>
                   /\ att'[k].run.status = "COMPLETE"
                   /\ \E d \in 0..MaxDay : row'[att'[k].job][d] # None /\ d >= att'[k].target
             /\ att'[k].run.status = "COMPLETE" =>
                   att'[k].status \in {"running", "complete", "waiting_source"}
  <2>1. CASE k = i
    BY <1>1, <1>2, <1>3, <2>1 DEF DatesOf
  <2>2. CASE k # i
    BY <1>1, <1>2, <1>3, <2>2 DEF StoreInv, AuditsAgree, DatesOf
  <2>3. QED
    BY <2>1, <2>2
<1>8. AuditsAgree'
  BY <1>5, <1>7 DEF AuditsAgree, DatesOf
<1>9. QED
  BY <1>2, <1>3, <1>5, <1>6, <1>8

\* The process goes on with the next job of the tick.
LEMMA StoreSettled ==
    ASSUME StoreInv, svc.step \in SyncSteps, UNCHANGED now,
           DOMAIN att' = DOMAIN att, \A k \in DOMAIN att : att'[k].started = att[k].started,
           NEW told, Settled(told)
    PROVE  ClockInv' /\ SyncInv'
<1>1. /\ svc \in SvcType /\ now \in Nat /\ StartTime <= now /\ now <= MaxTime
      /\ \A k \in DOMAIN att : att[k].started <= now
  BY KnownSoFar DEF StoreInv, ClockInv
<1>2. svc'.step = "job" /\ svc'.at = now
  BY <1>1 DEF Settled, SvcType
<1>3. QED
  BY <1>1, <1>2 DEF ClockInv, SyncInv, SyncSteps

LEMMA StoreEnd ==
    ASSUME StoreInv, FinishPublished \/ FinishFailed \/ \E i \in DOMAIN att : RecoverAttempt(i)
    PROVE  StoreInv'
<1>1. /\ now \in Nat /\ UNCHANGED now /\ svc \in SvcType
      /\ \A k \in DOMAIN att : /\ att[k].number \in Nat /\ att[k].job \in DailyJobs
                               /\ att[k] \in AttemptType
  <2>1. \A k \in DOMAIN att : att[k] \in AttemptType
    BY KnownSoFar
  <2>2. \A k \in DOMAIN att : att[k].number \in Nat /\ att[k].job \in DailyJobs
    BY <2>1, DailyAssumption DEF AttemptType
  <2>3. QED
    BY <2>1, <2>2, KnownSoFar DEF FinishPublished, FinishFailed, RecoverAttempt
<1>2. RadarInv'
  BY EndKeeps DEF StoreInv
<1>3. CASE FinishPublished
  <2> DEFINE c == svc.cur
             p == Publication(This.job)
             mine == p \notin {None, Corrupt} /\ p.run = svc.cur
             whole == mine /\ Satisfies(p, This.target)
             result == IF whole THEN "complete" ELSE IF mine THEN "waiting_source" ELSE "failed"
             next == IF mine /\ ~whole THEN RetryAt(now, This.number) ELSE None
             told == IF whole THEN {<<This.job, This.target>>} ELSE {}
  <2>1. /\ svc.step = "published" /\ svc.step \in SyncSteps /\ c \in DOMAIN att
        /\ att[c].run.status = "COMPLETE" /\ att[c].status = "running" /\ This = att[c]
        /\ FinishAttempt(c, result, next) /\ Settled(told)
    BY <1>3 DEF FinishPublished, StoreInv, RadarInv, SvcInv, ClockInv, SyncInv, SyncSteps, This
  <2>2. mine
    BY <2>1 DEF StoreInv, PublishedInv, Published
  <2>3. next \in Nat \cup {None}
    BY <1>1, <2>1, RetryAtLater
  <2>4. result \in {"complete", "waiting_source"}
    BY <2>2
  <2>5. result = "complete" => \E d \in DatesOf(att[c].job) : d >= att[c].target
    BY <1>1, <2>1, SatisfiedHasDate DEF StoreInv
  <2> HIDE DEF c, mine, whole, result, next, told
  <2>7. /\ OrderInv' /\ RowsInv' /\ PublishedInv' /\ BreadthInv' /\ AuditsAgree'
        /\ DOMAIN att' = DOMAIN att /\ \A k \in DOMAIN att : att'[k].started = att[k].started
    BY <1>1, <2>1, <2>3, <2>4, <2>5, StoreFinish
  <2>8. ClockInv' /\ SyncInv'
    BY <1>1, <2>1, <2>7, StoreSettled
  <2>9. QED
    BY <1>2, <2>7, <2>8 DEF StoreInv
<1>4. CASE FinishFailed
  <2> DEFINE c == svc.cur
             status == svc.end.status
             retry == IF svc.end.again THEN RetryAt(now, This.number) ELSE None
  <2>1. /\ svc.step = "failed" /\ svc.step \in SyncSteps /\ c \in DOMAIN att
        /\ att[c].run.status # "COMPLETE" /\ svc.end \in Outcomes
        /\ FinishAttempt(c, status, retry) /\ Settled({})
    BY <1>4 DEF FinishFailed, StoreInv, RadarInv, SvcInv, SyncInv, SyncSteps
  <2>2. status \in {"failed", "waiting_source"}
    BY <2>1 DEF Outcomes, Broken, Temporary, NotReady
  <2>3. retry \in Nat \cup {None}
    BY <1>1, <2>1, RetryAtLater DEF This
  <2> HIDE DEF c, status, retry
  <2>6. /\ OrderInv' /\ RowsInv' /\ PublishedInv' /\ BreadthInv' /\ AuditsAgree'
        /\ DOMAIN att' = DOMAIN att /\ \A k \in DOMAIN att : att'[k].started = att[k].started
    BY <1>1, <2>1, <2>2, <2>3, StoreFinish
  <2>7. ClockInv' /\ SyncInv'
    BY <1>1, <2>1, <2>6, StoreSettled
  <2>8. QED
    BY <1>2, <2>6, <2>7 DEF StoreInv
<1>5. CASE \E i \in DOMAIN att : RecoverAttempt(i)
  <2>1. PICK i \in DOMAIN att : RecoverAttempt(i)
    BY <1>5
  <2> DEFINE whole == Published(i) /\ Satisfies(Publication(att[i].job), att[i].target)
             result == IF whole THEN "complete"
                       ELSE IF Published(i) THEN "waiting_source" ELSE "interrupted"
             next == IF whole THEN None ELSE RetryAt(now, att[i].number)
  <2>2. FinishAttempt(i, result, next) /\ svc.step = "recover" /\ UNCHANGED svc
        /\ att[i].status = "running"
    BY <2>1 DEF RecoverAttempt, FinishAttempt
  <2>3. att[i].run.status = "COMPLETE" => result \in {"complete", "waiting_source"}
    BY <2>2 DEF StoreInv, PublishedInv
  <2>4. result = "complete" =>
           /\ att[i].run.status = "COMPLETE"
           /\ \E d \in DatesOf(att[i].job) : d >= att[i].target
    <3>1. SUFFICES ASSUME whole
                   PROVE  /\ att[i].run.status = "COMPLETE"
                          /\ \E d \in DatesOf(att[i].job) : d >= att[i].target
      OBVIOUS
    <3>2. att[i].run.status = "COMPLETE"
      BY <3>1 DEF Published
    <3>3. QED
      BY <1>1, <3>1, <3>2, SatisfiedHasDate DEF StoreInv
  <2>5. next \in Nat \cup {None} /\ result \in {"failed", "waiting_source", "interrupted", "complete"}
    BY <1>1, RetryAtLater
  <2> HIDE DEF whole, result, next
  <2>6. /\ OrderInv' /\ RowsInv' /\ PublishedInv' /\ BreadthInv' /\ AuditsAgree'
        /\ DOMAIN att' = DOMAIN att /\ \A k \in DOMAIN att : att'[k].started = att[k].started
    BY <1>1, <2>2, <2>3, <2>4, <2>5, StoreFinish
  <2>7. ClockInv' /\ SyncInv'
    BY <1>1, <2>2 DEF StoreInv, ClockInv, SyncInv, SyncSteps
  <2>8. QED
    BY <1>2, <2>6, <2>7 DEF StoreInv
<1>6. QED
  BY <1>3, <1>4, <1>5

LEMMA StoreInvStep == StoreInv /\ [Next]_vars => StoreInv'
<1> SUFFICES ASSUME StoreInv, [Next]_vars PROVE StoreInv'
  OBVIOUS
<1>1. CASE UNCHANGED vars
  <2>1. UNCHANGED <<att, row, now, jobs, svc>>
    BY <1>1 DEF vars, store
  <2>2. RadarInv' /\ ClockInv' /\ OrderInv' /\ SyncInv'
    BY <1>1, <2>1, RadarInvStep DEF StoreInv, ClockInv, OrderInv, SyncInv
  <2>3. SameBut({}) /\ Quiet /\ now' \in Nat /\ now <= now' /\ UNCHANGED row
    BY <1>1, <2>1, NothingOnRecord, KnownSoFar DEF vars
  <2>4. RowsInv' /\ PublishedInv' /\ BreadthInv'
    BY <2>3, StoreRests
  <2>5. AuditsAgree'
    BY <2>1 DEF StoreInv, AuditsAgree, DatesOf
  <2>6. QED
    BY <2>2, <2>4, <2>5 DEF StoreInv
<1>2. CASE Deciding
  BY <1>2, StoreDecision, StoreBegin DEF Deciding
<1>3. CASE Syncing
  BY <1>3, StoreSync, StoreBeginRun, StorePublish DEF Syncing, Outcomes
<1>4. CASE Settling
  BY <1>4, StoreEnd, StoreProcess DEF Settling
<1>5. CASE Mishap
  BY <1>5, StoreSync, StoreProcess DEF Mishap, Outcomes
<1>6. CASE TimePasses
  BY <1>6, StoreProcess
<1>7. QED
  BY <1>1, <1>2, <1>3, <1>4, <1>5, <1>6 DEF Next, ServiceStep

LEMMA StoreInvInit == Init => StoreInv
<1> SUFFICES ASSUME Init PROVE StoreInv
  OBVIOUS
<1>1. /\ att = <<>> /\ DOMAIN att = {} /\ now = StartTime /\ svc = Down
      /\ row = [table \in Tables |-> [d \in 0..MaxDay |-> None]]
  BY EmptySeq, LenProperties DEF Init, StoreInit
<1>2. RadarInv
  BY RadarInvInit
<1>3. svc.step = "down" /\ svc.said = {} /\ svc.checked = {}
  BY <1>1 DEF Down
<1>4. ClockInv /\ SyncInv
  BY <1>1, <1>3, DailyAssumption DEF ClockInv, SyncInv, SyncSteps
<1>5. OrderInv /\ PublishedInv /\ BreadthInv /\ AuditsAgree
  BY <1>1 DEF OrderInv, PublishedInv, BreadthInv, AuditsAgree
<1>6. RowsInv
  <2>1. \A table \in Tables : DatesOf(table) = {}
    BY <1>1 DEF DatesOf
  <2>2. "calendar" \in Tables /\ "earnings" \in Tables
    BY DEF Tables, DailyJobs
  <2>3. row["calendar"] = row["earnings"]
    BY <1>1, <2>2
  <2>4. row \in [Tables -> [0..MaxDay -> Rows \cup {None}]]
    BY <1>1
  <2>5. QED
    BY <2>1, <2>3, <2>4 DEF RowsInv
<1>7. QED
  BY <1>2, <1>4, <1>5, <1>6 DEF StoreInv

\* No process that is killed between the two transactions leaves an attempt and its run
\* telling different stories: recovery reads a publication that was made as such, and an
\* attempt is never complete without a snapshot of its date (market_radar/daily.py recover;
\* market_radar/storage.py finish_daily_attempt and publish_*_and_complete).
THEOREM AuditsNeverDisagree == Spec => []AuditsAgree
<1>1. StoreInv /\ [Next]_vars => StoreInv'
  BY StoreInvStep
<1>2. StoreInv => AuditsAgree
  BY DEF StoreInv
<1>3. QED
  BY StoreInvInit, <1>1, <1>2, PTL DEF Spec

-----------------------------------------------------------------------------
(* Kinds of steps.                                                          *)

\* No run completes, and a complete one stays as it is.
NoneCompletes ==
    \A k \in 1..Len(att) :
        /\ att[k].run.status = "COMPLETE" => att'[k].run = att[k].run
        /\ att'[k].run.status = "COMPLETE" => att[k].run.status = "COMPLETE"

Publishes == \E ready \in BOOLEAN, age \in {0, 1} : Publish(ready, age)

\* However an attempt ends, it ends in a state of its own and with a time for its retry or none.
LEMMA EndIsTyped ==
    ASSUME StoreInv, FinishPublished \/ FinishFailed \/ \E i \in DOMAIN att : RecoverAttempt(i)
    PROVE  \E i \in DOMAIN att : \E status, retry :
              /\ FinishAttempt(i, status, retry) /\ retry \in Nat \cup {None}
              /\ status \in {"failed", "waiting_source", "interrupted", "complete"}
<1>1. /\ now \in Nat /\ (svc.step \in SyncSteps => svc.cur \in DOMAIN att)
      /\ \A k \in DOMAIN att : att[k].number \in Nat
  <2>1. \A k \in DOMAIN att : att[k] \in AttemptType
    BY KnownSoFar
  <2>2. \A k \in DOMAIN att : att[k].number \in Nat
    BY <2>1, DailyAssumption DEF AttemptType
  <2>3. QED
    BY <2>2, KnownSoFar DEF StoreInv, RadarInv, SvcInv
<1>2. CASE FinishPublished
  <2>1. svc.cur \in DOMAIN att
    BY <1>1, <1>2 DEF FinishPublished, SyncSteps
  <2> DEFINE p == Publication(This.job)
             mine == p \notin {None, Corrupt} /\ p.run = svc.cur
             whole == mine /\ Satisfies(p, This.target)
             result == IF whole THEN "complete" ELSE IF mine THEN "waiting_source" ELSE "failed"
             next == IF mine /\ ~whole THEN RetryAt(now, This.number) ELSE None
  <2>2. FinishAttempt(svc.cur, result, next)
    BY <1>2 DEF FinishPublished
  <2>3. next \in Nat \cup {None}
    BY <1>1, <2>1, RetryAtLater DEF This
  <2>4. result \in {"failed", "waiting_source", "interrupted", "complete"}
    OBVIOUS
  <2> HIDE DEF mine, whole, result, next
  <2>5. QED
    BY <2>1, <2>2, <2>3, <2>4
<1>3. CASE FinishFailed
  <2> DEFINE retry == IF svc.end.again THEN RetryAt(now, This.number) ELSE None
  <2>1. /\ svc.cur \in DOMAIN att /\ svc.end \in Outcomes
        /\ FinishAttempt(svc.cur, svc.end.status, retry)
    BY <1>1, <1>3 DEF FinishFailed, SyncSteps, StoreInv, RadarInv, SvcInv
  <2>2. svc.end.status \in {"failed", "waiting_source"}
    BY <2>1 DEF Outcomes, Broken, Temporary, NotReady
  <2>3. retry \in Nat \cup {None}
    BY <1>1, <2>1, RetryAtLater DEF This
  <2> HIDE DEF retry
  <2>4. QED
    BY <2>1, <2>2, <2>3
<1>4. CASE \E i \in DOMAIN att : RecoverAttempt(i)
  <2>1. PICK i \in DOMAIN att : RecoverAttempt(i)
    BY <1>4
  <2> DEFINE whole == Published(i) /\ Satisfies(Publication(att[i].job), att[i].target)
             result == IF whole THEN "complete"
                       ELSE IF Published(i) THEN "waiting_source" ELSE "interrupted"
             next == IF whole THEN None ELSE RetryAt(now, att[i].number)
  <2>2. FinishAttempt(i, result, next)
    BY <2>1 DEF RecoverAttempt
  <2>3. next \in Nat \cup {None} /\ result \in {"failed", "waiting_source", "interrupted", "complete"}
    BY <1>1, RetryAtLater
  <2> HIDE DEF whole, result, next
  <2>4. QED
    BY <2>2, <2>3
<1>5. QED
  BY <1>2, <1>3, <1>4

LeavesPublished == UNCHANGED row /\ NoneCompletes /\ \E ended : SameBut(ended)

LEMMA NothingPublished ==
    ASSUME StoreInv, UNCHANGED store PROVE LeavesPublished
<1>1. SameBut({}) /\ Quiet
  BY NothingOnRecord
<1>2. NoneCompletes /\ UNCHANGED row
  BY <1>1 DEF Quiet, NoneBegins, NoneCompletes, store
<1>3. QED
  BY <1>1, <1>2 DEF LeavesPublished

LEMMA FailPublishesNothing ==
    ASSUME StoreInv, NEW i \in DOMAIN att, NEW t \in Nat, FailRun(i, t) PROVE LeavesPublished
<1>1. SameBut({}) /\ Quiet /\ UNCHANGED row
  BY FailIsQuiet
<1>2. NoneCompletes
  BY <1>1 DEF Quiet, NoneBegins, NoneCompletes
<1>3. QED
  BY <1>1, <1>2 DEF LeavesPublished

LEMMA RunPublishesNothing ==
    ASSUME StoreInv, NEW i \in DOMAIN att, NEW t \in Nat, StartRun(i, t) PROVE LeavesPublished
<1>1. SameBut({}) /\ SameRuns({i}) /\ UNCHANGED row /\ att[i].run.status = "none"
  BY RunStarts DEF StoreInv, RadarInv, StartRun
<1>2. att'[i].run = [status |-> "RUNNING", started |-> t, completed |-> 0]
  BY RunStarts DEF StoreInv, RadarInv
<1>3. att'[i].run.status = "RUNNING"
  BY <1>2
<1>4. NoneCompletes
  BY <1>1, <1>3 DEF NoneCompletes, SameRuns
<1>5. QED
  BY <1>1, <1>4 DEF LeavesPublished

LEMMA EndPublishesNothing ==
    ASSUME StoreInv, FinishPublished \/ FinishFailed \/ \E i \in DOMAIN att : RecoverAttempt(i)
    PROVE  LeavesPublished
<1>1. PICK i \in DOMAIN att : \E status, retry :
         /\ FinishAttempt(i, status, retry) /\ retry \in Nat \cup {None}
         /\ status \in {"failed", "waiting_source", "interrupted", "complete"}
  BY EndIsTyped
<1>2. SameBut({i}) /\ SameRuns({}) /\ UNCHANGED row
  BY <1>1, FinishChanges DEF StoreInv, RadarInv, FinishAttempt
<1>3. NoneCompletes
  BY <1>2 DEF NoneCompletes, SameRuns
<1>4. QED
  BY <1>2, <1>3 DEF LeavesPublished

\* A step begins an attempt, or publishes, or leaves all that was published alone.
LEMMA StepKinds ==
    ASSUME StoreInv, [Next]_vars
    PROVE  (\E j \in jobs : BeginAttempt(j)) \/ Publishes \/ LeavesPublished
<1>1. now \in Nat /\ (svc.step \in SyncSteps => svc.cur \in DOMAIN att)
  BY KnownSoFar DEF StoreInv, RadarInv, SvcInv
<1>2. CASE UNCHANGED store
  BY <1>2, NothingPublished
<1>3. CASE \E i \in DOMAIN att, t \in Nat : StartRun(i, t) \/ FailRun(i, t)
  BY <1>3, RunPublishesNothing, FailPublishesNothing
<1>6. CASE UNCHANGED vars
  BY <1>2, <1>6 DEF vars
<1>7. CASE Deciding
  BY <1>2, <1>7 DEF Deciding, BeginTick, EndTick, ReportComplete, Postpone
<1>8. CASE Syncing
  <2>1. CASE BeginRun
    BY <1>1, <1>3, <2>1 DEF BeginRun, SyncSteps
  <2>2. CASE \E o \in {Broken, Temporary, NotReady} :
                SyncFails(o) \/ \E torn \in BOOLEAN : PipelineFails(o, torn)
    <3>1. \E i \in DOMAIN att, t \in Nat : FailRun(i, t)
      BY <1>1, <2>2 DEF SyncFails, PipelineFails, SyncSteps
    <3>2. QED
      BY <1>3, <3>1
  <2>3. CASE PipelineWrites \/ PipelineEnds \/ AnswerArrives
              \/ \E o \in {Broken, Temporary, NotReady} : FailEarly(o)
    BY <1>2, <2>3 DEF PipelineWrites, PipelineEnds, AnswerArrives, FailEarly
  <2>4. QED
    BY <1>8, <2>1, <2>2, <2>3 DEF Syncing, Publishes
<1>9. CASE Settling
  <2>1. CASE FinishPublished \/ FinishFailed \/ \E i \in DOMAIN att : RecoverAttempt(i)
    BY <2>1, EndPublishesNothing
  <2>2. CASE StartService \/ EndRecovery
    BY <1>2, <2>2 DEF StartService, EndRecovery
  <2>3. CASE \E i \in DOMAIN att : RecoverRun(i)
    BY <1>1, <1>3, <2>3 DEF RecoverRun
  <2>4. QED
    BY <1>9, <2>1, <2>2, <2>3 DEF Settling
<1>10. CASE Mishap
  <2>1. CASE DatabaseFails
    BY <1>1, <1>3, <2>1 DEF DatabaseFails, SyncSteps
  <2>2. QED
    BY <1>2, <1>10, <2>1 DEF Mishap, ProcessEnds, CatalogReplaced, SyncFailsUnrecorded
<1>11. CASE TimePasses
  BY <1>2, <1>11 DEF TimePasses
<1>12. QED
  BY <1>6, <1>7, <1>8, <1>9, <1>10, <1>11 DEF Next, ServiceStep

-----------------------------------------------------------------------------
(* The promise of the sources.                                              *)

\* An attempt begins when the run before it is complete.
SinceInv ==
    \A i \in DOMAIN att :
        att[i].run.status = "COMPLETE" =>
           /\ att[i].run.completed <= now
           /\ svc.step = "job" => att[i].run.completed <= svc.at
           /\ \A k \in DOMAIN att : i < k => att[i].run.completed <= att[k].started

\* Decisions are taken at the moment the tick begins or the job before has ended.
LEMMA DecisionIsNow ==
    ASSUME StoreInv, [Next]_vars, svc'.step = "job"
    PROVE  svc'.at = now \/ (svc.step = "job" /\ svc'.at = svc.at)
<1>1. svc \in SvcType
  BY KnownSoFar
<1>2. CASE UNCHANGED svc
  BY <1>2
<1>3. CASE Deciding
  BY <1>1, <1>3 DEF Deciding, BeginTick, EndTick, ReportComplete, Postpone, BeginAttempt, SvcType
<1>4. CASE Syncing
  BY <1>1, <1>4 DEF Syncing, BeginRun, PipelineWrites, PipelineEnds, AnswerArrives, Publish,
     FailEarly, SyncFails, PipelineFails, FailsWith, SvcType
<1>5. CASE Settling
  BY <1>1, <1>2, <1>5 DEF Settling, FinishPublished, FinishFailed, Settled, StartService, Down,
     EndRecovery, RecoverRun, RecoverAttempt, SvcType
<1>6. CASE Mishap
  <2>1. CASE \E o \in {Broken, Temporary, NotReady} : SyncFailsUnrecorded(o)
    BY <1>1, <2>1 DEF SyncFailsUnrecorded, FailsWith, SvcType
  <2>2. CASE ProcessEnds \/ DatabaseFails \/ CatalogReplaced
    <3>1. svc' = Down \/ UNCHANGED svc
      BY <2>2 DEF ProcessEnds, DatabaseFails, CatalogReplaced
    <3>2. QED
      BY <1>2, <3>1 DEF Down
  <2>3. QED
    BY <1>6, <2>1, <2>2 DEF Mishap
<1>7. QED
  BY <1>2, <1>3, <1>4, <1>5, <1>6 DEF Next, ServiceStep, TimePasses, vars

LEMMA ClockRises ==
    ASSUME StoreInv, [Next]_vars PROVE now' \in Nat /\ (now' = now \/ now' = now + 1)
<1>1. now \in Nat
  BY KnownSoFar
<1>2. now' = now \/ now' = now + 1
  BY DEF Next, ServiceStep, Deciding, Syncing, Settling, Mishap, TimePasses, BeginTick, EndTick,
     ReportComplete, Postpone, BeginAttempt, BeginRun, PipelineWrites, PipelineEnds, AnswerArrives,
     Publish, FailEarly, SyncFails, PipelineFails, FinishPublished, FinishFailed, StartService,
     EndRecovery, RecoverRun, RecoverAttempt, ProcessEnds, DatabaseFails, CatalogReplaced,
     SyncFailsUnrecorded, vars
<1>3. QED
  BY <1>1, <1>2

\* What was published stays, and so does the order of what comes after it.
LEMMA SinceRests ==
    ASSUME StoreInv, SinceInv, [Next]_vars, LeavesPublished PROVE SinceInv'
<1>1. /\ now \in Nat /\ now' \in Nat /\ now <= now' /\ svc.at \in Nat /\ svc.at <= now
  BY ClockRises, KnownSoFar
<1>2. PICK ended : SameBut(ended)
  BY DEF LeavesPublished
<1>3. \A k \in 1..Len(att) : att[k].run.status = "COMPLETE" => att'[k].run = att[k].run
  BY DEF LeavesPublished, NoneCompletes
<1>4. /\ DOMAIN att' = DOMAIN att /\ DOMAIN att = 1..Len(att)
      /\ \A k \in DOMAIN att : att[k] \in AttemptType
  BY <1>2, <1>3, SameIsKept DEF StoreInv
<1>5. \A k \in DOMAIN att : att'[k].started = att[k].started /\ att[k].run.completed \in Nat
  BY <1>2, <1>4 DEF SameBut, AttemptType, RunType
<1>6. \A k \in DOMAIN att : att'[k].run.status = "COMPLETE" =>
         att[k].run.status = "COMPLETE" /\ att'[k].run.completed = att[k].run.completed
  BY <1>3, <1>4 DEF LeavesPublished, NoneCompletes
<1>7. svc'.step = "job" => svc'.at = now \/ (svc.step = "job" /\ svc'.at = svc.at)
  BY DecisionIsNow
<1>8. QED
  BY <1>1, <1>4, <1>5, <1>6, <1>7 DEF SinceInv

LEMMA SinceBegins ==
    ASSUME StoreInv, SinceInv, NEW j \in jobs, BeginAttempt(j) PROVE SinceInv'
<1> DEFINE N == Len(att) + 1
           e == [job |-> j, due |-> ScheduledAt(svc.at), target |-> Target(j, svc.at),
                 number |-> NextNumber(j), started |-> svc.at, status |-> "running",
                 retry |-> None, run |-> NoRun]
           found == IF j = "breadth" THEN {<<"prices", Target(j, svc.at)>>} ELSE {}
<1>1. /\ att' = Append(att, e) /\ UNCHANGED now /\ svc.step = "job"
      /\ svc' = [svc EXCEPT !.step = "sync", !.at = 0, !.cur = N, !.checked = @ \cup found]
  BY DEF BeginAttempt, StartAttempt, InHand
<1>2. /\ att \in Seq(AttemptType) /\ Len(att) \in Nat /\ DOMAIN att = 1..Len(att) /\ svc \in SvcType
  BY LenProperties, KnownSoFar DEF StoreInv, RadarInv, TypeInv
<1>3. e.started = svc.at /\ e.run.status = "none"
  BY DEF NoRun
<1> HIDE DEF e
<1>4. /\ att'[N] = e /\ DOMAIN att' = 1..N /\ \A k \in 1..Len(att) : att'[k] = att[k]
  BY <1>1, <1>2, AppendProperties
<1>5. svc'.step = "sync"
  BY <1>1, <1>2 DEF SvcType
<1>6. QED
  BY <1>1, <1>2, <1>3, <1>4, <1>5 DEF SinceInv

LEMMA SincePublished ==
    ASSUME StoreInv, SinceInv, NEW c, NEW j, NEW d, NEW t, PublishMade(c, j, d, t)
    PROVE  SinceInv'
<1>1. /\ now' = now /\ DOMAIN att' = DOMAIN att /\ DOMAIN att = 1..Len(att) /\ c = Len(att)
      /\ Len(att) \in Nat /\ att'[c].run.completed = t /\ t <= now /\ t \in Nat /\ now \in Nat
      /\ svc'.step = "published"
      /\ \A k \in 1..Len(att) : att'[k].started = att[k].started /\ (k # c => att'[k].run = att[k].run)
  BY DEF PublishMade, SameBut, SvcType
<1>2. SUFFICES ASSUME NEW i \in DOMAIN att', att'[i].run.status = "COMPLETE"
               PROVE  /\ att'[i].run.completed <= now
                      /\ \A k \in DOMAIN att' : i < k => att'[i].run.completed <= att'[k].started
  BY <1>1 DEF SinceInv
<1>3. CASE i = c
  <2>1. att'[i].run.completed = t
    BY <1>1, <1>3
  <2>2. PICK n \in Nat : n = Len(att)
    BY <1>1
  <2>3. i = n /\ DOMAIN att' = 1..n
    BY <1>1, <1>3, <2>2
  <2>4. \A k \in DOMAIN att' : ~(i < k)
    BY <2>3
  <2>5. QED
    BY <1>1, <2>1, <2>4
<1>4. CASE i # c
  <2>1. i \in DOMAIN att /\ att'[i].run = att[i].run
    BY <1>1, <1>2, <1>4
  <2>2. /\ att[i].run.completed <= now
        /\ \A k \in DOMAIN att : i < k => att[i].run.completed <= att[k].started
    BY <1>2, <2>1 DEF SinceInv
  <2>3. QED
    BY <1>1, <2>1, <2>2
<1>5. QED
  BY <1>3, <1>4

LEMMA SinceInvStep ==
    ASSUME StoreInv, SinceInv, [Next]_vars PROVE SinceInv'
  BY StepKinds, SinceRests, SinceBegins, SincePublished, PublishMakes DEF Publishes

-----------------------------------------------------------------------------
(* Every step keeps it.                                                     *)

LEMMA SameSchedule ==
    /\ Promise!DailyJobs = DailyJobs /\ Promise!PriceJobs = PriceJobs
    /\ \A t : Promise!Day(t) = Day(t)
  BY DEF Promise!DailyJobs, DailyJobs, Promise!PriceJobs, PriceJobs, Promise!Day, Day

\* The date of a publication had come when its answer did.
LEMMA DateOfRun ==
    ASSUME StoreInv, NEW c, NEW j, NEW d, NEW t, PublishMade(c, j, d, t)
    PROVE  IF j \in PriceJobs THEN d < Day(t) ELSE d = Day(t)
<1>1. /\ c \in DOMAIN att /\ t \in Nat /\ att[c].run.started <= t /\ j = att[c].job
      /\ d = AsOfDate(c) /\ (j \notin PriceJobs => Day(t) = d)
      /\ att[c].run.status = "RUNNING"
  BY DEF PublishMade
<1>2. CASE j \in PriceJobs
  <2>1. /\ att[c].target = ExpectedPriceDate(att[c].started) /\ att[c].target < Day(att[c].started)
        /\ att[c].target \in Nat /\ att[c].started \in Nat /\ att[c].run.started \in Nat
    BY <1>1, <1>2, KnownSoFar
  <2>2. StartTime <= att[c].started /\ att[c].started <= att[c].run.started
    BY <1>1 DEF StoreInv, OrderInv
  <2>3. att[c].started <= t
    BY <1>1, <2>1, <2>2
  <2>4. Day(att[c].started) \in Nat /\ Day(att[c].started) <= Day(t) /\ Day(t) \in Int
    <3>1. Day(att[c].started) \in Nat /\ Day(att[c].started) <= Day(t)
      BY <1>1, <2>1, <2>2, <2>3, Days
    <3>2. Day(t) \in Int
      BY <1>1 DEF Day
    <3>3. QED
      BY <3>1, <3>2
  <2>5. d = att[c].target
    BY <1>1, <1>2 DEF AsOfDate
  <2>6. QED
    BY <1>2, <2>1, <2>4, <2>5
<1>3. CASE j \notin PriceJobs
  BY <1>1, <1>3
<1>4. QED
  BY <1>2, <1>3

LEMMA PublishSupersedes ==
    ASSUME StoreInv, SinceInv, NEW c, NEW j, NEW d, NEW t, PublishMade(c, j, d, t), StoreInv'
    PROVE  LET p == Publication(j)'
           IN /\ p \in Promise!Publications /\ p.asOf = d /\ p.at = t
              /\ Publication(j) # None =>
                    Publication(j).run < p.run /\ Publication(j).asOf <= d /\ Publication(j).at <= t
<1>1. /\ c \in DOMAIN att /\ c = Len(att) /\ DOMAIN att = 1..Len(att) /\ Len(att) \in Nat
      /\ d \in 0..MaxDay /\ d \in Nat /\ t \in Nat /\ j \in DailyJobs /\ j \in Tables
      /\ att[c].run.status = "RUNNING" /\ att[c].run.started <= t
      /\ \A e \in DatesOf(j) : e <= d
      /\ d \in DatesOf(j)' /\ \A e \in DatesOf(j)' : e \in DatesOf(j) \/ e = d
      /\ Writes(c, j, d, t)
  BY DEF PublishMade
<1>2. /\ row'[j][d] \in RowsBy(c, d, t) /\ Source(j) = j
  BY <1>1 DEF Writes, Source, DailyJobs
<1>3. PICK r : r = row'[j][d]
  OBVIOUS
<1>4. /\ r \in Rows /\ r.run = c /\ r.at = t /\ r.payload.ready \in BOOLEAN
  BY <1>2, <1>3 DEF RowsBy, Rows, Payloads
<1>5. Max(DatesOf(j)') = d
  <2>1. DatesOf(j)' \in SUBSET (0..MaxDay) /\ MaxDay \in Nat
    BY DailyAssumption DEF DatesOf
  <2>2. \A e \in DatesOf(j)' : e <= d
    BY <1>1
  <2>3. QED
    BY <1>1, <2>1, <2>2, MaxIsThis
<1>6. ReadsNewest'
  BY NewestIsRead, PTL DEF StoreInv
<1>7. Publication(j)' = [run |-> c, asOf |-> d, at |-> t, ready |-> r.payload.ready]
  BY <1>1, <1>3, <1>4, <1>5, <1>6 DEF ReadsNewest
<1>8. Publication(j)' \in Promise!Publications
  BY <1>1, <1>4, <1>7 DEF Promise!Publications
<1>9. ASSUME Publication(j) # None
      PROVE  Publication(j).run < c /\ Publication(j).asOf <= d /\ Publication(j).at <= t
  <2>1. DatesOf(j) # {}
    BY <1>9 DEF Publication
  <2>2. PICK e : e = Max(DatesOf(j))
    OBVIOUS
  <2>3. /\ e \in DatesOf(j)
        /\ Publication(j) = [run |-> row[j][e].run, asOf |-> e, at |-> row[j][e].at,
                             ready |-> row[j][e].payload.ready]
    BY <1>1, <2>1, <2>2, PublicationIs DEF StoreInv
  <2>4. PICK i \in DOMAIN att : /\ i = row[j][e].run /\ att[i].run.status = "COMPLETE"
                                /\ att[i].run.completed = row[j][e].at
    BY <1>1, <2>3 DEF StoreInv, RowsInv, RowHolds, RunOf
  <2>5. i < c
    BY <1>1, <2>4
  <2>6. /\ att[i].run.completed <= att[c].started
        /\ att[c].started <= att[c].run.started /\ att[c].started \in Nat
        /\ att[c].run.started \in Nat /\ att[i].run.completed \in Nat
    <3>1. att[i].run.completed <= att[c].started
      BY <1>1, <2>4, <2>5 DEF SinceInv
    <3>2. att[c].started <= att[c].run.started
      BY <1>1 DEF StoreInv, OrderInv
    <3>3. QED
      BY <1>1, <3>1, <3>2, KnownSoFar DEF RunType
  <2>7. row[j][e].at <= t
    BY <1>1, <2>4, <2>6
  <2>8. QED
    BY <1>1, <2>3, <2>4, <2>5, <2>7
<1>10. QED
  BY <1>7, <1>8, <1>9

LEMMA OthersRest ==
    ASSUME StoreInv, NEW c, NEW j, NEW d, NEW t, PublishMade(c, j, d, t), NEW x \in DailyJobs, x # j
    PROVE  Publication(x)' = Publication(x)
<1>1. x \in Tables /\ Source(x) = x
  BY DEF Tables, Source, DailyJobs
<1>2. \A e \in 0..MaxDay : row'[x][e] = row[x][e]
  BY <1>1 DEF PublishMade, Writes
<1>3. QED
  BY <1>2, SourceRests DEF StoreInv, PublishMade

LEMMA PublishKeepsPromise ==
    ASSUME StoreInv, SinceInv, StoreInv', NEW c, NEW j, NEW d, NEW t, PublishMade(c, j, d, t)
    PROVE  Promise!Publish(j)
<1>1. j \in DailyJobs /\ now' = now /\ t <= now
  BY DEF PublishMade
<1>2. PICK p : p = Publication(j)'
  OBVIOUS
<1>3. /\ p \in Promise!Publications /\ p.asOf = d /\ p.at = t
      /\ Publication(j) # None =>
            Publication(j).run < p.run /\ Publication(j).asOf <= p.asOf /\ Publication(j).at <= p.at
  BY <1>2, PublishSupersedes
<1>4. Promise!DateHasCome(j, p)
  BY <1>3, DateOfRun, SameSchedule DEF Promise!DateHasCome
<1>5. Promise!Supersedes(p, Publication(j))
  BY <1>3 DEF Promise!Supersedes
<1>6. [x \in DailyJobs |-> Publication(x)]' = [[x \in DailyJobs |-> Publication(x)] EXCEPT ![j] = p]
  <2>1. \A x \in DailyJobs : Publication(x)' = IF x = j THEN p ELSE Publication(x)
    BY <1>2, OthersRest
  <2>2. QED
    BY <2>1
<1>7. [x \in DailyJobs |-> Publication(x)][j] = Publication(j)
      /\ [x \in DailyJobs |-> Publication(x)]'[j] = p
  BY <1>1, <1>2
<1>8. QED
  BY <1>1, <1>3, <1>4, <1>5, <1>6, <1>7 DEF Promise!Publish

\* Only a publication changes what a source shows.
LEMMA PublicationRests ==
    ASSUME StoreInv, [Next]_vars, ~Publishes
    PROVE  \A j \in DailyJobs : Publication(j)' = Publication(j)
<1>1. now \in Nat /\ now' \in Nat /\ now <= now'
  BY ClockRises, KnownSoFar
<1>2. CASE LeavesPublished
  <2>1. PICK ended : SameBut(ended)
    BY <1>2 DEF LeavesPublished
  <2>2. \A k \in 1..Len(att) : att[k].run.status = "COMPLETE" => att'[k].run = att[k].run
    BY <1>2 DEF LeavesPublished, NoneCompletes
  <2>3. Kept
    BY <2>1, <2>2, SameIsKept DEF StoreInv
  <2>4. QED
    BY <1>1, <1>2, <2>3, RowsRest DEF StoreInv, LeavesPublished
<1>3. ASSUME NEW x \in jobs, BeginAttempt(x)
      PROVE  \A j \in DailyJobs : Publication(j)' = Publication(j)
  <2>1. \E e : att' = Append(att, e) /\ UNCHANGED row
    BY <1>3 DEF BeginAttempt, StartAttempt
  <2>2. att \in Seq(AttemptType)
    BY DEF StoreInv, RadarInv, TypeInv
  <2>3. Kept
    BY <2>1, <2>2, AppendProperties, LenProperties DEF Kept
  <2>4. QED
    BY <1>1, <2>1, <2>3, RowsRest DEF StoreInv
<1>4. QED
  BY <1>2, <1>3, StepKinds

LEMMA PromiseStep ==
    ASSUME StoreInv, SinceInv, [Next]_vars, StoreInv'
    PROVE  [Promise!Next]_(<<now, [j \in DailyJobs |-> Publication(j)]>>)
<1>1. /\ now \in Nat /\ now' \in Nat /\ (now' = now \/ now' = now + 1) /\ now <= now'
  BY ClockRises, KnownSoFar
<1>2. ASSUME \A j \in DailyJobs : Publication(j)' = Publication(j)
      PROVE  [Promise!Next]_(<<now, [j \in DailyJobs |-> Publication(j)]>>)
  <2>1. UNCHANGED [j \in DailyJobs |-> Publication(j)]
    BY <1>2
  <2>2. CASE now' = now
    BY <2>1, <2>2
  <2>3. CASE now' = now + 1
    BY <1>1, <2>1, <2>3 DEF Promise!Next, Promise!Pass
  <2>4. QED
    BY <1>1, <2>2, <2>3
<1>3. CASE ~Publishes
  BY <1>2, <1>3, PublicationRests
<1>4. CASE Publishes
  <2>1. PICK c, j, d, t : PublishMade(c, j, d, t)
    BY <1>4, PublishMakes DEF Publishes
  <2>2. Promise!Publish(j) /\ j \in DailyJobs
    BY <2>1, PublishKeepsPromise DEF PublishMade
  <2>3. QED
    BY <2>2, SameSchedule DEF Promise!Next
<1>5. QED
  BY <1>3, <1>4

\* Whoever reads a source, whatever is killed meanwhile, sees nothing or a whole publication of
\* a date that had come, and never an earlier one again (market_radar/storage.py
\* daily_publication; publish_*_and_complete).
THEOREM SourcesKeepPromise == Spec => SourcesAdvance
<1>1. Init => Promise!Init
  <2>1. SUFFICES ASSUME Init PROVE Promise!Init
    OBVIOUS
  <2>2. now \in Nat
    BY <2>1, DailyAssumption DEF Init
  <2>3. \A j \in DailyJobs : DatesOf(j) = {}
    BY <2>1 DEF Init, StoreInit, DatesOf, Tables
  <2>4. \A j \in DailyJobs : Publication(j) = None
    BY <2>3 DEF Publication
  <2>5. QED
    BY <2>2, <2>4, SameSchedule DEF Promise!Init
<1>2. Init => StoreInv /\ SinceInv
  <2>1. Init => DOMAIN att = {}
    BY EmptySeq DEF Init, StoreInit
  <2>2. QED
    BY <2>1, StoreInvInit DEF SinceInv
<1>3. StoreInv /\ SinceInv /\ [Next]_vars => StoreInv' /\ SinceInv'
  BY StoreInvStep, SinceInvStep
<1>4. StoreInv /\ SinceInv /\ [Next]_vars /\ StoreInv'
         => [Promise!Next]_(<<now, [j \in DailyJobs |-> Publication(j)]>>)
  BY PromiseStep
<1>5. QED
  BY <1>1, <1>2, <1>3, <1>4, PTL DEF Spec, SourcesAdvance, Promise!Spec

-----------------------------------------------------------------------------
(* The Catalog behind the prices.                                           *)

\* The last moment a decision of this process was taken at, and what it wants the prices for.
Decided ==
    IF svc.step = "job" THEN svc.at
    ELSE IF svc.step \in SyncSteps THEN att[svc.cur].started ELSE now

Wanted == ExpectedPriceDate(Decided)

Lead == catalog[BenchmarkId]

\* A check that is remembered makes the prices complete only as long as it is for the date
\* wanted now, and they are published as ready for it.
Trusted(d) == d >= Wanted /\ Satisfies(Publication("prices"), d)

AsksAgain ==
    /\ svc.step \in {"sync", "pipeline", "writing"} /\ This.job = "prices"
    /\ <<"prices", This.target>> \in svc.checked
    /\ Satisfies(Publication("prices"), This.target)

\* A process says and remembers nothing before its first tick; the job it syncs is still open.
TidyInv ==
    /\ catalog \in [Instruments -> Nat]
    /\ svc.step \in {"down", "recover"} => svc.checked = {}
    /\ svc.step \in {"down", "recover", "idle"} => svc.said = {}
    /\ svc.step \in SyncSteps => This.job \in svc.todo

\* No job after the prices touches the benchmark in the tick that said they are complete.
SaidInv ==
    \A p \in svc.said : p[1] = "prices" => p[2] \in Nat /\ p[2] <= Lead /\ "prices" \notin svc.todo

CheckedInv ==
    \A p \in svc.checked :
        p[1] = "prices" => p[2] \in Nat /\ p[2] <= Wanted /\ (Trusted(p[2]) => p[2] <= Lead)

\* Prices that are ready and remembered are tried again only for a marker, and in vain.
AskInv == AsksAgain => svc.step = "sync" /\ marker

MadeInv == svc.step = "published" /\ This.job = "prices" => This.target <= Lead

BarsInv == TidyInv /\ SaidInv /\ CheckedInv /\ AskInv /\ MadeInv

LEMMA DecidedBefore ==
    ASSUME StoreInv
    PROVE  /\ Decided \in Nat /\ StartTime <= Decided /\ Decided <= now /\ Wanted \in Nat
           /\ svc.step \in SyncSteps =>
                 /\ svc.cur \in DOMAIN att /\ Decided = This.started
                 /\ This.job = "prices" => This.target = Wanted
<1>1. /\ StartTime \in Nat /\ now \in Nat /\ svc.at \in Nat /\ svc.at <= now /\ now <= now
      /\ StartTime <= now /\ (svc.step = "job" => StartTime <= svc.at)
      /\ svc.step \in SyncSteps => svc.cur \in DOMAIN att
  BY KnownSoFar DEF StoreInv, ClockInv, RadarInv, SvcInv
<1>2. \A k \in DOMAIN att :
         /\ att[k].started \in Nat /\ att[k].started <= now /\ StartTime <= att[k].started
         /\ att[k].job \in PriceJobs => att[k].target = ExpectedPriceDate(att[k].started)
  BY KnownSoFar DEF StoreInv, OrderInv
<1>3. Decided \in Nat /\ StartTime <= Decided /\ Decided <= now
  BY <1>1, <1>2 DEF Decided
<1>4. Wanted \in Nat
  <2>1. Decided <= Decided
    BY <1>3
  <2>2. QED
    BY <1>3, <2>1, PriceDates DEF Wanted
<1>5. svc.step \in SyncSteps => svc.step # "job"
  BY DEF SyncSteps
<1>6. QED
  BY <1>1, <1>2, <1>3, <1>4, <1>5 DEF Decided, Wanted, This, PriceJobs

LEMMA DecidedIsNat == StoreInv => Decided \in Nat /\ Wanted \in Nat
  BY DecidedBefore

LEMMA BenchmarkBars ==
    ASSUME StoreInv, BarsInv
    PROVE  BenchmarkId \in Instruments /\ BenchmarkId \in Needed("prices") /\ Lead \in Nat
  BY BenchmarkAssumption DEF Instruments, Needed, Fetched, BarsInv, TidyInv, Lead

\* What the Catalog is found to have, or was, it has of the benchmark.
LEMMA ReadyIsThere ==
    ASSUME StoreInv, BarsInv, CatalogReady("prices", Wanted)
    PROVE  ~marker /\ (Satisfies(Publication("prices"), Wanted) => Wanted <= Lead)
<1>1. Wanted \in Nat /\ Lead \in Nat /\ BenchmarkId \in Needed("prices")
  BY DecidedBefore, BenchmarkBars
<1>2. ~marker /\ (<<"prices", Wanted>> \in svc.checked \/ catalog[BenchmarkId] >= Wanted)
  BY <1>1 DEF CatalogReady, PriceJobs
<1>3. CASE catalog[BenchmarkId] >= Wanted
  BY <1>1, <1>2, <1>3 DEF Lead
<1>4. CASE <<"prices", Wanted>> \in svc.checked
  <2>1. PICK p \in svc.checked : p = <<"prices", Wanted>>
    BY <1>4
  <2>2. p[1] = "prices" /\ p[2] = Wanted
    BY <2>1
  <2>3. Trusted(Wanted) => Wanted <= Lead
    BY <2>2 DEF BarsInv, CheckedInv
  <2>4. QED
    BY <1>1, <1>2, <2>3 DEF Trusted
<1>5. QED
  BY <1>2, <1>3, <1>4

\* The decisions move on: what is no longer wanted is no longer trusted.
LEMMA CheckedMoves ==
    ASSUME StoreInv, StoreInv', BarsInv, Decided <= Decided',
           Publication("prices")' = Publication("prices"),
           NEW told, svc'.checked \subseteq svc.checked \cup told,
           \A p \in told : p[1] = "prices" =>
              p[2] \in Nat /\ p[2] <= Wanted /\ (Trusted(p[2]) => p[2] <= Lead'),
           \A p \in svc.checked : p[1] = "prices" /\ Trusted(p[2]) => p[2] <= Lead'
    PROVE  CheckedInv'
<1>1. SUFFICES ASSUME NEW p \in svc'.checked, p[1] = "prices"
               PROVE  p[2] \in Nat /\ p[2] <= Wanted' /\ (Trusted(p[2])' => p[2] <= Lead')
  BY DEF CheckedInv
<1>2. p[2] \in Nat /\ p[2] <= Wanted /\ (Trusted(p[2]) => p[2] <= Lead')
  BY <1>1 DEF BarsInv, CheckedInv
<1>3. Wanted \in Nat /\ Wanted' \in Nat /\ Wanted <= Wanted'
  <2>1. Decided \in Nat /\ StartTime <= Decided /\ Wanted \in Nat
    BY DecidedBefore
  <2>2. (Decided \in Nat /\ Wanted \in Nat)'
    BY DecidedIsNat, PTL
  <2>3. Wanted' = ExpectedPriceDate(Decided')
    BY DEF Wanted, ExpectedPriceDate
  <2>4. QED
    BY <2>1, <2>2, <2>3, PriceDates DEF Wanted
<1>4. Trusted(p[2])' => Trusted(p[2])
  <2>1. Trusted(p[2])' <=> p[2] >= Wanted' /\ Satisfies(Publication("prices"), p[2])
    BY DEF Trusted, Satisfies
  <2>2. QED
    BY <1>2, <1>3, <2>1 DEF Trusted
<1>5. QED
  BY <1>2, <1>3, <1>4

\* The tick itself: decisions without an attempt.
LEMMA BarsDecision ==
    ASSUME StoreInv, StoreInv', BarsInv, Publication("prices")' = Publication("prices"),
           BeginTick \/ EndTick \/ \E j \in jobs : ReportComplete(j) \/ Postpone(j)
    PROVE  BarsInv'
<1>1. /\ svc \in SvcType /\ now \in Nat /\ UNCHANGED <<att, now, catalog, marker>>
      /\ svc.step \in {"idle", "job"} /\ svc.step \notin SyncSteps
      /\ Decided \in Nat /\ Decided <= now /\ Wanted \in Nat /\ Lead \in Nat
  BY KnownSoFar, DecidedBefore, BenchmarkBars
  DEF BeginTick, EndTick, ReportComplete, Postpone, InHand, store, SyncSteps
<1>2. /\ svc'.step \in {"idle", "job"} /\ (svc'.step = "job" => svc'.at = now)
      /\ svc'.step \notin SyncSteps
  BY <1>1 DEF BeginTick, EndTick, ReportComplete, Postpone, InHand, SvcType, SyncSteps
<1>3. Decided' = now /\ Decided <= Decided' /\ Lead' = Lead
  BY <1>1, <1>2 DEF Decided, Lead
<1>4. ASSUME NEW told, svc'.checked \subseteq svc.checked \cup told,
             svc'.said \subseteq svc.said \cup told,
             "prices" \in svc'.todo => "prices" \in svc.todo \/ svc'.said = {},
             svc'.step = "idle" => svc'.said = {},
             \A p \in told : p[1] = "prices" =>
                p[2] \in Nat /\ p[2] <= Wanted /\ p[2] <= Lead /\ "prices" \notin svc'.todo
      PROVE  BarsInv'
  <2>1. CheckedInv'
    <3>1. \A p \in svc.checked : p[1] = "prices" /\ Trusted(p[2]) => p[2] <= Lead'
      BY <1>3 DEF BarsInv, CheckedInv
    <3>2. QED
      BY <1>3, <1>4, <3>1, CheckedMoves
  <2>2. SaidInv'
    BY <1>3, <1>4 DEF BarsInv, SaidInv
  <2>3. TidyInv'
    BY <1>1, <1>2, <1>4 DEF BarsInv, TidyInv
  <2>4. AskInv' /\ MadeInv'
    BY <1>2 DEF AskInv, AsksAgain, MadeInv
  <2>5. QED
    BY <2>1, <2>2, <2>3, <2>4 DEF BarsInv
<1>5. CASE BeginTick
  <2>1. svc'.checked = svc.checked /\ svc'.said = svc.said /\ svc'.step = "job" /\ svc.said = {}
    BY <1>1, <1>5 DEF BeginTick, SvcType, BarsInv, TidyInv
  <2>2. QED
    BY <1>4, <2>1
<1>6. CASE EndTick
  <2>1. svc'.checked = svc.checked /\ svc'.said = {}
    BY <1>1, <1>6 DEF EndTick, SvcType
  <2>2. QED
    BY <1>4, <2>1
<1>7. ASSUME NEW j \in jobs, Postpone(j) PROVE BarsInv'
  <2>1. /\ svc'.checked = svc.checked /\ svc'.said = svc.said /\ svc'.todo \subseteq svc.todo
        /\ svc'.step = "job"
    BY <1>1, <1>7 DEF Postpone, InHand, SvcType
  <2>2. PICK told : told = {}
    OBVIOUS
  <2>3. svc'.checked \subseteq svc.checked \cup told /\ svc'.said \subseteq svc.said \cup told
        /\ ("prices" \in svc'.todo => "prices" \in svc.todo) /\ svc'.step # "idle"
    BY <2>1, <2>2
  <2>4. QED
    BY <1>4, <2>2, <2>3
<1>8. ASSUME NEW j \in jobs, ReportComplete(j) PROVE BarsInv'
  <2> DEFINE told == {<<j, Target(j, svc.at)>>}
  <2>1. /\ svc' = [svc EXCEPT !.todo = @ \ {j}, !.at = now, !.said = @ \cup told,
                              !.checked = IF j \in PriceJobs THEN @ \cup told ELSE @]
        /\ svc.step = "job" /\ Complete(j)
    BY <1>8 DEF ReportComplete, InHand
  <2>2. ASSUME j = "prices"
        PROVE  Target(j, svc.at) = Wanted /\ Wanted <= Lead
    <3>1. Wanted = ExpectedPriceDate(svc.at) /\ j \in PriceJobs
      BY <2>1, <2>2 DEF Wanted, Decided, PriceJobs
    <3>2. Target(j, svc.at) = Wanted /\ DueTarget(j, svc.at) = Wanted
      BY <3>1 DEF Target, DueTarget
    <3>3. Satisfies(Publication("prices"), Wanted) /\ CatalogReady("prices", Wanted)
      BY <2>1, <2>2, <3>2 DEF Complete
    <3>4. QED
      BY <3>2, <3>3, ReadyIsThere
  <2>3. \A p \in told : p[1] = "prices" =>
           p[2] \in Nat /\ p[2] <= Wanted /\ p[2] <= Lead /\ j = "prices"
    BY <1>1, <2>2
  <2> HIDE DEF told
  <2>4. /\ svc'.checked \subseteq svc.checked \cup told /\ svc'.said = svc.said \cup told
        /\ svc'.todo = svc.todo \ {j} /\ svc'.step = "job"
    BY <1>1, <2>1 DEF SvcType
  <2>5. QED
    BY <1>4, <2>3, <2>4
<1>9. QED
  BY <1>5, <1>6, <1>7, <1>8

\* Breadth begins with the prices it found; prices begin that are not complete.
LEMMA BarsBegin ==
    ASSUME StoreInv, StoreInv', BarsInv, Publication("prices")' = Publication("prices"),
           NEW j \in jobs, BeginAttempt(j)
    PROVE  BarsInv'
<1> DEFINE N == Len(att) + 1
           target == Target(j, svc.at)
           e == [job |-> j, due |-> ScheduledAt(svc.at), target |-> target,
                 number |-> NextNumber(j), started |-> svc.at, status |-> "running",
                 retry |-> None, run |-> NoRun]
           found == IF j = "breadth" THEN {<<"prices", target>>} ELSE {}
<1>1. /\ att' = Append(att, e) /\ UNCHANGED <<catalog, marker>>
      /\ svc' = [svc EXCEPT !.step = "sync", !.at = 0, !.cur = N, !.checked = @ \cup found]
      /\ svc.step = "job" /\ j \in svc.todo /\ ~LacksPrices(j) /\ ~Complete(j)
  BY DEF BeginAttempt, StartAttempt, InHand
<1>2. /\ att \in Seq(AttemptType) /\ Len(att) \in Nat /\ svc \in SvcType /\ Lead \in Nat
      /\ Decided \in Nat /\ Decided = svc.at /\ Wanted \in Nat
      /\ j \in PriceJobs => target = Wanted /\ DueTarget(j, svc.at) = Wanted
  BY <1>1, KnownSoFar, LenProperties, DecidedBefore, BenchmarkBars
  DEF StoreInv, RadarInv, TypeInv, Decided, Wanted, Target, DueTarget
<1>3. e.job = j /\ e.target = target /\ e.started = svc.at
  OBVIOUS
<1>4. \A p \in found : p[1] = "prices" =>
         p[2] \in Nat /\ p[2] <= Wanted /\ (Trusted(p[2]) => p[2] <= Lead)
  <2>1. CASE j # "breadth"
    BY <2>1
  <2>2. CASE j = "breadth"
    <3>1. target = Wanted
      BY <1>2, <2>2 DEF PriceJobs
    <3>2. CatalogReady("prices", Wanted)
      BY <1>1, <2>2, <3>1 DEF LacksPrices
    <3>3. Trusted(Wanted) => Wanted <= Lead
      BY <3>2, ReadyIsThere DEF Trusted
    <3>4. QED
      BY <1>2, <2>2, <3>1, <3>3
  <2>3. QED
    BY <2>1, <2>2
<1>5. j = "prices" /\ <<"prices", target>> \in svc.checked /\ Satisfies(Publication("prices"), target)
         => marker
  <2>1. SUFFICES ASSUME j = "prices", <<"prices", target>> \in svc.checked,
                        Satisfies(Publication("prices"), target)
                 PROVE  marker
    OBVIOUS
  <2>2. target = Wanted /\ DueTarget(j, svc.at) = Wanted
    BY <1>2, <2>1 DEF PriceJobs
  <2>3. ~CatalogReady(j, target)
    BY <1>1, <2>1, <2>2 DEF Complete
  <2>4. QED
    BY <2>1, <2>3 DEF CatalogReady
<1>6. j # "breadth" => found = {}
  OBVIOUS
<1> HIDE DEF e, found, target
<1>7. att'[N] = e /\ N \in Nat
  BY <1>1, <1>2, AppendProperties
<1>8. /\ svc'.step = "sync" /\ svc'.cur = N /\ svc'.said = svc.said /\ svc'.todo = svc.todo
      /\ svc'.checked = svc.checked \cup found
  BY <1>1, <1>2 DEF SvcType
<1> HIDE DEF N
<1>9. This' = e /\ Lead' = Lead /\ Decided' = svc.at
  BY <1>1, <1>3, <1>7, <1>8 DEF This, Lead, Decided, SyncSteps
<1>10. TidyInv' /\ SaidInv' /\ MadeInv'
  BY <1>1, <1>3, <1>8, <1>9 DEF BarsInv, TidyInv, SaidInv, MadeInv
<1>11. CheckedInv'
  <2>1. \A p \in svc.checked : p[1] = "prices" /\ Trusted(p[2]) => p[2] <= Lead'
    BY <1>9 DEF BarsInv, CheckedInv
  <2>2. Decided <= Decided'
    BY <1>2, <1>9
  <2>3. QED
    BY <1>4, <1>8, <1>9, <2>1, <2>2, CheckedMoves
<1>12. AskInv'
  <2>1. SUFFICES ASSUME AsksAgain' PROVE marker
    BY <1>1, <1>8 DEF AskInv
  <2>2. j = "prices" /\ <<"prices", target>> \in svc.checked \cup found
        /\ Satisfies(Publication("prices"), target)
    BY <1>3, <1>8, <1>9, <2>1 DEF AsksAgain, Satisfies
  <2>3. QED
    BY <1>5, <1>6, <2>2
<1>13. QED
  BY <1>10, <1>11, <1>12 DEF BarsInv

\* A sync writes the benchmark's bars only for prices that are not remembered as ready.
LEMMA BarsSync ==
    ASSUME StoreInv, StoreInv', BarsInv, Publication("prices")' = Publication("prices"),
           \/ BeginRun \/ PipelineWrites \/ PipelineEnds \/ AnswerArrives
           \/ \E o \in Outcomes : \/ FailEarly(o) \/ SyncFails(o) \/ SyncFailsUnrecorded(o)
                                  \/ \E torn \in BOOLEAN : PipelineFails(o, torn)
    PROVE  BarsInv'
<1>1. /\ svc \in SvcType /\ svc.step \in SyncSteps /\ svc.cur \in DOMAIN att /\ now \in Nat
      /\ svc.step \in {"pipeline", "writing"} => This.job \in PriceJobs
      /\ DOMAIN att = 1..Len(att) /\ Lead \in Nat /\ Decided \in Nat /\ Decided = This.started
      /\ Wanted \in Nat /\ (This.job = "prices" => This.target = Wanted)
  <2>1. svc.step \in SyncSteps
    BY DEF BeginRun, PipelineWrites, PipelineEnds, AnswerArrives, FailEarly, SyncFails,
       SyncFailsUnrecorded, PipelineFails, SyncSteps
  <2>2. QED
    BY <2>1, KnownSoFar, DecidedBefore, BenchmarkBars, LenProperties
    DEF StoreInv, RadarInv, TypeInv, SyncInv, This
<1>2. /\ svc'.cur = svc.cur /\ svc'.said = svc.said /\ svc'.checked = svc.checked
      /\ svc'.todo = svc.todo /\ svc'.step \in {"pipeline", "writing", "answer", "publish", "failed"}
      /\ svc'.step \in {"pipeline", "writing"} =>
            \/ svc.step = "sync" /\ (This.job = "prices" => ~marker)
            \/ svc.step = "pipeline"
  BY <1>1 DEF BeginRun, PipelineWrites, PipelineEnds, AnswerArrives, FailEarly, SyncFails,
     SyncFailsUnrecorded, PipelineFails, FailsWith, SvcType, PriceJobs
<1>3. SameBut({})
  <2>1. CASE UNCHANGED store
    BY <2>1, NothingOnRecord
  <2>2. CASE FailRun(svc.cur, now) \/ StartRun(svc.cur, now)
    BY <1>1, <2>2, RunChanges DEF StoreInv, RadarInv
  <2>3. QED
    BY <2>1, <2>2 DEF BeginRun, PipelineWrites, PipelineEnds, AnswerArrives, FailEarly, SyncFails,
       SyncFailsUnrecorded, PipelineFails
<1>4. This'.job = This.job /\ This'.target = This.target /\ Decided' = Decided
  <2>1. /\ att'[svc.cur].job = att[svc.cur].job /\ att'[svc.cur].target = att[svc.cur].target
        /\ att'[svc.cur].started = att[svc.cur].started
    BY <1>1, <1>3 DEF SameBut
  <2>2. svc'.step \in SyncSteps /\ svc'.step # "job"
    BY <1>2 DEF SyncSteps
  <2>3. QED
    BY <1>1, <1>2, <2>1, <2>2 DEF This, Decided
<1>5. /\ catalog' \in [Instruments -> Nat]
      /\ Lead' # Lead => svc.step = "writing" /\ This.job = "prices"
  <2>1. CASE UNCHANGED catalog
    BY <2>1 DEF BarsInv, TidyInv, Lead
  <2>2. CASE svc.step = "writing" /\ catalog' \in PartlyFetched
    <3>1. catalog' \in Catalogs
          /\ \A i \in Instruments : catalog'[i] = catalog[i] \/ EndsAt(i, catalog'[i])
      BY <2>2 DEF PartlyFetched
    <3>2. catalog' \in [Instruments -> Nat]
      <4>1. \A d \in Sessions \cup {0} : d \in Nat
        BY DailyAssumption
      <4>2. QED
        BY <3>1, <4>1 DEF Catalogs
    <3>3. This.job # "prices" => Lead' = Lead
      <4>1. BenchmarkId \in Instruments /\ BenchmarkId \notin MacroIds \cup MemberIds
        BY BenchmarkBars, BenchmarkAssumption
      <4>2. This.job # "prices" => ~EndsAt(BenchmarkId, catalog'[BenchmarkId])
        BY <4>1 DEF EndsAt, Fetched
      <4>3. QED
        BY <3>1, <4>1, <4>2 DEF Lead
    <3>4. QED
      BY <2>2, <3>2, <3>3
  <2>3. QED
    BY <2>1, <2>2 DEF BeginRun, PipelineWrites, PipelineEnds, AnswerArrives, FailEarly, SyncFails,
       SyncFailsUnrecorded, PipelineFails, AllFetched
<1>6. TidyInv' /\ MadeInv'
  <2>1. MadeInv'
    BY <1>2 DEF MadeInv
  <2>2. This'.job \in svc'.todo
    BY <1>1, <1>2, <1>4 DEF BarsInv, TidyInv
  <2>3. QED
    BY <1>2, <1>5, <2>1, <2>2 DEF TidyInv
<1>7. SaidInv'
  <2>1. \A p \in svc.said : p[1] = "prices" => Lead' = Lead
    BY <1>1, <1>5 DEF BarsInv, TidyInv, SaidInv
  <2>2. QED
    BY <1>2, <2>1 DEF BarsInv, SaidInv
<1>8. AskInv'
  <2>1. SUFFICES ASSUME AsksAgain' PROVE FALSE
    BY DEF AskInv
  <2>2. svc'.step \in {"sync", "pipeline", "writing"} /\ This.job = "prices"
        /\ <<"prices", This.target>> \in svc.checked
        /\ Satisfies(Publication("prices"), This.target)
    BY <1>2, <1>4, <2>1 DEF AsksAgain, Satisfies
  <2>3. AsksAgain /\ (svc.step = "sync" => ~marker)
    BY <1>2, <2>2 DEF AsksAgain
  <2>4. QED
    BY <2>3 DEF BarsInv, AskInv
<1>9. CheckedInv'
  <2>1. ASSUME NEW p \in svc.checked, p[1] = "prices", Trusted(p[2]) PROVE p[2] <= Lead'
    <3>1. CASE Lead' = Lead
      BY <2>1, <3>1 DEF BarsInv, CheckedInv
    <3>2. CASE Lead' # Lead
      <4>1. p[2] = This.target /\ svc.step = "writing" /\ This.job = "prices"
        BY <1>1, <1>5, <2>1, <3>2 DEF BarsInv, CheckedInv, Trusted
      <4>2. p = <<"prices", This.target>>
        BY <1>1, <2>1, <4>1 DEF SvcType
      <4>3. AsksAgain
        BY <2>1, <4>1, <4>2 DEF AsksAgain, Trusted
      <4>4. QED
        BY <4>1, <4>3 DEF BarsInv, AskInv
    <3>3. QED
      BY <3>1, <3>2
  <2>2. PICK told : told = {}
    OBVIOUS
  <2>3. Decided <= Decided' /\ svc'.checked \subseteq svc.checked \cup told
    BY <1>1, <1>2, <1>4
  <2>4. \A p \in told : p[1] = "prices" =>
           p[2] \in Nat /\ p[2] <= Wanted /\ (Trusted(p[2]) => p[2] <= Lead')
    BY <2>2
  <2>5. QED
    BY <2>1, <2>3, <2>4, CheckedMoves
<1>10. QED
  BY <1>6, <1>7, <1>8, <1>9 DEF BarsInv

\* Prices are published with the benchmark's bars at the target.
LEMMA BarsPublish ==
    ASSUME StoreInv, StoreInv', BarsInv, NEW ready \in BOOLEAN, NEW age \in {0, 1},
           Publish(ready, age)
    PROVE  BarsInv'
<1>1. PICK c, j, d, t : PublishMade(c, j, d, t)
  BY PublishMakes
<1>2. /\ c = svc.cur /\ j = This.job /\ j = att[c].job /\ j \in DailyJobs
      /\ svc.step = "publish" /\ svc.step \in SyncSteps /\ svc \in SvcType
      /\ svc' = [svc EXCEPT !.step = "published", !.at = 0]
      /\ c \in 1..Len(att) /\ SameBut({}) /\ UNCHANGED <<now, catalog>>
  BY <1>1 DEF PublishMade
<1>3. /\ Lead \in Nat /\ Decided \in Nat /\ Decided = This.started /\ Wanted \in Nat
      /\ This.job = "prices" => This.target = Wanted
  BY <1>2, DecidedBefore, BenchmarkBars
<1>4. This.job = "prices" => This.target = Lead
  <2>1. "prices" \in PriceJobs /\ "prices" # "macro"
    BY DEF PriceJobs
  <2>2. QED
    BY <2>1 DEF Publish, BarsReach, Lead
<1>5. /\ svc'.step = "published" /\ svc'.cur = svc.cur /\ svc'.said = svc.said
      /\ svc'.checked = svc.checked /\ svc'.todo = svc.todo
  BY <1>2 DEF SvcType
<1>6. /\ This'.job = This.job /\ This'.target = This.target /\ Decided' = Decided /\ Lead' = Lead
  <2>1. /\ att'[svc.cur].job = att[svc.cur].job /\ att'[svc.cur].target = att[svc.cur].target
        /\ att'[svc.cur].started = att[svc.cur].started
    BY <1>2 DEF SameBut
  <2>2. svc'.step \in SyncSteps /\ svc'.step # "job"
    BY <1>5 DEF SyncSteps
  <2>3. QED
    BY <1>2, <1>3, <1>5, <2>1, <2>2 DEF This, Decided, Lead
<1>7. TidyInv' /\ SaidInv' /\ AskInv' /\ MadeInv'
  <2>1. AskInv'
    BY <1>5 DEF AskInv, AsksAgain
  <2>2. MadeInv'
    BY <1>3, <1>4, <1>6 DEF MadeInv
  <2>3. SaidInv'
    BY <1>5, <1>6 DEF BarsInv, SaidInv
  <2>4. TidyInv'
    BY <1>2, <1>5, <1>6 DEF BarsInv, TidyInv
  <2>5. QED
    BY <2>1, <2>2, <2>3, <2>4
<1>8. CheckedInv'
  <2>1. CASE j = "prices"
    <3>1. Wanted' = Wanted
      BY <1>6 DEF Wanted, ExpectedPriceDate
    <3>2. \A p \in svc.checked : p[1] = "prices" => p[2] \in Nat /\ p[2] <= Wanted
      BY DEF BarsInv, CheckedInv
    <3>3. Wanted = Lead
      BY <1>2, <1>3, <1>4, <2>1
    <3>4. QED
      BY <1>5, <1>6, <3>1, <3>2, <3>3 DEF CheckedInv
  <2>2. CASE j # "prices"
    <3>1. Publication("prices")' = Publication("prices")
      BY <1>1, <2>2, OthersRest DEF DailyJobs
    <3>2. PICK told : told = {}
      OBVIOUS
    <3>3. \A p \in svc.checked : p[1] = "prices" /\ Trusted(p[2]) => p[2] <= Lead'
      BY <1>6 DEF BarsInv, CheckedInv
    <3>4. Decided <= Decided' /\ svc'.checked \subseteq svc.checked \cup told
      BY <1>3, <1>5, <1>6
    <3>5. \A p \in told : p[1] = "prices" =>
             p[2] \in Nat /\ p[2] <= Wanted /\ (Trusted(p[2]) => p[2] <= Lead')
      BY <3>2
    <3>6. QED
      BY <3>1, <3>3, <3>4, <3>5, CheckedMoves
  <2>3. QED
    BY <2>1, <2>2
<1>9. QED
  BY <1>7, <1>8 DEF BarsInv

\* What is reported complete was published with its bars, and its job is over for this tick.
LEMMA BarsSettled ==
    ASSUME StoreInv, StoreInv', BarsInv, Publication("prices")' = Publication("prices"),
           FinishPublished \/ FinishFailed
    PROVE  BarsInv'
<1>1. /\ svc \in SvcType /\ svc.step \in {"published", "failed"} /\ svc.step \in SyncSteps
      /\ now \in Nat /\ Lead \in Nat /\ Decided \in Nat /\ Decided <= now /\ Wanted \in Nat
      /\ This.job = "prices" => This.target = Wanted
      /\ UNCHANGED <<now, catalog>>
  BY KnownSoFar, DecidedBefore, BenchmarkBars DEF FinishPublished, FinishFailed, SyncSteps
<1>2. \E told : /\ Settled(told)
                /\ \A p \in told : p[1] = "prices" =>
                      This.job = "prices" /\ p[2] = Wanted /\ Wanted <= Lead
  <2>1. CASE FinishPublished
    <3> DEFINE p == Publication(This.job)
               mine == p \notin {None, Corrupt} /\ p.run = svc.cur
               whole == mine /\ Satisfies(p, This.target)
               told == IF whole THEN {<<This.job, This.target>>} ELSE {}
    <3>1. Settled(told)
      BY <2>1 DEF FinishPublished
    <3>2. This.job = "prices" => Wanted <= Lead
      BY <1>1, <2>1 DEF FinishPublished, BarsInv, MadeInv
    <3>3. \A x \in told : x[1] = "prices" =>
             This.job = "prices" /\ x[2] = Wanted /\ Wanted <= Lead
      BY <1>1, <3>2
    <3> HIDE DEF told
    <3>4. QED
      BY <3>1, <3>3
  <2>2. CASE FinishFailed
    <3>1. Settled({})
      BY <2>2 DEF FinishFailed
    <3>2. QED
      BY <3>1
  <2>3. QED
    BY <2>1, <2>2
<1>3. PICK told : /\ Settled(told)
                  /\ \A p \in told : p[1] = "prices" =>
                        This.job = "prices" /\ p[2] = Wanted /\ Wanted <= Lead
  BY <1>2
<1>4. /\ svc'.step = "job" /\ svc'.at = now /\ svc'.todo = svc.todo \ {This.job}
      /\ svc'.said = svc.said \cup told /\ svc'.checked = svc.checked \cup told
  BY <1>1, <1>3 DEF Settled, SvcType
<1>5. Decided' = now /\ Lead' = Lead /\ svc'.step \notin SyncSteps
  BY <1>1, <1>4 DEF Decided, Lead, SyncSteps
<1>6. TidyInv' /\ AskInv' /\ MadeInv'
  BY <1>1, <1>4, <1>5 DEF BarsInv, TidyInv, AskInv, AsksAgain, MadeInv
<1>7. SaidInv'
  <2>1. ASSUME NEW p \in svc'.said, p[1] = "prices"
        PROVE  p[2] \in Nat /\ p[2] <= Lead' /\ "prices" \notin svc'.todo
    <3>1. CASE p \in told
      BY <1>1, <1>3, <1>4, <1>5, <2>1, <3>1
    <3>2. CASE p \in svc.said
      BY <1>4, <1>5, <2>1, <3>2 DEF BarsInv, SaidInv
    <3>3. QED
      BY <1>4, <2>1, <3>1, <3>2
  <2>2. QED
    BY <2>1 DEF SaidInv
<1>8. CheckedInv'
  <2>1. \A p \in told : p[1] = "prices" =>
           p[2] \in Nat /\ p[2] <= Wanted /\ (Trusted(p[2]) => p[2] <= Lead')
    BY <1>1, <1>3, <1>5
  <2>2. \A p \in svc.checked : p[1] = "prices" /\ Trusted(p[2]) => p[2] <= Lead'
    BY <1>5 DEF BarsInv, CheckedInv
  <2>3. QED
    BY <1>1, <1>4, <1>5, <2>1, <2>2, CheckedMoves
<1>9. QED
  BY <1>6, <1>7, <1>8 DEF BarsInv

\* A process that ends forgets, and whatever becomes of the Catalog is found by the next.
LEMMA BarsProcess ==
    ASSUME StoreInv, BarsInv,
           \/ ProcessEnds \/ DatabaseFails \/ CatalogReplaced \/ StartService \/ EndRecovery
           \/ \E i \in DOMAIN att : RecoverRun(i) \/ RecoverAttempt(i)
    PROVE  BarsInv'
<1>1. svc \in SvcType
  BY KnownSoFar
<1>2. svc'.step \in {"down", "recover", "idle"} /\ svc'.said = {} /\ svc'.checked = {}
  <2>1. CASE svc' = Down
    BY <2>1 DEF Down
  <2>2. CASE StartService
    BY <2>2 DEF StartService, Down
  <2>3. CASE EndRecovery
    BY <1>1, <2>3 DEF EndRecovery, SvcType, BarsInv, TidyInv
  <2>4. CASE UNCHANGED svc /\ svc.step \in {"down", "recover"}
    BY <2>4 DEF BarsInv, TidyInv
  <2>5. QED
    BY <2>1, <2>2, <2>3, <2>4
    DEF ProcessEnds, DatabaseFails, CatalogReplaced, RecoverRun, RecoverAttempt
<1>3. catalog' \in [Instruments -> Nat]
  <2>1. CASE UNCHANGED catalog
    BY <2>1 DEF BarsInv, TidyInv
  <2>2. CASE catalog' \in PartlyFetched
    <3>1. \A d \in Sessions \cup {0} : d \in Nat
      BY DailyAssumption
    <3>2. QED
      BY <2>2, <3>1 DEF PartlyFetched, Catalogs
  <2>3. CASE CatalogReplaced
    BY <2>1, <2>3 DEF CatalogReplaced
  <2>4. QED
    BY <2>1, <2>2, <2>3
    DEF ProcessEnds, DatabaseFails, StartService, EndRecovery, RecoverRun, RecoverAttempt
<1>4. svc'.step \notin SyncSteps
  BY <1>2 DEF SyncSteps
<1>5. TidyInv' /\ SaidInv' /\ CheckedInv' /\ MadeInv' /\ AskInv'
  BY <1>2, <1>3, <1>4 DEF TidyInv, SaidInv, CheckedInv, MadeInv, AskInv, AsksAgain
<1>6. QED
  BY <1>5 DEF BarsInv

\* The clock alone.
LEMMA BarsRest ==
    ASSUME StoreInv, StoreInv', BarsInv, Publication("prices")' = Publication("prices"),
           now' \in Nat, now <= now', UNCHANGED <<att, svc, catalog, marker>>
    PROVE  BarsInv'
<1>1. Decided \in Nat /\ Decided <= Decided /\ Lead' = Lead /\ This' = This
  BY DecidedBefore DEF Lead, This
<1>2. Decided <= Decided'
  BY <1>1 DEF Decided
<1>3. CheckedInv'
  <2>1. PICK told : told = {}
    OBVIOUS
  <2>2. \A p \in svc.checked : p[1] = "prices" /\ Trusted(p[2]) => p[2] <= Lead'
    BY <1>1 DEF BarsInv, CheckedInv
  <2>3. svc'.checked \subseteq svc.checked \cup told
        /\ \A p \in told : p[1] = "prices" =>
              p[2] \in Nat /\ p[2] <= Wanted /\ (Trusted(p[2]) => p[2] <= Lead')
    BY <2>1
  <2>4. QED
    BY <1>2, <2>2, <2>3, CheckedMoves
<1>4. AsksAgain' <=> AsksAgain
  BY <1>1 DEF AsksAgain, Satisfies
<1>5. TidyInv' /\ SaidInv' /\ AskInv' /\ MadeInv'
  BY <1>1, <1>4 DEF BarsInv, TidyInv, SaidInv, AskInv, MadeInv
<1>6. QED
  BY <1>3, <1>5 DEF BarsInv

LEMMA BarsInvStep ==
    ASSUME StoreInv, StoreInv', BarsInv, [Next]_vars PROVE BarsInv'
<1>1. now' \in Nat /\ now <= now'
  BY ClockRises, KnownSoFar
<1>2. CASE Publishes
  BY <1>2, BarsPublish DEF Publishes
<1>3. CASE ~Publishes
  <2>1. Publication("prices")' = Publication("prices")
    BY <1>3, PublicationRests DEF DailyJobs
  <2>2. CASE UNCHANGED vars \/ TimePasses
    <3>1. UNCHANGED <<att, svc, catalog, marker>>
      BY <2>2 DEF vars, TimePasses, store
    <3>2. QED
      BY <1>1, <2>1, <3>1, BarsRest
  <2>3. CASE Deciding
    BY <2>1, <2>3, BarsDecision, BarsBegin DEF Deciding
  <2>4. CASE Syncing
    BY <1>3, <2>1, <2>4, BarsSync DEF Syncing, Outcomes, Publishes
  <2>5. CASE Settling
    BY <2>1, <2>5, BarsSettled, BarsProcess DEF Settling
  <2>6. CASE Mishap
    BY <2>1, <2>6, BarsSync, BarsProcess DEF Mishap, Outcomes
  <2>7. QED
    BY <2>2, <2>3, <2>4, <2>5, <2>6 DEF Next, ServiceStep
<1>4. QED
  BY <1>2, <1>3

\* What a tick says the prices are complete for, the Catalog in use has of the benchmark, although
\* the check is remembered while later runs replace bars with ones that may end earlier; and
\* breadth never gets ahead of the prices it is measured against (market_radar/daily.py
\* _catalog_ready and waiting_dependency; market_radar/service.py _require_price_date).
THEOREM BenchmarkStaysCovered == Spec => []BenchmarkIsThere
<1>1. Init => StoreInv /\ BarsInv
  <2>1. SUFFICES ASSUME Init PROVE BarsInv
    BY StoreInvInit
  <2>2. /\ svc.step = "down" /\ svc.said = {} /\ svc.checked = {}
        /\ catalog = [i \in Instruments |-> 0]
    BY <2>1 DEF Init, Down
  <2>3. svc.step \notin SyncSteps
    BY <2>2 DEF SyncSteps
  <2>4. QED
    BY <2>2, <2>3 DEF BarsInv, TidyInv, SaidInv, CheckedInv, AskInv, AsksAgain, MadeInv
<1>2. StoreInv /\ BarsInv /\ [Next]_vars => StoreInv' /\ BarsInv'
  BY StoreInvStep, BarsInvStep
<1>3. StoreInv /\ BarsInv => BenchmarkIsThere
  <2>1. SUFFICES ASSUME StoreInv, BarsInv PROVE BenchmarkIsThere
    OBVIOUS
  <2>2. ASSUME NEW p \in svc.said, p[1] = "prices" PROVE catalog[BenchmarkId] >= p[2]
    <3>1. p[2] \in Nat /\ p[2] <= Lead /\ Lead \in Nat
      BY <2>1, <2>2, BenchmarkBars DEF BarsInv, SaidInv
    <3>2. QED
      BY <3>1 DEF Lead
  <2>3. ASSUME NEW d \in DatesOf("breadth") PROVE \E e \in DatesOf("prices") : e >= d
    <3>1. "breadth" \in Tables
      BY DEF Tables, DailyJobs
    <3>2. PICK i \in DOMAIN att : att[i].job = "breadth" /\ d = AsOfDate(i)
      BY <2>1, <2>3, <3>1 DEF StoreInv, RowsInv, RowHolds, Source
    <3>3. d = att[i].target
      BY <3>2 DEF AsOfDate, PriceJobs
    <3>4. QED
      BY <2>1, <3>2, <3>3 DEF StoreInv, BreadthInv
  <2>4. QED
    BY <2>2, <2>3 DEF BenchmarkIsThere
<1>4. QED
  BY <1>1, <1>2, <1>3, PTL DEF Spec

-----------------------------------------------------------------------------
(* What the readers of the store return.                                    *)

\* A date is published in the days that follow it, a price date not on its own day.
LEMMA RowDates ==
    ASSUME StoreInv, NEW table \in Tables, NEW d \in DatesOf(table)
    PROVE  /\ Today \in Nat /\ d \in Nat /\ d <= Today /\ now \in Nat
           /\ Source(table) \in PriceJobs => d < Today
<1>1. PICK r : r = row[table][d]
  OBVIOUS
<1>2. /\ d \in Nat /\ r.at \in Nat /\ r.run \in DOMAIN att /\ d = AsOfDate(r.run) /\ r.at <= now
      /\ Source(table) \notin PriceJobs => Day(r.at) = d
      /\ att[r.run].job = Source(table)
  BY <1>1, RowShape DEF StoreInv, RowHolds, Rows
<1>3. now \in Nat /\ Today \in Nat
  BY KnownSoFar DEF Today, Day
<1>4. CASE Source(table) \in PriceJobs
  <2>1. /\ d = att[r.run].target /\ d < Day(att[r.run].started)
        /\ att[r.run].started \in Nat /\ att[r.run].started <= now
    BY <1>2, <1>4, KnownSoFar DEF AsOfDate
  <2>2. Day(att[r.run].started) \in Nat /\ Day(att[r.run].started) <= Today
    BY <1>3, <2>1 DEF Day, Today
  <2>3. QED
    BY <1>2, <1>3, <2>1, <2>2
<1>5. CASE Source(table) \notin PriceJobs
  <2>1. Day(r.at) = d /\ Day(r.at) <= Today
    BY <1>2, <1>3, <1>5 DEF Day, Today
  <2>2. QED
    BY <1>2, <1>3, <1>5, <2>1
<1>6. QED
  BY <1>4, <1>5

\* The rows that are read are those of complete runs, which all rows are.
LEMMA AllCompleted ==
    ASSUME RowsInv, NEW table \in Tables
    PROVE  CompletedDates(table) = DatesOf(table)
<1>1. \A d \in DatesOf(table) : d \in CompletedDates(table)
  BY RowShape
<1>2. QED
  BY <1>1 DEF CompletedDates

\* A reader that needs a newest row gets one whose columns and payload agree.
LEMMA NewestRow ==
    ASSUME StoreInv, NEW table \in Tables, CompletedDates(table) # {}, NEW d,
           d = Max(CompletedDates(table))
    PROVE  /\ d \in DatesOf(table) /\ ColumnsMatch(table, d) /\ RowHolds(table, d)
           /\ row[table][d].payload \in Payloads /\ row[table][d].payload \notin {None, Corrupt}
           /\ row[table][d].payload.asOf = d /\ row[table][d].payload.of <= d
           /\ row[table][d].payload.of \in Int
           /\ row[table][d].payload.at = row[table][d].at
           /\ row[table][d].at \in Nat /\ row[table][d].at <= now /\ row[table][d].run \in Nat
<1>1. d \in DatesOf(table)
  BY AllCompleted, NewestDate DEF StoreInv
<1>2. /\ row[table][d] \in Rows /\ row[table][d].payload \in Payloads /\ RowHolds(table, d)
      /\ ColumnsMatch(table, d)
  BY <1>1, RowShape DEF StoreInv
<1>3. row[table][d].payload \notin {None, Corrupt}
  BY <1>2, StoreAssumption
<1>4. row[table][d].at \in Nat /\ row[table][d].run \in Nat /\ row[table][d].payload.of \in Int
  BY <1>2 DEF Rows, Payloads
<1>5. QED
  BY <1>1, <1>2, <1>3, <1>4 DEF RowHolds

\* None, or a snapshot with a date and an instant that have come.
Sound(s, table) ==
    \/ s = None
    \/ /\ s \notin {None, Corrupt} /\ s.asOf \in Nat /\ s.asOf <= Today
       /\ s.at \in Nat /\ s.at <= now
       /\ s.of \in Int /\ s.of <= Today
       /\ Source(table) \in PriceJobs => s.asOf < Today

LEMMA SnapshotSound ==
    ASSUME StoreInv, NEW table \in Tables PROVE Sound(LatestSnapshot(table), table)
<1>1. CASE CompletedDates(table) = {}
  BY <1>1 DEF LatestSnapshot, Sound
<1>2. CASE CompletedDates(table) # {}
  <2>1. PICK d : d = Max(CompletedDates(table))
    OBVIOUS
  <2>2. PICK s : s = row[table][d].payload
    OBVIOUS
  <2>3. /\ d \in DatesOf(table) /\ s \notin {None, Corrupt} /\ s.asOf = d /\ s.of <= d
        /\ s.of \in Int /\ s.at \in Nat /\ s.at <= now /\ ColumnsMatch(table, d)
    BY <1>2, <2>1, <2>2, NewestRow
  <2>4. LatestSnapshot(table) = s
    BY <1>2, <2>1, <2>2, <2>3 DEF LatestSnapshot
  <2>5. Today \in Nat /\ d \in Nat /\ d <= Today /\ (Source(table) \in PriceJobs => d < Today)
    BY <2>3, RowDates
  <2>6. s.of <= Today
    BY <2>3, <2>5
  <2>7. QED
    BY <2>3, <2>4, <2>5, <2>6 DEF Sound
<1>3. QED
  BY <1>1, <1>2

\* The regime and the risk appetite of one run have its date.
LEMMA BundleSound ==
    ASSUME StoreInv PROVE Sound(MacroBundle, "macro")
<1> DEFINE Pairs == {p \in CompletedDates("macro") \X DatesOf("risk") :
                        row["macro"][p[1]].run = row["risk"][p[2]].run}
           newest == CHOOSE p \in Pairs : \A q \in Pairs : q[1] <= p[1]
<1>1. /\ "macro" \in Tables /\ "risk" \in Tables /\ Source("macro") = "macro"
      /\ Source("risk") = "macro"
  BY DEF Tables, DailyJobs, Source
<1>2. MacroBundle = IF Pairs = {} THEN None
                    ELSE IF /\ newest[1] = newest[2]
                            /\ ColumnsMatch("macro", newest[1]) /\ ColumnsMatch("risk", newest[2])
                         THEN row["macro"][newest[1]].payload
                         ELSE Corrupt
  BY DEF MacroBundle
<1>3. CASE Pairs = {}
  BY <1>2, <1>3 DEF Sound
<1>4. CASE Pairs # {}
  <2> DEFINE D == {p[1] : p \in Pairs}
  <2>1. D \subseteq 0..MaxDay /\ D # {} /\ MaxDay \in Nat
    BY <1>4, DailyAssumption DEF CompletedDates, DatesOf
  <2>2. PICK d \in D : \A e \in D : e <= d
    BY <2>1, HasNewest
  <2>3. PICK p \in Pairs : p[1] = d
    BY <2>2
  <2>4. \A q \in Pairs : q[1] <= p[1]
    BY <2>2, <2>3
  <2>5. newest \in Pairs
    BY <2>4
  <2> HIDE DEF newest, D
  <2>6. PICK m, n : /\ newest = <<m, n>> /\ m \in CompletedDates("macro") /\ n \in DatesOf("risk")
                    /\ row["macro"][m].run = row["risk"][n].run
    BY <2>5
  <2>7. m \in DatesOf("macro")
    BY <2>6 DEF CompletedDates
  <2>8. m = AsOfDate(row["macro"][m].run) /\ n = AsOfDate(row["risk"][n].run)
    BY <1>1, <2>6, <2>7, RowShape DEF StoreInv, RowHolds
  <2>9. m = n /\ newest[1] = m /\ newest[2] = m
    BY <2>6, <2>8
  <2>10. ColumnsMatch("macro", m) /\ ColumnsMatch("risk", n)
    BY <1>1, <2>6, <2>7, RowShape DEF StoreInv
  <2>11. PICK s : s = row["macro"][m].payload
    OBVIOUS
  <2>12. MacroBundle = s
    BY <1>2, <1>4, <2>9, <2>10, <2>11
  <2>13. /\ s \in Payloads /\ s.asOf = m /\ s.of <= m /\ row["macro"][m].at <= now
         /\ s.at = row["macro"][m].at
    BY <1>1, <2>7, <2>11, RowShape DEF StoreInv, RowHolds
  <2>14. s \notin {None, Corrupt} /\ s.at \in Nat /\ s.of \in Int
    BY <2>13, StoreAssumption DEF Payloads
  <2>15. Today \in Nat /\ m \in Nat /\ m < Today
    BY <1>1, <2>7, RowDates DEF PriceJobs
  <2>16. s.of <= Today /\ s.asOf <= Today
    BY <2>13, <2>14, <2>15
  <2>17. QED
    BY <2>12, <2>13, <2>14, <2>15, <2>16 DEF Sound
<1>5. QED
  BY <1>3, <1>4

LEMMA BatchSound ==
    ASSUME StoreInv, NEW table \in {"economic_events", "earnings"}
    PROVE  /\ Sound(CapturedBatch(table), table)
           /\ CapturedBatch(table) # None =>
                 \E d \in DatesOf(table) : CapturedBatch(table) = row[table][d].payload
<1>1. table \in Tables /\ Source(table) = table /\ table \notin PriceJobs
  BY DEF Tables, DailyJobs, Source, PriceJobs
<1>2. CASE CompletedDates(table) = {}
  BY <1>2 DEF CapturedBatch, Sound
<1>3. CASE CompletedDates(table) # {}
  <2>1. PICK d : d = Max(CompletedDates(table))
    OBVIOUS
  <2>2. PICK r : r = row[table][d]
    OBVIOUS
  <2>3. /\ d \in DatesOf(table) /\ r.payload \notin {None, Corrupt} /\ r.payload.asOf = d
        /\ r.payload.of <= d /\ r.payload.of \in Int /\ r.payload.at \in Nat
        /\ r.payload.at <= now /\ ColumnsMatch(table, d) /\ RowHolds(table, d)
        /\ r.at \in Nat
    BY <1>1, <1>3, <2>1, <2>2, NewestRow
  <2>4. /\ att[r.run].job = table /\ Day(r.at) = d /\ Day(RunOf(r).started) = d
        /\ RunOf(r).started <= r.at /\ RunOf(r).completed = r.at
    BY <1>1, <2>2, <2>3 DEF RowHolds, AsOfDate, RunOf
  <2>5. CapturedBatch(table) = r.payload
    BY <1>3, <2>1, <2>2, <2>3, <2>4 DEF CapturedBatch
  <2>6. Today \in Nat /\ d \in Nat /\ d <= Today
    BY <1>1, <2>3, RowDates
  <2>7. r.payload.of <= Today
    BY <2>3, <2>6
  <2>8. QED
    BY <1>1, <2>2, <2>3, <2>5, <2>6, <2>7 DEF Sound
<1>4. QED
  BY <1>2, <1>3

\* The calendar rows of a date are those of its snapshot.
LEMMA EarningsBatchSound ==
    ASSUME StoreInv PROVE Sound(EarningsEventBatch, "earnings")
<1>1. PICK b : b = CapturedBatch("earnings")
  OBVIOUS
<1>2. Sound(b, "earnings") /\ (b # None => \E d \in DatesOf("earnings") : b = row["earnings"][d].payload)
  BY <1>1, BatchSound
<1>3. CASE b = None
  BY <1>1, <1>3 DEF EarningsEventBatch, Sound
<1>4. CASE b # None
  <2>1. PICK d \in DatesOf("earnings") : b = row["earnings"][d].payload
    BY <1>2, <1>4
  <2>2. "earnings" \in Tables /\ Source("earnings") = "earnings" /\ "earnings" \notin PriceJobs
    BY DEF Tables, DailyJobs, Source, PriceJobs
  <2>3. PICK r : r = row["earnings"][d]
    OBVIOUS
  <2>4. /\ b.asOf = d /\ Day(r.at) = d /\ RunOf(r).started <= r.at /\ r.at \in Nat
        /\ row["calendar"][d] = r
    BY <2>1, <2>2, <2>3, RowShape DEF StoreInv, RowsInv, RowHolds, RunOf, Rows
  <2>5. b \notin {None, Corrupt} /\ r.at <= r.at
    BY <1>2, <1>4, <2>4 DEF Sound
  <2>6. EarningsEventBatch = b
    BY <1>1, <2>3, <2>4, <2>5 DEF EarningsEventBatch
  <2>7. QED
    BY <1>2, <2>6
<1>5. QED
  BY <1>3, <1>4

-----------------------------------------------------------------------------
(* The newest attempt of a job.                                             *)

\* By start and number, over all due times: it is the one inserted last.
LEMMA LatestOfAll ==
    ASSUME StoreInv, NEW j, AttemptsOf(j) # {}
    PROVE  \E m \in AttemptsOf(j) :
              LatestAttempt(AttemptsOf(j)) = m /\ \A k \in AttemptsOf(j) : k <= m
<1> DEFINE T == AttemptsOf(j)
           Later(i) == \A k \in T : \/ att[k].started < att[i].started
                                    \/ att[k].started = att[i].started /\ att[k].number <= att[i].number
<1>1. /\ T \subseteq DOMAIN att /\ DOMAIN att = 1..Len(att) /\ Len(att) \in Nat
      /\ \A k \in T : att[k].job = j
  BY LenProperties DEF AttemptsOf, StoreInv, RadarInv, TypeInv
<1>2. PICK m \in T : \A k \in T : k <= m
  <2>1. T \in SUBSET (0..Len(att))
    BY <1>1
  <2>2. QED
    BY <1>1, <2>1, HasNewest
<1>3. \A k \in DOMAIN att : att[k].started \in Nat /\ att[k].number \in Nat
  <2>1. \A k \in DOMAIN att : att[k] \in AttemptType
    BY KnownSoFar
  <2>2. QED
    BY <2>1 DEF AttemptType
<1>4. ASSUME NEW k \in T, k # m
      PROVE  \/ att[k].started < att[m].started
             \/ att[k].started = att[m].started /\ att[k].number < att[m].number
  <2>1. k < m /\ att[k].started <= att[m].started
    BY <1>1, <1>2, <1>4 DEF StoreInv, OrderInv
  <2>2. CASE att[k].started = att[m].started
    <3>1. att[k].due = att[m].due
      BY <1>1, <2>2 DEF StoreInv, OrderInv
    <3>2. k \in Earlier(m)
      BY <1>1, <2>1, <3>1 DEF Earlier
    <3>3. att[k].number < att[m].number
      BY <1>1, <3>2 DEF StoreInv, RadarInv, BudgetKept
    <3>4. QED
      BY <2>2, <3>3
  <2>3. QED
    BY <1>1, <1>3, <2>1, <2>2
<1>5. Later(m)
  <2>1. att[m].number <= att[m].number
    BY <1>1, <1>3
  <2>2. QED
    BY <1>1, <1>3, <1>4, <2>1
<1>6. \A i \in T : Later(i) => i = m
  <2>1. SUFFICES ASSUME NEW i \in T, Later(i), i # m PROVE FALSE
    OBVIOUS
  <2>2. QED
    BY <1>1, <1>3, <1>4, <2>1
<1>7. LatestAttempt(T) = CHOOSE i \in T : Later(i)
  BY DEF LatestAttempt
<1> HIDE DEF Later
<1>8. LatestAttempt(T) = m
  BY <1>5, <1>6, <1>7
<1>9. QED
  BY <1>2, <1>8

-----------------------------------------------------------------------------
(* Nothing is refused.                                                      *)

\* What the service and the page read of a source.
LEMMA PublicationSound ==
    ASSUME StoreInv, NEW j \in DailyJobs PROVE ~Unreadable(j)
<1>1. j \in Tables /\ Source(j) = j
  BY DEF Tables, Source, DailyJobs
<1>2. CASE DatesOf(j) = {}
  BY <1>2, StoreAssumption DEF Unreadable, Publication
<1>3. CASE DatesOf(j) # {}
  <2>1. PICK d : d = Max(DatesOf(j))
    OBVIOUS
  <2>2. /\ d \in DatesOf(j) /\ Publication(j) \notin {None, Corrupt}
        /\ Publication(j).asOf = d /\ Publication(j).at = row[j][d].at
    BY <1>3, <2>1, PublicationIs DEF StoreInv
  <2>3. row[j][d].at <= now /\ row[j][d].at \in Nat
    BY <1>1, <2>2, RowShape DEF StoreInv, RowHolds, Rows
  <2>4. Today \in Nat /\ d \in Nat /\ d <= Today /\ now \in Nat /\ (j \in PriceJobs => d < Today)
    BY <1>1, <2>2, RowDates
  <2>5. /\ ~(Publication(j).at > now) /\ ~(Publication(j).asOf > Today)
        /\ ~(j \in PriceJobs /\ Publication(j).asOf = Today)
    BY <2>2, <2>3, <2>4
  <2>6. QED
    BY <2>2, <2>5 DEF Unreadable
<1>4. QED
  BY <1>2, <1>3

\* A state is one of the attempt's or the page's words.
LEMMA SpokenIs ==
    ASSUME StoreInv, NEW j
    PROVE  Spoken(j) \in {"failed", "pending", "running", "waiting_source", "interrupted"}
<1>1. AttemptsOf(j) # {} =>
         Latest(j).status \in {"running", "failed", "waiting_source", "interrupted", "complete"}
  <2>1. SUFFICES ASSUME AttemptsOf(j) # {}
                 PROVE  Latest(j).status \in
                           {"running", "failed", "waiting_source", "interrupted", "complete"}
    OBVIOUS
  <2>2. PICK m \in AttemptsOf(j) : LatestAttempt(AttemptsOf(j)) = m
    BY <2>1, LatestOfAll
  <2>3. att[m] \in AttemptType
    BY KnownSoFar DEF AttemptsOf
  <2>4. QED
    BY <2>2, <2>3 DEF Latest, AttemptType
<1>2. CASE RunSpeaks(j)
  BY <1>2 DEF Spoken
<1>3. CASE AttemptSpeaks(j) /\ ~RunSpeaks(j)
  <2>1. AttemptsOf(j) # {}
    BY <1>3 DEF AttemptSpeaks
  <2>2. Spoken(j) = IF Latest(j).status = "complete" THEN "pending" ELSE Latest(j).status
    BY <1>3 DEF Spoken
  <2>3. QED
    BY <1>1, <2>1, <2>2
<1>4. CASE ~AttemptSpeaks(j) /\ ~RunSpeaks(j)
  BY <1>4 DEF Spoken
<1>5. QED
  BY <1>2, <1>3, <1>4

LEMMA StateIs ==
    ASSUME StoreInv, NEW j \in DailyJobs
    PROVE  PageState(j) # "invalid" /\ (PageState(j) = "blocked" => Exhausted(j))
<1>1. ~Unreadable(j)
  BY PublicationSound
<1>2. Spoken(j) \in {"failed", "pending", "running", "waiting_source", "interrupted"}
  BY SpokenIs
<1>3. CASE Exhausted(j)
  BY <1>1, <1>3 DEF PageState
<1>4. CASE ~Exhausted(j) /\ AwaitsPrices(j)
  BY <1>1, <1>4 DEF PageState
<1>5. CASE ~Exhausted(j) /\ ~AwaitsPrices(j)
  <2>1. PageState(j) = IF PageSatisfied(j) /\ Spoken(j) \notin {"running", "failed"}
                       THEN "complete" ELSE Spoken(j)
    BY <1>1, <1>5 DEF PageState
  <2>2. QED
    BY <1>2, <2>1
<1>6. QED
  BY <1>3, <1>4, <1>5

Fresh == {"stale", "fresh"}

LEMMA RaisesIsNoWord == Raises \notin Fresh /\ Raises # "empty"
  BY StatusAssumption DEF Shown, Fresh

LEMMA AgesAreFresh ==
    ASSUME NEW ages, \A a \in ages : a \in Nat, NEW limit PROVE AgedBy(ages, limit) \in Fresh
<1>1. \A a \in ages : ~(a < 0)
  <2>1. ASSUME NEW a \in ages, a < 0 PROVE FALSE
    <3>1. a \in Nat
      OBVIOUS
    <3>2. QED
      BY <2>1, <3>1
  <2>2. QED
    BY <2>1
<1>2. QED
  BY <1>1 DEF AgedBy, Fresh

\* A page is empty, stale or fresh.
LEMMA ViewIsShown ==
    ASSUME NEW s, NEW state, NEW table, Sound(s, table), s # None => state \in Fresh
    PROVE  View(s, state) \in Shown \ {"unavailable"}
<1>1. CASE s = None
  BY <1>1 DEF View, Shown
<1>2. CASE s # None
  BY <1>2 DEF View, Shown, Sound, Fresh
<1>3. QED
  BY <1>1, <1>2

LEMMA PricesAreFresh ==
    ASSUME NEW asOf \in Nat, Today \in Nat, asOf < Today PROVE PriceFreshness(asOf) \in Fresh
<1>1. ~(asOf >= Today)
  OBVIOUS
<1>2. QED
  BY <1>1 DEF PriceFreshness, Fresh

LEMMA PagesAreShown ==
    ASSUME StoreInv
    PROVE  {PricePage, BreadthPage, MacroPage, EarningsPage, FundamentalsPage,
            EventSources.economic, EventSources.earnings} \subseteq Shown \ {"unavailable"}
<1>1. /\ {"prices", "breadth", "macro", "earnings", "fundamentals"} \subseteq Tables
      /\ Source("prices") \in PriceJobs /\ Source("breadth") \in PriceJobs
      /\ Today \in Nat /\ now \in Nat
  BY KnownSoFar DEF Tables, DailyJobs, Source, PriceJobs, Today, Day
<1>2. PricePage \in Shown \ {"unavailable"}
  <2>1. PICK s : s = LatestSnapshot("prices")
    OBVIOUS
  <2>2. Sound(s, "prices")
    BY <1>1, <2>1, SnapshotSound
  <2>3. s # None => PriceFreshness(s.asOf) \in Fresh
    BY <1>1, <2>2, PricesAreFresh DEF Sound
  <2>4. PricePage = View(s, PriceFreshness(s.asOf))
    BY <2>1 DEF PricePage
  <2>5. QED
    BY <2>2, <2>3, <2>4, ViewIsShown
<1>3. BreadthPage \in Shown \ {"unavailable"}
  <2>1. PICK s : s = LatestSnapshot("breadth")
    OBVIOUS
  <2>2. Sound(s, "breadth")
    BY <1>1, <2>1, SnapshotSound
  <2>3. ASSUME s # None PROVE BreadthFreshness(s) \in Fresh
    <3>1. PriceFreshness(s.asOf) \in Fresh /\ ~(Today < s.of) /\ Today - s.of \in Nat
      BY <1>1, <2>2, <2>3, PricesAreFresh DEF Sound
    <3>2. PICK ages : ages = {Today - s.of}
      OBVIOUS
    <3>3. AgedBy(ages, BreadthStaleAfter) \in Fresh
      BY <3>1, <3>2, AgesAreFresh
    <3>4. QED
      BY <3>1, <3>2, <3>3, RaisesIsNoWord DEF BreadthFreshness, Fresh
  <2>4. BreadthPage = View(s, BreadthFreshness(s))
    BY <2>1 DEF BreadthPage
  <2>5. QED
    BY <2>2, <2>3, <2>4, ViewIsShown
<1>4. MacroPage \in Shown \ {"unavailable"}
  <2>1. PICK s, ages : s = MacroBundle /\ ages = {Today - s.asOf, Today - s.of}
    OBVIOUS
  <2>2. Sound(s, "macro")
    BY <2>1, BundleSound
  <2>3. ASSUME s # None PROVE AgedBy(ages, MacroStaleAfter) \in Fresh
    <3>1. \A a \in ages : a \in Nat
      BY <1>1, <2>1, <2>2, <2>3 DEF Sound
    <3>2. QED
      BY <3>1, AgesAreFresh
  <2>4. MacroPage = View(s, AgedBy(ages, MacroStaleAfter))
    BY <2>1 DEF MacroPage
  <2>5. QED
    BY <2>2, <2>3, <2>4, ViewIsShown
<1>5. EarningsPage \in Shown \ {"unavailable"}
  <2>1. PICK s, ages : s = LatestSnapshot("earnings") /\ ages = {Today - s.asOf}
    OBVIOUS
  <2>2. Sound(s, "earnings")
    BY <1>1, <2>1, SnapshotSound
  <2>3. ASSUME s # None PROVE AgedBy(ages, EarningsStaleAfter) \in Fresh
    <3>1. \A a \in ages : a \in Nat
      BY <1>1, <2>1, <2>2, <2>3 DEF Sound
    <3>2. QED
      BY <3>1, AgesAreFresh
  <2>4. EarningsPage = View(s, AgedBy(ages, EarningsStaleAfter))
    BY <2>1 DEF EarningsPage
  <2>5. QED
    BY <2>2, <2>3, <2>4, ViewIsShown
<1>6. FundamentalsPage \in Shown \ {"unavailable"}
  <2>1. PICK s, ages : s = LatestSnapshot("fundamentals") /\ ages = {Today - s.asOf}
    OBVIOUS
  <2>2. Sound(s, "fundamentals")
    BY <1>1, <2>1, SnapshotSound
  <2>3. PICK state : state = IF s.at > now THEN Raises ELSE AgedBy(ages, FundamentalStaleAfter)
    OBVIOUS
  <2>4. ASSUME s # None PROVE state \in Fresh
    <3>1. \A a \in ages : a \in Nat
      BY <1>1, <2>1, <2>2, <2>4 DEF Sound
    <3>2. ~(s.at > now)
      BY <1>1, <2>2, <2>4 DEF Sound
    <3>3. QED
      BY <2>3, <3>1, <3>2, AgesAreFresh
  <2>5. FundamentalsPage = View(s, state)
    BY <2>1, <2>3 DEF FundamentalsPage
  <2>6. QED
    BY <2>2, <2>4, <2>5, ViewIsShown
<1>7. ASSUME NEW s, NEW table, Sound(s, table)
      PROVE  View(s, CaptureAge(s)) \in Shown \ {"unavailable"}
  <2>1. ASSUME s # None PROVE CaptureAge(s) \in Fresh
    <3>1. ~(s.at > now \/ s.asOf > Today)
      BY <1>1, <1>7, <2>1 DEF Sound
    <3>2. QED
      BY <3>1 DEF CaptureAge, Fresh
  <2>2. QED
    BY <1>7, <2>1, ViewIsShown
<1>8. EventSources.economic \in Shown \ {"unavailable"}
  <2>1. PICK s : s = EconomicEventBatch
    OBVIOUS
  <2>2. Sound(s, "economic_events")
    BY <2>1, BatchSound DEF EconomicEventBatch
  <2>3. EventSources.economic = View(s, CaptureAge(s))
    BY <2>1 DEF EventSources
  <2>4. QED
    BY <1>7, <2>2, <2>3
<1>9. EventSources.earnings \in Shown \ {"unavailable"}
  <2>1. PICK s : s = EarningsEventBatch
    OBVIOUS
  <2>2. Sound(s, "earnings")
    BY <2>1, EarningsBatchSound
  <2>3. EventSources.earnings = View(s, CaptureAge(s))
    BY <2>1 DEF EventSources
  <2>4. QED
    BY <1>7, <2>2, <2>3
<1>10. QED
  BY <1>2, <1>3, <1>4, <1>5, <1>6, <1>8, <1>9

LEMMA NothingIsRefused == StoreInv => SnapshotsReadable
<1> SUFFICES ASSUME StoreInv PROVE SnapshotsReadable
  OBVIOUS
<1>1. \A j \in jobs : PageState(j) # "invalid"
  BY StateIs DEF StoreInv, RadarInv, TypeInv
<1>2. /\ Raises \notin {PricePage, BreadthPage, MacroPage, EarningsPage, FundamentalsPage}
      /\ Raises \notin {EventSources.economic, EventSources.earnings}
  BY PagesAreShown, StatusAssumption
<1>3. Summary # Raises
  <2>1. \A page \in Shown : Module(page) \in Shown
    BY DEF Module, Shown
  <2>2. {PricePage, BreadthPage, MacroPage, EarningsPage} \subseteq Shown
    BY PagesAreShown
  <2>3. Modules \in Overviews
    BY <2>1, <2>2 DEF Modules, Overviews
  <2>4. Summary = Modules
    BY <1>2 DEF Summary
  <2>5. QED
    BY <2>3, <2>4, StatusAssumption
<1>4. LatestSnapshot("risk") # Corrupt
  BY SnapshotSound, StoreAssumption DEF Tables, Sound
<1>5. QED
  BY <1>1, <1>2, <1>3, <1>4 DEF SnapshotsReadable

-----------------------------------------------------------------------------
(* What is blocked stays so.                                                *)

\* Only the beginning of an attempt adds one; none is forgotten.
LEMMA AttemptsStay ==
    ASSUME StoreInv, [Next]_vars, \A j \in jobs : ~BeginAttempt(j)
    PROVE  /\ DOMAIN att' = DOMAIN att
           /\ \A k \in DOMAIN att : att'[k].job = att[k].job
<1>1. now \in Nat /\ svc \in SvcType /\ (svc.step \in SyncSteps => svc.cur \in DOMAIN att)
  BY KnownSoFar DEF StoreInv, RadarInv, SvcInv
<1>2. svc.at \in Nat
  BY <1>1 DEF SvcType
<1>3. CASE UNCHANGED store
  BY <1>3 DEF store
<1>4. CASE \E i \in DOMAIN att, t \in Nat : StartRun(i, t) \/ FailRun(i, t) \/ CompleteRun(i, t)
  <2>1. SameBut({})
    BY <1>4, RunChanges DEF StoreInv, RadarInv
  <2>2. QED
    BY <2>1, LenProperties DEF StoreInv, RadarInv, TypeInv, SameBut
<1>5. CASE FinishPublished \/ FinishFailed \/ \E i \in DOMAIN att : RecoverAttempt(i)
  <2>1. PICK i \in DOMAIN att : \E status, retry : FinishAttempt(i, status, retry)
    BY <1>1, <1>5 DEF FinishPublished, FinishFailed, RecoverAttempt, SyncSteps
  <2>2. PICK status, retry : FinishAttempt(i, status, retry)
    BY <2>1
  <2>3. /\ att[i] \in AttemptType
        /\ att' = [att EXCEPT ![i] = [att[i] EXCEPT !.status = status, !.retry = retry]]
    BY <2>2, KnownSoFar DEF FinishAttempt, AttemptType
  <2>4. [att[i] EXCEPT !.status = status, !.retry = retry].job = att[i].job
    BY <2>3 DEF AttemptType
  <2>5. QED
    BY <2>3, <2>4
<1>6. CASE UNCHANGED vars
  BY <1>3, <1>6 DEF vars
<1>7. CASE Deciding
  BY <1>3, <1>7 DEF Deciding, BeginTick, EndTick, ReportComplete, Postpone
<1>8. CASE Syncing
  <2>1. CASE BeginRun
    BY <1>1, <1>4, <2>1 DEF BeginRun, SyncSteps
  <2>2. ASSUME NEW ready \in BOOLEAN, NEW age \in {0, 1}, Publish(ready, age)
        PROVE  \E i \in DOMAIN att, t \in Nat : CompleteRun(i, t)
    <3>1. svc.cur \in DOMAIN att /\ CompleteRun(svc.cur, svc.at)
      BY <1>1, <2>2
      DEF Publish, SyncSteps, PublishSource, PublishPrices, PublishBreadth, PublishMacro,
          PublishEarnings, PublishFundamentals, PublishEconomicEvents
    <3>2. QED
      BY <1>2, <3>1
  <2>3. ASSUME NEW o \in {Broken, Temporary, NotReady},
               SyncFails(o) \/ \E torn \in BOOLEAN : PipelineFails(o, torn)
        PROVE  \E i \in DOMAIN att, t \in Nat : FailRun(i, t)
    BY <1>1, <2>3 DEF SyncFails, PipelineFails, SyncSteps
  <2>4. CASE PipelineWrites \/ PipelineEnds \/ AnswerArrives
              \/ \E o \in {Broken, Temporary, NotReady} : FailEarly(o)
    BY <1>3, <2>4 DEF PipelineWrites, PipelineEnds, AnswerArrives, FailEarly
  <2>5. QED
    BY <1>4, <1>8, <2>1, <2>2, <2>3, <2>4 DEF Syncing
<1>9. CASE Settling
  BY <1>1, <1>3, <1>4, <1>5, <1>9 DEF Settling, StartService, EndRecovery, RecoverRun
<1>10. CASE Mishap
  BY <1>1, <1>3, <1>4, <1>10
  DEF Mishap, ProcessEnds, DatabaseFails, CatalogReplaced, SyncFailsUnrecorded, SyncSteps
<1>11. CASE TimePasses
  BY <1>3, <1>11 DEF TimePasses
<1>12. QED
  BY <1>6, <1>7, <1>8, <1>9, <1>10, <1>11 DEF Next, ServiceStep

\* The due time the service has read lies between the attempt's and the page's, which are one.
LEMMA ExhaustedIsBlocked ==
    ASSUME StoreInv, NEW j \in DailyJobs, svc.step = "job", Exhausted(j) PROVE Blocked(j)
<1>1. AttemptsOf(j) # {} /\ Latest(j).due = ScheduledAt(now) /\ Latest(j).retry = None
  BY DEF Exhausted, OfThisDue, Due
<1>2. PICK m \in AttemptsOf(j) :
         LatestAttempt(AttemptsOf(j)) = m /\ \A k \in AttemptsOf(j) : k <= m
  BY <1>1, LatestOfAll
<1>3. m \in DOMAIN att /\ att[m].job = j /\ att[m].due = ScheduledAt(now) /\ att[m].retry = None
  BY <1>1, <1>2 DEF Latest, AttemptsOf
<1>4. /\ att[m].started <= svc.at /\ svc.at <= now /\ StartTime <= att[m].started
      /\ att[m].due = ScheduledAt(att[m].started)
      /\ att[m].started \in Nat /\ svc.at \in Nat /\ now \in Nat /\ StartTime \in Nat
  BY <1>3, KnownSoFar DEF StoreInv, ClockInv, OrderInv
<1>5. ScheduledAt(svc.at) = att[m].due
  <2>1. StartTime <= svc.at
    BY <1>4
  <2>2. /\ ScheduledAt(att[m].started) <= ScheduledAt(svc.at)
        /\ ScheduledAt(svc.at) <= ScheduledAt(now)
        /\ ScheduledAt(svc.at) \in Nat /\ ScheduledAt(att[m].started) \in Nat
    BY <1>4, <2>1, Days
  <2>3. QED
    BY <1>3, <1>4, <2>2
<1>6. m \in Tried(j) /\ \A k \in Tried(j) : k <= m
  BY <1>2, <1>3, <1>5 DEF Tried, AttemptsDue
<1>7. PICK n \in Tried(j) : LatestAttempt(Tried(j)) = n /\ \A k \in Tried(j) : k <= n
  <2>1. AttemptsDue(j, ScheduledAt(svc.at)) # {}
    BY <1>6 DEF Tried
  <2>2. QED
    BY <2>1, LatestIsNewest DEF StoreInv, Tried
<1>8. n = m
  <2>1. n <= m /\ m <= n /\ m \in 1..Len(att) /\ n \in 1..Len(att)
    BY <1>6, <1>7, LenProperties
    DEF Tried, AttemptsDue, AttemptsOf, StoreInv, RadarInv, TypeInv
  <2>2. QED
    BY <2>1
<1>9. QED
  BY <1>3, <1>6, <1>7, <1>8 DEF Blocked, LastTry

LEMMA BlockedStep ==
    ASSUME StoreInv, [Next]_vars, NEW j \in jobs, PageState(j) = "blocked"
    PROVE  AttemptsOf(j)' = AttemptsOf(j)
<1>1. j \in DailyJobs
  BY DEF StoreInv, RadarInv, TypeInv
<1>2. Exhausted(j)
  BY <1>1, StateIs
<1>3. CASE \A k \in jobs : ~BeginAttempt(k)
  BY <1>3, AttemptsStay DEF AttemptsOf
<1>4. ASSUME NEW k \in jobs, BeginAttempt(k) PROVE AttemptsOf(j)' = AttemptsOf(j)
  <2>1. k # j
    BY <1>1, <1>2, <1>4, ExhaustedIsBlocked DEF BeginAttempt, InHand
  <2> DEFINE N == Len(att) + 1
             e == [job |-> k, due |-> ScheduledAt(svc.at), target |-> Target(k, svc.at),
                   number |-> NextNumber(k), started |-> svc.at, status |-> "running",
                   retry |-> None, run |-> NoRun]
  <2>2. att' = Append(att, e) /\ att \in Seq(AttemptType) /\ Len(att) \in Nat
    BY <1>4, LenProperties DEF BeginAttempt, StartAttempt, StoreInv, RadarInv, TypeInv
  <2>3. e.job = k
    OBVIOUS
  <2> HIDE DEF e
  <2>4. /\ DOMAIN att = 1..Len(att) /\ DOMAIN att' = 1..N
        /\ \A i \in 1..N : att'[i] = IF i = N THEN e ELSE att[i]
        /\ 1..N = (1..Len(att)) \cup {N} /\ N \notin 1..Len(att)
    BY <2>2
  <2>5. QED
    BY <2>1, <2>3, <2>4 DEF AttemptsOf
<1>5. QED
  BY <1>3, <1>4

-----------------------------------------------------------------------------
(* The theorems.                                                            *)

\* Whatever was published and whatever was killed in between, every reader and every page
\* accepts it at every later moment (market_radar/storage.py daily_publication, latest_*;
\* the guards of application/market_radar.py).
THEOREM PagesNeverRefuse == Spec => []SnapshotsReadable
<1>1. StoreInv /\ [Next]_vars => StoreInv'
  BY StoreInvStep
<1>2. QED
  BY StoreInvInit, NothingIsRefused, <1>1, PTL DEF Spec

\* A job the update page calls blocked gets no attempt while it is called so, although page
\* and service look at different sets of attempts at different moments
\* (application/market_radar.py _sync_status_at; market_radar/daily.py _run_job).
THEOREM BlockedIsLeftAlone == Spec => BlockedStays
<1>1. StoreInv /\ [Next]_vars => StoreInv'
  BY StoreInvStep
<1>2. StoreInv /\ [Next]_vars =>
         [\A j \in jobs : PageState(j) = "blocked" => AttemptsOf(j)' = AttemptsOf(j)]_vars
  BY BlockedStep
<1>3. QED
  BY StoreInvInit, <1>1, <1>2, PTL DEF Spec, BlockedStays
===============================================================================
