---------------------------- MODULE FactorPathProofs ----------------------------
(***************************************************************************)
(* Proofs about DailyInput and FactorPath for any deliveries, instruments, *)
(* days, kills and restarts: what is accepted is priced, and what is       *)
(* registered is accepted.                                                 *)
(***************************************************************************)
EXTENDS FactorPath, TLAPS

\* The day of an acceptance has closed when it is the expected one.
LEMMA ExpectedClosed ==
    ASSUME NEW t \in Nat, NEW day \in Nat, day <= Expected(t)
    PROVE  CloseOf(day) <= t
  BY DEF Expected, CloseOf

LEMMA ClosedExpected ==
    ASSUME NEW t \in Nat, NEW day \in Nat, CloseOf(day) <= t
    PROVE  day <= Expected(t)
  BY DEF Expected, CloseOf

-----------------------------------------------------------------------------
(* The inductive invariant of the input.                                    *)

\* Scores are of valid deliveries that have come, one per date.
ScoresInv ==
    /\ scores \subseteq inbox \cap Valid
    /\ \A d, e \in scores : AsOf[d] = AsOf[e] => d = e

\* Of any release.
AcceptedInv ==
    \A d \in Deliveries : accepted[d] # None =>
        /\ d \in scores
        /\ CloseOf(AsOf[d]) <= accepted[d] /\ accepted[d] < Cutoff(AsOf[d])
        /\ accepted[d] <= now

\* Of the configured release: later ticks bring bars of later dates only.
PricedInv ==
    \A d \in Fixed : accepted[d] # None =>
        \A i \in Eligible[d] :
            /\ bars[i] >= AsOf[d]
            /\ by[d] = "service" => actions[i] >= AsOf[d]

Busy == input.step \notin {"down", "sleep"}

\* The delivery in hand; the service has none of a date it has accepted already.
BundleInv ==
    Busy =>
        /\ input.bundle \in inbox \cap Valid
        /\ input.at <= now
        /\ input.step \in {"sync", "actions"} => input.who = "service"
        /\ input.who = "service" =>
              /\ input.bundle \in Fixed
              /\ \A d \in Fixed : accepted[d] # None => AsOf[d] < AsOf[input.bundle]

\* How far its prices are.
ProgressInv ==
    /\ input.step \in {"sync", "actions"} =>
          \A i \in Eligible[input.bundle] \ (input.todo \cup {input.item}) :
              input.bad \/ actions[i] >= AsOf[input.bundle]
    /\ input.step = "sync" => input.item = None
    /\ input.step = "actions" => input.item # None
    /\ input.step \in {"import", "stamp", "commit"} /\ input.who = "service" =>
          \A i \in Eligible[input.bundle] : actions[i] >= AsOf[input.bundle]
    /\ input.step \in {"stamp", "commit"} =>
          /\ input.bundle \in scores /\ accepted[input.bundle] = None
          /\ \A i \in Eligible[input.bundle] : bars[i] >= AsOf[input.bundle]
    /\ input.step = "commit" =>
          CloseOf(AsOf[input.bundle]) <= input.at /\ input.at < Cutoff(AsOf[input.bundle])

InputInv ==
    InputTypeOK /\ ScoresInv /\ AcceptedInv /\ PricedInv /\ BundleInv /\ ProgressInv

-----------------------------------------------------------------------------
(* Types.                                                                   *)

LEMMA InputTypeInit == InputInit => InputTypeOK
<1> SUFFICES ASSUME InputInit PROVE InputTypeOK
  OBVIOUS
<1>1. NoWork \in [step : InputSteps, who : {"service", "script"}, bundle : Deliveries \cup {None},
                  at : 0..MaxTime, todo : SUBSET Instruments, item : Instruments \cup {None},
                  bad : BOOLEAN]
  BY InputAssumption DEF NoWork, InputSteps
<1>2. Down \in [step : InputSteps, who : {"service", "script"}, bundle : Deliveries \cup {None},
                at : 0..MaxTime, todo : SUBSET Instruments, item : Instruments \cup {None},
                bad : BOOLEAN]
  BY <1>1 DEF Down, InputSteps
<1>3. now \in 0..MaxTime /\ incidents \in 0..MaxIncidents
  BY InputAssumption DEF InputInit, CloseOf
<1>4. bars \in [Instruments -> 0..Days] /\ actions \in [Instruments -> 0..Days]
  BY InputAssumption DEF InputInit
<1>5. QED
  BY <1>2, <1>3, <1>4 DEF InputInit, InputTypeOK

\* The delivery in hand is one: only with it are the types kept.
LEMMA InputTypeStep ==
    ASSUME InputTypeOK, BundleInv, [InputNext]_inputVars
    PROVE  InputTypeOK'
<1>0. Busy => input.bundle \in Deliveries
  BY DEF BundleInv, InputTypeOK
<1> USE InputAssumption DEF InputTypeOK
<1>1. NoWork \in [step : InputSteps, who : {"service", "script"}, bundle : Deliveries \cup {None},
                  at : 0..MaxTime, todo : SUBSET Instruments, item : Instruments \cup {None},
                  bad : BOOLEAN]
  BY DEF NoWork, InputSteps
<1>2. CASE TimePasses
  BY <1>2 DEF TimePasses
<1>3. CASE ServiceStarts
  BY <1>1, <1>3 DEF ServiceStarts
<1>4. CASE Killed
  BY <1>1, <1>4 DEF Killed, Down, InputSteps
<1>5. CASE TickBegins
  BY <1>1, <1>5 DEF TickBegins, InputSteps
<1>6. CASE TickFails
  BY <1>1, <1>6 DEF TickFails, Rest, Down, InputSteps
<1>7. CASE WriteActions
  <2>1. AsOf[input.bundle] \in 0..Days
    BY <1>0, <1>7 DEF WriteActions, Busy
  <2>2. actions' \in [Instruments -> 0..Days]
    BY <1>7, <2>1 DEF WriteActions
  <2>3. QED
    BY <1>7, <2>2 DEF WriteActions, InputSteps
<1>8. CASE PricesReady
  BY <1>8 DEF PricesReady, InputSteps
<1>9. CASE StampAcceptance
  BY <1>9 DEF StampAcceptance, InputSteps
<1>10. CASE CommitAcceptance
  BY <1>1, <1>10 DEF CommitAcceptance, Rest, Down, InputSteps
<1>11. CASE ImportScores
  <2>1. scores' \subseteq Deliveries
    BY <1>0, <1>11 DEF ImportScores, Busy
  <2>2. QED
    BY <1>1, <1>11, <2>1 DEF ImportScores, Rest, Down, InputSteps
<1>12. ASSUME NEW d \in Deliveries, Deliver(d) \/ ScriptStarts(d) PROVE InputTypeOK'
  <2>1. CASE Deliver(d)
    BY <2>1 DEF Deliver
  <2>2. CASE ScriptStarts(d)
    <3>1. incidents' \in 0..MaxIncidents
      BY <2>2 DEF ScriptStarts
    <3>2. input' \in [step : InputSteps, who : {"service", "script"}, bundle : Deliveries \cup {None},
                      at : 0..MaxTime, todo : SUBSET Instruments, item : Instruments \cup {None},
                      bad : BOOLEAN]
      BY <1>1, <2>2 DEF ScriptStarts, InputSteps
    <3>3. QED
      BY <2>2, <3>1, <3>2 DEF ScriptStarts
  <2>3. QED
    BY <1>12, <2>1, <2>2
<1>13. ASSUME NEW i \in Instruments, NEW day \in 0..Days, PublishBars(i, day) PROVE InputTypeOK'
  BY <1>13 DEF PublishBars, InputSteps
<1>14. ASSUME NEW i \in Instruments, NEW exempt \in BOOLEAN, SkipInstrument(i, exempt)
       PROVE  InputTypeOK'
  BY <1>14 DEF SkipInstrument, InputSteps
<1>15. CASE UNCHANGED inputVars
  BY <1>15 DEF inputVars
<1>16. QED
  BY <1>2, <1>3, <1>4, <1>5, <1>6, <1>7, <1>8, <1>9, <1>10, <1>11, <1>12, <1>13, <1>14, <1>15
     DEF InputNext

-----------------------------------------------------------------------------
(* The invariant is kept, action by action.                                 *)

LEMMA InputInvInit == InputInit => InputInv
<1> SUFFICES ASSUME InputInit PROVE InputInv
  OBVIOUS
<1>1. input.step = "down"
  BY DEF InputInit, Down, NoWork
<1>2. BundleInv /\ ProgressInv
  BY <1>1 DEF BundleInv, ProgressInv, Busy
<1>3. ScoresInv /\ AcceptedInv /\ PricedInv
  BY InputAssumption DEF InputInit, ScoresInv, AcceptedInv, PricedInv
<1>4. QED
  BY <1>2, <1>3, InputTypeInit DEF InputInv

\* A consumer at rest owes nothing.
LEMMA AtRest ==
    ASSUME input'.step \in {"down", "sleep"}
    PROVE  BundleInv' /\ ProgressInv'
  BY DEF BundleInv, ProgressInv, Busy

LEMMA TimePassesKeeps == InputInv /\ TimePasses => InputInv'
<1> SUFFICES ASSUME InputInv, TimePasses PROVE InputInv'
  OBVIOUS
<1>1. InputTypeOK'
  BY InputTypeStep DEF InputInv, InputNext
<1>2. now' = now + 1 /\ now \in Nat
  BY DEF TimePasses, InputInv, InputTypeOK
<1>3. AcceptedInv'
  <2>1. \A d \in Deliveries : accepted[d] # None => accepted[d] \in Nat
    BY DEF InputInv, InputTypeOK
  <2>2. QED
    BY <1>2, <2>1 DEF TimePasses, InputInv, AcceptedInv
<1>4. BundleInv'
  <2>1. input.at \in Nat
    BY DEF InputInv, InputTypeOK
  <2>2. QED
    BY <1>2, <2>1 DEF TimePasses, InputInv, BundleInv, Busy
<1>5. QED
  BY <1>1, <1>3, <1>4 DEF TimePasses, InputInv, ScoresInv, PricedInv, ProgressInv

LEMMA DeliverKeeps ==
    ASSUME InputInv, NEW d \in Deliveries, Deliver(d) PROVE InputInv'
<1>1. InputTypeOK'
  BY InputTypeStep DEF InputInv, InputNext
<1>2. QED
  BY <1>1 DEF Deliver, InputInv, ScoresInv, AcceptedInv, PricedInv, BundleInv, ProgressInv, Busy

\* Start, kill, failure: the consumer is at rest afterwards.
LEMMA StopsKeep == InputInv /\ (ServiceStarts \/ Killed \/ TickFails) => InputInv'
<1> SUFFICES ASSUME InputInv, ServiceStarts \/ Killed \/ TickFails PROVE InputInv'
  OBVIOUS
<1>1. InputTypeOK'
  BY InputTypeStep DEF InputInv, InputNext
<1>2. input'.step \in {"down", "sleep"}
  BY DEF ServiceStarts, Killed, TickFails, Rest, Down, NoWork
<1>3. UNCHANGED <<now, inbox, bars, actions, scores, accepted, by>>
  BY DEF ServiceStarts, Killed, TickFails
<1>4. (ScoresInv /\ AcceptedInv /\ PricedInv)'
  BY <1>3 DEF InputInv, ScoresInv, AcceptedInv, PricedInv
<1>5. QED
  BY <1>1, <1>2, <1>4, AtRest DEF InputInv

\* A tick begins only for a date of which the configured release has one delivery, and
\* that one is not accepted: all its acceptances are of earlier dates.
LEMMA TickBeginsKeeps == InputInv /\ TickBegins => InputInv'
<1> SUFFICES ASSUME InputInv, TickBegins PROVE InputInv'
  OBVIOUS
<1>1. InputTypeOK'
  BY InputTypeStep DEF InputInv, InputNext
<1>2. PICK d \in Deliveries :
         /\ Proceeds(d)
         /\ input' = [NoWork EXCEPT !.step = "sync", !.bundle = d, !.at = now, !.todo = Instruments]
  BY DEF TickBegins
<1>3. UNCHANGED <<now, inbox, bars, actions, scores, accepted, by>>
  BY DEF TickBegins
<1>4. /\ d \in inbox \cap Valid \cap Fixed /\ AsOf[d] = Expected(now) /\ accepted[d] = None
      /\ Candidates(Expected(now)) = {d}
  BY <1>2 DEF Proceeds, Candidates
<1>5. ASSUME NEW e \in Fixed, accepted[e] # None PROVE AsOf[e] < AsOf[d]
  <2>1. e \in Deliveries /\ AsOf[e] \in Nat /\ AsOf[d] \in Nat /\ now \in Nat
    BY InputAssumption DEF InputInv, InputTypeOK
  <2>2. CloseOf(AsOf[e]) <= now /\ e \in inbox
    <3>1. accepted[e] \in Nat
      BY <1>5, <2>1 DEF InputInv, InputTypeOK
    <3>2. QED
      BY <1>5, <2>1, <3>1 DEF InputInv, AcceptedInv, ScoresInv, CloseOf
  <2>3. AsOf[e] <= AsOf[d]
    BY <1>4, <2>1, <2>2, ClosedExpected
  <2>4. AsOf[e] # AsOf[d]
    BY <1>4, <1>5, <2>2 DEF Candidates
  <2>5. QED
    BY <2>1, <2>3, <2>4
<1>6. BundleInv'
  <2>1. input'.bundle = d /\ input'.who = "service" /\ input'.at = now
    BY <1>2 DEF NoWork
  <2>2. now <= now
    BY DEF InputInv, InputTypeOK
  <2>3. QED
    BY <1>3, <1>4, <1>5, <2>1, <2>2 DEF BundleInv
<1>7. ProgressInv'
  <2>1. /\ input'.step = "sync" /\ input'.bundle = d /\ input'.todo = Instruments
        /\ input'.item = None
    BY <1>2 DEF NoWork
  <2>2. Eligible[d] \subseteq Instruments
    BY InputAssumption
  <2>3. QED
    BY <2>1, <2>2 DEF ProgressInv
<1>8. (ScoresInv /\ AcceptedInv)' /\ PricedInv'
  BY <1>3 DEF InputInv, ScoresInv, AcceptedInv, PricedInv
<1>9. QED
  BY <1>1, <1>6, <1>7, <1>8 DEF InputInv

LEMMA PublishBarsKeeps ==
    ASSUME InputInv, NEW i \in Instruments, NEW day \in 0..Days, PublishBars(i, day)
    PROVE  InputInv'
<1>1. InputTypeOK'
  BY InputTypeStep DEF InputInv, InputNext
<1>2. /\ input.step = "sync" /\ input.who = "service" /\ Busy
      /\ input.bundle \in Deliveries /\ day >= AsOf[input.bundle] - 1
      /\ AsOf[input.bundle] \in Nat
  BY InputAssumption DEF PublishBars, Fetchable, InputInv, BundleInv, Busy, InputTypeOK
<1>3. /\ input'.step = "actions" /\ input'.item = i /\ input'.todo = input.todo \ {i}
      /\ input'.bundle = input.bundle /\ input'.who = input.who /\ input'.at = input.at
      /\ input'.bad = input.bad
  BY DEF PublishBars, InputInv, InputTypeOK
<1>4. UNCHANGED <<now, inbox, actions, scores, accepted, by>> /\ bars' = [bars EXCEPT ![i] = day]
  BY DEF PublishBars
<1>5. PricedInv'
  <2>1. SUFFICES ASSUME NEW d \in Fixed, accepted[d] # None, NEW k \in Eligible[d]
                 PROVE  bars'[k] >= AsOf[d] /\ (by[d] = "service" => actions[k] >= AsOf[d])
    BY <1>4 DEF PricedInv
  <2>2. d \in Deliveries /\ k \in Instruments /\ AsOf[d] \in Nat
    BY InputAssumption
  <2>3. AsOf[d] < AsOf[input.bundle]
    BY <1>2, <2>1 DEF InputInv, BundleInv
  <2>4. bars[k] >= AsOf[d] /\ (by[d] = "service" => actions[k] >= AsOf[d])
    BY <2>1 DEF InputInv, PricedInv
  <2>5. bars'[k] >= AsOf[d]
    BY <1>2, <1>4, <2>2, <2>3, <2>4 DEF InputInv, InputTypeOK
  <2>6. QED
    BY <2>4, <2>5
<1>6. BundleInv'
  BY <1>2, <1>3, <1>4 DEF InputInv, BundleInv, Busy
<1>7. ProgressInv'
  <2>1. input.item = None /\ None \notin Instruments /\ Eligible[input.bundle] \subseteq Instruments
    BY <1>2, InputAssumption DEF InputInv, ProgressInv
  <2>2. i # None
    BY <2>1
  <2>3. \A k \in Eligible[input.bundle] \ (input.todo \cup {i}) :
           input.bad \/ actions[k] >= AsOf[input.bundle]
    BY <1>2, <2>1 DEF InputInv, ProgressInv
  <2>4. QED
    BY <1>3, <1>4, <2>1, <2>2, <2>3 DEF ProgressInv
<1>8. (ScoresInv /\ AcceptedInv)'
  BY <1>4 DEF InputInv, ScoresInv, AcceptedInv
<1>9. QED
  BY <1>1, <1>5, <1>6, <1>7, <1>8 DEF InputInv

LEMMA SkipKeeps ==
    ASSUME InputInv, NEW i \in Instruments, NEW exempt \in BOOLEAN, SkipInstrument(i, exempt)
    PROVE  InputInv'
<1>1. InputTypeOK'
  BY InputTypeStep DEF InputInv, InputNext
<1>2. /\ input.step = "sync" /\ input'.step = "sync" /\ input'.item = input.item
      /\ input'.todo = input.todo \ {i}
      /\ input'.bundle = input.bundle /\ input'.who = input.who /\ input'.at = input.at
      /\ input'.bad = (input.bad \/ ~exempt \/ i \in Eligible[input.bundle])
      /\ UNCHANGED <<now, inbox, bars, actions, scores, accepted, by>>
  BY DEF SkipInstrument, InputInv, InputTypeOK
<1>3. ProgressInv'
  <2>1. ASSUME NEW k \in Eligible[input.bundle] \ (input'.todo \cup {input'.item})
        PROVE  input'.bad \/ actions[k] >= AsOf[input.bundle]
    <3>1. CASE k = i
      BY <1>2, <2>1, <3>1
    <3>2. CASE k # i
      BY <1>2, <2>1, <3>2 DEF InputInv, ProgressInv
    <3>3. QED
      BY <3>1, <3>2
  <2>2. QED
    BY <1>2, <2>1 DEF InputInv, ProgressInv
<1>4. (ScoresInv /\ AcceptedInv /\ PricedInv)'
  BY <1>2 DEF InputInv, ScoresInv, AcceptedInv, PricedInv
<1>5. BundleInv'
  BY <1>2 DEF InputInv, BundleInv, Busy
<1>6. QED
  BY <1>1, <1>3, <1>4, <1>5 DEF InputInv

LEMMA WriteActionsKeeps == InputInv /\ WriteActions => InputInv'
<1> SUFFICES ASSUME InputInv, WriteActions PROVE InputInv'
  OBVIOUS
<1>1. InputTypeOK'
  BY InputTypeStep DEF InputInv, InputNext
<1>2. /\ input.step = "actions" /\ input'.step = "sync" /\ input'.item = None
      /\ input'.todo = input.todo /\ input'.bad = input.bad
      /\ input'.bundle = input.bundle /\ input'.who = input.who /\ input'.at = input.at
      /\ UNCHANGED <<now, inbox, bars, scores, accepted, by>>
      /\ actions' = [actions EXCEPT ![input.item] = AsOf[input.bundle]]
  BY DEF WriteActions, InputInv, InputTypeOK
<1>3. Busy /\ input.who = "service" /\ input.bundle \in Deliveries /\ AsOf[input.bundle] \in Nat
  BY <1>2, InputAssumption DEF InputInv, BundleInv, Busy, InputTypeOK
<1>4. \A k \in Instruments : /\ actions[k] \in Nat
                            /\ actions'[k] = IF k = input.item THEN AsOf[input.bundle] ELSE actions[k]
  BY <1>2 DEF InputInv, InputTypeOK
<1>5. PricedInv'
  <2>1. SUFFICES ASSUME NEW d \in Fixed, accepted[d] # None, NEW k \in Eligible[d]
                 PROVE  bars[k] >= AsOf[d] /\ (by[d] = "service" => actions'[k] >= AsOf[d])
    BY <1>2 DEF PricedInv
  <2>2. k \in Instruments /\ AsOf[d] \in Nat
    BY InputAssumption
  <2>3. AsOf[d] < AsOf[input.bundle]
    BY <1>3, <2>1 DEF InputInv, BundleInv
  <2>4. bars[k] >= AsOf[d] /\ (by[d] = "service" => actions[k] >= AsOf[d])
    BY <2>1 DEF InputInv, PricedInv
  <2>5. QED
    BY <1>3, <1>4, <2>2, <2>3, <2>4
<1>6. BundleInv'
  BY <1>2, <1>3 DEF InputInv, BundleInv, Busy
<1>7. ProgressInv'
  <2>1. ASSUME NEW k \in Eligible[input.bundle] \ (input.todo \cup {None})
        PROVE  input.bad \/ actions'[k] >= AsOf[input.bundle]
    <3>1. k \in Instruments
      BY <1>3, <2>1, InputAssumption
    <3>2. CASE k = input.item
      BY <1>3, <1>4, <3>1, <3>2
    <3>3. CASE k # input.item
      BY <1>2, <1>4, <2>1, <3>1, <3>3 DEF InputInv, ProgressInv
    <3>4. QED
      BY <3>2, <3>3
  <2>2. QED
    BY <1>2, <2>1 DEF ProgressInv
<1>8. (ScoresInv /\ AcceptedInv)'
  BY <1>2 DEF InputInv, ScoresInv, AcceptedInv
<1>9. QED
  BY <1>1, <1>5, <1>6, <1>7, <1>8 DEF InputInv

LEMMA PricesReadyKeeps == InputInv /\ PricesReady => InputInv'
<1> SUFFICES ASSUME InputInv, PricesReady PROVE InputInv'
  OBVIOUS
<1>1. InputTypeOK'
  BY InputTypeStep DEF InputInv, InputNext
<1>2. /\ input.step = "sync" /\ input.todo = {} /\ ~input.bad /\ input'.step = "import"
      /\ input'.bundle = input.bundle /\ input'.who = input.who /\ input'.at = input.at
      /\ UNCHANGED <<now, inbox, bars, actions, scores, accepted, by>>
  BY DEF PricesReady, QualityPassed, InputInv, InputTypeOK
<1>3. input.bundle \in Deliveries /\ input.item = None
  BY <1>2 DEF InputInv, BundleInv, ProgressInv, Busy, InputTypeOK
<1>4. \A k \in Eligible[input.bundle] : actions[k] >= AsOf[input.bundle]
  <2>1. Eligible[input.bundle] \subseteq Instruments /\ None \notin Instruments
    BY <1>3, InputAssumption
  <2>2. QED
    BY <1>2, <1>3, <2>1 DEF InputInv, ProgressInv
<1>5. ProgressInv'
  BY <1>2, <1>4 DEF ProgressInv
<1>6. BundleInv'
  BY <1>2 DEF InputInv, BundleInv, Busy
<1>7. (ScoresInv /\ AcceptedInv /\ PricedInv)'
  BY <1>2 DEF InputInv, ScoresInv, AcceptedInv, PricedInv
<1>8. QED
  BY <1>1, <1>5, <1>6, <1>7 DEF InputInv

LEMMA ScriptStartsKeeps ==
    ASSUME InputInv, NEW d \in Deliveries, ScriptStarts(d) PROVE InputInv'
<1>1. InputTypeOK'
  BY InputTypeStep DEF InputInv, InputNext
<1>2. /\ input'.step = "import" /\ input'.who = "script" /\ input'.bundle = d /\ input'.at = now
      /\ d \in inbox \cap Valid
      /\ UNCHANGED <<now, inbox, bars, actions, scores, accepted, by>>
  BY DEF ScriptStarts, NoWork
<1>3. BundleInv' /\ ProgressInv'
  BY <1>2 DEF BundleInv, ProgressInv, InputInv, InputTypeOK
<1>4. (ScoresInv /\ AcceptedInv /\ PricedInv)'
  BY <1>2 DEF InputInv, ScoresInv, AcceptedInv, PricedInv
<1>5. QED
  BY <1>1, <1>3, <1>4 DEF InputInv

LEMMA ImportScoresKeeps == InputInv /\ ImportScores => InputInv'
<1> SUFFICES ASSUME InputInv, ImportScores PROVE InputInv'
  OBVIOUS
<1>1. InputTypeOK'
  BY InputTypeStep DEF InputInv, InputNext
<1>2. /\ input.step = "import" /\ Priced(input.bundle) /\ NoConflict(input.bundle)
      /\ scores' = scores \cup {input.bundle}
      /\ UNCHANGED <<now, inbox, bars, actions, accepted, by>>
  BY DEF ImportScores
<1>3. input.bundle \in inbox \cap Valid
  BY <1>2 DEF InputInv, BundleInv, Busy
<1>4. ScoresInv'
  BY <1>2, <1>3 DEF InputInv, ScoresInv, NoConflict
<1>5. (AcceptedInv /\ PricedInv)'
  BY <1>2 DEF InputInv, AcceptedInv, PricedInv
<1>6. CASE accepted[input.bundle] = None
  <2>1. /\ input'.step = "stamp" /\ input'.bundle = input.bundle /\ input'.who = input.who
        /\ input'.at = input.at
    BY <1>6 DEF ImportScores, InputInv, InputTypeOK
  <2>2. ProgressInv'
    BY <1>2, <1>6, <2>1 DEF ProgressInv, InputInv, Priced
  <2>3. BundleInv'
    BY <1>2, <2>1 DEF InputInv, BundleInv, Busy
  <2>4. QED
    BY <1>1, <1>4, <1>5, <2>2, <2>3 DEF InputInv
<1>7. CASE accepted[input.bundle] # None
  <2>1. input'.step \in {"down", "sleep"}
    BY <1>7 DEF ImportScores, Rest, Down, NoWork
  <2>2. QED
    BY <1>1, <1>4, <1>5, <2>1, AtRest DEF InputInv
<1>8. QED
  BY <1>6, <1>7

LEMMA StampKeeps == InputInv /\ StampAcceptance => InputInv'
<1> SUFFICES ASSUME InputInv, StampAcceptance PROVE InputInv'
  OBVIOUS
<1>1. InputTypeOK'
  BY InputTypeStep DEF InputInv, InputNext
<1>2. /\ input.step = "stamp" /\ input'.step = "commit" /\ input'.at = now
      /\ input'.bundle = input.bundle /\ input'.who = input.who
      /\ UNCHANGED <<now, inbox, bars, actions, scores, accepted, by>>
  BY DEF StampAcceptance, InputInv, InputTypeOK
<1>3. input.bundle \in Deliveries /\ AsOf[input.bundle] \in Nat /\ now \in Nat
  BY <1>2, InputAssumption DEF InputInv, BundleInv, Busy, InputTypeOK
<1>4. CloseOf(AsOf[input.bundle]) <= now /\ now < Cutoff(AsOf[input.bundle])
  BY <1>3, ExpectedClosed DEF StampAcceptance, Timely
<1>5. ProgressInv'
  BY <1>2, <1>4 DEF InputInv, ProgressInv
<1>6. BundleInv'
  BY <1>2, <1>3 DEF InputInv, BundleInv, Busy
<1>7. (ScoresInv /\ AcceptedInv /\ PricedInv)'
  BY <1>2 DEF InputInv, ScoresInv, AcceptedInv, PricedInv
<1>8. QED
  BY <1>1, <1>5, <1>6, <1>7 DEF InputInv

\* Everything the acceptance stands for has been so since the stamp.
LEMMA CommitKeeps == InputInv /\ CommitAcceptance => InputInv'
<1> SUFFICES ASSUME InputInv, CommitAcceptance PROVE InputInv'
  OBVIOUS
<1>1. InputTypeOK'
  BY InputTypeStep DEF InputInv, InputNext
<1>2. /\ input.step = "commit" /\ input'.step \in {"down", "sleep"}
      /\ accepted' = [accepted EXCEPT ![input.bundle] = input.at]
      /\ by' = [by EXCEPT ![input.bundle] = input.who]
      /\ UNCHANGED <<now, inbox, bars, actions, scores>>
  BY DEF CommitAcceptance, Rest, Down, NoWork
<1>3. input.bundle \in Deliveries /\ input.at <= now
  BY <1>2 DEF InputInv, BundleInv, Busy, InputTypeOK
<1>4. \A d \in Deliveries :
         /\ accepted'[d] = IF d = input.bundle THEN input.at ELSE accepted[d]
         /\ by'[d] = IF d = input.bundle THEN input.who ELSE by[d]
  BY <1>2 DEF InputInv, InputTypeOK
<1>5. AcceptedInv'
  BY <1>2, <1>3, <1>4 DEF InputInv, AcceptedInv, ProgressInv
<1>6. PricedInv'
  <2>1. Fixed \subseteq Deliveries
    BY InputAssumption
  <2>2. QED
    BY <1>2, <1>4, <2>1 DEF InputInv, PricedInv, ProgressInv
<1>7. ScoresInv'
  BY <1>2 DEF InputInv, ScoresInv
<1>8. QED
  BY <1>1, <1>2, <1>5, <1>6, <1>7, AtRest DEF InputInv

LEMMA InputInvStep == InputInv /\ [InputNext]_inputVars => InputInv'
<1> SUFFICES ASSUME InputInv, [InputNext]_inputVars PROVE InputInv'
  OBVIOUS
<1>1. CASE UNCHANGED inputVars
  BY <1>1 DEF inputVars, InputInv, InputTypeOK, ScoresInv, AcceptedInv, PricedInv, BundleInv,
     ProgressInv, Busy
<1>2. QED
  BY <1>1, TimePassesKeeps, DeliverKeeps, StopsKeep, TickBeginsKeeps, PublishBarsKeeps, SkipKeeps,
     WriteActionsKeeps, PricesReadyKeeps, ScriptStartsKeeps, ImportScoresKeeps, StampKeeps,
     CommitKeeps DEF InputNext

\* What was accepted or written stays so, whatever the consumers do.
LEMMA AcceptedStays ==
    ASSUME InputInv, [InputNext]_inputVars
    PROVE  /\ \A d \in Deliveries : accepted[d] # None => accepted'[d] = accepted[d]
           /\ scores \subseteq scores'
<1>1. CASE CommitAcceptance
  <2>1. input.bundle \in Deliveries /\ accepted[input.bundle] = None
    BY <1>1 DEF CommitAcceptance, InputInv, BundleInv, ProgressInv, Busy, InputTypeOK
  <2>2. QED
    BY <1>1, <2>1 DEF CommitAcceptance, InputInv, InputTypeOK
<1>2. CASE ImportScores
  BY <1>2 DEF ImportScores
<1>3. CASE ~CommitAcceptance /\ ~ImportScores
  <2>1. UNCHANGED <<accepted, scores>>
    BY <1>3 DEF InputNext, inputVars, TimePasses, ServiceStarts, Killed, TickBegins, TickFails,
       WriteActions, PricesReady, StampAcceptance, Deliver, ScriptStarts, PublishBars,
       SkipInstrument
  <2>2. QED
    BY <2>1
<1>4. QED
  BY <1>1, <1>2, <1>3

-----------------------------------------------------------------------------
(* The inductive invariant of the path.                                     *)

\* The publication in hand: its receipt was there when it began, and its transactions
\* come in order.
HandInv ==
    actor.step \in {"audit", "register", "record"} =>
        /\ actor.batch \in Fixed /\ AsOf[actor.batch] = actor.day
        /\ Receipt(actor.batch)
        /\ actor.step \in {"register", "record"} => actor.day \in decided
        /\ actor.step = "record" => workflow[actor.day] # None

RegisteredInv ==
    \A day \in 1..Days :
        /\ workflow[day] # None =>
              /\ AsOf[workflow[day]] = day /\ workflow[day] \in Fixed
              /\ Receipt(workflow[day])
              /\ day \in decided
        /\ day \in signals => workflow[day] # None

PathInv == InputInv /\ PathTypeOK /\ HandInv /\ RegisteredInv

\* Every step of the path is a step of the input or leaves it alone.
LEMMA InputPart == [Next]_vars => [InputNext]_inputVars
  BY DEF Next, vars, AuditDecision, RegisterWorkflow, RecordSignal, StartNode, NodeEnds,
     TransactionFails, CheckFactors, ReadsCatalog, ClientAnswers, ActorReceives

LEMMA ActorDownType ==
    ActorDown \in [step : ActorSteps, current : Slots \cup {NoSlot}, seen : SUBSET Deliveries,
                   completed : SUBSET Deliveries, batch : Deliveries \cup {None}, day : 0..Days]
  BY InputAssumption DEF ActorDown, ActorSteps

LEMMA HandDay ==
    ASSUME PathInv, actor.step \in {"audit", "register", "record"}
    PROVE  actor.batch \in Deliveries /\ actor.day \in 1..Days
  BY InputAssumption DEF PathInv, HandInv

\* What the actor holds after an answer, and what it may begin to publish.
LEMMA ReceivesActor ==
    ASSUME PathTypeOK, NEW s \in Slots, ActorReceives(s)
    PROVE  /\ actor' \in [step : ActorSteps, current : Slots \cup {NoSlot},
                          seen : SUBSET Deliveries, completed : SUBSET Deliveries,
                          batch : Deliveries \cup {None}, day : 0..Days]
           /\ \/ actor'.step = "idle"
              \/ /\ actor'.step = "audit" /\ actor'.batch \in Fixed
                 /\ AsOf[actor'.batch] = actor'.day /\ Receipt(actor'.batch)
<1> DEFINE rows == UNION slot[s].answer
           mine == s = actor.current
           fed  == [actor EXCEPT !.completed = @ \cup rows,
                                 !.seen = IF actor.current = NoSlot THEN @
                                          ELSE @ \cup Counted(rows, actor),
                                 !.current = IF mine THEN NoSlot ELSE @]
           due  == {d \in Deliveries : mine /\ slot[s].answer # {} /\ Publishes(d, fed)}
           Type == [step : ActorSteps, current : Slots \cup {NoSlot}, seen : SUBSET Deliveries,
                    completed : SUBSET Deliveries, batch : Deliveries \cup {None}, day : 0..Days]
<1>1. rows \subseteq Deliveries
  BY DEF PathTypeOK
<1>2. fed \in Type /\ fed.step = "idle"
  <2>1. (IF actor.current = NoSlot THEN actor.seen ELSE actor.seen \cup rows) \subseteq Deliveries
    BY <1>1 DEF PathTypeOK
  <2>2. (IF mine THEN NoSlot ELSE actor.current) \in Slots \cup {NoSlot}
    BY DEF PathTypeOK
  <2>3. actor.completed \cup rows \subseteq Deliveries
    BY <1>1 DEF PathTypeOK
  <2> HIDE DEF rows, mine
  <2>4. actor.step = "idle"
    BY DEF ActorReceives, LoopIsFree
  <2>5. QED
    BY <2>1, <2>2, <2>3, <2>4 DEF PathTypeOK, Counted
<1>3. IF due = {} THEN actor' = fed
      ELSE \E d \in due : actor' = [fed EXCEPT !.step = "audit", !.batch = d, !.day = AsOf[d]]
  BY DEF ActorReceives
<1>4. ASSUME NEW d \in due
      PROVE  d \in Fixed /\ Receipt(d) /\ d \in Deliveries /\ AsOf[d] \in 0..Days
  BY <1>4, InputAssumption DEF Publishes, Publishable, Dated
<1> HIDE DEF fed, due
<1>5. CASE due = {}
  BY <1>2, <1>3, <1>5
<1>6. CASE due # {}
  <2>1. PICK d \in due : actor' = [fed EXCEPT !.step = "audit", !.batch = d, !.day = AsOf[d]]
    BY <1>3, <1>6
  <2>2. d \in Fixed /\ Receipt(d) /\ d \in Deliveries /\ AsOf[d] \in 0..Days
    BY <1>4
  <2>3. actor'.step = "audit" /\ actor'.batch = d /\ actor'.day = AsOf[d]
    BY <1>2, <2>1
  <2>4. actor' \in Type
    BY <1>2, <2>1, <2>2 DEF ActorSteps
  <2>5. QED
    BY <2>2, <2>3, <2>4
<1>7. QED
  BY <1>5, <1>6
-----------------------------------------------------------------------------
(* Types of the path.                                                       *)

\* What the client holds for its requests keeps its types.
LEMMA SlotTypeStep ==
    ASSUME PathTypeOK, NEW s \in Slots,
           CheckFactors(s) \/ ReadsCatalog(s) \/ ClientAnswers(s) \/ ActorReceives(s)
    PROVE  /\ slot' \in [Slots -> [step : {"free", "open", "dropped", "answered"},
                                   answer : SUBSET SUBSET Deliveries]]
           /\ taken' \in [Slots -> SUBSET SUBSET Deliveries]
<1> USE DEF PathTypeOK
<1>1. CASE CheckFactors(s)
  <2>1. \A t \in Slots :
           /\ slot'[t] \in [step : {"free", "open", "dropped", "answered"},
                            answer : SUBSET SUBSET Deliveries]
           /\ taken'[t] \in SUBSET SUBSET Deliveries
    BY <1>1 DEF CheckFactors, At
  <2>2. QED
    BY <1>1, <2>1 DEF CheckFactors
<1>2. CASE ReadsCatalog(s)
  <2>1. {scores} \in SUBSET SUBSET Deliveries
    BY DEF InputTypeOK
  <2>2. QED
    BY <1>2, <2>1 DEF ReadsCatalog, Take
<1>3. CASE ClientAnswers(s)
  BY <1>3 DEF ClientAnswers, Refuse, Answer, At
<1>4. CASE ActorReceives(s)
  BY <1>4 DEF ActorReceives, HandOver, At
<1>5. QED
  BY <1>1, <1>2, <1>3, <1>4

LEMMA PathTypeStep == PathInv /\ [Next]_vars => PathTypeOK'
<1> SUFFICES ASSUME PathInv, [Next]_vars PROVE PathTypeOK'
  OBVIOUS
<1>1. InputTypeOK'
  BY InputPart, InputTypeStep DEF PathInv, InputInv
<1>2. CASE InputNext /\ UNCHANGED <<promiseVars, actorVars>>
  BY <1>1, <1>2 DEF PathInv, PathTypeOK, promiseVars, actorVars
<1>3. CASE UNCHANGED vars
  BY <1>1, <1>3 DEF PathInv, PathTypeOK, vars, promiseVars, actorVars
<1>4. CASE AuditDecision
  <2>1. actor.day \in 1..Days
    BY <1>4, HandDay DEF AuditDecision
  <2>2. QED
    BY <1>1, <1>4, <2>1 DEF AuditDecision, PathInv, PathTypeOK, promiseVars, ActorSteps
<1>5. CASE RegisterWorkflow
  <2>1. actor.batch \in Deliveries /\ actor.day \in 1..Days
    BY <1>5, HandDay DEF RegisterWorkflow
  <2>2. workflow' \in [1..Days -> Deliveries \cup {None}]
    BY <1>5, <2>1 DEF RegisterWorkflow, PathInv, PathTypeOK
  <2>3. actor' \in [step : ActorSteps, current : Slots \cup {NoSlot}, seen : SUBSET Deliveries,
                    completed : SUBSET Deliveries, batch : Deliveries \cup {None}, day : 0..Days]
    <3>1. \/ actor' = [actor EXCEPT !.step = "idle", !.batch = None]
          \/ actor' = [actor EXCEPT !.step = "record"]
      BY <1>5 DEF RegisterWorkflow
    <3>2. CASE actor' = [actor EXCEPT !.step = "idle", !.batch = None]
      BY <3>2 DEF PathInv, PathTypeOK, ActorSteps
    <3>3. CASE actor' = [actor EXCEPT !.step = "record"]
      BY <3>3 DEF PathInv, PathTypeOK, ActorSteps
    <3>4. QED
      BY <3>1, <3>2, <3>3
  <2>4. QED
    BY <1>1, <1>5, <2>2, <2>3 DEF RegisterWorkflow, PathInv, PathTypeOK, promiseVars
<1>6. CASE RecordSignal
  <2>1. actor.day \in 1..Days
    BY <1>6, HandDay DEF RecordSignal
  <2>2. QED
    BY <1>1, <1>6, <2>1 DEF RecordSignal, PathInv, PathTypeOK, promiseVars, ActorSteps
<1>7. CASE TransactionFails
  BY <1>1, <1>7 DEF TransactionFails, PathInv, PathTypeOK, promiseVars, ActorSteps
<1>8. CASE StartNode
  <2>1. starts' \in 0..MaxStarts
    BY <1>8, PathAssumption DEF StartNode, PathInv, PathTypeOK
  <2>2. actor' \in [step : ActorSteps, current : Slots \cup {NoSlot}, seen : SUBSET Deliveries,
                    completed : SUBSET Deliveries, batch : Deliveries \cup {None}, day : 0..Days]
    BY <1>8, ActorDownType DEF StartNode, ActorSteps
  <2>3. QED
    BY <1>1, <1>8, <2>1, <2>2 DEF StartNode, PathInv, PathTypeOK, promiseVars
<1>9. CASE NodeEnds
  <2>1. /\ slot' \in [Slots -> [step : {"free", "open", "dropped", "answered"},
                                answer : SUBSET SUBSET Deliveries]]
        /\ taken' \in [Slots -> SUBSET SUBSET Deliveries]
    BY <1>9 DEF NodeEnds, Lose, At
  <2>2. QED
    BY <1>1, <1>9, <2>1, ActorDownType DEF NodeEnds, PathInv, PathTypeOK
<1>10. ASSUME NEW s \in Slots,
              CheckFactors(s) \/ ReadsCatalog(s) \/ ClientAnswers(s) \/ ActorReceives(s)
       PROVE  PathTypeOK'
  <2>1. /\ slot' \in [Slots -> [step : {"free", "open", "dropped", "answered"},
                                answer : SUBSET SUBSET Deliveries]]
        /\ taken' \in [Slots -> SUBSET SUBSET Deliveries]
    BY <1>10, SlotTypeStep DEF PathInv
  <2>2. actor' \in [step : ActorSteps, current : Slots \cup {NoSlot}, seen : SUBSET Deliveries,
                    completed : SUBSET Deliveries, batch : Deliveries \cup {None}, day : 0..Days]
    <3>1. CASE CheckFactors(s)
      BY <3>1 DEF CheckFactors, PathInv, PathTypeOK
    <3>2. CASE ReadsCatalog(s) \/ ClientAnswers(s)
      BY <3>2 DEF ReadsCatalog, ClientAnswers, actorVars, PathInv, PathTypeOK
    <3>3. CASE ActorReceives(s)
      BY <3>3, ReceivesActor DEF PathInv
    <3>4. QED
      BY <1>10, <3>1, <3>2, <3>3
  <2>3. UNCHANGED <<workflow, signals, decided, starts>>
    BY <1>10 DEF CheckFactors, ReadsCatalog, ClientAnswers, ActorReceives, actorVars
  <2>4. QED
    BY <1>1, <2>1, <2>2, <2>3 DEF PathInv, PathTypeOK
<1>11. QED
  BY <1>2, <1>3, <1>4, <1>5, <1>6, <1>7, <1>8, <1>9, <1>10 DEF Next

-----------------------------------------------------------------------------
(* Receipts last; a publication goes through its transactions in order.     *)

LEMMA ReceiptLasts ==
    ASSUME PathInv, [Next]_vars, NEW d \in Deliveries, Receipt(d) PROVE Receipt(d)'
  BY InputPart, AcceptedStays DEF PathInv, Receipt

\* Where the actor's hand and the rows are as before.
LEMMA PathRests ==
    ASSUME PathInv, [Next]_vars, UNCHANGED <<workflow, signals, decided>>,
           actor'.step \in {"down", "idle"} \/ UNCHANGED actor
    PROVE  HandInv' /\ RegisteredInv'
<1>1. Fixed \subseteq Deliveries
  BY InputAssumption
<1>2. RegisteredInv'
  BY <1>1, ReceiptLasts DEF PathInv, RegisteredInv
<1>3. HandInv'
  BY <1>1, ReceiptLasts DEF PathInv, HandInv
<1>4. QED
  BY <1>2, <1>3

LEMMA PathInvStep == PathInv /\ [Next]_vars => PathInv'
<1> SUFFICES ASSUME PathInv, [Next]_vars PROVE PathInv'
  OBVIOUS
<1>1. InputInv' /\ PathTypeOK'
  BY InputPart, InputInvStep, PathTypeStep DEF PathInv
<1>2. Fixed \subseteq Deliveries
  BY InputAssumption
<1>3. CASE AuditDecision
  <2>1. /\ actor.step = "audit" /\ actor'.step = "register" /\ actor'.batch = actor.batch
        /\ actor'.day = actor.day
        /\ decided' = decided \cup {actor.day} /\ UNCHANGED <<workflow, signals>>
    BY <1>3 DEF AuditDecision, PathInv, PathTypeOK
  <2>2. HandInv'
    BY <1>2, <2>1, ReceiptLasts DEF PathInv, HandInv
  <2>3. RegisteredInv'
    BY <1>2, <2>1, ReceiptLasts DEF PathInv, RegisteredInv
  <2>4. QED
    BY <1>1, <2>2, <2>3 DEF PathInv
<1>4. CASE RegisterWorkflow /\ Taken(actor.day)
  <2>1. actor'.step = "idle" /\ UNCHANGED <<workflow, signals, decided>>
    BY <1>4 DEF RegisterWorkflow, PathInv, PathTypeOK
  <2>2. QED
    BY <1>1, <2>1, PathRests DEF PathInv
<1>5. CASE RegisterWorkflow /\ ~Taken(actor.day)
  <2>1. /\ actor.step = "register" /\ actor'.step = "record" /\ actor'.batch = actor.batch
        /\ actor'.day = actor.day
        /\ workflow' = [workflow EXCEPT ![actor.day] = actor.batch]
        /\ UNCHANGED <<signals, decided>>
    BY <1>5 DEF RegisterWorkflow, PathInv, PathTypeOK
  <2>2. actor.day \in 1..Days /\ actor.batch \in Deliveries /\ actor.batch # None
    BY <2>1, HandDay, InputAssumption
  <2>3. \A day \in 1..Days :
           workflow'[day] = IF day = actor.day THEN actor.batch ELSE workflow[day]
    BY <2>1 DEF PathInv, PathTypeOK
  <2>4. HandInv'
    BY <1>2, <2>1, <2>2, <2>3, ReceiptLasts DEF PathInv, HandInv
  <2>5. /\ AsOf[actor.batch] = actor.day /\ actor.batch \in Fixed /\ Receipt(actor.batch)'
        /\ actor.day \in decided
    BY <1>2, <2>1, ReceiptLasts DEF PathInv, HandInv
  <2>6. RegisteredInv'
    <3>1. SUFFICES ASSUME NEW day \in 1..Days
                   PROVE  /\ workflow'[day] # None =>
                                /\ AsOf[workflow'[day]] = day /\ workflow'[day] \in Fixed
                                /\ accepted'[workflow'[day]] # None
                                /\ accepted'[workflow'[day]] < Cutoff(AsOf[workflow'[day]])
                                /\ day \in decided
                          /\ day \in signals => workflow'[day] # None
      BY <2>1 DEF RegisteredInv, Receipt
    <3>2. CASE day = actor.day
      BY <2>1, <2>2, <2>3, <2>5, <3>2 DEF Receipt
    <3>3. CASE day # actor.day
      <4>1. workflow'[day] = workflow[day]
        BY <2>3, <3>3
      <4>2. \A d \in Deliveries : Receipt(d) => accepted'[d] = accepted[d]
        BY InputPart, AcceptedStays DEF PathInv, Receipt
      <4>3. QED
        BY <1>2, <4>1, <4>2 DEF PathInv, RegisteredInv, Receipt
    <3>4. QED
      BY <3>2, <3>3
  <2>7. QED
    BY <1>1, <2>4, <2>6 DEF PathInv
<1>6. CASE RecordSignal
  <2>1. /\ actor.step = "record" /\ actor'.step = "idle"
        /\ signals' = signals \cup {actor.day} /\ UNCHANGED <<workflow, decided>>
    BY <1>6 DEF RecordSignal, PathInv, PathTypeOK
  <2>2. HandInv'
    BY <2>1 DEF HandInv
  <2>3. workflow[actor.day] # None
    BY <2>1 DEF PathInv, HandInv
  <2>4. RegisteredInv'
    BY <1>2, <2>1, <2>3, ReceiptLasts DEF PathInv, RegisteredInv
  <2>5. QED
    BY <1>1, <2>2, <2>4 DEF PathInv
<1>7. ASSUME NEW s \in Slots, ActorReceives(s) PROVE PathInv'
  <2>1. UNCHANGED <<inputVars, workflow, signals, decided>>
    BY <1>7 DEF ActorReceives
  <2>2. CASE actor'.step = "idle"
    BY <1>1, <2>1, <2>2, PathRests DEF PathInv
  <2>3. CASE /\ actor'.step = "audit" /\ actor'.batch \in Fixed
             /\ AsOf[actor'.batch] = actor'.day /\ Receipt(actor'.batch)
    <3>1. HandInv'
      BY <1>2, <2>1, <2>3 DEF HandInv, Receipt, inputVars
    <3>2. RegisteredInv'
      BY <1>2, <2>1, ReceiptLasts DEF PathInv, RegisteredInv
    <3>3. QED
      BY <1>1, <3>1, <3>2 DEF PathInv
  <2>4. QED
    BY <1>7, <2>2, <2>3, ReceivesActor DEF PathInv
<1>8. ASSUME NEW s \in Slots, CheckFactors(s) PROVE PathInv'
  <2>1. actor'.step = "idle" /\ UNCHANGED <<workflow, signals, decided>>
    BY <1>8 DEF CheckFactors, LoopIsFree, PathInv, PathTypeOK
  <2>2. QED
    BY <1>1, <2>1, PathRests DEF PathInv
<1>9. CASE \/ UNCHANGED vars
           \/ InputNext /\ UNCHANGED <<promiseVars, actorVars>>
           \/ \E s \in Slots : ReadsCatalog(s) \/ ClientAnswers(s)
  <2>1. UNCHANGED <<actor, workflow, signals, decided>>
    BY <1>9 DEF vars, actorVars, ReadsCatalog, ClientAnswers
  <2>2. QED
    BY <1>1, <2>1, PathRests DEF PathInv
<1>10. CASE StartNode \/ NodeEnds \/ TransactionFails
  <2>1. CASE StartNode \/ TransactionFails
    BY <2>1, <1>1, PathRests DEF StartNode, TransactionFails, ActorDown, PathInv, PathTypeOK
  <2>2. CASE NodeEnds
    BY <2>2, <1>1, PathRests DEF NodeEnds, ActorDown, PathInv
  <2>3. QED
    BY <1>10, <2>1, <2>2
<1>11. QED
  BY <1>3, <1>4, <1>5, <1>6, <1>7, <1>8, <1>9, <1>10 DEF Next

LEMMA PathInvInit == Init => PathInv
<1> SUFFICES ASSUME Init PROVE PathInv
  OBVIOUS
<1>1. InputInv
  BY InputInvInit DEF Init
<1>2. PathTypeOK
  <2>1. slot \in [Slots -> [step : {"free", "open", "dropped", "answered"},
                            answer : SUBSET SUBSET Deliveries]]
    BY DEF Init, PromiseInit, At
  <2>2. taken \in [Slots -> SUBSET SUBSET Deliveries]
    BY DEF Init, PromiseInit
  <2>3. starts \in 0..MaxStarts
    BY PathAssumption DEF Init
  <2>4. QED
    BY <1>1, <2>1, <2>2, <2>3, ActorDownType DEF Init, InputInv, PathTypeOK
<1>3. HandInv /\ RegisteredInv
  BY DEF Init, ActorDown, HandInv, RegisteredInv
<1>4. QED
  BY <1>1, <1>2, <1>3 DEF PathInv

-----------------------------------------------------------------------------
(* The theorems.                                                            *)

LEMMA PathInvariant == Spec => []PathInv
<1>1. PathInv /\ [Next]_vars => PathInv'
  BY PathInvStep
<1>2. QED
  BY PathInvInit, <1>1, PTL DEF Spec

\* Input, client, actor and tables keep their types (live/daily.py,
\* live/catalog_client.py, strategies/patchtst_factor.py).
THEOREM PathTypeCorrect == Spec => []PathTypeOK
<1>1. PathInv => PathTypeOK
  BY DEF PathInv
<1>2. QED
  BY PathInvariant, <1>1, PTL

\* An acceptance of the configured release stands for scores that are alone for their
\* date, a stamp between close and opening, and prices that stay (live/daily.py:152,
\* data/pipeline.py:490, data/factor.py:668).
THEOREM AcceptanceIsPriced == Spec => []AcceptedIsPriced
<1>1. PathInv => AcceptedIsPriced
  BY InputAssumption
     DEF PathInv, InputInv, ScoresInv, AcceptedInv, PricedInv, AcceptedIsPriced
<1>2. QED
  BY PathInvariant, <1>1, PTL

\* Whatever the actor registers has passed the contract, is in the Catalog, was accepted
\* before the opening and audited before (strategies/patchtst_factor.py:147-233).
THEOREM RegisteredIsAccepted == Spec => []SignalIsAccepted
<1>1. ASSUME PathInv PROVE SignalIsAccepted
  <2>1. SUFFICES ASSUME NEW day \in 1..Days
                 PROVE  /\ workflow[day] # None =>
                              /\ AsOf[workflow[day]] = day
                              /\ workflow[day] \in Fixed \cap Valid \cap scores
                              /\ accepted[workflow[day]] # None
                              /\ accepted[workflow[day]] < Cutoff(day)
                              /\ day \in decided
                        /\ day \in signals => workflow[day] # None
    BY DEF SignalIsAccepted
  <2>2. Fixed \subseteq Deliveries
    BY InputAssumption
  <2>3. QED
    BY <1>1, <2>2
       DEF PathInv, RegisteredInv, Receipt, InputInv, AcceptedInv, ScoresInv
<1>2. QED
  BY PathInvariant, <1>1, PTL

===============================================================================
