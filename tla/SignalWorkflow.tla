----------------------------- MODULE SignalWorkflow -----------------------------
(***************************************************************************)
(* The life of trade signals across the three processes that share live.db: *)
(* the trading node (strategy actor and execution gateway, one thread), the *)
(* approval bot (one asyncio loop) and the operator's rearm script.        *)
(*                                                                         *)
(* A gateway callback runs to its end before the next one starts, but every *)
(* database transaction in it is a step of its own, so that the bot, the   *)
(* operator, the clock, a crash or a failing transaction can come between  *)
(* two of them.  What one step does between two transactions is atomic: it *)
(* touches only memory of the gateway's thread.  Rows listed from the      *)
(* database come in any order.  A batch of orders is one event here;       *)
(* module Rebalance opens it up.  The generation counter and the 60 second *)
(* timeout of a price request only decide which answer counts: here a      *)
(* request is either in flight or not.  Times are abstract instants.       *)
(***************************************************************************)
EXTENDS Naturals, Sequences, FiniteSets, SequencesExt

CONSTANTS
    Signals,    \* event ids
    Factor,     \* TRUE: the active strategy is patchtst_e3; FALSE: dual momentum
    Modes,      \* the approval modes the node may be (re)started with
    NotBefore,  \* not_before of each signal (0: at once)
    Expires,    \* expires_at of each signal when it is published
    MaxTime, MaxRearms, MaxFaults,   \* bounds of the model
    None

ASSUME WorkflowAssumption ==
    /\ IsFiniteSet(Signals)
    /\ Factor \in BOOLEAN
    /\ Modes \subseteq {"manual", "auto"}
    /\ MaxTime \in Nat /\ MaxRearms \in Nat /\ MaxFaults \in Nat
    /\ NotBefore \in [Signals -> 0..MaxTime]
    /\ Expires \in [Signals -> 0..MaxTime]
    /\ None \notin Signals /\ None \notin Nat /\ None \notin {"auto", "user"}

VARIABLES
    \* live.db
    status,     \* workflow status
    expires,    \* expires_at_utc of the row
    decidedBy,  \* decision_by of the row: None, "auto" or "user"
    notified,   \* rows whose notified_at is set
    rearms,     \* how many REARMED rows the signal has: its attempt number
    audit,      \* approval rows, as <<signal, attempt, decision>>
    skip,       \* signals with an execution SKIP that no rearm has recovered
    orders,     \* batches of orders that have left (their CREATED rows stay)
    \* trading node
    node,       \* "down", "starting" (actor started, gateway not yet), "up"
    mode,       \* approval_mode of the running node
    prices,     \* execution prices: ready, their date, the date asked for, busy
    deferred,   \* _deferred_signals, in the order of the dict
    alarm,      \* factor-open- timers: expiry captured with the message, or None
    frame,      \* the callback the gateway is in
    \* approval bot and chat
    bot,        \* up; rows still to be noted; cards still to be sent; card to mark
    cards,      \* signals with an undecided card (its buttons) in the chat
    \* world
    now,
    account,    \* what _account_rejection would say: TRUE when the account is ready
    faults      \* crashes and failed transactions so far

row     == <<status, expires, decidedBy, notified>>
db      == <<row, rearms, audit, skip, orders>>
memory  == <<prices, deferred, alarm, frame>>
gateway == <<node, mode, memory>>
telegram == <<bot, cards>>
world   == <<now, account, faults>>
vars    == <<db, gateway, telegram, world>>

Statuses  == {"ABSENT", "NEW", "PENDING", "APPROVED", "DENIED", "EXPIRED",
              "RISK_REJECTED", "PROCESSING", "ORDERS_SUBMITTED"}
Verdicts  == {"PENDING", "APPROVED", "EXPIRED", "RISK_REJECTED"}  \* of the gateway
Decisions == Verdicts \cup {"USER_APPROVED", "USER_DENIED"}
Message   == [sig : Signals, exp : 0..MaxTime]

\* The steps of a callback: "next" takes the next message or claim, the others
\* are the transactions still owed for the signal in hand.
Steps  == {"idle", "next", "skip", "finish", "audit", "execute"}
Phases == {"single", "stale", "deferred", "new", "claim"}

Idle == [step |-> "idle", phase |-> "single", queue |-> <<>>,
         sig |-> None, exp |-> 0, verdict |-> None, claimed |-> FALSE]

Callback(phase, queue) == [step |-> "next", phase |-> phase, queue |-> queue,
                           sig |-> None, exp |-> 0, verdict |-> None, claimed |-> FALSE]

NoBotWork == [up |-> TRUE, notes |-> {}, outbox |-> {}, mark |-> None]

Init ==
    /\ status = [s \in Signals |-> "ABSENT"]
    /\ expires = Expires
    /\ decidedBy = [s \in Signals |-> None]
    /\ rearms = [s \in Signals |-> 0]
    /\ notified = {} /\ audit = {} /\ skip = {}
    /\ orders = [s \in Signals |-> 0]
    /\ node = "down"
    /\ mode \in Modes
    /\ prices = [ready |-> FALSE, date |-> None, asked |-> None, busy |-> FALSE]
    /\ deferred = <<>>
    /\ alarm = [s \in Signals |-> None]
    /\ frame = Idle
    /\ bot = NoBotWork
    /\ cards = {}
    /\ now = 0 /\ account \in BOOLEAN /\ faults = 0

-----------------------------------------------------------------------------
(* Node start, strategy actor, timers and the answers of the Catalog.      *)

\* The date a signal's execution prices must have been asked for.
PriceDate(s) == IF Factor THEN s ELSE None

Requested(date) == [prices EXCEPT !.ready = FALSE, !.asked = date, !.busy = TRUE]

\* NT starts the actor before the gateway; what it publishes meanwhile is lost.
StartActor ==
    /\ node = "down"
    /\ node' = "starting"
    /\ mode' \in Modes
    /\ UNCHANGED <<db, memory, telegram, world>>

StartGateway ==
    /\ node = "starting"
    /\ node' = "up"
    /\ prices' = Requested(None)
    /\ UNCHANGED <<db, mode, deferred, alarm, frame, telegram, world>>

\* The actor registers the workflow once per rebalance key and publishes what
\* the row says; the gateway handles the message inside the same publish call.
Publish(s) ==
    /\ node # "down" /\ frame.step = "idle"
    /\ Factor => now < Expires[s]
    /\ status' = IF status[s] = "ABSENT" THEN [status EXCEPT ![s] = "NEW"] ELSE status
    /\ frame' = IF node = "up"
                THEN Callback("single", <<[sig |-> s, exp |-> expires[s]]>>)
                ELSE frame
    /\ UNCHANGED <<expires, decidedBy, notified, rearms, audit, skip, orders, node, mode,
                   prices, deferred, alarm, telegram, world>>

\* (mutant) the rows still open only
NewMessagesOpen == {[sig |-> s, exp |-> expires[s]] :
                      s \in {t \in Signals : status[t] = "NEW" /\ now < expires[t]}}

NewMessages == {[sig |-> s, exp |-> expires[s]] : s \in {t \in Signals : status[t] = "NEW"}}

CatalogAnswers ==
    /\ node = "up" /\ frame.step = "idle" /\ prices.busy
    /\ \/ /\ prices' = [prices EXCEPT !.ready = TRUE, !.date = prices.asked, !.busy = FALSE]
          /\ frame' = Callback("deferred", deferred)
          /\ deferred' = <<>>
       \/ /\ prices' = [prices EXCEPT !.busy = FALSE]
          /\ UNCHANGED <<frame, deferred>>
    /\ UNCHANGED <<db, node, mode, alarm, telegram, world>>

AlarmRings(s) ==
    /\ node = "up" /\ frame.step = "idle"
    /\ alarm[s] # None /\ now >= NotBefore[s]
    /\ alarm' = [alarm EXCEPT ![s] = None]
    /\ frame' = Callback("single", <<[sig |-> s, exp |-> alarm[s]]>>)
    /\ UNCHANGED <<db, node, mode, prices, deferred, telegram, world>>

\* approval-poll: first the NEW rows whose expiry has passed, whatever the prices.
Poll ==
    /\ node = "up" /\ frame.step = "idle"
    /\ \E stale \in SetToSeqs({m \in NewMessages : m.exp <= now}) :
          frame' = Callback("stale", stale)
    /\ UNCHANGED <<db, node, mode, prices, deferred, alarm, telegram, world>>

-----------------------------------------------------------------------------
(* _handle_signal and _process_signal, one message at a time.              *)

Taking == frame.step = "next" /\ frame.queue # <<>>

\* The message in hand, and the callback without it.
Msg  == Head(frame.queue)
Rest == [frame EXCEPT !.queue = Tail(@)]

\* Go on with the transactions the message in hand still needs.
Owed(step, verdict) ==
    [step |-> step, phase |-> frame.phase, queue |-> Tail(frame.queue), sig |-> Msg.sig,
     exp |-> Msg.exp, verdict |-> verdict, claimed |-> (verdict = "APPROVED")]

\* (mutant) whatever date the prices were asked for
UnpricedAnyDate == frame.phase # "stale" /\ ~prices.ready

\* Poll handles overdue rows without looking at the prices, and forgets their copy.
Unpriced == frame.phase # "stale"
            /\ (~prices.ready \/ (Factor /\ prices.date # Msg.sig))

\* _deferred_signals is a dict: setdefault, assignment and pop keep its order.
Places(s) == {i \in 1..Len(deferred) : deferred[i].sig = s}

Held(m) == IF Places(m.sig) = {} THEN Append(deferred, m) ELSE deferred

HeldAgain(m) == [i \in 1..Len(Held(m)) |-> IF Held(m)[i].sig = m.sig THEN m ELSE Held(m)[i]]

Kept(m) == IF frame.phase # "stale" \/ Places(m.sig) = {} THEN deferred
           ELSE RemoveAt(deferred, CHOOSE i \in Places(m.sig) : TRUE)

HoldForPrices ==
    /\ Taking /\ Unpriced
    /\ deferred' = Held(Msg)
    /\ prices' = IF prices.busy THEN prices ELSE Requested(PriceDate(Msg.sig))
    /\ frame' = Rest
    /\ UNCHANGED <<db, node, mode, alarm, telegram, world>>

DropHandled ==
    /\ Taking /\ ~Unpriced
    /\ status[Msg.sig] # "NEW"
    /\ frame' = Rest
    /\ deferred' = Kept(Msg)
    /\ UNCHANGED <<db, node, mode, prices, alarm, telegram, world>>

HoldForAccount ==
    /\ Taking /\ ~Unpriced
    /\ status[Msg.sig] = "NEW"
    /\ now < Msg.exp /\ ~account
    /\ deferred' = HeldAgain(Msg)
    /\ frame' = Rest
    /\ UNCHANGED <<db, node, mode, prices, alarm, telegram, world>>

\* (mutant) no look at the expiry
FactorRejectsLate(s, exp) == Factor /\ s \in skip

\* The answers _build_plan can give (TRUE: rejected) for a message with expiry exp.
FactorRejects(s, exp) == Factor /\ (now >= exp \/ s \in skip)
PlanRejections(s, exp) == IF ~account \/ FactorRejects(s, exp) THEN {TRUE} ELSE BOOLEAN

Deciding ==
    /\ Taking /\ ~Unpriced
    /\ status[Msg.sig] = "NEW"
    /\ now >= Msg.exp \/ account

\* The skip and the approval row follow in transactions of their own.
RefuseNew(rejected) ==
    /\ Deciding /\ rejected \in PlanRejections(Msg.sig, Msg.exp)
    /\ now >= Msg.exp \/ rejected
    /\ LET verdict == IF now >= Msg.exp THEN "EXPIRED" ELSE "RISK_REJECTED"
       IN  /\ status' = [status EXCEPT ![Msg.sig] = verdict]
           /\ frame' = Owed(IF Factor /\ rejected THEN "skip" ELSE "audit", verdict)
    /\ deferred' = Kept(Msg)
    /\ UNCHANGED <<expires, decidedBy, notified, rearms, audit, skip, orders, node, mode,
                   prices, alarm, telegram, world>>

AskApproval ==
    /\ Deciding /\ FALSE \in PlanRejections(Msg.sig, Msg.exp)
    /\ now < Msg.exp /\ mode = "manual"
    /\ status' = [status EXCEPT ![Msg.sig] = "PENDING"]
    /\ frame' = Owed("audit", "PENDING")
    /\ UNCHANGED <<expires, decidedBy, notified, rearms, audit, skip, orders, node, mode,
                   prices, deferred, alarm, telegram, world>>

WaitForOpening ==
    /\ Deciding /\ FALSE \in PlanRejections(Msg.sig, Msg.exp)
    /\ now < Msg.exp /\ mode = "auto" /\ now < NotBefore[Msg.sig]
    /\ alarm' = IF alarm[Msg.sig] = None THEN [alarm EXCEPT ![Msg.sig] = Msg.exp] ELSE alarm
    /\ frame' = Rest
    /\ UNCHANGED <<db, node, mode, prices, deferred, telegram, world>>

\* claim_auto_signal: the row must be NEW, open and unexpired, whatever the message says.
AutoClaimable(s) == status[s] = "NEW" /\ now < expires[s] /\ NotBefore[s] <= now

ClaimAuto ==
    /\ Deciding /\ FALSE \in PlanRejections(Msg.sig, Msg.exp)
    /\ now < Msg.exp /\ mode = "auto" /\ now >= NotBefore[Msg.sig]
    /\ IF AutoClaimable(Msg.sig)
       THEN /\ status' = [status EXCEPT ![Msg.sig] = "PROCESSING"]
            /\ decidedBy' = [decidedBy EXCEPT ![Msg.sig] = "auto"]
            /\ audit' = audit \cup {<<Msg.sig, rearms[Msg.sig], "APPROVED">>}
            /\ frame' = Owed("execute", "APPROVED")
       ELSE frame' = Rest /\ UNCHANGED <<status, decidedBy, audit>>
    /\ UNCHANGED <<expires, notified, rearms, skip, orders, node, mode,
                   prices, deferred, alarm, telegram, world>>

-----------------------------------------------------------------------------
(* When the messages in hand are done: what the callback goes on with.     *)

AllTaken == frame.step = "next" /\ frame.queue = <<>>

\* Poll: without prices ask again and return; auto retries what was held, then
\* every NEW row; manual turns to the approved rows.
PollGoesOn ==
    /\ AllTaken /\ frame.phase = "stale"
    /\ IF ~prices.ready
       THEN /\ prices' = IF prices.busy THEN prices ELSE Requested(prices.asked)
            /\ frame' = Idle
            /\ UNCHANGED deferred
       ELSE /\ IF mode = "auto"
               THEN /\ frame' = Callback("deferred", deferred)
                    /\ deferred' = <<>>
               ELSE frame' = Callback("claim", <<>>) /\ UNCHANGED deferred
            /\ UNCHANGED prices
    /\ UNCHANGED <<db, node, mode, alarm, telegram, world>>

ListNew ==
    /\ AllTaken /\ frame.phase = "deferred"
    /\ \E new \in SetToSeqs(NewMessages) : frame' = Callback("new", new)
    /\ UNCHANGED <<db, node, mode, prices, deferred, alarm, telegram, world>>

\* (mutants) also what was claimed before; what nobody approved; what waits for the
\* user; only what is still open
ClaimableTwice(s) == status[s] \in {"APPROVED", "PROCESSING"} /\ NotBefore[s] <= now
ClaimableNew(s) == status[s] \in {"APPROVED", "NEW"} /\ NotBefore[s] <= now
ClaimablePending(s) == status[s] \in {"APPROVED", "PENDING"} /\ NotBefore[s] <= now
ClaimableOpen(s) == status[s] = "APPROVED" /\ NotBefore[s] <= now /\ now < expires[s]

\* claim_next_approved: not_before decides what can be claimed, expiry is looked at later.
Claimable(s) == status[s] = "APPROVED" /\ NotBefore[s] <= now

Return ==
    /\ AllTaken
    /\ \/ frame.phase \in {"single", "new"}
       \/ frame.phase = "claim" /\ ~\E s \in Signals : Claimable(s)
    /\ frame' = Idle
    /\ UNCHANGED <<db, node, mode, prices, deferred, alarm, telegram, world>>

ClaimVerdicts(s) == IF now >= expires[s] THEN {"EXPIRED"}
                    ELSE {IF rejected THEN "RISK_REJECTED" ELSE "APPROVED" :
                             rejected \in PlanRejections(s, expires[s])}

\* (mutant) the approval is not written before the execution
FirstOwedUnwritten(verdict) == IF verdict = "APPROVED" THEN "execute"
                               ELSE IF Factor /\ verdict = "RISK_REJECTED" THEN "skip"
                                                                           ELSE "finish"

\* What is written first once an approved row has been claimed.
FirstOwed(verdict) == IF verdict = "APPROVED" THEN "audit"
                      ELSE IF Factor /\ verdict = "RISK_REJECTED" THEN "skip" ELSE "finish"

ClaimApproved(s) ==
    /\ AllTaken /\ frame.phase = "claim" /\ Claimable(s)
    /\ status' = [status EXCEPT ![s] = "PROCESSING"]
    /\ \E verdict \in ClaimVerdicts(s) :
          frame' = [step |-> FirstOwed(verdict), phase |-> "claim", queue |-> <<>>, sig |-> s,
                    exp |-> expires[s], verdict |-> verdict, claimed |-> TRUE]
    /\ UNCHANGED <<expires, decidedBy, notified, rearms, audit, skip, orders, node, mode,
                   prices, deferred, alarm, telegram, world>>

-----------------------------------------------------------------------------
(* The transactions owed for the signal in hand.                           *)

RecordSkip ==
    /\ frame.step = "skip"
    /\ skip' = skip \cup {frame.sig}
    /\ frame' = [frame EXCEPT !.step = IF frame.claimed THEN "finish" ELSE "audit"]
    /\ UNCHANGED <<row, rearms, audit, orders, node, mode, prices, deferred, alarm,
                   telegram, world>>

RecordVerdict ==
    /\ frame.step = "audit"
    /\ audit' = audit \cup {<<frame.sig, rearms[frame.sig], frame.verdict>>}
    /\ frame' = IF frame.claimed /\ frame.verdict = "APPROVED"
                THEN [frame EXCEPT !.step = "execute"]
                ELSE Callback(frame.phase, frame.queue)
    /\ UNCHANGED <<row, rearms, skip, orders, node, mode, prices, deferred, alarm,
                   telegram, world>>

\* The last check before each submit_order, with the expiry the message captured.
MaySubmit(s, exp) == account /\ (Factor => NotBefore[s] <= now /\ ~FactorRejects(s, exp))

\* _execute_plan up to its return: some orders leave or none (an empty plan), and
\* the batch may be stopped by a risk check, which a factor signal records as a skip.
Execute ==
    /\ frame.step = "execute"
    /\ \E sent \in {FALSE} \cup {b \in {TRUE} : MaySubmit(frame.sig, frame.exp)},
          stopped \in BOOLEAN :
          /\ orders' = IF sent THEN [orders EXCEPT ![frame.sig] = @ + 1] ELSE orders
          /\ skip' = IF stopped /\ Factor THEN skip \cup {frame.sig} ELSE skip
    /\ frame' = [frame EXCEPT !.step = "finish"]
    /\ UNCHANGED <<row, rearms, audit, node, mode, prices, deferred, alarm, telegram, world>>

Finish ==
    /\ frame.step = "finish"
    /\ status' = IF status[frame.sig] # "PROCESSING" THEN status
                 ELSE [status EXCEPT ![frame.sig] =
                         IF frame.verdict = "APPROVED" THEN "ORDERS_SUBMITTED"
                                                       ELSE frame.verdict]
    /\ frame' = IF frame.verdict = "APPROVED" THEN Callback(frame.phase, frame.queue)
                                              ELSE [frame EXCEPT !.step = "audit"]
    /\ UNCHANGED <<expires, decidedBy, notified, rearms, audit, skip, orders, node, mode,
                   prices, deferred, alarm, telegram, world>>

-----------------------------------------------------------------------------
(* Faults of the node: a crash or stop forgets its memory; a transaction   *)
(* that raises (live.db is shared with a 50 ms busy timeout) ends only the *)
(* callback, as nothing in it catches the exception.                       *)

GatewayStops ==
    /\ node # "down" /\ faults < MaxFaults
    /\ node' = "down" /\ faults' = faults + 1
    /\ prices' = [ready |-> FALSE, date |-> None, asked |-> None, busy |-> FALSE]
    /\ deferred' = <<>>
    /\ alarm' = [s \in Signals |-> None]
    /\ frame' = Idle
    /\ UNCHANGED <<db, mode, telegram, now, account>>

CallbackFails ==
    /\ frame.step # "idle" /\ faults < MaxFaults
    /\ faults' = faults + 1
    /\ frame' = Idle
    /\ UNCHANGED <<db, node, mode, prices, deferred, alarm, telegram, now, account>>

-----------------------------------------------------------------------------
(* Approval bot: the mailbox poll waits (awaits) only while it sends a card, *)
(* a button press is handled between two awaits.                           *)

BotFree == bot.up /\ bot.notes = {}

\* (mutants) rows in execution too; only rows without a card
OverdueClaimed == {s \in Signals : status[s] \in {"PENDING", "PROCESSING"} /\ expires[s] <= now}
OverdueUnsent == {s \in Signals : status[s] = "PENDING" /\ expires[s] <= now} \ notified

Overdue == {s \in Signals : status[s] = "PENDING" /\ expires[s] <= now}

ExpireOverdue == [s \in Signals |-> IF s \in Overdue THEN "EXPIRED" ELSE status[s]]

BotPolls ==
    /\ BotFree /\ bot.outbox = {} /\ bot.mark = None
    /\ status' = ExpireOverdue
    /\ bot' = [bot EXCEPT !.notes = {<<s, "EXPIRED">> : s \in Overdue},
                          !.outbox = {s \in Signals : status'[s] = "PENDING"} \ notified]
    /\ UNCHANGED <<expires, decidedBy, notified, rearms, audit, skip, orders, gateway,
                   cards, world>>

BotNotes(s, decision) ==
    /\ bot.up /\ <<s, decision>> \in bot.notes
    /\ audit' = audit \cup {<<s, rearms[s], decision>>}
    /\ bot' = [bot EXCEPT !.notes = @ \ {<<s, decision>>}]
    /\ cards' = IF decision = "EXPIRED" THEN cards ELSE cards \ {s}
    /\ UNCHANGED <<row, rearms, skip, orders, gateway, world>>

BotSendsCard(s) ==
    /\ BotFree /\ bot.mark = None /\ s \in bot.outbox
    /\ cards' = cards \cup {s}
    /\ bot' = [bot EXCEPT !.outbox = @ \ {s}, !.mark = s]
    /\ UNCHANGED <<db, gateway, world>>

BotMarksNotified ==
    /\ BotFree /\ bot.mark # None
    /\ notified' = IF status[bot.mark] = "PENDING" THEN notified \cup {bot.mark} ELSE notified
    /\ bot' = [bot EXCEPT !.mark = None]
    /\ UNCHANGED <<status, expires, decidedBy, rearms, audit, skip, orders, gateway, cards,
                   world>>

\* A press on an overdue signal expires every overdue row but notes only this one.
PressLate(s) ==
    /\ BotFree /\ s \in cards
    /\ expires[s] <= now
    /\ status' = ExpireOverdue
    /\ bot' = [bot EXCEPT !.notes = IF s \in Overdue THEN {<<s, "EXPIRED">>} ELSE {}]
    /\ UNCHANGED <<expires, decidedBy, notified, rearms, audit, skip, orders, gateway, cards,
                   world>>

\* (mutant) the status of the row instead of who decided
UserDecisionStatus(approve) == IF approve THEN "APPROVED" ELSE "DENIED"

UserDecision(approve) == IF approve THEN "USER_APPROVED" ELSE "USER_DENIED"

Press(s, approve) ==
    /\ BotFree /\ s \in cards
    /\ now < expires[s] /\ status[s] = "PENDING"
    /\ status' = [status EXCEPT ![s] = IF approve THEN "APPROVED" ELSE "DENIED"]
    /\ decidedBy' = [decidedBy EXCEPT ![s] = "user"]
    /\ bot' = [bot EXCEPT !.notes = {<<s, UserDecision(approve)>>}]
    /\ UNCHANGED <<expires, notified, rearms, audit, skip, orders, gateway, cards, world>>

BotStops ==
    /\ bot.up /\ faults < MaxFaults
    /\ faults' = faults + 1
    /\ bot' = [NoBotWork EXCEPT !.up = FALSE]
    /\ UNCHANGED <<db, gateway, cards, now, account>>

BotStarts ==
    /\ ~bot.up
    /\ bot' = NoBotWork
    /\ UNCHANGED <<db, gateway, cards, world>>

-----------------------------------------------------------------------------
(* Operator and world.                                                     *)

\* rearm_terminal_signal is one transaction; only a factor signal has to keep its
\* window, be unexpired and have no order events.
Rearmable(s, newExpiry) ==
    /\ status[s] \in {"RISK_REJECTED", "EXPIRED"}
    /\ now < newExpiry
    /\ Factor => newExpiry <= expires[s] /\ now < expires[s] /\ orders[s] = 0

Rearm(s, newExpiry) ==
    /\ rearms[s] < MaxRearms
    /\ Rearmable(s, newExpiry)
    /\ status' = [status EXCEPT ![s] = "NEW"]
    /\ expires' = [expires EXCEPT ![s] = newExpiry]
    /\ decidedBy' = [decidedBy EXCEPT ![s] = None]
    /\ notified' = notified \ {s}
    /\ rearms' = [rearms EXCEPT ![s] = @ + 1]
    /\ skip' = skip \ {s}
    /\ UNCHANGED <<audit, orders, gateway, telegram, world>>

Tick ==
    /\ now < MaxTime
    /\ now' = now + 1
    /\ UNCHANGED <<db, gateway, telegram, account, faults>>

AccountChanges ==
    /\ account' = ~account
    /\ UNCHANGED <<db, gateway, telegram, now, faults>>

HandleMessage ==
    \/ HoldForPrices \/ DropHandled \/ HoldForAccount
    \/ \E rejected \in BOOLEAN : RefuseNew(rejected)
    \/ AskApproval \/ WaitForOpening \/ ClaimAuto

\* One step of the callback in hand: always able to go on.
GatewayStep ==
    \/ HandleMessage
    \/ PollGoesOn \/ ListNew \/ Return
    \/ \E s \in Signals : ClaimApproved(s)
    \/ RecordSkip \/ RecordVerdict \/ Execute \/ Finish

BotStep ==
    \/ BotPolls \/ BotMarksNotified
    \/ \E s \in Signals : BotSendsCard(s)
    \/ \E s \in Signals, decision \in Decisions : BotNotes(s, decision)

Next ==
    \/ StartActor \/ StartGateway \/ CatalogAnswers \/ Poll \/ GatewayStep
    \/ \E s \in Signals : Publish(s) \/ AlarmRings(s)
    \/ GatewayStops \/ CallbackFails
    \/ BotStep \/ BotStops \/ BotStarts
    \/ \E s \in Signals : PressLate(s) \/ Press(s, TRUE) \/ Press(s, FALSE)
    \/ \E s \in Signals, newExpiry \in 1..MaxTime : Rearm(s, newExpiry)
    \/ Tick \/ AccountChanges

Spec == Init /\ [][Next]_vars

\* A callback runs on; NT's clock keeps firing the poll among the other callbacks;
\* the Catalog answers within its minute again and again; the bot's mailbox task
\* loops; time passes.  Starting the node or the bot is up to the operator.
Fairness ==
    /\ WF_vars(GatewayStep) /\ WF_vars(StartGateway)
    /\ SF_vars(Poll) /\ SF_vars(CatalogAnswers /\ prices'.ready)
    /\ SF_vars(BotPolls) /\ WF_vars(BotStep)
    /\ WF_vars(Tick)

FairSpec == Spec /\ Fairness

-----------------------------------------------------------------------------
(* Properties.                                                             *)

RowsOK ==
    /\ status \in [Signals -> Statuses]
    /\ expires \in [Signals -> 0..MaxTime]
    /\ decidedBy \in [Signals -> {None, "auto", "user"}]
    /\ notified \subseteq Signals

LedgerOK ==
    /\ rearms \in [Signals -> 0..MaxRearms]
    /\ audit \subseteq Signals \X (0..MaxRearms) \X Decisions
    /\ skip \subseteq Signals
    /\ orders \in [Signals -> Nat]

NodeOK ==
    /\ node \in {"down", "starting", "up"} /\ mode \in Modes
    /\ prices \in [ready : BOOLEAN, date : Signals \cup {None},
                   asked : Signals \cup {None}, busy : BOOLEAN]
    /\ alarm \in [Signals -> (0..MaxTime) \cup {None}]

Frames == [step : Steps, phase : Phases, queue : Seq(Message), sig : Signals \cup {None},
           exp : 0..MaxTime, verdict : Verdicts \cup {None}, claimed : BOOLEAN]

OwedSteps == {"skip", "finish", "audit", "execute"}

\* A callback owes transactions only for a signal in hand with a verdict.
FrameOK ==
    /\ deferred \in Seq(Message)
    /\ frame \in Frames
    /\ frame.step \in OwedSteps => frame.sig \in Signals /\ frame.verdict \in Verdicts

ChatOK ==
    /\ bot \in [up : BOOLEAN, notes : SUBSET (Signals \X Decisions),
                outbox : SUBSET Signals, mark : Signals \cup {None}]
    /\ cards \subseteq Signals

WorldOK == now \in 0..MaxTime /\ account \in BOOLEAN /\ faults \in 0..MaxFaults

\* Every variable keeps the shape the code gives it.
TypeOK == RowsOK /\ LedgerOK /\ NodeOK /\ FrameOK /\ ChatOK /\ WorldOK

\* No crash, failing transaction, stale message, late poll or rearm makes the
\* orders of a signal leave a second time, and the row of a signal whose orders
\* left says so: it stays PROCESSING or reaches ORDERS_SUBMITTED.
SubmitOnce ==
    \A s \in Signals : orders[s] > 0 => /\ orders[s] = 1
                                       /\ status[s] \in {"PROCESSING", "ORDERS_SUBMITTED"}

\* Orders that left rest on a decision of the attempt they belong to: the row
\* names who decided and the approval row of that attempt is already on disk.
OrdersAreApproved ==
    \A s \in Signals : orders[s] > 0 => /\ decidedBy[s] # None
                                       /\ <<s, rearms[s], "APPROVED">> \in audit

\* The gateway owns the signal in hand from its claim until the claim is finished.
Owning == frame.claimed /\ (frame.verdict = "APPROVED" \/ frame.step # "audit")

\* While the gateway owns a signal its row stays PROCESSING under the decision it
\* was claimed on, whatever the bot, the operator or the clock do between two of
\* its transactions, and nothing has been sent for it before the plan is executed,
\* which starts only once the approval is on disk.
ClaimHeld ==
    Owning => /\ status[frame.sig] = "PROCESSING"
              /\ decidedBy[frame.sig] # None
              /\ orders[frame.sig] > 0 => frame.step = "finish" /\ frame.verdict = "APPROVED"
              /\ frame.step = "execute" =>
                    <<frame.sig, rearms[frame.sig], "APPROVED">> \in audit

\* An auto node never trades what a person approved (it claims only NEW rows), and
\* a manual node trades only what a person approved.
ModeKeepsToItsClaims ==
    [][\A s \in Signals :
          orders'[s] # orders[s] => decidedBy[s] = IF mode = "auto" THEN "auto" ELSE "user"]_vars

\* Orders of a factor signal leave inside its published window, even when the
\* message in hand is older than a rearm that shortened the expiry.
FactorWindowKept ==
    [][\A s \in Signals :
          Factor /\ orders'[s] # orders[s] => NotBefore[s] <= now /\ now < Expires[s]]_vars

\* No signal is planned for approval or execution before the execution prices of
\* its own date have been loaded by a completed request.
PlannedOnOwnPrices ==
    [][\A s \in Signals :
          status[s] = "NEW" /\ status'[s] \in {"PENDING", "PROCESSING"}
             => prices.ready /\ (Factor => prices.date = s)]_vars

\* What makes the invariants above inductive: the shape of the callback, and that an
\* approved row names who decided.
FrameShape ==
    /\ frame.claimed => frame.step \in OwedSteps /\ frame.verdict # "PENDING"
    /\ frame.step = "skip" => frame.verdict # "APPROVED"
    /\ frame.step = "finish" => frame.claimed
    /\ frame.step = "execute" => frame.claimed /\ frame.verdict = "APPROVED"

DecisionNamed ==
    \A s \in Signals : status[s] \in {"APPROVED", "PROCESSING", "ORDERS_SUBMITTED"}
                         => decidedBy[s] # None

\* The inductive invariant.
IInv == TypeOK /\ FrameShape /\ DecisionNamed /\ SubmitOnce /\ OrdersAreApproved /\ ClaimHeld

\* The rows move only as the documented state machine allows.
Lifecycle == INSTANCE SignalLifecycle
LifecycleSpec == Lifecycle!Spec

\* While the gateway stays up, a NEW signal does not stay NEW: at the latest the
\* poll expires it, whatever the account and the prices do.
NewIsHandled ==
    \A s \in Signals : (status[s] = "NEW" /\ node = "up")
                         ~> (status[s] # "NEW" \/ node # "up")

\* While the bot stays up, a PENDING signal is decided or expired.
PendingIsDecided ==
    \A s \in Signals : (status[s] = "PENDING" /\ bot.up) ~> (status[s] # "PENDING" \/ ~bot.up)

\* A manual gateway claims an approved signal and comes to a verdict: the orders leave,
\* the second plan is refused, or it has expired.  After a crash or a failed transaction
\* nobody does (_poll_approved_signal, _execute_plan, finish_processing).
ApprovedIsSettled ==
    \A s \in Signals, f \in 0..MaxFaults :
        (status[s] = "APPROVED" /\ node = "up" /\ mode = "manual" /\ faults = f)
            ~> (status[s] \in {"ORDERS_SUBMITTED", "RISK_REJECTED", "EXPIRED"} \/ faults # f)

\* "Any stage's application risk failure ends in RISK_REJECTED"
\* (docs/reference/technical-reference.md:249).
RiskFailureIsRejected ==
    \A s \in Signals : status[s] = "ORDERS_SUBMITTED" /\ s \in skip => orders[s] > 0
================================================================================
