---------------------------- MODULE SignalLifecycle ----------------------------
(***************************************************************************)
(* What the trading database promises about one signal, whoever writes it: *)
(* the workflow status moves only along the edges of the documented state  *)
(* machine (docs/reference/technical-reference.md, the manual and the auto *)
(* workflow), the orders of a signal leave at most once, only while the    *)
(* gateway owns it (PROCESSING), and a signal whose orders left never      *)
(* becomes tradable again.  SignalWorkflow is shown to implement this.     *)
(***************************************************************************)
EXTENDS Naturals

CONSTANT Signals

VARIABLES status,   \* status of each signal's workflow row, "ABSENT" without a row
          orders    \* how many times a batch of orders of the signal has left

vars == <<status, orders>>

Statuses == {"ABSENT", "NEW", "PENDING", "APPROVED", "DENIED", "EXPIRED",
             "RISK_REJECTED", "PROCESSING", "ORDERS_SUBMITTED"}

\* The operator's rearm script may reopen these two, and no other terminal status.
Retriable == {"EXPIRED", "RISK_REJECTED"}

Edges == {<<"ABSENT", "NEW">>,
          <<"NEW", "PENDING">>, <<"NEW", "PROCESSING">>,
          <<"NEW", "EXPIRED">>, <<"NEW", "RISK_REJECTED">>,
          <<"PENDING", "APPROVED">>, <<"PENDING", "DENIED">>, <<"PENDING", "EXPIRED">>,
          <<"APPROVED", "PROCESSING">>,
          <<"PROCESSING", "ORDERS_SUBMITTED">>,
          <<"PROCESSING", "EXPIRED">>, <<"PROCESSING", "RISK_REJECTED">>}
           \cup {<<from, "NEW">> : from \in Retriable}

Init == /\ status = [s \in Signals |-> "ABSENT"]
        /\ orders = [s \in Signals |-> 0]

\* Once orders have left, the only edge still open is the one to ORDERS_SUBMITTED.
Move(s, to) == /\ <<status[s], to>> \in Edges
               /\ orders[s] > 0 => to = "ORDERS_SUBMITTED"
               /\ status' = [status EXCEPT ![s] = to]
               /\ UNCHANGED orders

\* One pass of the approval bot expires every overdue PENDING row.
ExpirePending(S) == /\ \A s \in S : status[s] = "PENDING" /\ orders[s] = 0
                    /\ status' = [s \in Signals |-> IF s \in S THEN "EXPIRED" ELSE status[s]]
                    /\ UNCHANGED orders

SendOrders(s) == /\ status[s] = "PROCESSING"
                 /\ orders[s] = 0
                 /\ orders' = [orders EXCEPT ![s] = 1]
                 /\ UNCHANGED status

Next == \/ \E s \in Signals : SendOrders(s) \/ \E to \in Statuses : Move(s, to)
        \/ \E S \in SUBSET Signals : ExpirePending(S)

Spec == Init /\ [][Next]_vars
================================================================================
