----------------------------- MODULE OfficeBooks -----------------------------
(***************************************************************************)
(* What the remittance services promise, without a journal, without        *)
(* requests and without copies: every operation is one step that reads the *)
(* current record, and what a member owes and what the office has earned   *)
(* move with the status of the transactions.                               *)
(*                                                                         *)
(* Transactions implements this when requests do not overlap: its statuses *)
(* are the columns of the row, its debts and profits are ledger balances.  *)
(*                                                                         *)
(* A revision may enter figures that the record cannot hold: what is then  *)
(* collected may differ from the claim by the rounding, and the difference *)
(* stays on the member's account.                                          *)
(***************************************************************************)
EXTENDS Integers

CONSTANTS
    Members, Currencies, Txns,
    Claims,     \* what a transaction may put on a member's account
    Margins,    \* what it may earn
    Moves,      \* what a settlement may add to a member's debt
    LimitValues,
    Slack       \* what rounding may add to a revised claim or take from it

VARIABLES
    deals,   \* per transaction: who owes, in which currency, how much, and the statuses
    debt,    \* what each member owes in each currency
    profit,  \* fees earned in each currency
    limit    \* how much a member may owe when a transaction is accepted

vars == <<deals, debt, profit, limit>>

NoDeal == [approval |-> "absent"]

Deal(m, c) ==
    [by |-> m, currency |-> c, owed |-> 0, margin |-> 0, doubt |-> 0, collected |-> 0,
     approval |-> "pending", payment |-> "unpaid", delivery |-> "not_delivered"]

Standing(t) == deals[t].approval = "accepted"
InHand(t)   == Standing(t) /\ deals[t].delivery = "not_delivered"

Holder(t) == <<deals[t].by, deals[t].currency>>

Init ==
    /\ deals = [t \in Txns |-> NoDeal]
    /\ debt = [mc \in Members \X Currencies |-> 0]
    /\ profit = [c \in Currencies |-> 0]
    /\ limit = [mc \in Members \X Currencies |-> 0]

Create(t) ==
    /\ deals[t] = NoDeal
    /\ \E m \in Members, c \in Currencies : deals' = [deals EXCEPT ![t] = Deal(m, c)]
    /\ UNCHANGED <<debt, profit, limit>>

(* The claim replaces the one the transaction carried before (nothing when *)
(* it is pending), and the member's new debt is within the limit.          *)
Charge(t, owed, margin, doubt) ==
    /\ deals' = [deals EXCEPT ![t].approval = "accepted", ![t].owed = owed,
                              ![t].margin = margin, ![t].doubt = doubt]
    /\ debt' = [debt EXCEPT ![Holder(t)] = @ - deals[t].owed + owed]
    /\ debt'[Holder(t)] <= limit[Holder(t)]
    /\ profit' = [profit EXCEPT ![deals[t].currency] = @ - deals[t].margin + margin]
    /\ UNCHANGED limit

Accept(t) ==
    /\ deals[t].approval = "pending"
    /\ \E owed \in Claims, margin \in Margins : Charge(t, owed, margin, 0)

Revise(t) ==
    /\ InHand(t)
    /\ deals[t].payment = "unpaid"
    /\ \E owed \in Claims, margin \in Margins : Charge(t, owed, margin, Slack)

Reject(t) ==
    /\ deals[t].approval = "pending"
    /\ deals' = [deals EXCEPT ![t].approval = "cancelled"]
    /\ UNCHANGED <<debt, profit, limit>>

(* The claim is collected once, and exactly unless it was revised.         *)
Pay(t) ==
    /\ Standing(t)
    /\ deals[t].payment = "unpaid"
    /\ \E x \in Claims :
          /\ x - deals[t].owed <= deals[t].doubt /\ deals[t].owed - x <= deals[t].doubt
          /\ deals' = [deals EXCEPT ![t].payment = "paid", ![t].collected = x]
          /\ debt' = [debt EXCEPT ![Holder(t)] = @ - x]
    /\ UNCHANGED <<profit, limit>>

Deliver(t) ==
    /\ InHand(t)
    /\ deals' = [deals EXCEPT ![t].delivery = "delivered"]
    /\ UNCHANGED <<debt, profit, limit>>

Reverse(t) ==
    /\ InHand(t)
    /\ deals' = [deals EXCEPT ![t].approval = "reversed", ![t].payment = "unpaid",
                              ![t].owed = 0, ![t].margin = 0,
                              ![t].doubt = 0, ![t].collected = 0]
    /\ debt' = [debt EXCEPT ![Holder(t)] = @ - deals[t].owed + deals[t].collected]
    /\ profit' = [profit EXCEPT ![deals[t].currency] = @ - deals[t].margin]
    /\ UNCHANGED limit

Settle ==
    /\ UNCHANGED <<deals, profit, limit>>
    /\ \E mc \in Members \X Currencies, x \in Moves : debt' = [debt EXCEPT ![mc] = @ + x]

SetLimit ==
    /\ \E mc \in Members \X Currencies, x \in LimitValues : limit' = [limit EXCEPT ![mc] = x]
    /\ UNCHANGED <<deals, debt, profit>>

Next ==
    \/ \E t \in Txns : \/ Create(t) \/ Accept(t) \/ Revise(t) \/ Reject(t)
                      \/ Pay(t) \/ Deliver(t) \/ Reverse(t)
    \/ Settle
    \/ SetLimit

Spec == Init /\ [][Next]_vars

=============================================================================
