---------------------------- MODULE Transactions ----------------------------
(***************************************************************************)
(* The remittance handlers of backend/apps/transactions and the settlement *)
(* handlers of backend/apps/boxes, run by concurrent request workers.      *)
(*                                                                         *)
(* A view first SELECTs the transaction row (autocommit, no lock) and only *)
(* then calls the service, whose guards read that in-memory copy and whose *)
(* writes happen in one database transaction at READ COMMITTED.  A worker  *)
(* therefore takes two steps (Begin, then the commit), and approve and     *)
(* edit a third one between them, the credit check, which reads the        *)
(* member's balance before the entry is written.                           *)
(***************************************************************************)
EXTENDS Ledger

CONSTANTS
    Workers,        \* request threads of the server
    Ops,            \* the endpoints clients call
    Drafts,         \* transfers that members ask for
    Quotes,         \* what the big office may enter when it approves
    Edits,          \* what it may enter when it edits an accepted transaction
    Keep,           \* a field that an edit request leaves out
    NoBox,          \* the box column of a transaction not approved yet
    BoxCurrencies,  \* the currencies of each box
    SettleAmounts,  \* amounts of deposits, withdrawals, payments, adjustments
    LimitValues,    \* values the big office gives to credit limits
    RateScale,      \* the rate 1, in units of a rate
    MaxEntries      \* bound on the journal

TxnOps    == {"approve", "reject", "pay", "deliver", "reverse", "edit"}
SettleOps == {"deposit", "withdraw", "payment", "adjust", "reverse_entry", "set_limit"}

Draft == [by : Members, amount : Int,
          currency_received : Currencies, currency_delivered : Currencies]

Quote == [box : Boxes, fee_cost : Int, fee_charged : Int,
          exchange_rate : Int, amount_delivered : Int]

Edit == [amount : Int \cup {Keep}, box : Boxes \cup {Keep}, fee_cost : Int \cup {Keep},
         fee_charged : Int \cup {Keep}, exchange_rate : Int \cup {Keep}]

(* The serializers of the requests for a transfer, an approval and a limit *)
(* refuse more decimals than a column has; edit and adjust have none.      *)
ASSUME InputAssumption ==
    /\ Ops \subseteq TxnOps \cup SettleOps
    /\ Drafts \subseteq Draft
    /\ \A d \in Drafts : IsAmount(d.amount)
    /\ Quotes \subseteq Quote
    /\ \A q \in Quotes : /\ IsAmount(q.fee_cost) /\ IsAmount(q.fee_charged)
                         /\ IsAmount(q.exchange_rate) /\ IsAmount(q.amount_delivered)
    /\ Edits \subseteq Edit
    /\ SettleAmounts \subseteq Int
    /\ LimitValues \subseteq Int
    /\ \A x \in LimitValues : IsAmount(x)

ASSUME ConfigurationAssumption ==
    /\ BoxCurrencies \in [Boxes -> SUBSET Currencies]
    /\ RateScale \in Nat \ {0}
    /\ MaxEntries \in Nat
    /\ NoBox \notin Boxes
    /\ Keep \notin Boxes \cup Int

VARIABLES
    journal,  \* the journal entries, in the order they committed
    txns,     \* the transaction rows
    limits,   \* CreditLimit rows; a missing row is the limit 0
    workers   \* what each request thread is doing

vars == <<journal, txns, limits, workers>>

(***************************************************************************)
(* Transaction rows.  NULL is 0 in a money column; a rate that is NULL is  *)
(* NoRate, since a rate may have been rounded to 0.                        *)
(***************************************************************************)
NoRate == -1

Row == [by : Members, amount : Int,
        currency_received : Currencies, currency_delivered : Currencies,
        exchange_rate : Int, amount_delivered : Int, fee_cost : Int, fee_charged : Int,
        box : Boxes \cup {NoBox},
        approval : {"pending", "accepted", "cancelled", "reversed"},
        payment : {"unpaid", "paid"},
        delivery : {"not_delivered", "delivered"},
        approval_entry : Nat, payment_entry : Nat]

NoRow == [approval |-> "absent"]

Created(t) == txns[t] # NoRow

IsDual(row) == row.currency_received # row.currency_delivered

MemberAccount(row) == SmallOffice(row.by, row.currency_received)

(***************************************************************************)
(* Workers.  copy is the row object the view loaded; undo is the approval  *)
(* entry an edit has reversed in its own, uncommitted, transaction.        *)
(***************************************************************************)
Idle == [pc |-> "idle"]

Busy == [pc : {"loaded", "checked"}, op : TxnOps, txn : Txns, copy : Row, undo : Nat]

IsIdle(w)       == workers[w].pc = "idle"
AtStep(w, pc, op) == workers[w].pc = pc /\ workers[w].op = op

(* An edit past its credit check has inserted the mirror of undo and has   *)
(* updated the row: until it commits or rolls back, the database makes     *)
(* every other writer of that row, or of a reversal of undo, wait.         *)
Editing(v) == AtStep(v, "checked", "edit")

RowFree(w, t) == \A v \in Workers \ {w} : ~(Editing(v) /\ workers[v].txn = t)
EntryFree(e)  == \A v \in Workers : ~(Editing(v) /\ workers[v].undo = e)

Init ==
    /\ journal = << >>
    /\ txns = [t \in Txns |-> NoRow]
    /\ limits = [mc \in Members \X Currencies |-> 0]
    /\ workers = [w \in Workers |-> Idle]

(***************************************************************************)
(* Writing.  Post appends the entries a database transaction inserts, with *)
(* the lines the columns keep; post_entry has checked the lines it was     *)
(* given.  Room bounds the journal.                                        *)
(***************************************************************************)
Room(n) == Len(journal) + n <= MaxEntries

Post(entries) ==
    /\ Room(Len(entries))
    /\ \A i \in DOMAIN entries : Storable(entries[i].lines)
    /\ journal' = journal \o entries

Reversible(e) ==
    /\ ~Reversed(journal, e)
    /\ EntryFree(e)
    /\ Postable(MirrorLines(journal[e].lines))

Answer(w) == workers' = [workers EXCEPT ![w] = Idle]

(***************************************************************************)
(* create_transaction.  The package limit and the choice of the reference  *)
(* code are not part of this module.                                       *)
(***************************************************************************)
NewRow(d) ==
    [by |-> d.by, amount |-> d.amount,
     currency_received |-> d.currency_received, currency_delivered |-> d.currency_delivered,
     exchange_rate |-> NoRate, amount_delivered |-> 0, fee_cost |-> 0, fee_charged |-> 0,
     box |-> NoBox, approval |-> "pending", payment |-> "unpaid",
     delivery |-> "not_delivered", approval_entry |-> NoEntry, payment_entry |-> NoEntry]

Create(w, t, d) ==
    /\ IsIdle(w)
    /\ ~Created(t)
    /\ d.amount > 0
    /\ txns' = [txns EXCEPT ![t] = NewRow(d)]
    /\ UNCHANGED <<journal, limits, workers>>

(***************************************************************************)
(* The view loads the row; the service's guards on that copy follow at     *)
(* once.  A row they refuse is answered 400 and nothing changes.           *)
(***************************************************************************)
CanApprove(row) == row.approval = "pending"
CanReject(row)  == row.approval = "pending"
(* (Bugs: delivery without looking at the approval, payment of a paid row, *)
(* reversal of a delivered one, edit of a paid one.)                       *)
CanDeliverUnapproved(row) == row.approval # "reversed" /\ row.delivery # "delivered"
CanPayAgain(row)          == row.approval = "accepted"
CanReverseDelivered(row)  == row.approval = "accepted"
CanEditPaid(row)          == row.approval = "accepted" /\ row.delivery # "delivered"

CanPay(row)     == row.approval = "accepted" /\ row.payment # "paid"
CanDeliver(row) == row.approval = "accepted" /\ row.delivery # "delivered"
CanReverse(row) == row.approval = "accepted" /\ row.delivery # "delivered"
CanEdit(row)    == /\ row.approval = "accepted"
                   /\ row.delivery # "delivered"
                   /\ row.payment_entry = NoEntry

Admits(op, row) ==
    \/ op = "approve" /\ CanApprove(row)
    \/ op = "reject"  /\ CanReject(row)
    \/ op = "pay"     /\ CanPay(row)
    \/ op = "deliver" /\ CanDeliver(row)
    \/ op = "reverse" /\ CanReverse(row)
    \/ op = "edit"    /\ CanEdit(row)

Begin(w, op, t) ==
    /\ IsIdle(w)
    /\ op \in Ops
    /\ Created(t)
    /\ Admits(op, txns[t])
    /\ workers' = [workers EXCEPT ![w] =
                     [pc |-> "loaded", op |-> op, txn |-> t, copy |-> txns[t], undo |-> NoEntry]]
    /\ UNCHANGED <<journal, txns, limits>>

(* A worker's database transaction is rolled back: a later check refused   *)
(* (400), a unique index did (500), or the process died.                   *)
Fail(w) ==
    /\ ~IsIdle(w)
    /\ Answer(w)
    /\ UNCHANGED <<journal, txns, limits>>

(***************************************************************************)
(* approve_transaction: quote -> credit check -> post, in that order.      *)
(***************************************************************************)
HalfEven(n, d) ==
    LET q == n \div d
        r == n % d
    IN  IF 2 * r > d \/ (2 * r = d /\ q % 2 = 1) THEN q + 1 ELSE q

(* The only figure the service itself rounds (quantize).                   *)
Converted(amount, rate) == Unit * HalfEven(amount * rate, RateScale * Unit)

Quotable(row, q) ==
    /\ q.fee_cost >= 0
    /\ q.fee_charged >= 0
    /\ IsDual(row) => q.exchange_rate > 0

Quoted(row, q) ==
    [row EXCEPT
        !.box = q.box, !.fee_cost = q.fee_cost, !.fee_charged = q.fee_charged,
        !.exchange_rate = IF IsDual(row) THEN q.exchange_rate ELSE NoRate,
        !.amount_delivered =
            IF ~IsDual(row) THEN row.amount
            ELSE IF q.amount_delivered # 0 THEN q.amount_delivered
            ELSE Converted(row.amount, q.exchange_rate)]

Owed(row)    == row.amount + row.fee_charged
OutCost(row) == row.amount + row.fee_cost
Margin(row)  == row.fee_charged - row.fee_cost

(* check_credit_limit, on the journal the worker can see.                  *)
(* (Bug: the fee charged is left out of what the member would owe.)        *)
CreditAllowsAmount(seen, row) ==
    Balance(seen, MemberAccount(row)) + row.amount <= limits[row.by, row.currency_received]

CreditAllows(seen, row) ==
    Balance(seen, MemberAccount(row)) + Owed(row) <= limits[row.by, row.currency_received]

(* _approval_lines: one currency moves member, box and profit; two         *)
(* currencies are tied by a clearing account in each of them.              *)
ApprovalLines(row) ==
    LET member == Debit(MemberAccount(row), Owed(row))
        profit == Credit(TenantAccount("fees_profit", row.currency_received), Margin(row))
        box(x) == Credit(BoxAccount(row.box, row.currency_delivered), x)
        fx(c)  == TenantAccount("fx_clearing", c)
    IN  IF ~IsDual(row)
        THEN <<member, box(OutCost(row)), profit>>
        ELSE <<member, Credit(fx(row.currency_received), OutCost(row)), profit,
               Debit(fx(row.currency_delivered), row.amount_delivered),
               box(row.amount_delivered)>>

ApprovalEntry(t, row) == Posting("transaction", t, ApprovalLines(row))

BoxTakes(row) == row.currency_delivered \in BoxCurrencies[row.box]

(* What the columns of the row keep of the figures it was approved with.   *)
Columns(row) ==
    [row EXCEPT !.amount = Stored(@), !.fee_cost = Stored(@), !.fee_charged = Stored(@),
                !.amount_delivered = Stored(@),
                !.exchange_rate = IF IsDual(row) THEN Stored(@) ELSE NoRate]

(* (Bug: the status is saved without the link to the entry.)               *)
AcceptedUnlinked(row, e) == [Columns(row) EXCEPT !.approval = "accepted"]

Accepted(row, e) == [Columns(row) EXCEPT !.approval = "accepted", !.approval_entry = e]

CheckApproval(w, q) ==
    LET new == Quoted(workers[w].copy, q) IN
    /\ AtStep(w, "loaded", "approve")
    /\ Quotable(workers[w].copy, q)
    /\ CreditAllows(journal, new)
    /\ workers' = [workers EXCEPT ![w].pc = "checked", ![w].copy = new]
    /\ UNCHANGED <<journal, txns, limits>>

CommitApproval(w) ==
    LET t == workers[w].txn  row == workers[w].copy IN
    /\ AtStep(w, "checked", "approve")
    /\ RowFree(w, t)
    /\ BoxTakes(row)
    /\ Postable(ApprovalLines(row))
    /\ Post(<<ApprovalEntry(t, row)>>)
    /\ txns' = [txns EXCEPT ![t] = Accepted(row, Len(journal) + 1)]
    /\ Answer(w)
    /\ UNCHANGED limits

(***************************************************************************)
(* reject_transaction and mark_delivered write one column and no entry.    *)
(***************************************************************************)
Reject(w) ==
    LET t == workers[w].txn IN
    /\ AtStep(w, "loaded", "reject")
    /\ RowFree(w, t)
    /\ txns' = [txns EXCEPT ![t].approval = "cancelled"]
    /\ Answer(w)
    /\ UNCHANGED <<journal, limits>>

Deliver(w) ==
    LET t == workers[w].txn IN
    /\ AtStep(w, "loaded", "deliver")
    /\ RowFree(w, t)
    /\ txns' = [txns EXCEPT ![t].delivery = "delivered"]
    /\ Answer(w)
    /\ UNCHANGED <<journal, limits>>

(***************************************************************************)
(* mark_paid: cash enters the shop and the member's debt is cleared; only  *)
(* the two payment columns are written.                                    *)
(***************************************************************************)
(* (Bug: the member is credited with the cost of the transfer.)            *)
PaymentLinesAtCost(row) ==
    <<Debit(TenantAccount("shop_cash", row.currency_received), OutCost(row)),
      Credit(MemberAccount(row), OutCost(row))>>

PaymentLines(row) ==
    <<Debit(TenantAccount("shop_cash", row.currency_received), Owed(row)),
      Credit(MemberAccount(row), Owed(row))>>

Pay(w) ==
    LET t == workers[w].txn IN
    /\ AtStep(w, "loaded", "pay")
    /\ RowFree(w, t)
    /\ Postable(PaymentLines(workers[w].copy))
    /\ Post(<<Posting("settlement", t, PaymentLines(workers[w].copy))>>)
    /\ txns' = [txns EXCEPT ![t].payment = "paid", ![t].payment_entry = Len(journal) + 1]
    /\ Answer(w)
    /\ UNCHANGED limits

(***************************************************************************)
(* reverse_transaction: the payment, if there is one, then the approval;   *)
(* every column of the in-memory copy is saved.                            *)
(***************************************************************************)
Undone(row) ==
    [row EXCEPT !.approval = "reversed",
                !.payment = IF row.payment_entry # NoEntry THEN "unpaid" ELSE row.payment]

(* (Bugs: a paid transaction loses only its payment, or keeps it.)         *)
EntriesToUndoEither(row) ==
    IF row.payment_entry # NoEntry THEN <<row.payment_entry>> ELSE <<row.approval_entry>>
EntriesToUndoNoPayment(row) == <<row.approval_entry>>

EntriesToUndo(row) ==
    IF row.payment_entry # NoEntry
    THEN <<row.payment_entry, row.approval_entry>>
    ELSE <<row.approval_entry>>

Reverse(w) ==
    LET t == workers[w].txn  row == workers[w].copy  undo == EntriesToUndo(row) IN
    /\ AtStep(w, "loaded", "reverse")
    /\ RowFree(w, t)
    /\ \A i \in DOMAIN undo : Reversible(undo[i])
    /\ Post([i \in DOMAIN undo |-> Mirror(journal, undo[i])])
    /\ txns' = [txns EXCEPT ![t] = Undone(row)]
    /\ Answer(w)
    /\ UNCHANGED limits

(***************************************************************************)
(* edit_accepted_transaction: reverse the approval entry, change the copy, *)
(* approve it again (the delivered amount is always recomputed), all in    *)
(* one database transaction, whose own credit check sees the reversal.     *)
(* The view takes Decimal(str(value)): the copy holds any figure, and the  *)
(* row and each line of the entry are rounded apart from one another.      *)
(***************************************************************************)
Entered(edit, old) == IF edit = Keep THEN old ELSE edit

Reopened(row, edit) ==
    [row EXCEPT !.amount = Entered(edit.amount, row.amount),
                !.approval = "pending", !.approval_entry = NoEntry]

(* (Bug: an edit that names no box clears it.)                             *)
EditQuoteNoDefault(row, edit) ==
    [box |-> edit.box,
     fee_cost |-> Entered(edit.fee_cost, row.fee_cost),
     fee_charged |-> Entered(edit.fee_charged, row.fee_charged),
     exchange_rate |-> Entered(edit.exchange_rate, row.exchange_rate),
     amount_delivered |-> 0]

EditQuote(row, edit) ==
    [box |-> Entered(edit.box, row.box),
     fee_cost |-> Entered(edit.fee_cost, row.fee_cost),
     fee_charged |-> Entered(edit.fee_charged, row.fee_charged),
     exchange_rate |-> Entered(edit.exchange_rate, row.exchange_rate),
     amount_delivered |-> 0]

CheckEdit(w, edit) ==
    LET row == workers[w].copy
        q   == EditQuote(row, edit)
        new == Quoted(Reopened(row, edit), q)
        old == row.approval_entry
    IN
    /\ AtStep(w, "loaded", "edit")
    /\ RowFree(w, workers[w].txn)
    /\ Reversible(old)
    /\ Quotable(row, q)
    /\ CreditAllows(Append(journal, Mirror(journal, old)), new)
    /\ workers' = [workers EXCEPT ![w].pc = "checked", ![w].copy = new, ![w].undo = old]
    /\ UNCHANGED <<journal, txns, limits>>

CommitEdit(w) ==
    LET t == workers[w].txn  row == workers[w].copy  old == workers[w].undo IN
    /\ AtStep(w, "checked", "edit")
    /\ ~Reversed(journal, old)
    /\ BoxTakes(row)
    /\ Postable(ApprovalLines(row))
    /\ Post(<<Mirror(journal, old), ApprovalEntry(t, row)>>)
    /\ txns' = [txns EXCEPT ![t] = Accepted(row, Len(journal) + 2)]
    /\ Answer(w)
    /\ UNCHANGED limits

(***************************************************************************)
(* Handlers that read no transaction row: each is one database transaction *)
(* whose outcome depends on its arguments only, or on a unique index.      *)
(***************************************************************************)
Settle(w, op, lines) ==
    /\ IsIdle(w)
    /\ op \in Ops
    /\ Postable(lines)
    /\ Post(<<Posting("settlement", NoRef, lines)>>)
    /\ UNCHANGED <<txns, limits, workers>>

Deposit(w, m, b, c, x) ==
    /\ x > 0 /\ IsAmount(x)
    /\ c \in BoxCurrencies[b]
    /\ Settle(w, "deposit", <<Debit(BoxAccount(b, c), x), Credit(SmallOffice(m, c), x)>>)

Withdraw(w, m, b, c, x) ==
    /\ x > 0 /\ IsAmount(x)
    /\ c \in BoxCurrencies[b]
    /\ Settle(w, "withdraw", <<Debit(SmallOffice(m, c), x), Credit(BoxAccount(b, c), x)>>)

MemberPayment(w, m, c, x) ==
    /\ x > 0 /\ IsAmount(x)
    /\ Settle(w, "payment",
              <<Debit(TenantAccount("shop_cash", c), x), Credit(SmallOffice(m, c), x)>>)

AdjustBox(w, b, c, x, direction) ==
    LET box == BoxAccount(b, c)  adj == TenantAccount("adjustment", c) IN
    /\ x > 0
    /\ c \in BoxCurrencies[b]
    /\ Settle(w, "adjust", IF direction = "in" THEN <<Debit(box, x), Credit(adj, x)>>
                                              ELSE <<Debit(adj, x), Credit(box, x)>>)

(* ReverseEntryView: any entry of the office, whatever it belongs to.      *)
ReverseEntry(w, e) ==
    /\ IsIdle(w)
    /\ "reverse_entry" \in Ops
    /\ Reversible(e)
    /\ Post(<<Mirror(journal, e)>>)
    /\ UNCHANGED <<txns, limits, workers>>

(* A POST inserts the row of (member, currency), a PATCH changes it; one   *)
(* that moves it to another pair is two steps here (0 for the pair left).  *)
SetLimit(w, m, c, x) ==
    /\ IsIdle(w)
    /\ "set_limit" \in Ops
    /\ limits' = [limits EXCEPT ![<<m, c>>] = x]
    /\ UNCHANGED <<journal, txns, workers>>

TxnStep(w) ==
    \/ \E t \in Txns, d \in Drafts : Create(w, t, d)
    \/ \E op \in TxnOps, t \in Txns : Begin(w, op, t)
    \/ \E q \in Quotes : CheckApproval(w, q)
    \/ CommitApproval(w)
    \/ Reject(w)
    \/ Pay(w)
    \/ Deliver(w)
    \/ Reverse(w)
    \/ \E edit \in Edits : CheckEdit(w, edit)
    \/ CommitEdit(w)
    \/ Fail(w)

SettleStep(w) ==
    \/ \E m \in Members, b \in Boxes, c \in Currencies, x \in SettleAmounts :
          Deposit(w, m, b, c, x) \/ Withdraw(w, m, b, c, x)
    \/ \E m \in Members, c \in Currencies, x \in SettleAmounts : MemberPayment(w, m, c, x)
    \/ \E b \in Boxes, c \in Currencies, x \in SettleAmounts, direction \in {"in", "out"} :
          AdjustBox(w, b, c, x, direction)
    \/ \E e \in DOMAIN journal : ReverseEntry(w, e)
    \/ \E m \in Members, c \in Currencies, x \in LimitValues : SetLimit(w, m, c, x)

Next == \E w \in Workers : TxnStep(w) \/ SettleStep(w)

Spec == Init /\ [][Next]_vars

(***************************************************************************)
(*                              Properties                                 *)
(***************************************************************************)

(* Every variable has the shape the database schema and the workers give   *)
(* it.                                                                     *)
TypeOK ==
    /\ journal \in Seq(Entry)
    /\ txns \in [Txns -> Row \cup {NoRow}]
    /\ limits \in [Members \X Currencies -> Int]
    /\ workers \in [Workers -> {Idle} \cup Busy]

(*------------------- whatever requests overlap ---------------------------*)

(* An entry is mirrored at most once, by a later entry that takes back     *)
(* exactly its effect on every account, however many reversals, edits and  *)
(* manual reversals race for it (reverse_entry and the one-to-one column). *)
ReversalsCancel ==
    \A r \in DOMAIN journal :
       LET e == journal[r].reverses IN
       e # NoEntry =>
          /\ e < r
          /\ journal[r].type = "reversal"
          /\ journal[r].lines = MirrorLines(journal[e].lines)
          /\ \A s \in DOMAIN journal : journal[s].reverses = e => s = r

(* A row names entries that were posted for it: an accepted or reversed    *)
(* row has an approval entry, a paid one a payment entry, and no two rows  *)
(* share one, even when full and partial saves of stale copies cross.      *)
NamesPosted(history, t, row) ==
    /\ row.approval \in {"accepted", "reversed"} => row.approval_entry # NoEntry
    /\ row.payment = "paid" => row.payment_entry # NoEntry
    /\ row.approval_entry # NoEntry =>
          /\ row.approval_entry \in DOMAIN history
          /\ history[row.approval_entry].type = "transaction"
          /\ history[row.approval_entry].ref = t
    /\ row.payment_entry # NoEntry =>
          /\ row.payment_entry \in DOMAIN history
          /\ history[row.payment_entry].type = "settlement"
          /\ history[row.payment_entry].ref = t

RowsNameTheirEntries == \A t \in Txns : Created(t) => NamesPosted(journal, t, txns[t])

(* A row marked reversed has had the approval entry it names mirrored,     *)
(* whichever reversals, edits and approvals saved the row meanwhile.  It   *)
(* says nothing of the other entries of the transaction: a payment         *)
(* committed after the reversal loaded the row, the entry of a second      *)
(* approval, or a manual mirror of the mirror may still stand.             *)
ReversedIsUndone ==
    \A t \in Txns :
       Created(t) /\ txns[t].approval = "reversed" =>
          Reversed(journal, txns[t].approval_entry)

(* Delivery is recorded only for a transaction that was posted to the      *)
(* ledger at some time.                                                    *)
DeliveredWasPosted ==
    \A t \in Txns :
       Created(t) /\ txns[t].delivery = "delivered" => txns[t].approval_entry # NoEntry

(* History only grows: no committed entry changes or goes away, a row      *)
(* never loses its owner or its currencies, never returns to pending and   *)
(* never forgets that it was posted.  A payment it names is taken off only *)
(* together with the money, by a reversal that mirrors the payment entry,  *)
(* or by a request whose copy was loaded before that payment.              *)
RowMovesForward(row, next) ==
    /\ next.by = row.by
    /\ next.currency_received = row.currency_received
    /\ next.currency_delivered = row.currency_delivered
    /\ row.approval # "pending" => next.approval # "pending"
    /\ row.approval_entry # NoEntry => next.approval_entry # NoEntry

LoadedBefore(t, payment_entry) ==
    \E w \in Workers :
       ~IsIdle(w) /\ workers[w].txn = t /\ workers[w].copy.payment_entry # payment_entry

PaymentKept(t, row, next) ==
    row.payment = "paid" =>
       \/ next.payment = "paid" /\ next.payment_entry = row.payment_entry
       \/ Reversed(journal', row.payment_entry)
       \/ LoadedBefore(t, row.payment_entry)

HistoryOnlyGrows ==
    [][/\ Len(journal') >= Len(journal)
       /\ \A e \in DOMAIN journal : journal'[e] = journal[e]
       /\ \A t \in Txns :
             Created(t) => /\ RowMovesForward(txns[t], txns'[t])
                           /\ PaymentKept(t, txns[t], txns'[t])]_vars

(*------------------- when requests do not overlap ------------------------*)

(* The ledger follows the status: the approval entries of a transaction    *)
(* that still stand are the one its row names when it is accepted and none *)
(* otherwise; its standing payment entries are the one a paid row names    *)
(* and none otherwise.                                                     *)
Standing(t, type) ==
    {e \in DOMAIN journal :
        journal[e].type = type /\ journal[e].ref = t /\ ~Reversed(journal, e)}

LedgerFollowsStatus ==
    \A t \in Txns :
       Created(t) =>
          /\ Standing(t, "transaction") =
                IF txns[t].approval = "accepted" THEN {txns[t].approval_entry} ELSE {}
          /\ Standing(t, "settlement") =
                IF txns[t].payment = "paid" THEN {txns[t].payment_entry} ELSE {}

(* Every balance is explained by the rows an accountant can see: accepted  *)
(* transactions, paid or not, and direct settlements.  The profit line is  *)
(* the profit report of the office.  An edit may enter more decimals than  *)
(* the columns keep, and then the row and each line of its entry are       *)
(* rounded on their own: each transaction that was edited may put a line   *)
(* of one figure less or more one Unit away from what its columns add up   *)
(* to.  The cash and what passes the second currency are always exact.     *)
SumAccepted(Of(_), Value(_)) ==
    SumFunction([t \in Txns |->
        IF Created(t) /\ txns[t].approval = "accepted" /\ Of(txns[t])
        THEN Value(txns[t]) ELSE 0])

ProfitReport(c) == SumAccepted(LAMBDA row : row.currency_received = c, Margin)

Direct(a) ==
    SumFunction([e \in DOMAIN journal |->
        IF journal[e].type = "settlement" /\ journal[e].ref = NoRef
        THEN Net(journal[e].lines, a) ELSE 0])

(* An edit posts a second approval entry for its transaction.  When there  *)
(* are no figures finer than a column, nothing is ever rounded.            *)
Edited(t) ==
    \E e \in DOMAIN journal :
       journal[e].type = "transaction" /\ journal[e].ref = t /\ e # txns[t].approval_entry

Slack == IF Unit = 1 THEN 0 ELSE Unit

Doubt(Of(_)) ==
    SumFunction([t \in Txns |->
        IF Created(t) /\ txns[t].approval = "accepted" /\ Of(txns[t]) /\ Edited(t)
        THEN Slack ELSE 0])

Within(x, y, doubt) == x - y <= doubt /\ y - x <= doubt

Explains(a, x, doubt) == Within(Balance(journal, a), x + Direct(a), doubt)

BalancesExplained ==
    \A c \in Currencies :
       LET received(row)  == row.currency_received = c
           delivered(row) == row.currency_delivered = c
       IN
       /\ \A m \in Members :
             Explains(SmallOffice(m, c),
                      SumAccepted(LAMBDA row : received(row) /\ row.by = m
                                               /\ row.payment = "unpaid", Owed),
                      Doubt(LAMBDA row : received(row) /\ row.by = m))
       /\ Explains(TenantAccount("shop_cash", c),
                   SumAccepted(LAMBDA row : received(row) /\ row.payment = "paid", Owed), 0)
       /\ Explains(TenantAccount("fees_profit", c), -ProfitReport(c), Doubt(received))
       /\ \A b \in Boxes :
             Explains(BoxAccount(b, c),
                      -SumAccepted(LAMBDA row : delivered(row) /\ row.box = b,
                                   LAMBDA row : IF IsDual(row) THEN row.amount_delivered
                                                ELSE OutCost(row)),
                      Doubt(LAMBDA row : delivered(row) /\ row.box = b /\ ~IsDual(row)))
       /\ Explains(TenantAccount("fx_clearing", c),
                   SumAccepted(LAMBDA row : IsDual(row) /\ delivered(row),
                               LAMBDA row : row.amount_delivered)
                   - SumAccepted(LAMBDA row : IsDual(row) /\ received(row), OutCost),
                   Doubt(LAMBDA row : IsDual(row) /\ received(row)))

(* Once delivered, a transaction stays delivered and keeps its approval,   *)
(* its approval entry and every figure: nothing but its payment may change.*)
DeliveryIsFinal ==
    [][\A t \in Txns :
          Created(t) /\ txns[t].delivery = "delivered" =>
             txns'[t] = [txns[t] EXCEPT !.payment = txns'[t].payment,
                                        !.payment_entry = txns'[t].payment_entry]]_vars

(*------------------- promises that overlapping requests break ------------*)

(* A transaction is collected once: at most one payment entry of it stands *)
(* (mark_paid refuses a row already paid, tests.py test_cannot_pay_twice). *)
PaidOnce ==
    \A t \in Txns : \A e, f \in Standing(t, "settlement") : e = f

(* An approval or an edit never leaves the member owing more than the      *)
(* limit: this is what check_credit_limit is called for.                   *)
CreditLimitRespected ==
    [][\A e \in DOMAIN journal' \ DOMAIN journal :
          journal'[e].type = "transaction" =>
             LET row == txns'[journal'[e].ref] IN
             Balance(journal', MemberAccount(row))
                <= limits[row.by, row.currency_received]]_vars

(* Reversing an entry is the office's replacement for deleting: the        *)
(* transaction it belongs to is marked reversed (docs/02 section 4-f), so  *)
(* an accepted transaction has a standing approval entry.                  *)
AcceptedStands ==
    \A t \in Txns :
       Created(t) /\ txns[t].approval = "accepted" =>
          ~Reversed(journal, txns[t].approval_entry)

=============================================================================
