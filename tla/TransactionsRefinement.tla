----------------------- MODULE TransactionsRefinement -----------------------
(***************************************************************************)
(* Transactions implements OfficeBooks: the record of a transaction is its *)
(* row, what a member owes is the balance of the member's ledger account,  *)
(* what the office earned is the balance of its fee account (an income     *)
(* account, shown with the sign changed).  The credit check and the steps  *)
(* of a request that write nothing are stuttering steps.                   *)
(***************************************************************************)
EXTENDS Transactions

CONSTANTS Claims, Margins, Moves

(* The claim and the margin are what the standing approval entry put on    *)
(* the two accounts, not what the columns of the row add up to.            *)
PostedOn(e, a) == Net(journal[e].lines, a)

DealOf(t, row) ==
    LET standing == row.approval = "accepted"
        profit   == TenantAccount("fees_profit", row.currency_received)
    IN
    [by |-> row.by, currency |-> row.currency_received,
     owed |-> IF standing THEN PostedOn(row.approval_entry, MemberAccount(row)) ELSE 0,
     margin |-> IF standing THEN -PostedOn(row.approval_entry, profit) ELSE 0,
     doubt |-> IF standing /\ Edited(t) THEN Slack ELSE 0,
     collected |-> IF standing /\ row.payment = "paid"
                   THEN -PostedOn(row.payment_entry, MemberAccount(row)) ELSE 0,
     approval |-> row.approval, payment |-> row.payment, delivery |-> row.delivery]

Books == INSTANCE OfficeBooks WITH
    deals  <- [t \in Txns |-> IF Created(t) THEN DealOf(t, txns[t]) ELSE NoRow],
    debt   <- [mc \in Members \X Currencies |-> Balance(journal, SmallOffice(mc[1], mc[2]))],
    profit <- [c \in Currencies |-> -Balance(journal, TenantAccount("fees_profit", c))],
    limit  <- limits

(* Every handler is one step of the books: the status of a transaction,    *)
(* the debt of its member and the profit of the office change together and *)
(* from their current values, and no acceptance or edit leaves a member    *)
(* above the limit.  A transaction never edited is collected to the Unit.  *)
ImplementsOfficeBooks == Books!Spec

=============================================================================
