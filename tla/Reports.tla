------------------------------ MODULE Reports -------------------------------
(***************************************************************************)
(* The reports of backend/apps/reports, as functions of the journal and of *)
(* the rows that Transactions writes.  They cover the whole history: the   *)
(* date filters, the names and the cuts of long lists are left out, and so *)
(* is the report by destination, a column the rows of the model lack.      *)
(* users are the members a report is about: one small office for its own   *)
(* page, all of them for the big office.                                   *)
(***************************************************************************)
EXTENDS Transactions, FiniteSets

_txns(users) == {t \in Txns : Created(t) /\ txns[t].by \in users}

(* (Bug: a transaction counts from its creation, approved or not.)         *)
_accepted_any(users) == {t \in _txns(users) : txns[t].approval # "cancelled"}

_accepted(users) == {t \in _txns(users) : txns[t].approval = "accepted"}

Received(T, c) == {t \in T : txns[t].currency_received = c}

Total(T, field) == SumFunction([t \in T |-> txns[t][field]])

-----------------------------------------------------------------------------

(* What the members owe the office and what it owes them, by currency.     *)
summary_by_currency(users, c) ==
    LET bal(m) == Balance(journal, SmallOffice(m, c))
    IN  [owed |-> SumFunction([m \in {u \in users : bal(u) > 0} |-> bal(m)]),
         due  |-> SumFunction([m \in {u \in users : bal(u) < 0} |-> -bal(m)])]

profits(users, c) ==
    LET T == Received(_accepted(users), c)
    IN  [count |-> Cardinality(T), fee_charged |-> Total(T, "fee_charged"),
         fee_cost |-> Total(T, "fee_cost"),
         profit |-> Total(T, "fee_charged") - Total(T, "fee_cost")]

profits_by_member(m, c) == [count |-> profits({m}, c).count, profit |-> profits({m}, c).profit]

activity(users, c) ==
    LET T == Received(_accepted(users), c)
    IN  [count |-> Cardinality(T), total |-> Total(T, "amount")]

(* The sums of this report and of top_members run across the currencies.   *)
member_summary(m) ==
    LET T == _accepted({m})
    IN  [count |-> Cardinality(T), total |-> Total(T, "amount"), fees |-> Total(T, "fee_charged"),
         balances |-> [c \in Currencies |-> Balance(journal, SmallOffice(m, c))]]

box_summary(b, c) ==
    LET T == {t \in _accepted(Members) : txns[t].box = b /\ txns[t].currency_delivered = c}
    IN  [count |-> Cardinality(T), total |-> Total(T, "amount_delivered"),
         balance |-> Balance(journal, BoxAccount(b, c))]

AllLines(a, side) ==
    SumFunction([e \in DOMAIN journal |->
        SumFunction([i \in DOMAIN journal[e].lines |->
            IF journal[e].lines[i].account = a THEN journal[e].lines[i][side] ELSE 0])])

shop_cash_movement(c) ==
    LET shop == TenantAccount("shop_cash", c)
    IN  [in |-> AllLines(shop, "debit"), out |-> AllLines(shop, "credit"),
         balance |-> Balance(journal, shop)]

by_status(users, column, value) == Cardinality({t \in _txns(users) : txns[t][column] = value})

(* Settlement entries that touch an account of one of the users; a         *)
(* reversed settlement is still listed, its reversal is not.               *)
settlements(users) ==
    {e \in DOMAIN journal :
        /\ journal[e].type = "settlement"
        /\ \/ users = Members
           \/ \E i \in DOMAIN journal[e].lines : \E m \in users, c \in Currencies :
                 journal[e].lines[i].account = SmallOffice(m, c)}

exchange_rates(users, c, d) ==
    LET T == {t \in Received(_accepted(users), c) :
                txns[t].currency_delivered = d /\ txns[t].exchange_rate # NoRate}
        rates == {txns[t].exchange_rate : t \in T}
    IN  [count |-> Cardinality(T), sum |-> Total(T, "exchange_rate"),
         lo |-> {r \in rates : \A x \in rates : r <= x},
         hi |-> {r \in rates : \A x \in rates : r >= x}]

top_members(m) == [count |-> member_summary(m).count, total |-> member_summary(m).total]

daily_close(c) ==
    [activity |-> activity(Members, c), profit |-> profits(Members, c).profit,
     cash |-> shop_cash_movement(c).in - shop_cash_movement(c).out,
     balance |-> shop_cash_movement(c).balance]

-----------------------------------------------------------------------------
(* Properties, for requests that do not overlap.                           *)

(* What has been approved is still owed by a member or has been paid into  *)
(* the shop: activity and fees on one side, the members' balances and the  *)
(* cash on the other, direct settlements apart, and but for the rounding   *)
(* of what was edited.                                                     *)
DirectMembers(c) == SumFunction([m \in Members |-> Direct(SmallOffice(m, c))])

ApprovedIsOwedOrPaid ==
    \A c \in Currencies :
        Within(activity(Members, c).total + profits(Members, c).fee_charged,
               summary_by_currency(Members, c).owed - summary_by_currency(Members, c).due
                 - DirectMembers(c)
                 + daily_close(c).cash - Direct(TenantAccount("shop_cash", c)),
               Doubt(LAMBDA row : row.currency_received = c))

(* What a box has passed on, and the cost of fees it kept for transfers in *)
(* one currency, is what its balance has lost, but for the same rounding.  *)
BoxesExplained ==
    \A b \in Boxes, c \in Currencies :
        LET box == box_summary(b, c)
            T == {t \in Received(_accepted(Members), c) : txns[t].box = b /\ ~IsDual(txns[t])}
        IN  Within(box.balance, Direct(BoxAccount(b, c)) - box.total - Total(T, "fee_cost"),
                   Doubt(LAMBDA row : row.currency_received = c /\ row.box = b /\ ~IsDual(row)))

(* The reports by member add up to the reports of the office, and each     *)
(* payment a status counts is a settlement in the list of its member.      *)
MembersAddUp ==
    /\ \A c \in Currencies :
          SumFunction([m \in Members |-> profits_by_member(m, c).profit]) = daily_close(c).profit
    /\ SumFunction([m \in Members |-> top_members(m).total])
         = SumFunction([c \in Currencies |-> activity(Members, c).total])
    /\ SumFunction([m \in Members |-> top_members(m).count])
         = by_status(Members, "approval", "accepted")
    /\ \A m \in Members :
          /\ by_status({m}, "payment", "paid")
               <= Cardinality({e \in settlements({m}) : journal[e].ref # NoRef})
          /\ SumFunction([cd \in Currencies \X Currencies |->
                             exchange_rates({m}, cd[1], cd[2]).count])
               = Cardinality({t \in _accepted({m}) : IsDual(txns[t])})

(* The reports agree with each other and with the ledger.                  *)
ReportsAgree == ApprovedIsOwedOrPaid /\ BoxesExplained /\ MembersAddUp
=============================================================================
