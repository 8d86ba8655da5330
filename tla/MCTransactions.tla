--------------------------- MODULE MCTransactions ---------------------------
(***************************************************************************)
(* Values of the constants of Transactions for TLC.                        *)
(***************************************************************************)
EXTENDS TransactionsRefinement, Reports, TLC

CONSTANTS m1, m2, b1, w1, w2, t1, t2

TwoWorkers == {w1, w2}
Symmetry == Permutations(TwoWorkers)
TxnSymmetry == Permutations({t1, t2})

MCBoxCurrencies == [b \in {b1} |-> {"USD"}]

Single(x) == [by |-> m1, amount |-> x, currency_received |-> "USD", currency_delivered |-> "USD"]
Dual(x)   == [by |-> m2, amount |-> x, currency_received |-> "TRY", currency_delivered |-> "USD"]

Fees(cost, charged) ==
    [box |-> b1, fee_cost |-> cost, fee_charged |-> charged,
     exchange_rate |-> 0, amount_delivered |-> 0]

OneDraft == {Single(2)}
OneQuote == {Fees(0, 1)}

NoEdit == [amount |-> Keep, box |-> Keep, fee_cost |-> Keep, fee_charged |-> Keep,
           exchange_rate |-> Keep]
OneEdit == {[NoEdit EXCEPT !.amount = 3]}

(* The serial instance, where a Unit is two: a transfer in one currency    *)
(* and one in two, fees with a margin, without one and with a loss, a rate *)
(* that needs rounding, an agreed delivered amount, and edits of half a    *)
(* Unit that the row and the lines round apart.                            *)
SerialMoves == {-1, 1}
SerialDrafts == {Single(4), Dual(6)}
Agreed(x) == [Fees(2, 4) EXCEPT !.exchange_rate = 6, !.amount_delivered = x]
SerialQuotes == {Fees(2, 4), Fees(2, 2), Fees(4, 2), Agreed(0), Agreed(10)}
SerialEdits == {[NoEdit EXCEPT !.amount = 7, !.fee_charged = 5, !.exchange_rate = 3],
                [NoEdit EXCEPT !.fee_charged = 5]}

=============================================================================
