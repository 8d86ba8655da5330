-------------------------- MODULE MCSubscriptions ---------------------------
(***************************************************************************)
(* Values of the constants of Subscriptions for TLC.                       *)
(***************************************************************************)
EXTENDS Subscriptions, TLC

CONSTANTS s1, s2, p1, w1, w2

(* A package of one small office and no transactions.                      *)
OneOffice == [p \in {p1} |-> [k \in Kinds |-> IF k = "small" THEN 1 ELSE 0]]
FewRows == [k \in Kinds |-> IF k = "small" THEN 2 ELSE 1]
=============================================================================
