-------------------------- MODULE MCReconciliation --------------------------
(***************************************************************************)
(* Values of the constants of Reconciliation for TLC.                      *)
(***************************************************************************)
EXTENDS Reconciliation, FiniteSetsExt, TLC

CONSTANTS usd, eur, e1, e2, s1, s2

TwoAccounts == (e1 :> usd) @@ (e2 :> eur)

(* No two sets of lines have the same sum.                                 *)
Amount == (e1 :> 1) @@ (e2 :> -2)
SumOfAmounts == [S \in SUBSET Lines |-> MapThenSumSet(LAMBDA e : Amount[e], S)]

SessionSymmetry == Permutations(Sessions)
=============================================================================
