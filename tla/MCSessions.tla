----------------------------- MODULE MCSessions -----------------------------
(***************************************************************************)
(* Values of the constants of Sessions for TLC.                            *)
(***************************************************************************)
EXTENDS Sessions, TLC

CONSTANTS t1, t2, c1, c2

TwoTabs == {t1, t2}
TwoCalls == {c1, c2}
BrowserSymmetry == Permutations(TwoTabs) \cup Permutations(TwoCalls)
=============================================================================
