----------------------------- MODULE MCNotices ------------------------------
(***************************************************************************)
(* Values of the constants of Notices for TLC.  No symmetry: the run       *)
(* checks a liveness property.                                             *)
(***************************************************************************)
EXTENDS Notices

CONSTANTS r1, r2, l1

TwoRequests == {r1, r2}
OneLoad == {l1}
=============================================================================
