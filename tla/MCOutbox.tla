------------------------------ MODULE MCOutbox ------------------------------
(***************************************************************************)
(* Values of the constants of Outbox for TLC.                              *)
(***************************************************************************)
EXTENDS Outbox, TLC

CONSTANTS o1, o2

TwoRequests == {o1, o2}
=============================================================================
