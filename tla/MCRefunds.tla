----------------------------- MODULE MCRefunds -----------------------------
(***************************************************************************)
(* Small instances of Refunds: a payment, its administrators, and webhook  *)
(* requests.                                                               *)
(***************************************************************************)
EXTENDS Refunds, TLC

CONSTANTS x1, a1, a2, l1, l2
=============================================================================
