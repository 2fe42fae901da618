------------------------------ MODULE MCPrivacy ------------------------------
(* Instances of Privacy for TLC. *)
EXTENDS Privacy
CONSTANTS c1, w1, h1
=============================================================================
