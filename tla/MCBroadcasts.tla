---------------------------- MODULE MCBroadcasts ----------------------------
(* A small instance of Broadcasts: one campaign, two workers, two clients.   *)
EXTENDS Broadcasts

CONSTANTS p1, p2, c1, c2, promo
=============================================================================
