--------------------------- MODULE MCReservation ---------------------------
(* Small instances of Reservation for TLC. *)
EXTENDS Reservation
CONSTANTS h1, h2, c1, c2, c3, w1, w2

\* Two checkouts compete for one window, one may have another.
MCWindowOf == [c \in Checkouts |-> IF c = c3 THEN w2 ELSE w1]
MCYooKassa == [c \in Checkouts |-> "yookassa"]
\* The mode of the business changes between two checkouts.
MCMixed == [c \in Checkouts |-> IF c = c1 THEN "manual" ELSE "yookassa"]
=============================================================================
