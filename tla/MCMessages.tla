----------------------------- MODULE MCMessages -----------------------------
(* A small instance of Messages: one window that is offered, booked and      *)
(* freed, its visit, and one entry of the waiting list, of the same client.  *)
EXTENDS Messages, TLC
CONSTANTS p1, p2, a1, w1, e1, c1

MCVisitWindow == [a \in Visits |-> w1]
MCVisitClient == [a \in Visits |-> c1]
MCEntryClient == [e \in Entries |-> c1]
MCMatches == Entries \X Windows
MCSymmetry == Permutations(Workers)
=============================================================================
