----------------------------- MODULE MCBooking -----------------------------
(***************************************************************************)
(* Small instances of Booking: up to four windows of one staff member on  *)
(* two days.                                                               *)
(***************************************************************************)
EXTENDS Booking, TLC

CONSTANTS m1, s1, c1, c2, p1, p2

MCDayOf == [w \in Windows |-> IF w <= 2 THEN 1 ELSE 2]
\* Three windows of one day and one of the next.
MCWideDayOf == [w \in Windows |-> IF w <= 3 THEN 1 ELSE 2]
MCStaffOf == [w \in Windows |-> m1]
\* Windows start one tick apart, so that a visit may be moved after it began.
MCStartAt == [w \in Windows |-> w]
MCEndAt == [w \in Windows |-> w + 1]
MCSymmetry == Permutations({p1, p2}) \cup Permutations({c1, c2})
=============================================================================
