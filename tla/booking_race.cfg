SPECIFICATION Spec
CONSTANTS
  None = None
  p1 = p1
  p2 = p2
  m1 = m1
  c1 = c1
  c2 = c2
  s1 = s1
  Sessions = {p1, p2}
  Windows = {1, 2, 3}
  Appointments = {1, 2}
  Clients = {c1, c2}
  Services = {s1}
  Staff = {m1}
  Days = {1, 2}
  InitiallyOpen = {1, 2, 3}
  MaxPerDay = 1
  MaxFuture = 1
  Deadline = 1
  MaxClock = 0
  Ops = {"book", "reschedule_admin", "reschedule_my", "cancel_admin", "cancel_my", "confirm"}
  DayOf <- MCDayOf
  StaffOf <- MCStaffOf
  StartAt <- MCStartAt
  EndAt <- MCEndAt
INVARIANTS TypeOK BookedWindowHasVisit
PROPERTIES DailyLimitHeld 
SYMMETRY MCSymmetry
CHECK_DEADLOCK FALSE
