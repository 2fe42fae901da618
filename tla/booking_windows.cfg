SPECIFICATION FairSpec
CONSTANTS
  None = None
  p1 = p1
  p2 = p2
  m1 = m1
  c1 = c1
  c2 = c2
  s1 = s1
  Sessions = {p1, p2}
  Windows = {1, 2}
  Appointments = {1, 2}
  Clients = {c1}
  Services = {s1}
  Staff = {m1}
  Days = {1, 2}
  InitiallyOpen = {1}
  MaxPerDay = 1
  MaxFuture = 1
  Deadline = 1
  MaxClock = 2
  Ops = {"book", "complete", "no_show", "close", "reopen", "create"}
  DayOf <- MCWideDayOf
  StaffOf <- MCStaffOf
  StartAt <- MCStartAt
  EndAt <- MCEndAt
INVARIANTS  LiveVisitHoldsItsWindow
PROPERTIES WindowLimitHeld RequestsEnd
CHECK_DEADLOCK FALSE
