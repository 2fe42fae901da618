------------------------ MODULE BookingLimitsProofs ------------------------
(***************************************************************************)
(* Theorems about Booking, continued: the limit of a client, the limit of  *)
(* windows of a day, and the agreement of windows with their visits.       *)
(***************************************************************************)
EXTENDS BookingProofs

-----------------------------------------------------------------------------
(* The locks behind each argument. *)

Opening == {"create", "reopen"}

\* The plan of a request has the lock in it.
Takes(r, l) == \E i \in 1..Len(Plan(r)) : Plan(r)[i] = l

LEMMA PlanTakes ==
  ASSUME NEW r, WellFormed(r)
  PROVE  /\ r.op \in {"book", "confirm"} \cup Moving => Takes(r, ClientLock(r.client))
         /\ r.op \in {"book", "close", "reopen"} \cup Ending \cup Moving =>
               Takes(r, WindowLock(r.win))
         /\ r.op \in Moving => Takes(r, WindowLock(r.to))
         /\ r.op \in Opening => Takes(r, DateLock(DayOf[r.win]))
  <1> USE BookingAssumption
  <1>1. r.op \in AllOps \cup {"none"} BY DEF WellFormed, Request
  <1> DEFINE Good ==
        /\ r.op \in {"book", "confirm"} \cup Moving => Takes(r, ClientLock(r.client))
        /\ r.op \in {"book", "close", "reopen"} \cup Ending \cup Moving =>
              Takes(r, WindowLock(r.win))
        /\ r.op \in Moving => Takes(r, WindowLock(r.to))
        /\ r.op \in Opening => Takes(r, DateLock(DayOf[r.win]))
  <1>2. CASE r.op = "book"
    <2>1. Plan(r) = BookPlan(r) BY <1>2 DEF Plan
    <2>2. /\ Len(Plan(r)) = 5 /\ Plan(r)[2] = WindowLock(r.win)
          /\ Plan(r)[3] = ClientLock(r.client)
      BY <2>1 DEF BookPlan
    <2>3. Takes(r, WindowLock(r.win)) /\ Takes(r, ClientLock(r.client))
      BY <2>2 DEF Takes
    <2> QED BY <1>2, <2>3 DEF Opening, Moving
  <1>3. CASE r.op \in Ending
    <2>1. r.win \in Windows /\ r.client \in Clients /\ r.app \in Appointments
      BY <1>3 DEF WellFormed, Ending
    <2>2. AppointmentPlan(r) \in Seq(Locks)
      <3>1. /\ DateLock(DayOf[r.win]) \in Locks /\ WindowLock(r.win) \in Locks
            /\ AppointmentLock(r.app) \in Locks
        BY <2>1 DEF Locks, DateLock, WindowLock, AppointmentLock
      <3> QED BY <3>1, Tuples DEF AppointmentPlan
    <2>3. <<ClientLock(r.client)>> \in Seq(Locks)
      BY <2>1, Tuples DEF Locks, ClientLock
    <2>4. Len(AppointmentPlan(r)) = 3 /\ AppointmentPlan(r)[2] = WindowLock(r.win)
      BY DEF AppointmentPlan
    <2>5. Plan(r) = AppointmentPlan(r) \/ Plan(r) = AppointmentPlan(r) \o <<ClientLock(r.client)>>
      BY <1>3 DEF Plan, Ending
    <2>6. Len(Plan(r)) \in Nat /\ Len(Plan(r)) >= 3 /\ Plan(r)[2] = WindowLock(r.win)
      <3>1. CASE Plan(r) = AppointmentPlan(r) BY <2>4, <3>1
      <3>2. CASE Plan(r) = AppointmentPlan(r) \o <<ClientLock(r.client)>>
        <4>1. PICK s, t : s = AppointmentPlan(r) /\ t = <<ClientLock(r.client)>> OBVIOUS
        <4>2. Len(t) = 1 BY <4>1
        <4>3. /\ Len(Plan(r)) = Len(s) + Len(t)
              /\ \A i \in 1..Len(s) : Plan(r)[i] = s[i]
          BY <2>2, <2>3, <3>2, <4>1, Joined
        <4> QED BY <2>4, <4>1, <4>2, <4>3
      <3> QED BY <2>5, <3>1, <3>2
    <2>7. Takes(r, WindowLock(r.win)) BY <2>6 DEF Takes
    <2> QED BY <1>3, <2>7 DEF Opening, Moving, Ending
  <1>4. CASE r.op = "confirm"
    <2>1. Plan(r) = <<AppointmentLock(r.app), ClientLock(r.client)>> BY <1>4 DEF Plan
    <2>2. Takes(r, ClientLock(r.client)) BY <2>1 DEF Takes
    <2> QED BY <1>4, <2>2 DEF Opening, Moving, Ending
  <1>5. CASE r.op \in Moving
    <2>1. /\ r.win \in Windows /\ r.to \in Windows /\ r.to # r.win
          /\ r.client \in Clients /\ r.service \in Services /\ r.app \in Appointments
      BY <1>5 DEF WellFormed, Moving
    <2>2. PICK dates, wins, rest :
             /\ dates = DateLocks(DayOf[r.win], DayOf[r.to]) /\ wins = WindowLocks(r.win, r.to)
             /\ rest = <<AppointmentLock(r.app), StaffLock(StaffOf[r.to]),
                         ServiceLock(r.service), ClientLock(r.client)>>
      OBVIOUS
    <2>3. dates \in Seq(Locks)
      <3>1. PICK x \in Days, y \in Days : x = DayOf[r.win] /\ y = DayOf[r.to] BY <2>1
      <3>2. \A d \in Days : DateLock(d) \in Locks BY DEF Locks, DateLock
      <3>3. CASE x = y BY <2>2, <3>1, <3>2, <3>3 DEF DateLocks, InOrder
      <3>4. CASE x # y
        <4>1. PICK u \in Days, v \in Days : InOrder(x, y) = <<u, v>> BY <3>4 DEF InOrder
        <4>2. dates = [i \in 1..2 |-> DateLock(<<u, v>>[i])] BY <2>2, <3>1, <4>1 DEF DateLocks
        <4> QED BY <3>2, <4>2
      <3> QED BY <3>3, <3>4
    <2>4. /\ wins \in Seq(Locks) /\ Len(wins) = 2
          /\ \E i \in 1..2 : wins[i] = WindowLock(r.win)
          /\ \E i \in 1..2 : wins[i] = WindowLock(r.to)
      <3>1. PICK u \in Windows, v \in Windows :
               /\ InOrder(r.win, r.to) = <<u, v>>
               /\ (u = r.win /\ v = r.to) \/ (u = r.to /\ v = r.win)
        BY <2>1 DEF InOrder
      <3>2. wins = [i \in 1..2 |-> WindowLock(<<u, v>>[i])] BY <2>2, <3>1 DEF WindowLocks
      <3>3. \A w \in Windows : WindowLock(w) \in Locks BY DEF Locks, WindowLock
      <3>4. Len(wins) = 2 /\ wins[1] = WindowLock(u) /\ wins[2] = WindowLock(v) BY <3>2
      <3> QED BY <3>1, <3>2, <3>3, <3>4
    <2>5. rest \in Seq(Locks) /\ Len(rest) = 4 /\ rest[4] = ClientLock(r.client)
      <3>1. /\ AppointmentLock(r.app) \in Locks /\ StaffLock(StaffOf[r.to]) \in Locks
            /\ ServiceLock(r.service) \in Locks /\ ClientLock(r.client) \in Locks
        BY <2>1 DEF Locks, AppointmentLock, StaffLock, ServiceLock, ClientLock
      <3> QED BY <2>2, <3>1, Tuples
    <2>6. Plan(r) = (dates \o wins) \o rest BY <1>5, <2>2 DEF Plan, ReschedulePlan, Moving
    <2>7. dates \in Seq(Locks) /\ wins \in Seq(Locks) /\ rest \in Seq(Locks)
      BY <2>3, <2>4, <2>5
    <2>8. Len(Plan(r)) = Len(dates) + Len(wins) + Len(rest) BY <2>6, <2>7, JoinedTwice
    <2>9. \A i \in 1..Len(wins) : Plan(r)[Len(dates) + i] = wins[i] BY <2>6, <2>7, JoinedTwice
    <2>10. \A i \in 1..Len(rest) : Plan(r)[Len(dates) + Len(wins) + i] = rest[i]
      BY <2>6, <2>7, JoinedTwice
    <2>11. Len(dates) \in Nat /\ Len(wins) = 2 /\ Len(rest) = 4 BY <2>4, <2>5, <2>7
    <2>12. Takes(r, ClientLock(r.client))
      <3>1. Plan(r)[Len(dates) + 2 + 4] = ClientLock(r.client) BY <2>5, <2>10, <2>11
      <3>2. Len(dates) + 2 + 4 \in 1..Len(Plan(r)) BY <2>8, <2>11
      <3> QED BY <3>1, <3>2 DEF Takes
    <2>13. ASSUME NEW i \in 1..2 PROVE Takes(r, wins[i])
      <3>1. Len(dates) + i \in 1..Len(Plan(r)) BY <2>8, <2>11
      <3>2. Plan(r)[Len(dates) + i] = wins[i] BY <2>9, <2>11
      <3> QED BY <3>1, <3>2 DEF Takes
    <2>14. Takes(r, WindowLock(r.win)) /\ Takes(r, WindowLock(r.to)) BY <2>4, <2>13
    <2> QED BY <1>5, <2>12, <2>14 DEF Opening, Moving
  <1>6. CASE r.op \in {"close", "reopen", "create"}
    <2>1. CASE r.op = "close"
      <3>1. Plan(r) = <<WindowLock(r.win)>> BY <2>1 DEF Plan
      <3>2. Takes(r, WindowLock(r.win)) BY <3>1 DEF Takes
      <3> QED BY <2>1, <3>2 DEF Opening, Moving, Ending
    <2>2. CASE r.op = "reopen"
      <3>1. Plan(r) = <<WindowLock(r.win), StaffLock(StaffOf[r.win]), DateLock(DayOf[r.win])>>
        BY <2>2 DEF Plan
      <3>2. Len(Plan(r)) = 3 /\ Plan(r)[1] = WindowLock(r.win)
            /\ Plan(r)[3] = DateLock(DayOf[r.win])
        BY <3>1
      <3>3. Takes(r, WindowLock(r.win)) /\ Takes(r, DateLock(DayOf[r.win])) BY <3>2 DEF Takes
      <3> QED BY <2>2, <3>3 DEF Opening, Moving, Ending
    <2>3. CASE r.op = "create"
      <3>1. Plan(r) = <<StaffLock(StaffOf[r.win]), DateLock(DayOf[r.win])>> BY <2>3 DEF Plan
      <3>2. Len(Plan(r)) = 2 /\ Plan(r)[2] = DateLock(DayOf[r.win]) BY <3>1
      <3>3. Takes(r, DateLock(DayOf[r.win])) BY <3>2 DEF Takes
      <3> QED BY <2>3, <3>3 DEF Opening, Moving, Ending
    <2> QED BY <1>6, <2>1, <2>2, <2>3
  <1>7. CASE r.op = "none" BY <1>7 DEF Opening, Moving, Ending
  <1> QED BY <1>1, <1>2, <1>3, <1>4, <1>5, <1>6, <1>7 DEF AllOps, Ending, Moving

\* A session that has made its checks holds every lock of its plan.
LEMMA CheckedHoldsAll ==
  ASSUME Typed, Owned, NEW p \in Sessions, phase[p] = "checked"
  PROVE  /\ \A d \in DaysOf(req[p]) : holder[DateLock(d)] = p
         /\ req[p].op \in {"book", "confirm"} \cup Moving => holder[ClientLock(req[p].client)] = p
         /\ req[p].op \in {"book", "close", "reopen"} \cup Ending \cup Moving =>
               holder[WindowLock(req[p].win)] = p
         /\ req[p].op \in Moving => holder[WindowLock(req[p].to)] = p
         /\ req[p].op \in Opening => holder[DateLock(DayOf[req[p].win])] = p
  <1>1. step[p] = Len(Plan(req[p])) BY DEF Owned
  <1>2. \A i \in 1..Len(Plan(req[p])) : holder[Plan(req[p])[i]] = p BY <1>1 DEF Owned
  <1>3. \A l : Takes(req[p], l) => holder[l] = p BY <1>2 DEF Takes
  <1>4. WellFormed(req[p]) BY RequestsWellFormed
  <1> QED BY <1>3, <1>4, CheckedHolds, PlanTakes
-----------------------------------------------------------------------------
(* What a commit writes, rows and windows together. *)

EndedStatuses == {"cancelled_by_client", "cancelled_by_admin", "completed", "no_show"}
OnlyWindows(S) == \A w \in Windows \ S : windows'[w] = windows[w]
NewVisit(r, w, f, a) ==
    Added(r, w, a) /\ appointments'[a].client = r.client /\ appointments'[a].from = f

Books(r) ==
    /\ r.op = "book"
    /\ \E a \in Appointments : NewVisit(r, r.win, None, a) /\ OnlyChanges({a})
    /\ OnlyWindows({r.win})
    /\ windows'[r.win] = OrmWrite(windows[r.win], r.winSeen, "booked")
Ends(r) ==
    /\ r.op \in Ending /\ OnlyChanges({r.app})
    /\ appointments'[r.app].status \in EndedStatuses /\ appointments'[r.app].window = r.win
    /\ r.op \in {"complete", "no_show"} => appointments'[r.app].status \in {"completed", "no_show"}
    /\ OnlyWindows({r.win})
    /\ \E new \in {"open", "closed"} :
          /\ windows'[r.win] = OrmWrite(windows[r.win], r.winSeen, new)
          /\ r.op \in {"complete", "no_show"} => new = "closed"
Confirms(r) ==
    /\ r.op = "confirm" /\ OnlyChanges({r.app})
    /\ appointments'[r.app] = [appointments[r.app] EXCEPT !.status = "client_confirmed"]
    /\ windows' = windows
Moves(r) ==
    /\ r.op \in Moving
    /\ appointments'[r.app].status = "rescheduled" /\ appointments'[r.app].window = r.win
    /\ \E a \in Appointments : NewVisit(r, r.to, r.app, a) /\ OnlyChanges({a, r.app})
    /\ OnlyWindows({r.win, r.to})
    /\ windows'[r.to] = OrmWrite(windows[r.to], r.toSeen, "booked")
    /\ \E new \in {"open", "closed"} :
          windows'[r.win] = OrmWrite(windows[r.win], r.winSeen, new)
SetsWindow(r) ==
    /\ r.op \in {"close"} \cup Opening /\ Unchanged /\ OnlyWindows({r.win})
    /\ windows'[r.win] = IF r.op = "close" THEN "closed" ELSE "open"
Writes(r) == Books(r) \/ Ends(r) \/ Confirms(r) \/ Moves(r) \/ SetsWindow(r)

LEMMA CommitWrites ==
  ASSUME Typed, NEW p \in Sessions, Commits(p)
  PROVE  \/ UNCHANGED <<appointments, windows>>
         \/ OneOccupant(appointments') /\ Writes(req[p])
  <1> DEFINE r == req[p]
             Goal == \/ UNCHANGED <<appointments, windows>>
                     \/ OneOccupant(appointments') /\ Writes(r)
  <1>1. /\ appointments \in [Appointments -> AppointmentRow]
        /\ windows \in [Windows -> WindowStatus]
    BY DEF Typed, TypeOK
  <1>2. r.op \in {"confirm"} \cup Ending \cup Moving =>
           /\ r.app \in Appointments /\ appointments[r.app].status # "absent"
           /\ appointments[r.app].window = r.win
    BY DEF Typed, RequestsComplete, Ending, Moving
  <1>3. r.win \in Windows /\ (r.op \in Moving => r.to \in Windows /\ r.to # r.win)
    BY DEF Typed, RequestsComplete, Moving, Commits, CommitBook, CommitCancel, CommitConfirm,
           CommitComplete, CommitNoShow, CommitReschedule, CommitWindow, Committing
  <1>4. ASSUME NEW rows, NEW wins, Commit(p, rows, wins)
        PROVE  \/ UNCHANGED <<appointments, windows>>
               \/ OneOccupant(appointments') /\ appointments' = rows /\ windows' = wins
    BY <1>4 DEF Commit, DbAccepts
  <1>5. ASSUME NEW st \in AppointmentStatus, r.app \in Appointments,
               appointments[r.app].window = r.win
        PROVE  /\ Ended(appointments, r.app, st) \in [Appointments -> AppointmentRow]
               /\ Ended(appointments, r.app, st)[r.app].status = st
               /\ Ended(appointments, r.app, st)[r.app].window = r.win
               /\ \A b \in Appointments \ {r.app} :
                     Ended(appointments, r.app, st)[b] = appointments[b]
    <2> HIDE DEF r
    <2>1. appointments[r.app] \in AppointmentRow BY <1>1, <1>5
    <2> DEFINE row == [appointments[r.app] EXCEPT !.status = st, !.reminders = FALSE]
    <2>2. /\ row \in AppointmentRow /\ row.status = st
          /\ row.window = appointments[r.app].window
      BY <2>1 DEF AppointmentRow
    <2>3. Ended(appointments, r.app, st) = [appointments EXCEPT ![r.app] = row]
      BY <1>1 DEF Ended
    <2> HIDE DEF row
    <2> QED BY <1>1, <1>5, <2>2, <2>3
  <1>6. ASSUME r.op \in Ending, NEW st \in EndedStatuses, NEW new \in {"open", "closed"},
               r.op \in {"complete", "no_show"} =>
                  st \in {"completed", "no_show"} /\ new = "closed",
               Commit(p, Ended(appointments, r.app, st),
                         [windows EXCEPT ![r.win] = OrmWrite(@, r.winSeen, new)])
        PROVE  Goal
    <2> HIDE DEF r
    <2>1. st \in AppointmentStatus BY DEF EndedStatuses, AppointmentStatus
    <2>2. r.app \in Appointments /\ appointments[r.app].window = r.win BY <1>2, <1>6
    <2>3. CASE UNCHANGED <<appointments, windows>> BY <2>3
    <2>4. CASE /\ OneOccupant(appointments')
               /\ appointments' = Ended(appointments, r.app, st)
               /\ windows' = [windows EXCEPT ![r.win] = OrmWrite(@, r.winSeen, new)]
      <3>1. /\ appointments'[r.app].status = st /\ appointments'[r.app].window = r.win
            /\ OnlyChanges({r.app})
        BY <1>5, <2>1, <2>2, <2>4 DEF OnlyChanges
      <3>2. OnlyWindows({r.win}) /\ windows'[r.win] = OrmWrite(windows[r.win], r.winSeen, new)
        BY <1>1, <1>3, <2>4 DEF OnlyWindows
      <3>3. Ends(r) BY <1>6, <3>1, <3>2 DEF Ends
      <3> QED BY <2>4, <3>3 DEF Writes
    <2> QED BY <1>4, <1>6, <2>3, <2>4
  <1>7. CASE CommitBook(p)
    <2> DEFINE row == NewRow(r.win, r.client, r.service, None)
    <2>1. PICK a \in Appointments : IsNextId(a)
            /\ Commit(p, [appointments EXCEPT ![a] = row],
                         [windows EXCEPT ![r.win] = OrmWrite(@, r.winSeen, "booked")])
      BY <1>7 DEF CommitBook
    <2>2. r.op = "book" /\ appointments[a].status = "absent"
      BY <1>7, <2>1 DEF CommitBook, Committing, IsNextId, FreeIds, InStatus
    <2>3. /\ row.status = "confirmed" /\ row.window = r.win /\ row.client = r.client
          /\ row.from = None
      BY DEF NewRow
    <2> SUFFICES Goal OBVIOUS
    <2> HIDE DEF r, row
    <2>4. CASE UNCHANGED <<appointments, windows>> BY <2>4
    <2>5. CASE /\ OneOccupant(appointments')
               /\ appointments' = [appointments EXCEPT ![a] = row]
               /\ windows' = [windows EXCEPT ![r.win] = OrmWrite(@, r.winSeen, "booked")]
      <3>1. appointments'[a] = row /\ OnlyChanges({a}) BY <1>1, <2>5 DEF OnlyChanges
      <3>2. /\ OnlyWindows({r.win})
            /\ windows'[r.win] = OrmWrite(windows[r.win], r.winSeen, "booked")
        BY <1>1, <1>3, <2>5 DEF OnlyWindows
      <3>3. NewVisit(r, r.win, None, a) BY <2>2, <2>3, <3>1 DEF NewVisit, Added
      <3>4. Books(r) BY <2>2, <3>1, <3>2, <3>3 DEF Books
      <3> QED BY <2>5, <3>4 DEF Writes
    <2> QED BY <1>4, <2>1, <2>4, <2>5
  <1>8. CASE CommitCancel(p)
    <2>1. /\ CancelledStatus(r) \in EndedStatuses /\ ReleasedWindow(r) \in {"open", "closed"}
          /\ r.op \in Ending /\ r.op \notin {"complete", "no_show"}
      BY <1>8 DEF CancelledStatus, ReleasedWindow, EndedStatuses, CommitCancel, Committing, Ending
    <2>2. Commit(p, Ended(appointments, r.app, CancelledStatus(r)),
                    [windows EXCEPT ![r.win] = OrmWrite(@, r.winSeen, ReleasedWindow(r))])
      BY <1>8 DEF CommitCancel
    <2> QED BY <1>6, <2>1, <2>2
  <1>9. CASE CommitConfirm(p)
    <2> DEFINE row == [appointments[r.app] EXCEPT !.status = "client_confirmed"]
    <2> SUFFICES Goal OBVIOUS
    <2>1. r.op = "confirm" BY <1>9 DEF CommitConfirm, Committing
    <2>2. Commit(p, [appointments EXCEPT ![r.app].status = "client_confirmed"], windows)
      BY <1>9 DEF CommitConfirm
    <2>3. CASE UNCHANGED <<appointments, windows>> BY <2>3
    <2>4. CASE /\ OneOccupant(appointments') /\ windows' = windows
               /\ appointments' = [appointments EXCEPT ![r.app].status = "client_confirmed"]
      <3>1. appointments' = [appointments EXCEPT ![r.app] = row] BY <2>4
      <3> HIDE DEF r, row
      <3>2. appointments'[r.app] = row /\ OnlyChanges({r.app})
        BY <1>1, <1>2, <2>1, <3>1 DEF OnlyChanges
      <3>3. Confirms(r) BY <2>1, <2>4, <3>2 DEF Confirms, row
      <3> QED BY <2>4, <3>3 DEF Writes
    <2> QED BY <1>4, <2>2, <2>3, <2>4
  <1>10. CASE CommitComplete(p)
    BY <1>6, <1>10 DEF CommitComplete, Committing, Ending, EndedStatuses
  <1>11. CASE CommitNoShow(p)
    BY <1>6, <1>11 DEF CommitNoShow, Committing, Ending, EndedStatuses
  <1>12. CASE CommitReschedule(p)
    <2> DEFINE new == IF StartAt[r.win] > r.now THEN "open" ELSE "closed"
               old == Ended(appointments, r.app, "rescheduled")
               row == NewRow(r.to, r.client, r.service, r.app)
               wins == [windows EXCEPT ![r.win] = OrmWrite(@, r.winSeen, new),
                                       ![r.to] = OrmWrite(@, r.toSeen, "booked")]
    <2>1. PICK a \in Appointments : IsNextId(a) /\ Commit(p, Moved(r, a), wins)
      BY <1>12 DEF CommitReschedule
    <2>2. r.op \in Moving BY <1>12 DEF CommitReschedule, Committing, Moving
    <2>3. appointments[a].status = "absent" /\ a # r.app
      BY <1>2, <2>1, <2>2 DEF IsNextId, FreeIds, InStatus
    <2>4. /\ old \in [Appointments -> AppointmentRow] /\ old[r.app].status = "rescheduled"
          /\ old[r.app].window = r.win
          /\ \A b \in Appointments \ {r.app} : old[b] = appointments[b]
      <3>1. "rescheduled" \in AppointmentStatus BY DEF AppointmentStatus
      <3> QED BY <1>2, <1>5, <2>2, <3>1
    <2>5. Moved(r, a) = [old EXCEPT ![a] = row] BY DEF Moved
    <2>6. /\ row.status = "confirmed" /\ row.window = r.to /\ row.client = r.client
          /\ row.from = r.app
      BY DEF NewRow
    <2>7. new \in {"open", "closed"} OBVIOUS
    <2> SUFFICES Goal OBVIOUS
    <2> HIDE DEF old, row, r, new
    <2>8. CASE UNCHANGED <<appointments, windows>> BY <2>8
    <2>9. CASE OneOccupant(appointments') /\ appointments' = Moved(r, a) /\ windows' = wins
      <3>1. appointments'[a] = row BY <2>4, <2>5, <2>9
      <3>2. \A b \in Appointments \ {a} : appointments'[b] = old[b] BY <2>4, <2>5, <2>9
      <3>3. NewVisit(r, r.to, r.app, a) BY <2>3, <2>6, <3>1 DEF NewVisit, Added
      <3>4. OnlyChanges({a, r.app}) BY <2>4, <3>2 DEF OnlyChanges
      <3>5. appointments'[r.app].status = "rescheduled" /\ appointments'[r.app].window = r.win
        BY <1>2, <2>2, <2>3, <2>4, <3>2
      <3>6. /\ OnlyWindows({r.win, r.to})
            /\ windows'[r.win] = OrmWrite(windows[r.win], r.winSeen, new)
            /\ windows'[r.to] = OrmWrite(windows[r.to], r.toSeen, "booked")
        BY <1>1, <1>3, <2>2, <2>9 DEF OnlyWindows
      <3>7. Moves(r) BY <2>2, <2>7, <3>3, <3>4, <3>5, <3>6 DEF Moves
      <3> QED BY <2>9, <3>7 DEF Writes
    <2> QED BY <1>4, <2>1, <2>8, <2>9
  <1>13. CASE CommitWindow(p)
    <2> DEFINE new == IF r.op = "close" THEN "closed" ELSE "open"
    <2>1. r.op \in {"close"} \cup Opening BY <1>13 DEF CommitWindow, Committing, Opening
    <2>2. Commit(p, appointments, [windows EXCEPT ![r.win] = new]) BY <1>13 DEF CommitWindow
    <2> SUFFICES Goal OBVIOUS
    <2> HIDE DEF r
    <2>3. CASE UNCHANGED <<appointments, windows>> BY <2>3
    <2>4. CASE /\ OneOccupant(appointments') /\ appointments' = appointments
               /\ windows' = [windows EXCEPT ![r.win] = new]
      <3>1. OnlyWindows({r.win}) /\ windows'[r.win] = new
        BY <1>1, <1>3, <2>4 DEF OnlyWindows
      <3>2. SetsWindow(r) BY <2>1, <2>4, <3>1 DEF SetsWindow, Unchanged
      <3> QED BY <2>4, <3>2 DEF Writes
    <2> QED BY <1>4, <2>2, <2>3, <2>4
  <1> QED BY <1>7, <1>8, <1>9, <1>10, <1>11, <1>12, <1>13 DEF Commits
-----------------------------------------------------------------------------
(* What a step means to each session: it is the session's own, or it leaves *)
(* the session with its request and its locks.                             *)

Stays(q) ==
    /\ req'[q] = req[q] /\ phase'[q] = phase[q]
    /\ \A l \in Locks : holder[l] = q => holder'[l] = q
Leaves(q) == req'[q] = NoRequest /\ phase'[q] = "idle"
KeepsRows == UNCHANGED <<appointments, windows>>

LEMMA FinishSessions ==
  ASSUME Typed, NEW p \in Sessions, Finish(p)
  PROVE  /\ Leaves(p) /\ \A q \in Sessions \ {p} : Stays(q)
         /\ clock' = clock
  <1>1. \A q \in Sessions \ {p} : req'[q] = req[q] /\ phase'[q] = phase[q]
    BY DEF Finish, Typed, TypeOK
  <1>2. \A q \in Sessions \ {p} : \A l \in Locks : holder[l] = q => holder'[l] = q
    BY DEF Finish, ReleasedBy
  <1>3. Leaves(p) BY DEF Finish, Leaves, Typed, TypeOK
  <1> QED BY <1>1, <1>2, <1>3 DEF Stays, Finish

LEMMA ArriveReads ==
  ASSUME NEW p \in Sessions, Arrive(p)
  PROVE  KeepsRows /\ \E r : Begin(p, r)
  BY DEF Arrive, Book, CancelMy, CancelAdmin, ConfirmVisit, CompleteVisit, MarkNoShow,
         Reschedule, CloseWindow, ReopenWindow, CreateWindow, Begin, KeepsRows

\* The request a session starts with, and the rows it has read by then.
LEMMA Arrives ==
  ASSUME Typed, NEW q \in Sessions, Arrive(q), NEW r, r = req'[q]
  PROVE  /\ r.op \in Ops /\ r.now = clock /\ ~r.withinLimit
         /\ r.op \in {"close", "reopen", "book"} => windows[r.win] # "absent"
         /\ r.op \in {"confirm"} \cup Ending \cup Moving => r.winSeen = windows[r.win]
         /\ r.op \in Moving => windows[r.to] # "absent"
  <1>1. req \in [Sessions -> Request] BY DEF Typed, TypeOK
  <1>2. ASSUME NEW op, NEW a, NEW reopen, NEW x, x = OnAppointment(op, a, reopen)
        PROVE  /\ x.op = op /\ x.now = clock /\ ~x.withinLimit
               /\ x.winSeen = windows[appointments[a].window] /\ x.win = appointments[a].window
    BY <1>2 DEF OnAppointment, NoRequest
  <1>3. CASE \E w \in Windows, c \in Clients, s \in Services : Book(q, w, c, s)
    <2>1. PICK w \in Windows, c \in Clients, s \in Services : Book(q, w, c, s) BY <1>3
    <2>2. windows[w] # "absent" BY <2>1 DEF Book
    <2>3. /\ r.op = "book" /\ r.win = w /\ r.now = clock /\ ~r.withinLimit /\ r.op \in Ops
      <3>1. PICK x : x = [NoRequest EXCEPT !.op = "book", !.win = w, !.client = c, !.service = s,
                                           !.now = clock, !.winSeen = windows[w]]
        OBVIOUS
      <3>2. r = x /\ r.op \in Ops BY <1>1, <2>1, <3>1 DEF Book, Begin
      <3>3. x.op = "book" /\ x.win = w /\ x.now = clock /\ ~x.withinLimit
        BY <3>1 DEF NoRequest
      <3> QED BY <3>2, <3>3
    <2> QED BY <2>2, <2>3 DEF Ending, Moving
  <1>4. CASE \E a \in Appointments : \/ CancelMy(q, a) \/ ConfirmVisit(q, a)
                                    \/ CompleteVisit(q, a) \/ MarkNoShow(q, a)
                                    \/ \E reopen \in BOOLEAN : CancelAdmin(q, a, reopen)
    <2>1. PICK op \in {"confirm"} \cup Ending, a \in Appointments, reopen \in BOOLEAN :
             \E x : x = OnAppointment(op, a, reopen) /\ Begin(q, x)
      BY <1>4 DEF CancelMy, CancelAdmin, ConfirmVisit, CompleteVisit, MarkNoShow, Ending
    <2>2. PICK x : x = OnAppointment(op, a, reopen) /\ Begin(q, x) BY <2>1
    <2>3. r = x /\ r.op \in Ops BY <1>1, <2>2 DEF Begin
    <2>4. /\ r.op = op /\ r.now = clock /\ ~r.withinLimit /\ r.winSeen = windows[r.win]
      BY <1>2, <2>2, <2>3
    <2> QED BY <2>3, <2>4 DEF Ending, Moving
  <1>5. CASE \E a \in Appointments, w \in Windows, op \in {"reschedule_my", "reschedule_admin"} :
                Reschedule(q, op, a, w)
    <2>1. PICK op \in Moving, a \in Appointments, w \in Windows : Reschedule(q, op, a, w)
      BY <1>5 DEF Moving
    <2>2. PICK x, y : /\ x = OnAppointment(op, a, FALSE)
                      /\ y = [x EXCEPT !.to = w, !.toSeen = windows[w]]
      OBVIOUS
    <2>3. windows[w] # "absent" BY <2>1 DEF Reschedule
    <2>4. r = y /\ r.op \in Ops BY <1>1, <2>1, <2>2 DEF Reschedule, Begin
    <2>5. y.op = op /\ y.now = clock /\ ~y.withinLimit /\ y.to = w
      BY <2>2 DEF OnAppointment, NoRequest
    <2>6. y.winSeen = windows[appointments[a].window] /\ y.win = appointments[a].window
      BY <2>2 DEF OnAppointment, NoRequest
    <2> QED BY <2>3, <2>4, <2>5, <2>6 DEF Moving
  <1>6. CASE \E w \in Windows : CloseWindow(q, w) \/ ReopenWindow(q, w) \/ CreateWindow(q, w)
    <2>1. PICK w \in Windows, op \in {"close", "reopen", "create"} :
             Begin(q, OnWindowOnly(op, w)) /\ (op # "create" => windows[w] # "absent")
      BY <1>6 DEF CloseWindow, ReopenWindow, CreateWindow
    <2>2. /\ r.op = op /\ r.win = w /\ r.now = clock /\ ~r.withinLimit /\ r.op \in Ops
      <3>1. PICK x : x = OnWindowOnly(op, w) OBVIOUS
      <3>2. r = x /\ r.op \in Ops BY <1>1, <2>1, <3>1 DEF Begin
      <3>3. x.op = op /\ x.win = w /\ x.now = clock /\ ~x.withinLimit
        BY <3>1 DEF OnWindowOnly, NoRequest
      <3> QED BY <3>2, <3>3
    <2> QED BY <2>1, <2>2 DEF Ending, Moving
  <1> QED BY <1>3, <1>4, <1>5, <1>6 DEF Arrive

LEMMA SessionSteps ==
  ASSUME Typed, [Next]_vars
  PROVE  /\ \A q \in Sessions :
               \/ Leaves(q)
               \/ Stays(q)
               \/ KeepsRows /\ clock' = clock /\ (Arrive(q) \/ Lock(q) \/ Check(q))
         /\ KeepsRows \/ \E p \in Sessions : Commits(p)
         /\ clock' \in Nat /\ clock' >= clock
  <1> DEFINE Goal ==
        /\ \A q \in Sessions :
              \/ Leaves(q)
              \/ Stays(q)
              \/ KeepsRows /\ clock' = clock /\ (Arrive(q) \/ Lock(q) \/ Check(q))
        /\ KeepsRows \/ \E p \in Sessions : Commits(p)
        /\ clock' \in Nat /\ clock' >= clock
  <1>1. /\ clock \in Nat /\ req \in [Sessions -> Request]
        /\ phase \in [Sessions -> {"idle", "locking", "checked"}]
        /\ holder \in [Locks -> Sessions \cup {None}]
        /\ None \notin Sessions
    BY BookingAssumption DEF Typed, TypeOK
  <1>2. ASSUME NEW p \in Sessions, Arrive(p) PROVE Goal
    <2>1. PICK r : Begin(p, r) BY <1>2, ArriveReads
    <2>2. KeepsRows BY <1>2, ArriveReads
    <2>3. \A q \in Sessions \ {p} : Stays(q) BY <1>1, <2>1 DEF Begin, Stays
    <2>4. clock' = clock BY <2>1 DEF Begin
    <2> QED BY <1>1, <1>2, <2>2, <2>3, <2>4
  <1>3. ASSUME NEW p \in Sessions, Lock(p) PROVE Goal
    <2>1. KeepsRows /\ clock' = clock /\ phase' = phase BY <1>3 DEF Lock, KeepsRows
    <2>2. \A q \in Sessions \ {p} : req'[q] = req[q] BY <1>1, <1>3 DEF Lock
    <2>3. \A l \in Locks : holder[l] # None => holder'[l] = holder[l] BY <1>1, <1>3 DEF Lock
    <2>4. \A q \in Sessions \ {p} : Stays(q) BY <1>1, <2>1, <2>2, <2>3 DEF Stays
    <2> QED BY <1>1, <1>3, <2>1, <2>4
  <1>4. ASSUME NEW p \in Sessions, Check(p) PROVE Goal
    <2>1. KeepsRows /\ clock' = clock BY <1>4 DEF Check, KeepsRows
    <2>2. \A q \in Sessions \ {p} : Stays(q) BY <1>1, <1>4 DEF Check, Stays
    <2> QED BY <1>1, <1>4, <2>1, <2>2
  <1>5. ASSUME NEW p \in Sessions, LockTimeout(p) \/ Reject(p) \/ Crash(p) PROVE Goal
    <2>1. Finish(p) /\ KeepsRows BY <1>5 DEF LockTimeout, Reject, Crash, Rollback, KeepsRows
    <2> QED BY <1>1, <2>1, FinishSessions
  <1>6. ASSUME NEW p \in Sessions, Commits(p) PROVE Goal
    <2>1. Finish(p) BY <1>6, CommitsFinish
    <2> QED BY <1>1, <1>6, <2>1, FinishSessions
  <1>7. CASE Tick
    <2>1. KeepsRows /\ clock' = clock + 1 BY <1>7 DEF Tick, KeepsRows
    <2>2. \A q \in Sessions : Stays(q) BY <1>7 DEF Tick, Stays
    <2> QED BY <1>1, <2>1, <2>2
  <1>8. CASE UNCHANGED vars
    <2>1. KeepsRows /\ clock' = clock BY <1>8 DEF vars, KeepsRows
    <2>2. \A q \in Sessions : Stays(q) BY <1>8 DEF vars, Stays
    <2> QED BY <1>1, <2>1, <2>2
  <1> QED BY <1>2, <1>3, <1>4, <1>5, <1>6, <1>7, <1>8 DEF Next, Progress

\* A session that stays through a commit is not the one that commits.
LEMMA StaysNotCommits ==
  ASSUME Typed, NEW p \in Sessions, NEW q \in Sessions, Commits(p), Stays(q)
  PROVE  p # q
  <1>1. phase[p] = "checked" /\ Leaves(p) BY CommitsFinish, FinishSessions
  <1> QED BY <1>1 DEF Leaves, Stays
-----------------------------------------------------------------------------
(* The limit of a client.  A booking counts the client's future visits as   *)
(* soon as it holds the client's row, and commits later; the row covers     *)
(* every other booking and reschedule of that client, of any day.           *)

\* What a session decided from the rows it had read before its locks.
Decided ==
    \A p \in Sessions : phase[p] = "checked" =>
        /\ req[p].op = "book" => req[p].winSeen = "open" /\ req[p].withinLimit
        /\ req[p].op \in {"cancel_my", "cancel_admin"} \cup Moving => req[p].winSeen = "booked"
        /\ req[p].op \in Moving => req[p].toSeen = "open"

\* A count that allowed a booking is made under the client's lock, and is good
\* for as long as the session holds it.
ClientCounted ==
    \A p \in Sessions :
        /\ req[p].now <= clock
        /\ req[p].op = "book" /\ req[p].withinLimit =>
              /\ holder[ClientLock(req[p].client)] = p
              /\ Cardinality(FutureOf(appointments, req[p].client, req[p].now)) < MaxFuture

ClientInv == DayInv /\ Decided /\ ClientCounted

LEMMA DecidedNext == Typed /\ Decided /\ [Next]_vars => Decided'
  <1> SUFFICES ASSUME Typed, Decided, [Next]_vars, NEW q \in Sessions, phase'[q] = "checked"
               PROVE  /\ req'[q].op = "book" => req'[q].winSeen = "open" /\ req'[q].withinLimit
                      /\ req'[q].op \in {"cancel_my", "cancel_admin"} \cup Moving =>
                            req'[q].winSeen = "booked"
                      /\ req'[q].op \in Moving => req'[q].toSeen = "open"
    BY DEF Decided
  <1>1. CASE Leaves(q) BY <1>1 DEF Leaves
  <1>2. CASE Stays(q) BY <1>2 DEF Stays, Decided
  <1>3. CASE Check(q)
    <2>1. req' = req /\ Accepts(req[q]) BY <1>3 DEF Check
    <2> QED BY <2>1 DEF Accepts, BookAccepts, CancelAccepts, RescheduleAccepts, Moving
  <1>4. CASE Arrive(q)
    <2>1. PICK r : Begin(q, r) BY <1>4, ArriveReads
    <2> QED BY <2>1 DEF Begin, Typed, TypeOK
  <1>5. CASE Lock(q) BY <1>5 DEF Lock
  <1> QED BY <1>1, <1>2, <1>3, <1>4, <1>5, SessionSteps

LEMMA FutureFinite ==
  ASSUME NEW rows, NEW c, NEW now
  PROVE  IsFiniteSet(FutureOf(rows, c, now)) /\ Cardinality(FutureOf(rows, c, now)) \in Nat
  <1>1. IsFiniteSet(Appointments) BY BookingAssumption
  <1>2. FutureOf(rows, c, now) \subseteq Appointments BY DEF FutureOf, InStatus
  <1>3. IsFiniteSet(FutureOf(rows, c, now)) BY <1>1, <1>2, FS_Subset
  <1> QED BY <1>3, FS_CardinalityType

\* A commit adds no future visit to a client whose row its session does not hold.
LEMMA ClientsUntouched ==
  ASSUME DayInv, NEW p \in Sessions, Commits(p), NEW c \in Clients,
         holder[ClientLock(c)] # p, NEW now
  PROVE  FutureOf(appointments', c, now) \subseteq FutureOf(appointments, c, now)
  <1> DEFINE r == req[p]
             A == FutureOf(appointments, c, now)
             B == FutureOf(appointments', c, now)
  <1>1. phase[p] = "checked" BY CommitsFinish
  <1>2. r.op \in {"book", "confirm"} \cup Moving => holder[ClientLock(r.client)] = p
    BY <1>1, CheckedHoldsAll DEF DayInv
  <1>3. /\ r.op = "confirm" =>
              r.app \in Appointments /\ appointments[r.app].status = "confirmed"
        /\ r.op = "confirm" => appointments[r.app] \in AppointmentRow
    BY <1>1 DEF DayInv, Typed, TypeOK, RequestsComplete, ChecksStillHold
  <1>4. KeepsRows \/ Writes(r) BY CommitWrites DEF DayInv, KeepsRows
  <1> HIDE DEF r
  <1>5. CASE KeepsRows BY <1>5 DEF KeepsRows, FutureOf, InStatus
  <1>6. CASE Books(r)
    <2>1. PICK a \in Appointments : NewVisit(r, r.win, None, a) /\ OnlyChanges({a})
      BY <1>6 DEF Books
    <2>2. r.client # c BY <1>2, <1>6 DEF Books
    <2> QED BY <2>1, <2>2 DEF NewVisit, OnlyChanges, FutureOf, InStatus
  <1>7. CASE Ends(r)
    BY <1>7 DEF Ends, OnlyChanges, FutureOf, InStatus, EndedStatuses, ActiveStatuses
  <1>8. CASE Confirms(r)
    <2>1. /\ appointments'[r.app].client = appointments[r.app].client
          /\ appointments'[r.app].window = appointments[r.app].window
      BY <1>3, <1>8 DEF Confirms, AppointmentRow
    <2> QED BY <1>3, <1>8, <2>1 DEF Confirms, OnlyChanges, FutureOf, InStatus, ActiveStatuses
  <1>9. CASE Moves(r)
    <2>1. PICK a \in Appointments : NewVisit(r, r.to, r.app, a) /\ OnlyChanges({a, r.app})
      BY <1>9 DEF Moves
    <2>2. r.client # c BY <1>2, <1>9 DEF Moves
    <2>3. appointments'[r.app].status \notin ActiveStatuses
      BY <1>9 DEF Moves, ActiveStatuses
    <2> QED BY <2>1, <2>2, <2>3 DEF NewVisit, OnlyChanges, FutureOf, InStatus
  <1>10. CASE SetsWindow(r) BY <1>10 DEF SetsWindow, Unchanged, FutureOf, InStatus
  <1> QED BY <1>4, <1>5, <1>6, <1>7, <1>8, <1>9, <1>10 DEF Writes

LEMMA ClientCountedNext == ClientInv /\ [Next]_vars => ClientCounted'
  <1> SUFFICES ASSUME ClientInv, [Next]_vars, NEW q \in Sessions
               PROVE  /\ req'[q].now <= clock'
                      /\ req'[q].op = "book" /\ req'[q].withinLimit =>
                            /\ holder'[ClientLock(req'[q].client)] = q
                            /\ Cardinality(FutureOf(appointments', req'[q].client, req'[q].now))
                                 < MaxFuture
    BY DEF ClientCounted
  <1>1. /\ Typed /\ DayInv /\ ClientCounted
        /\ req \in [Sessions -> Request] /\ clock \in Nat
        /\ holder \in [Locks -> Sessions \cup {None}]
        /\ MaxFuture \in Nat /\ None \notin Sessions
    BY BookingAssumption DEF ClientInv, DayInv, Typed, TypeOK
  <1>2. clock' \in Nat /\ clock' >= clock BY <1>1, SessionSteps
  <1>3. req[q].now \in Nat /\ req[q].now <= clock BY <1>1 DEF ClientCounted, Request
  <1>4. req[q].op = "book" => req[q].client \in Clients
    BY <1>1 DEF Typed, RequestsComplete
  <1>5. CASE Leaves(q)
    <2>1. req'[q].now = 0 /\ req'[q].op = "none" BY <1>5 DEF Leaves, NoRequest
    <2> QED BY <1>2, <2>1
  <1>6. CASE Stays(q)
    <2>1. req'[q] = req[q] BY <1>6 DEF Stays
    <2>2. ASSUME req[q].op = "book", req[q].withinLimit
          PROVE  /\ holder'[ClientLock(req[q].client)] = q
                 /\ Cardinality(FutureOf(appointments', req[q].client, req[q].now)) < MaxFuture
      <3> DEFINE c == req[q].client
      <3>1. /\ c \in Clients /\ holder[ClientLock(c)] = q
            /\ Cardinality(FutureOf(appointments, c, req[q].now)) < MaxFuture
        BY <1>1, <1>4, <2>2 DEF ClientCounted
      <3>2. ClientLock(c) \in Locks BY <3>1 DEF ClientLock, Locks
      <3>3. holder'[ClientLock(c)] = q BY <1>6, <3>1, <3>2 DEF Stays
      <3>4. FutureOf(appointments', c, req[q].now) \subseteq FutureOf(appointments, c, req[q].now)
        <4>1. CASE KeepsRows BY <4>1 DEF KeepsRows, FutureOf, InStatus
        <4>2. ASSUME NEW p \in Sessions, Commits(p)
              PROVE  FutureOf(appointments', c, req[q].now)
                       \subseteq FutureOf(appointments, c, req[q].now)
          <5>1. p # q BY <1>1, <1>6, <4>2, StaysNotCommits
          <5> QED BY <1>1, <3>1, <4>2, <5>1, ClientsUntouched
        <4> QED BY <1>1, <4>1, <4>2, SessionSteps
      <3> HIDE DEF c
      <3>5. /\ Cardinality(FutureOf(appointments', c, req[q].now))
                 <= Cardinality(FutureOf(appointments, c, req[q].now))
            /\ Cardinality(FutureOf(appointments', c, req[q].now)) \in Nat
            /\ Cardinality(FutureOf(appointments, c, req[q].now)) \in Nat
        BY <3>4, FutureFinite, FS_Subset
      <3>6. Cardinality(FutureOf(appointments', c, req[q].now)) < MaxFuture
        BY <1>1, <3>1, <3>5
      <3> QED BY <3>3, <3>6 DEF c
    <2> QED BY <1>1, <1>2, <1>3, <2>1, <2>2
  <1>7. CASE KeepsRows /\ clock' = clock /\ Check(q)
    <2>1. req' = req /\ holder' = holder BY <1>7 DEF Check
    <2> QED BY <1>1, <1>3, <1>7, <2>1 DEF ClientCounted, KeepsRows
  <1>8. CASE KeepsRows /\ clock' = clock /\ Lock(q)
    <2> DEFINE l == WantedLock(q)
               c == req[q].client
               r == [req[q] EXCEPT !.withinLimit = BelowLimit(c, req[q].now)]
    <2>1. holder[l] = None /\ holder' = [holder EXCEPT ![l] = q] BY <1>8 DEF Lock
    <2>2. CASE req[q].op = "book" /\ l = ClientLock(c)
      <3>1. req'[q] = r BY <1>1, <1>8, <2>2 DEF Lock
      <3>2. /\ r.now = req[q].now /\ r.client = c /\ r.op = req[q].op
            /\ r.withinLimit = BelowLimit(c, req[q].now)
        BY <1>1 DEF Request
      <3>3. l \in Locks BY <1>4, <2>2 DEF ClientLock, Locks
      <3>4. holder'[ClientLock(c)] = q BY <1>1, <2>1, <2>2, <3>3
      <3> HIDE DEF r, c, l
      <3> QED BY <1>3, <1>8, <3>1, <3>2, <3>4 DEF BelowLimit, KeepsRows
    <2>3. CASE ~(req[q].op = "book" /\ l = ClientLock(c))
      <3>1. req' = req BY <1>8, <2>3 DEF Lock
      <3>2. \A k \in Locks : holder[k] = q => holder'[k] = q BY <1>1, <2>1
      <3>3. req[q].op = "book" => ClientLock(c) \in Locks BY <1>4 DEF ClientLock, Locks
      <3> QED BY <1>1, <1>3, <1>8, <3>1, <3>2, <3>3 DEF ClientCounted, KeepsRows
    <2> QED BY <2>2, <2>3
  <1>9. CASE KeepsRows /\ clock' = clock /\ Arrive(q)
    <2>1. req'[q].now = clock /\ ~req'[q].withinLimit BY <1>1, <1>9, Arrives
    <2> QED BY <1>1, <1>9, <2>1
  <1> QED BY <1>1, <1>5, <1>6, <1>7, <1>8, <1>9, SessionSteps
\* A visit that a booking adds is one more than the client had when counted.
LEMMA BookingWithinLimit ==
  ASSUME ClientInv, NEW p \in Sessions, Commits(p), NEW a \in Appointments, IsNew(a),
         appointments'[a].from = None
  PROVE  Cardinality(FutureOf(appointments', appointments'[a].client, clock)) <= MaxFuture
  <1> DEFINE r == req[p]
  <1>1. /\ Typed /\ clock \in Nat /\ MaxFuture \in Nat /\ MaxFuture # 0
        /\ StartAt \in [Windows -> Nat] /\ None \notin Appointments
    BY BookingAssumption DEF ClientInv, DayInv, Typed, TypeOK
  <1>2. phase[p] = "checked" BY CommitsFinish
  <1>3. appointments[a].status = "absent" /\ appointments'[a].status # "absent" BY DEF IsNew
  <1>4. KeepsRows \/ Writes(r) BY <1>1, CommitWrites DEF KeepsRows
  <1>5. r.op \in {"confirm"} \cup Ending \cup Moving =>
           r.app \in Appointments /\ appointments[r.app].status # "absent"
    BY <1>1 DEF Typed, RequestsComplete, Ending, Moving
  <1>6. /\ r.now \in Nat /\ r.now <= clock
        /\ r.op = "book" => Cardinality(FutureOf(appointments, r.client, r.now)) < MaxFuture
    BY <1>2 DEF ClientInv, Decided, ClientCounted, DayInv, Typed, TypeOK, Request
  <1> HIDE DEF r
  <1>7. CASE KeepsRows BY <1>3, <1>7 DEF KeepsRows
  <1>8. CASE Ends(r) \/ Confirms(r) \/ SetsWindow(r)
    BY <1>3, <1>5, <1>8 DEF Ends, Confirms, SetsWindow, Unchanged, OnlyChanges
  <1>9. CASE Moves(r)
    <2>1. PICK b \in Appointments : NewVisit(r, r.to, r.app, b) /\ OnlyChanges({b, r.app})
      BY <1>9 DEF Moves
    <2>2. a # r.app /\ r.app \in Appointments BY <1>3, <1>5, <1>9 DEF Moves
    <2>3. a = b BY <1>3, <2>1, <2>2 DEF OnlyChanges
    <2> QED BY <1>1, <2>1, <2>2, <2>3 DEF NewVisit
  <1>10. CASE Books(r)
    <2>1. PICK b \in Appointments : NewVisit(r, r.win, None, b) /\ OnlyChanges({b})
      BY <1>10 DEF Books
    <2>2. a = b BY <1>3, <2>1 DEF OnlyChanges
    <2>3. appointments'[a].client = r.client BY <2>1, <2>2 DEF NewVisit
    <2> DEFINE A == FutureOf(appointments, r.client, r.now)
               B == FutureOf(appointments', r.client, clock)
    <2>4. B \subseteq A \cup {a}
      BY <1>1, <1>6, <2>1, <2>2 DEF OnlyChanges, FutureOf, InStatus
    <2>5. Cardinality(A) < MaxFuture BY <1>6, <1>10 DEF Books
    <2>6. IsFiniteSet(A) /\ Cardinality(A) \in Nat /\ Cardinality(B) \in Nat BY FutureFinite
    <2> HIDE DEF A, B
    <2>7. /\ IsFiniteSet(A \cup {a})
          /\ Cardinality(A \cup {a}) = IF a \in A THEN Cardinality(A) ELSE Cardinality(A) + 1
      BY <2>6, FS_AddElement
    <2>8. Cardinality(B) <= Cardinality(A \cup {a}) BY <2>4, <2>7, FS_Subset
    <2>9. Cardinality(B) <= MaxFuture BY <1>1, <2>5, <2>6, <2>7, <2>8
    <2> QED BY <2>3, <2>9 DEF B
  <1> QED BY <1>4, <1>7, <1>8, <1>9, <1>10 DEF Writes

LEMMA DayInvAlways ==
  /\ Init => DayInv
  /\ DayInv /\ [Next]_vars => DayInv'
  <1>1. Init => DayInv
    BY TypedInit, OwnedInit DEF Init, DayInv, ChecksStillHold
  <1> QED BY <1>1, TypedNext, OwnedNext, ChecksNext DEF DayInv

LEMMA ClientInvAlways ==
  /\ Init => ClientInv
  /\ ClientInv /\ [Next]_vars => ClientInv'
  <1>1. Init => Decided /\ ClientCounted
    BY DEF Init, Decided, ClientCounted, NoRequest
  <1> QED BY <1>1, DayInvAlways, DecidedNext, ClientCountedNext DEF ClientInv, DayInv

\* No booking takes a client over the limit of future visits, though bookings of
\* one client may run at once and for different days: the client's row is locked
\* before the count (BookingService._enforce_future_booking_limit).
THEOREM FutureLimit == Spec => FutureLimitHeld
  <1>1. ClientInv /\ [Next]_vars =>
          [\A a \in Appointments : IsNew(a) /\ appointments'[a].from = None =>
             Cardinality(FutureOf(appointments', appointments'[a].client, clock))
                <= MaxFuture]_vars
    <2> SUFFICES ASSUME ClientInv, [Next]_vars, NEW a \in Appointments, IsNew(a),
                        appointments'[a].from = None
                 PROVE  Cardinality(FutureOf(appointments', appointments'[a].client, clock))
                          <= MaxFuture
      OBVIOUS
    <2>1. ~KeepsRows BY DEF IsNew, KeepsRows
    <2>2. PICK p \in Sessions : Commits(p) BY <2>1, SessionSteps DEF ClientInv, DayInv
    <2> QED BY <2>2, BookingWithinLimit
  <1> QED BY <1>1, ClientInvAlways, PTL DEF Spec, FutureLimitHeld
-----------------------------------------------------------------------------
(* The limit of windows.  Every request that can make a window active holds *)
(* the advisory lock of its day from before it counts until it commits.     *)

WindowsCounted ==
    \A p \in Sessions : phase[p] = "checked" /\ req[p].op \in Opening =>
        Cardinality(OtherActiveWindows(DayOf[req[p].win], req[p].win)) < MaxPerDay

WindowInv == Typed /\ Owned /\ WindowsCounted

LEMMA ActiveFinite ==
  ASSUME NEW S, S \subseteq Windows
  PROVE  IsFiniteSet(S) /\ Cardinality(S) \in Nat
  BY FiniteWindows, FS_Subset, FS_CardinalityType

\* A commit makes no window active in a day whose lock its session does not hold.
LEMMA WindowsUntouched ==
  ASSUME Typed, Owned, NEW p \in Sessions, Commits(p), NEW x \in Windows,
         holder[DateLock(DayOf[x])] # p, windows'[x] \in ActiveWindows
  PROVE  windows[x] \in ActiveWindows
  <1> DEFINE r == req[p]
  <1>1. phase[p] = "checked" BY CommitsFinish
  <1>2. /\ \A d \in DaysOf(r) : holder[DateLock(d)] = p
        /\ r.op \in Opening => holder[DateLock(DayOf[r.win])] = p
    BY <1>1, CheckedHoldsAll
  <1>3. KeepsRows \/ Writes(r) BY CommitWrites DEF KeepsRows
  <1>4. r.op # "none" => r.win \in Windows BY DEF Typed, RequestsComplete
  <1> HIDE DEF r
  <1>5. x = r.win => r.op \notin {"book"} \cup Ending \cup Moving \cup Opening
    <2>1. r.op \in {"book"} \cup Ending \cup Moving => DayOf[r.win] \in DaysOf(r) BY DEF DaysOf
    <2> QED BY <1>2, <2>1
  <1>6. r.op \in Moving => x # r.to BY <1>2 DEF DaysOf
  <1>7. CASE KeepsRows BY <1>7 DEF KeepsRows
  <1>8. CASE Books(r)
    <2>1. x # r.win BY <1>5, <1>8 DEF Books
    <2> QED BY <1>8, <2>1 DEF Books, OnlyWindows
  <1>9. CASE Ends(r)
    <2>1. x # r.win BY <1>5, <1>9 DEF Ends, Ending
    <2> QED BY <1>9, <2>1 DEF Ends, OnlyWindows
  <1>10. CASE Confirms(r) BY <1>10 DEF Confirms
  <1>11. CASE Moves(r)
    <2>1. x # r.win /\ x # r.to BY <1>5, <1>6, <1>11 DEF Moves, Moving
    <2> QED BY <1>11, <2>1 DEF Moves, OnlyWindows
  <1>12. CASE SetsWindow(r)
    BY <1>5, <1>12 DEF SetsWindow, OnlyWindows, Opening, ActiveWindows
  <1> QED BY <1>3, <1>7, <1>8, <1>9, <1>10, <1>11, <1>12 DEF Writes

LEMMA WindowsCountedNext == WindowInv /\ [Next]_vars => WindowsCounted'
  <1> SUFFICES ASSUME WindowInv, [Next]_vars, NEW q \in Sessions,
                      phase'[q] = "checked", req'[q].op \in Opening
               PROVE  Cardinality({x \in Windows \ {req'[q].win} :
                         DayOf[x] = DayOf[req'[q].win] /\ windows'[x] \in ActiveWindows}) < MaxPerDay
    BY DEF WindowsCounted, OtherActiveWindows
  <1>1. /\ Typed /\ Owned /\ WindowsCounted /\ MaxPerDay \in Nat
        /\ phase \in [Sessions -> {"idle", "locking", "checked"}]
    BY BookingAssumption DEF WindowInv, Typed, TypeOK
  <1>2. CASE Leaves(q) BY <1>2 DEF Leaves
  <1>3. CASE Stays(q)
    <2> DEFINE w == req[q].win
               A == OtherActiveWindows(DayOf[w], w)
               B == {x \in Windows \ {w} : DayOf[x] = DayOf[w] /\ windows'[x] \in ActiveWindows}
    <2>1. req'[q] = req[q] /\ phase[q] = "checked" /\ req[q].op \in Opening
      BY <1>3 DEF Stays
    <2>2. Cardinality(A) < MaxPerDay BY <1>1, <2>1 DEF WindowsCounted
    <2>3. holder[DateLock(DayOf[w])] = q BY <1>1, <2>1, CheckedHoldsAll
    <2>4. B \subseteq A
      <3>1. CASE KeepsRows BY <3>1 DEF KeepsRows, OtherActiveWindows
      <3>2. ASSUME NEW p \in Sessions, Commits(p) PROVE B \subseteq A
        <4>1. p # q BY <1>1, <1>3, <3>2, StaysNotCommits
        <4>2. \A x \in B : windows[x] \in ActiveWindows
          BY <1>1, <2>3, <3>2, <4>1, WindowsUntouched
        <4> QED BY <4>2 DEF OtherActiveWindows
      <3> QED BY <1>1, <3>1, <3>2, SessionSteps
    <2>5. A \subseteq Windows /\ B \subseteq Windows BY DEF OtherActiveWindows
    <2> HIDE DEF A, B
    <2>6. Cardinality(B) <= Cardinality(A) /\ Cardinality(A) \in Nat /\ Cardinality(B) \in Nat
      BY <2>4, <2>5, ActiveFinite, FS_Subset
    <2>7. Cardinality(B) < MaxPerDay BY <1>1, <2>2, <2>6
    <2> QED BY <2>1, <2>7 DEF B
  <1>4. CASE KeepsRows /\ Check(q)
    <2>1. req' = req /\ Accepts(req[q]) /\ windows' = windows BY <1>4 DEF Check, KeepsRows
    <2>2. RoomInDay(req[q])
      BY <2>1 DEF Accepts, ReopenAccepts, CreateAccepts, Opening
    <2> QED BY <2>1, <2>2 DEF RoomInDay, OtherActiveWindows
  <1>5. CASE Arrive(q)
    <2>1. PICK r : Begin(q, r) BY <1>5, ArriveReads
    <2> QED BY <1>1, <2>1 DEF Begin
  <1>6. CASE Lock(q) BY <1>1, <1>6 DEF Lock
  <1> QED BY <1>1, <1>2, <1>3, <1>4, <1>5, <1>6, SessionSteps

LEMMA WindowInvAlways ==
  /\ Init => WindowInv
  /\ WindowInv /\ [Next]_vars => WindowInv'
  <1>1. Init => WindowsCounted BY DEF Init, WindowsCounted
  <1> QED BY <1>1, TypedInit, TypedNext, OwnedInit, OwnedNext, WindowsCountedNext DEF WindowInv

\* No window is created or opened again over the limit of its day, whatever
\* bookings, cancellations and other windows of the day commit between the count
\* and the commit (AvailabilityService.create_window, reopen_window).
THEOREM WindowLimit == Spec => WindowLimitHeld
  <1> DEFINE Active(d) == {x \in Windows : DayOf[x] = d /\ windows'[x] \in ActiveWindows}
  <1>1. WindowInv /\ [Next]_vars =>
          [\A p \in Sessions : \A w \in Windows :
             (req[p].op \in {"create", "reopen"} /\ CommitWindow(p) /\ w = req[p].win) =>
                Cardinality(Active(DayOf[w])) <= MaxPerDay]_vars
    <2> SUFFICES ASSUME WindowInv, NEW p \in Sessions, NEW w \in Windows,
                        req[p].op \in Opening, CommitWindow(p), w = req[p].win
                 PROVE  Cardinality(Active(DayOf[w])) <= MaxPerDay
      BY DEF Opening
    <2> DEFINE A == OtherActiveWindows(DayOf[w], w)
               B == Active(DayOf[w])
    <2>1. phase[p] = "checked" BY DEF CommitWindow, Committing
    <2>2. Cardinality(A) < MaxPerDay BY <2>1 DEF WindowInv, WindowsCounted
    <2>3. \A x \in Windows \ {w} : windows'[x] = windows[x]
      BY DEF CommitWindow, Commit, WindowInv, Typed, TypeOK
    <2>4. B \subseteq A \cup {w} BY <2>3 DEF OtherActiveWindows
    <2>5. A \subseteq Windows /\ B \subseteq Windows BY DEF OtherActiveWindows
    <2> HIDE DEF A, B
    <2>6. IsFiniteSet(A) /\ Cardinality(A) \in Nat /\ Cardinality(B) \in Nat
      BY <2>5, ActiveFinite
    <2>7. /\ IsFiniteSet(A \cup {w})
          /\ Cardinality(A \cup {w}) = IF w \in A THEN Cardinality(A) ELSE Cardinality(A) + 1
      BY <2>6, FS_AddElement
    <2>8. Cardinality(B) <= Cardinality(A \cup {w}) BY <2>4, <2>7, FS_Subset
    <2>9. MaxPerDay \in Nat BY BookingAssumption
    <2>10. Cardinality(B) <= MaxPerDay BY <2>2, <2>6, <2>7, <2>8, <2>9
    <2> QED BY <2>10 DEF B
  <1> QED BY <1>1, WindowInvAlways, PTL DEF Spec, WindowLimitHeld
-----------------------------------------------------------------------------
(* A booked window has a live visit.  What could break it is a request that *)
(* ends a visit and writes its window from a status read before the locks.  *)

\* A completion that read the window closed finds it still not booked: only a
\* new visit books it, and the index lets none in while this one occupies it.
SeenClosed ==
    \A p \in Sessions :
        (/\ req[p].op \in {"complete", "no_show"} /\ req[p].winSeen = "closed"
         /\ appointments[req[p].app].status \in ActiveStatuses)
        => windows[req[p].win] # "booked"

VisitInv == DayInv /\ Decided /\ SeenClosed /\ BookedWindowHasVisit

\* What a commit does to the visits and to the windows that become booked.
LEMMA VisitEffects ==
  ASSUME DayInv, Decided, NEW p \in Sessions, Commits(p)
  PROVE  /\ \A a \in Appointments : appointments[a].status # "absent" =>
               /\ appointments'[a].window = appointments[a].window
               /\ appointments'[a].status \in ActiveStatuses =>
                     appointments[a].status \in ActiveStatuses
         /\ \A w \in Windows : windows'[w] = "booked" /\ windows[w] # "booked" =>
               /\ OneOccupant(appointments')
               /\ \E a \in Appointments : /\ appointments[a].status = "absent"
                                          /\ appointments'[a].status \in ActiveStatuses
                                          /\ appointments'[a].window = w
         /\ \A a \in Appointments :
               (/\ appointments[a].status \in ActiveStatuses
                /\ appointments'[a].status \notin ActiveStatuses) =>
               /\ req[p].op \in Ending \cup Moving /\ a = req[p].app
               /\ \E new \in {"open", "closed"} :
                     /\ windows'[req[p].win]
                           = OrmWrite(windows[req[p].win], req[p].winSeen, new)
                     /\ req[p].op \in {"complete", "no_show"} => new = "closed"
  <1> DEFINE r == req[p]
             Kept1(a) == /\ appointments'[a].window = appointments[a].window
                         /\ appointments'[a].status \in ActiveStatuses =>
                               appointments[a].status \in ActiveStatuses
             Taken(w) == \E a \in Appointments : /\ appointments[a].status = "absent"
                                                 /\ appointments'[a].status \in ActiveStatuses
                                                 /\ appointments'[a].window = w
             Released ==
                \E new \in {"open", "closed"} :
                   /\ windows'[r.win] = OrmWrite(windows[r.win], r.winSeen, new)
                   /\ r.op \in {"complete", "no_show"} => new = "closed"
             Lost(a) == /\ appointments[a].status \in ActiveStatuses
                        /\ appointments'[a].status \notin ActiveStatuses
             Goal == /\ \A a \in Appointments : appointments[a].status # "absent" => Kept1(a)
                     /\ \A w \in Windows : windows'[w] = "booked" /\ windows[w] # "booked" =>
                           OneOccupant(appointments') /\ Taken(w)
                     /\ \A a \in Appointments : Lost(a) =>
                           r.op \in Ending \cup Moving /\ a = r.app /\ Released
  <1>1. phase[p] = "checked" BY CommitsFinish
  <1>2. /\ r.op # "none" => r.win \in Windows
        /\ r.op \in {"confirm"} \cup Ending \cup Moving =>
              /\ r.app \in Appointments /\ appointments[r.app] \in AppointmentRow
              /\ appointments[r.app].status # "absent" /\ appointments[r.app].window = r.win
        /\ r.op \in Moving => r.to \in Windows
    BY DEF DayInv, Typed, TypeOK, RequestsComplete, Ending, Moving
  <1>3. /\ r.op = "confirm" => appointments[r.app].status \in ActiveStatuses
        /\ r.op \in Moving => r.winSeen = "booked" /\ r.toSeen = "open"
    BY <1>1 DEF DayInv, ChecksStillHold, Decided, ActiveStatuses
  <1>4. KeepsRows \/ (OneOccupant(appointments') /\ Writes(r))
    BY CommitWrites DEF DayInv, KeepsRows
  <1>5. "absent" \notin ActiveStatuses /\ "rescheduled" \notin ActiveStatuses
        /\ "confirmed" \in ActiveStatuses /\ "client_confirmed" \in ActiveStatuses
        /\ EndedStatuses \cap ActiveStatuses = {}
    BY DEF ActiveStatuses, EndedStatuses
  <1> SUFFICES Goal OBVIOUS
  <1> HIDE DEF r
  <1>6. CASE KeepsRows BY <1>6 DEF KeepsRows
  <1>7. CASE OneOccupant(appointments') /\ Books(r)
    <2>1. PICK b \in Appointments : NewVisit(r, r.win, None, b) /\ OnlyChanges({b})
      BY <1>7 DEF Books
    <2>2. appointments[b].status = "absent" /\ appointments'[b].status = "confirmed"
          /\ appointments'[b].window = r.win
      BY <2>1 DEF NewVisit, Added
    <2>3. \A a \in Appointments : a # b => appointments'[a] = appointments[a]
      BY <2>1 DEF OnlyChanges
    <2>4. \A w \in Windows : w # r.win => windows'[w] = windows[w]
      BY <1>7 DEF Books, OnlyWindows
    <2> QED BY <1>5, <1>7, <2>2, <2>3, <2>4
  <1>8. CASE OneOccupant(appointments') /\ Ends(r)
    <2>1. r.op \in Ending /\ Released BY <1>8 DEF Ends
    <2>2. \A a \in Appointments : a # r.app => appointments'[a] = appointments[a]
      BY <1>8 DEF Ends, OnlyChanges
    <2>3. \A w \in Windows : windows'[w] = "booked" => windows[w] = "booked"
      BY <1>8, <2>1 DEF Ends, OnlyWindows, OrmWrite
    <2>4. appointments'[r.app].status \notin ActiveStatuses /\ appointments'[r.app].window = r.win
      BY <1>5, <1>8 DEF Ends
    <2> HIDE DEF Released
    <2> QED BY <1>2, <2>1, <2>2, <2>3, <2>4
  <1>9. CASE OneOccupant(appointments') /\ Confirms(r)
    <2>1. /\ appointments'[r.app].status = "client_confirmed"
          /\ appointments'[r.app].window = appointments[r.app].window
      BY <1>2, <1>9 DEF Confirms, AppointmentRow
    <2>2. \A a \in Appointments : a # r.app => appointments'[a] = appointments[a]
      BY <1>9 DEF Confirms, OnlyChanges
    <2>3. windows' = windows /\ r.op = "confirm" BY <1>9 DEF Confirms
    <2> QED BY <1>3, <1>5, <2>1, <2>2, <2>3
  <1>10. CASE OneOccupant(appointments') /\ Moves(r)
    <2>1. PICK b \in Appointments : NewVisit(r, r.to, r.app, b) /\ OnlyChanges({b, r.app})
      BY <1>10 DEF Moves
    <2>2. appointments[b].status = "absent" /\ appointments'[b].status = "confirmed"
          /\ appointments'[b].window = r.to
      BY <2>1 DEF NewVisit, Added
    <2>3. \A a \in Appointments : a # b /\ a # r.app => appointments'[a] = appointments[a]
      BY <2>1 DEF OnlyChanges
    <2>4. r.op \in Moving /\ Released BY <1>10 DEF Moves, Moving
    <2>5. \A w \in Windows : w # r.to /\ windows'[w] = "booked" => windows[w] = "booked"
      BY <1>10, <2>4 DEF Moves, OnlyWindows, OrmWrite
    <2>6. appointments'[r.app].status = "rescheduled" /\ appointments'[r.app].window = r.win
      BY <1>10 DEF Moves
    <2> HIDE DEF Released
    <2> QED BY <1>2, <1>5, <1>10, <2>2, <2>3, <2>4, <2>5, <2>6
  <1>11. CASE SetsWindow(r)
    <2>1. \A w \in Windows : windows'[w] = "booked" => windows[w] = "booked"
      BY <1>11 DEF SetsWindow, OnlyWindows
    <2> QED BY <1>11, <2>1 DEF SetsWindow, Unchanged
  <1> QED BY <1>4, <1>6, <1>7, <1>8, <1>9, <1>10, <1>11 DEF Writes

LEMMA SeenClosedNext == VisitInv /\ [Next]_vars => SeenClosed'
  <1> SUFFICES ASSUME VisitInv, [Next]_vars, NEW q \in Sessions,
                      req'[q].op \in {"complete", "no_show"}, req'[q].winSeen = "closed",
                      appointments'[req'[q].app].status \in ActiveStatuses
               PROVE  windows'[req'[q].win] # "booked"
    BY DEF SeenClosed
  <1>1. /\ Typed /\ DayInv /\ Decided /\ SeenClosed
        /\ req \in [Sessions -> Request]
    BY DEF VisitInv, DayInv, Typed, TypeOK
  <1>2. CASE Leaves(q) BY <1>2 DEF Leaves, NoRequest
  <1>3. CASE KeepsRows /\ (Stays(q) \/ Check(q) \/ Lock(q))
    <2>1. /\ req'[q].op = req[q].op /\ req'[q].winSeen = req[q].winSeen
          /\ req'[q].app = req[q].app /\ req'[q].win = req[q].win
      <3>1. CASE Stays(q) \/ Check(q) BY <3>1 DEF Stays, Check
      <3>2. CASE Lock(q)
        <4> DEFINE b == BelowLimit(req[q].client, req[q].now)
        <4>1. req'[q] = req[q] \/ req'[q] = [req[q] EXCEPT !.withinLimit = b]
          BY <1>1, <3>2 DEF Lock
        <4> HIDE DEF b
        <4> QED BY <1>1, <4>1 DEF Request
      <3> QED BY <1>3, <3>1, <3>2
    <2> QED BY <1>1, <1>3, <2>1 DEF SeenClosed, KeepsRows
  <1>4. ASSUME Stays(q), NEW p \in Sessions, Commits(p) PROVE windows'[req'[q].win] # "booked"
    <2> DEFINE a == req[q].app
               w == req[q].win
    <2>1. /\ req'[q] = req[q] /\ req[q].op \in {"complete", "no_show"}
          /\ req[q].winSeen = "closed"
      BY <1>4 DEF Stays
    <2>2. /\ a \in Appointments /\ appointments[a].status # "absent"
          /\ appointments[a].window = w /\ w \in Windows
      BY <1>1, <2>1 DEF Typed, RequestsComplete
    <2>3. appointments'[a].window = w /\ appointments[a].status \in ActiveStatuses
          /\ appointments'[a].status \in ActiveStatuses
      BY <1>1, <1>4, <2>1, <2>2, VisitEffects
    <2>4. windows[w] # "booked" BY <1>1, <2>1, <2>3 DEF SeenClosed
    <2>5. ASSUME windows'[w] = "booked" PROVE FALSE
      <3>1. PICK b \in Appointments : /\ appointments[b].status = "absent"
                                      /\ appointments'[b].status \in ActiveStatuses
                                      /\ appointments'[b].window = w
        BY <1>1, <1>4, <2>2, <2>4, <2>5, VisitEffects
      <3>2. OneOccupant(appointments') BY <1>1, <1>4, <2>2, <2>4, <2>5, VisitEffects
      <3>3. a = b
        BY <2>2, <2>3, <3>1, <3>2 DEF OneOccupant, OnWindow, InStatus, CapacityStatuses
      <3> QED BY <2>2, <3>1, <3>3
    <2> QED BY <2>1, <2>5
  <1>5. CASE KeepsRows /\ Arrive(q)
    <2>1. req'[q].winSeen = windows[req'[q].win] BY <1>1, <1>5, Arrives DEF Ending
    <2> QED BY <1>5, <2>1 DEF KeepsRows
  <1> QED BY <1>1, <1>2, <1>3, <1>4, <1>5, SessionSteps

LEMMA BookedNext == VisitInv /\ [Next]_vars => BookedWindowHasVisit'
  <1> SUFFICES ASSUME VisitInv, [Next]_vars, NEW w \in Windows, windows'[w] = "booked"
               PROVE  \E a \in Appointments : /\ appointments'[a].status \in ActiveStatuses
                                              /\ appointments'[a].window = w
    BY DEF BookedWindowHasVisit, OnWindow, InStatus
  <1>1. /\ Typed /\ DayInv /\ Decided /\ SeenClosed /\ BookedWindowHasVisit
    BY DEF VisitInv, DayInv
  <1>2. windows[w] = "booked" => \E a \in Appointments : /\ appointments[a].status \in ActiveStatuses
                                                         /\ appointments[a].window = w
    BY <1>1 DEF BookedWindowHasVisit, OnWindow, InStatus
  <1>3. CASE KeepsRows BY <1>2, <1>3 DEF KeepsRows
  <1>4. ASSUME NEW p \in Sessions, Commits(p)
        PROVE  \E a \in Appointments : /\ appointments'[a].status \in ActiveStatuses
                                       /\ appointments'[a].window = w
    <2>1. CASE windows[w] # "booked" BY <1>1, <1>4, <2>1, VisitEffects
    <2>2. CASE windows[w] = "booked"
      <3>1. PICK a \in Appointments : /\ appointments[a].status \in ActiveStatuses
                                      /\ appointments[a].window = w
        BY <1>2, <2>2
      <3>2. appointments'[a].window = w
        BY <1>1, <1>4, <3>1, VisitEffects DEF ActiveStatuses
      <3>3. ASSUME appointments'[a].status \notin ActiveStatuses PROVE FALSE
        <4>1. /\ req[p].op \in Ending \cup Moving /\ a = req[p].app
              /\ \E new \in {"open", "closed"} :
                    /\ windows'[req[p].win]
                          = OrmWrite(windows[req[p].win], req[p].winSeen, new)
                    /\ req[p].op \in {"complete", "no_show"} => new = "closed"
          BY <1>1, <1>4, <3>1, <3>3, VisitEffects
        <4>2. req[p].win = w
          BY <1>1, <3>1, <4>1 DEF Typed, RequestsComplete, Ending, Moving
        <4>3. phase[p] = "checked" BY <1>4, CommitsFinish
        <4>4. CASE req[p].op \in {"cancel_my", "cancel_admin"} \cup Moving
          <5>1. req[p].winSeen = "booked" BY <1>1, <4>3, <4>4 DEF Decided
          <5> QED BY <4>1, <4>2, <5>1 DEF OrmWrite
        <4>5. CASE req[p].op \in {"complete", "no_show"}
          <5>1. req[p].winSeen = "closed" BY <4>1, <4>2, <4>5 DEF OrmWrite
          <5> QED BY <1>1, <2>2, <3>1, <4>1, <4>2, <4>5, <5>1 DEF SeenClosed
        <4> QED BY <4>1, <4>4, <4>5 DEF Ending
      <3> QED BY <3>2, <3>3
    <2> QED BY <2>1, <2>2
  <1> QED BY <1>1, <1>3, <1>4, SessionSteps

LEMMA VisitInvAlways ==
  /\ Init => VisitInv
  /\ VisitInv /\ [Next]_vars => VisitInv'
  <1>1. Init => Decided /\ SeenClosed /\ BookedWindowHasVisit
    BY DEF Init, Decided, SeenClosed, BookedWindowHasVisit, NoRequest
  <1>2. VisitInv /\ [Next]_vars => Decided'
    BY DecidedNext DEF VisitInv, DayInv
  <1> QED BY <1>1, <1>2, DayInvAlways, SeenClosedNext, BookedNext DEF VisitInv

\* A booked window is never without its visit, though cancellations, completions
\* and reschedules write the window from a status they read before their locks
\* (AppointmentService, RescheduleService._reschedule).
THEOREM BookedHasVisit == Spec => []BookedWindowHasVisit
  <1>1. VisitInv => BookedWindowHasVisit BY DEF VisitInv
  <1> QED BY <1>1, VisitInvAlways, PTL DEF Spec
-----------------------------------------------------------------------------
(* A live visit keeps its window booked, as long as nobody cancels or moves *)
(* a visit; with cancellations the run stale_cancel shows that it may not.  *)

\* Windows are never deleted, and what refers to one finds it.
WindowsExist ==
    /\ \A a \in Appointments : appointments[a].status # "absent" =>
          windows[appointments[a].window] # "absent"
    /\ \A p \in Sessions :
          /\ req[p].op \notin {"none", "create"} => windows[req[p].win] # "absent"
          /\ req[p].op \in Moving => windows[req[p].to] # "absent"

\* The status on which a request about a window was accepted is still there.
WindowAsChecked ==
    \A p \in Sessions : phase[p] = "checked" =>
        /\ req[p].op = "close" => windows[req[p].win] = "open"
        /\ req[p].op = "reopen" => windows[req[p].win] = "closed"
        /\ req[p].op = "create" => windows[req[p].win] = "absent"

CalendarInv == DayInv /\ Decided /\ WindowsExist /\ WindowAsChecked

\* A commit takes no window away.
LEMMA WindowsStay ==
  ASSUME Typed, NEW p \in Sessions, Commits(p), NEW w \in Windows, windows[w] # "absent"
  PROVE  windows'[w] # "absent"
  <1>1. KeepsRows \/ Writes(req[p]) BY CommitWrites DEF KeepsRows
  <1>2. CASE KeepsRows BY <1>2 DEF KeepsRows
  <1>3. CASE Books(req[p]) BY <1>3 DEF Books, OnlyWindows, OrmWrite
  <1>4. CASE Ends(req[p]) BY <1>4 DEF Ends, OnlyWindows, OrmWrite
  <1>5. CASE Confirms(req[p]) BY <1>5 DEF Confirms
  <1>6. CASE Moves(req[p]) BY <1>6 DEF Moves, OnlyWindows, OrmWrite
  <1>7. CASE SetsWindow(req[p]) BY <1>7 DEF SetsWindow, OnlyWindows
  <1> QED BY <1>1, <1>2, <1>3, <1>4, <1>5, <1>6, <1>7 DEF Writes

LEMMA WindowsExistNext == DayInv /\ Decided /\ WindowsExist /\ [Next]_vars => WindowsExist'
  <1> SUFFICES ASSUME DayInv, Decided, WindowsExist, [Next]_vars PROVE WindowsExist'
    OBVIOUS
  <1>1. Typed /\ req \in [Sessions -> Request] BY DEF DayInv, Typed, TypeOK
  <1>2. Typed' BY <1>1, TypedNext
  <1>3. \A w \in Windows : windows[w] # "absent" => windows'[w] # "absent"
    <2>1. CASE KeepsRows BY <2>1 DEF KeepsRows
    <2>2. ASSUME NEW p \in Sessions, Commits(p)
          PROVE  \A w \in Windows : windows[w] # "absent" => windows'[w] # "absent"
      BY <1>1, <2>2, WindowsStay
    <2> QED BY <1>1, <2>1, <2>2, SessionSteps
  <1>4. ASSUME NEW a \in Appointments, appointments'[a].status # "absent"
        PROVE  windows'[appointments'[a].window] # "absent"
    <2>1. CASE KeepsRows BY <1>4, <2>1 DEF KeepsRows, WindowsExist
    <2>2. ASSUME NEW p \in Sessions, Commits(p), ~KeepsRows
          PROVE  windows'[appointments'[a].window] # "absent"
      <3>1. CASE appointments[a].status # "absent"
        <4>1. appointments'[a].window = appointments[a].window
          BY <2>2, <3>1, VisitEffects
        <4>2. appointments[a].window \in Windows BY <1>1, <3>1 DEF Typed, RowsComplete
        <4> QED BY <1>3, <3>1, <4>1, <4>2 DEF WindowsExist
      <3>2. CASE appointments[a].status = "absent"
        <4>1. appointments'[a].window \in {req[p].win, req[p].to}
              /\ req[p].op \in {"book"} \cup Moving
              /\ (req[p].op = "book" => appointments'[a].window = req[p].win)
          <5> DEFINE r == req[p]
          <5>1. Writes(r) BY <1>1, <2>2, CommitWrites DEF KeepsRows
          <5>2. r.op \in {"confirm"} \cup Ending \cup Moving => appointments[r.app].status # "absent"
            BY <1>1 DEF Typed, RequestsComplete, Ending, Moving
          <5> HIDE DEF r
          <5>3. /\ appointments'[a].window \in {r.win, r.to} /\ r.op \in {"book"} \cup Moving
                /\ (r.op = "book" => appointments'[a].window = r.win)
            <6>1. ~(Ends(r) \/ Confirms(r) \/ SetsWindow(r))
              BY <1>4, <3>2, <5>2 DEF Ends, Confirms, SetsWindow, Unchanged, OnlyChanges
            <6>2. CASE Books(r)
              BY <1>4, <3>2, <6>2 DEF Books, NewVisit, Added, OnlyChanges, Moving
            <6>3. CASE Moves(r)
              BY <1>4, <3>2, <5>2, <6>3 DEF Moves, NewVisit, Added, OnlyChanges, Moving
            <6> QED BY <5>1, <6>1, <6>2, <6>3 DEF Writes
          <5> QED BY <5>3 DEF r
        <4>2. req[p].win \in Windows /\ (req[p].op \in Moving => req[p].to \in Windows)
          BY <1>1, <4>1 DEF Typed, RequestsComplete, Moving
        <4>3. windows[appointments'[a].window] # "absent"
          BY <4>1 DEF WindowsExist, Moving
        <4> QED BY <1>3, <4>1, <4>2, <4>3
      <3> QED BY <3>1, <3>2
    <2> QED BY <1>1, <2>1, <2>2, SessionSteps
  <1>5. ASSUME NEW q \in Sessions
        PROVE  /\ req'[q].op \notin {"none", "create"} => windows'[req'[q].win] # "absent"
               /\ req'[q].op \in Moving => windows'[req'[q].to] # "absent"
    <2>1. CASE Leaves(q) BY <2>1 DEF Leaves, NoRequest, Moving
    <2>2. CASE Stays(q) \/ Check(q) \/ Lock(q)
      <3>1. req'[q].op = req[q].op /\ req'[q].win = req[q].win /\ req'[q].to = req[q].to
        <4>1. CASE Stays(q) \/ Check(q) BY <4>1 DEF Stays, Check
        <4>2. CASE Lock(q)
          <5> DEFINE b == BelowLimit(req[q].client, req[q].now)
          <5>1. req'[q] = req[q] \/ req'[q] = [req[q] EXCEPT !.withinLimit = b]
            BY <1>1, <4>2 DEF Lock
          <5> HIDE DEF b
          <5> QED BY <1>1, <5>1 DEF Request
        <4> QED BY <2>2, <4>1, <4>2
      <3>2. /\ req[q].op # "none" => req[q].win \in Windows
            /\ req[q].op \in Moving => req[q].to \in Windows
        BY <1>1 DEF Typed, RequestsComplete, Moving
      <3> QED BY <1>3, <3>1, <3>2 DEF WindowsExist, Moving
    <2>3. CASE KeepsRows /\ Arrive(q)
      <3>1. PICK r : r = req'[q] OBVIOUS
      <3>2. /\ r.op \in {"close", "reopen", "book"} => windows[r.win] # "absent"
            /\ r.op \in Moving => windows[r.to] # "absent"
        BY <1>1, <2>3, <3>1, Arrives
      <3>3. r \in Request BY <1>2, <3>1 DEF Typed, TypeOK
      <3>4. r.op \in {"confirm"} \cup Ending \cup Moving => windows'[r.win] # "absent"
        <4>1. r.op \in {"confirm"} \cup Ending \cup Moving =>
                 /\ r.app \in Appointments /\ appointments'[r.app].status # "absent"
                 /\ appointments'[r.app].window = r.win
          BY <1>2, <3>1 DEF Typed, RequestsComplete, Ending, Moving
        <4> QED BY <1>4, <4>1
      <3>5. r.op \in {"none", "create", "close", "reopen", "book", "confirm"} \cup Ending \cup Moving
        BY <3>3 DEF Request, AllOps, Ending, Moving
      <3> QED BY <2>3, <3>1, <3>2, <3>4, <3>5 DEF KeepsRows
    <2> QED BY <1>1, <2>1, <2>2, <2>3, SessionSteps
  <1> QED BY <1>4, <1>5 DEF WindowsExist
LEMMA WindowAsCheckedNext ==
  DayInv /\ Decided /\ WindowsExist /\ WindowAsChecked /\ [Next]_vars => WindowAsChecked'
  <1> SUFFICES ASSUME DayInv, Decided, WindowsExist, WindowAsChecked, [Next]_vars,
                      NEW q \in Sessions, phase'[q] = "checked"
               PROVE  /\ req'[q].op = "close" => windows'[req'[q].win] = "open"
                      /\ req'[q].op = "reopen" => windows'[req'[q].win] = "closed"
                      /\ req'[q].op = "create" => windows'[req'[q].win] = "absent"
    BY DEF WindowAsChecked
  <1>1. /\ Typed /\ Owned /\ phase \in [Sessions -> {"idle", "locking", "checked"}]
    BY DEF DayInv, Typed, TypeOK
  <1>2. CASE Leaves(q) BY <1>2 DEF Leaves
  <1>3. CASE KeepsRows /\ Stays(q) BY <1>3 DEF KeepsRows, Stays, WindowAsChecked
  <1>4. ASSUME Stays(q), NEW p \in Sessions, Commits(p), req[q].op \in {"close"} \cup Opening
        PROVE  windows'[req[q].win] = windows[req[q].win]
    <2> DEFINE x == req[q].win
               r == req[p]
    <2>1. phase[q] = "checked" /\ phase[p] = "checked" /\ p # q
      BY <1>1, <1>4, StaysNotCommits, CommitsFinish DEF Stays
    <2>2. /\ req[q].op \in {"close", "reopen"} => holder[WindowLock(x)] = q
          /\ req[q].op \in Opening => holder[DateLock(DayOf[x])] = q
      BY <1>1, <2>1, CheckedHoldsAll DEF Opening
    <2>3. /\ r.op \in {"book", "close", "reopen"} \cup Ending \cup Moving =>
                holder[WindowLock(r.win)] = p
          /\ r.op \in Moving => holder[WindowLock(r.to)] = p
          /\ r.op \in Opening => holder[DateLock(DayOf[r.win])] = p
      BY <1>1, <2>1, CheckedHoldsAll
    <2>4. /\ req[q].op = "close" => windows[x] = "open"
          /\ req[q].op = "reopen" => windows[x] = "closed"
          /\ req[q].op = "create" => windows[x] = "absent"
      BY <2>1 DEF WindowAsChecked
    <2>5. /\ r.op = "create" => windows[r.win] = "absent"
          /\ r.op \notin {"none", "create"} => windows[r.win] # "absent"
          /\ r.op \in Moving => windows[r.to] # "absent"
      BY <2>1 DEF WindowAsChecked, WindowsExist
    <2>6. KeepsRows \/ Writes(r) BY <1>1, <1>4, CommitWrites DEF KeepsRows
    <2>7. x \in Windows BY <1>1, <1>4 DEF Typed, RequestsComplete, Opening
    <2> HIDE DEF x, r
    <2>8. x = r.win => r.op \notin {"book", "close"} \cup Ending \cup Moving \cup Opening
      <3>1. CASE req[q].op = "create"
        BY <2>1, <2>2, <2>3, <2>4, <2>5, <3>1 DEF Opening, Ending, Moving
      <3>2. CASE req[q].op \in {"close", "reopen"}
        BY <2>1, <2>2, <2>3, <2>4, <2>5, <3>2 DEF Opening
      <3> QED BY <1>4, <3>1, <3>2 DEF Opening
    <2>9. r.op \in Moving => x # r.to
      <3>1. CASE req[q].op = "create" BY <2>4, <2>5, <3>1
      <3>2. CASE req[q].op \in {"close", "reopen"} BY <2>1, <2>2, <2>3, <3>2
      <3> QED BY <1>4, <3>1, <3>2 DEF Opening
    <2>10. windows'[x] = windows[x]
      <3>1. CASE KeepsRows BY <3>1 DEF KeepsRows
      <3>2. CASE Books(r) BY <2>7, <2>8, <3>2 DEF Books, OnlyWindows
      <3>3. CASE Ends(r) BY <2>7, <2>8, <3>3 DEF Ends, OnlyWindows
      <3>4. CASE Confirms(r) BY <3>4 DEF Confirms
      <3>5. CASE Moves(r) BY <2>7, <2>8, <2>9, <3>5 DEF Moves, OnlyWindows
      <3>6. CASE SetsWindow(r) BY <2>7, <2>8, <3>6 DEF SetsWindow, OnlyWindows
      <3> QED BY <2>6, <3>1, <3>2, <3>3, <3>4, <3>5, <3>6 DEF Writes
    <2> QED BY <2>10 DEF x
  <1>5. ASSUME Stays(q), NEW p \in Sessions, Commits(p)
        PROVE  /\ req'[q].op = "close" => windows'[req'[q].win] = "open"
               /\ req'[q].op = "reopen" => windows'[req'[q].win] = "closed"
               /\ req'[q].op = "create" => windows'[req'[q].win] = "absent"
    <2>1. req'[q] = req[q] /\ phase[q] = "checked" BY <1>5 DEF Stays
    <2> QED BY <1>4, <1>5, <2>1 DEF WindowAsChecked, Opening
  <1>6. CASE KeepsRows /\ Check(q)
    <2>1. req' = req /\ Accepts(req[q]) BY <1>6 DEF Check
    <2> QED BY <1>6, <2>1 DEF Accepts, CloseAccepts, ReopenAccepts, CreateAccepts, KeepsRows
  <1>7. CASE Arrive(q)
    <2>1. PICK r : Begin(q, r) BY <1>7, ArriveReads
    <2> QED BY <1>1, <2>1 DEF Begin
  <1>8. CASE Lock(q) BY <1>1, <1>8 DEF Lock
  <1> QED BY <1>1, <1>2, <1>3, <1>5, <1>6, <1>7, <1>8, SessionSteps

LEMMA CalendarInvAlways ==
  /\ Init => CalendarInv
  /\ CalendarInv /\ [Next]_vars => CalendarInv'
  <1>1. Init => Decided /\ WindowsExist /\ WindowAsChecked
    BY DEF Init, Decided, WindowsExist, WindowAsChecked, NoRow, NoRequest, Moving
  <1>2. CalendarInv /\ [Next]_vars => Decided' BY DecidedNext DEF CalendarInv, DayInv
  <1> QED BY <1>1, <1>2, DayInvAlways, WindowsExistNext, WindowAsCheckedNext DEF CalendarInv

\* The requests that give a window up while its visit may have a successor.
Releasing == {"cancel_my", "cancel_admin"} \cup Moving

\* Without them a row that exists keeps its window for ever.
AllOccupy ==
    /\ \A p \in Sessions : req[p].op \in Ops \cup {"none"}
    /\ \A a \in Appointments : appointments[a].status \in CapacityStatuses \cup {"absent"}
    /\ OneOccupant(appointments)

LiveInv == CalendarInv /\ AllOccupy /\ LiveVisitHoldsItsWindow

LEMMA AllOccupyNext ==
  ASSUME Ops \cap Releasing = {}, CalendarInv, AllOccupy, [Next]_vars
  PROVE  AllOccupy'
  <1>1. Typed /\ DayInv /\ Decided /\ req \in [Sessions -> Request]
    BY DEF CalendarInv, DayInv, Typed, TypeOK
  <1>2. ASSUME NEW q \in Sessions PROVE req'[q].op \in Ops \cup {"none"}
    <2>1. CASE Leaves(q) BY <2>1 DEF Leaves, NoRequest
    <2>2. CASE Stays(q) \/ Check(q) BY <2>2 DEF Stays, Check, AllOccupy
    <2>3. CASE Lock(q)
      <3> DEFINE b == BelowLimit(req[q].client, req[q].now)
      <3>1. req'[q] = req[q] \/ req'[q] = [req[q] EXCEPT !.withinLimit = b]
        BY <1>1, <2>3 DEF Lock
      <3> HIDE DEF b
      <3>2. req'[q].op = req[q].op BY <1>1, <3>1 DEF Request
      <3> QED BY <3>2 DEF AllOccupy
    <2>4. CASE Arrive(q) BY <1>1, <2>4, Arrives
    <2> QED BY <1>1, <2>1, <2>2, <2>3, <2>4, SessionSteps
  <1>3. OneOccupant(appointments')
    BY <1>1, RowsAccepted DEF AllOccupy
  <1>4. ASSUME NEW p \in Sessions, Commits(p), NEW a \in Appointments
        PROVE  appointments'[a].status \in CapacityStatuses \cup {"absent"}
    <2> DEFINE r == req[p]
    <2>1. KeepsRows \/ Writes(r) BY <1>1, <1>4, CommitWrites DEF KeepsRows
    <2>2. r.op \notin Releasing BY DEF AllOccupy, Releasing, Moving
    <2>3. r.op = "confirm" => appointments[r.app] \in AppointmentRow
      BY <1>1 DEF Typed, TypeOK, RequestsComplete
    <2>4. appointments[a].status \in CapacityStatuses \cup {"absent"} BY DEF AllOccupy
    <2> HIDE DEF r
    <2>5. CASE KeepsRows BY <2>4, <2>5 DEF KeepsRows
    <2>6. CASE Books(r)
      BY <2>4, <2>6 DEF Books, NewVisit, Added, OnlyChanges, CapacityStatuses, ActiveStatuses
    <2>7. CASE Ends(r)
      <3>1. r.op \in {"complete", "no_show"} BY <2>2, <2>7 DEF Ends, Ending, Releasing
      <3> QED BY <2>4, <2>7, <3>1 DEF Ends, OnlyChanges, CapacityStatuses
    <2>8. CASE Confirms(r)
      <3>1. appointments'[r.app].status = "client_confirmed"
        BY <2>3, <2>8 DEF Confirms, AppointmentRow
      <3> QED BY <2>4, <2>8, <3>1 DEF Confirms, OnlyChanges, CapacityStatuses, ActiveStatuses
    <2>9. CASE Moves(r) BY <2>2, <2>9 DEF Moves, Releasing
    <2>10. CASE SetsWindow(r) BY <2>4, <2>10 DEF SetsWindow, Unchanged
    <2> QED BY <2>1, <2>5, <2>6, <2>7, <2>8, <2>9, <2>10 DEF Writes
  <1>5. \A a \in Appointments : appointments'[a].status \in CapacityStatuses \cup {"absent"}
    <2>1. CASE KeepsRows BY <2>1 DEF KeepsRows, AllOccupy
    <2> QED BY <1>1, <1>4, <2>1, SessionSteps
  <1> QED BY <1>2, <1>3, <1>5 DEF AllOccupy, OneOccupant, OnWindow, InStatus

LEMMA LiveVisitNext ==
  ASSUME Ops \cap Releasing = {}, LiveInv, [Next]_vars
  PROVE  LiveVisitHoldsItsWindow'
  <1> SUFFICES ASSUME NEW a \in Appointments, appointments'[a].status \in ActiveStatuses
               PROVE  windows'[appointments'[a].window] = "booked"
    BY DEF LiveVisitHoldsItsWindow, InStatus
  <1>1. Typed /\ DayInv /\ Decided /\ AllOccupy /\ WindowAsChecked
    BY DEF LiveInv, CalendarInv, DayInv
  <1>2. \A b \in Appointments : appointments[b].status \in ActiveStatuses =>
           windows[appointments[b].window] = "booked"
    BY DEF LiveInv, LiveVisitHoldsItsWindow, InStatus
  <1>3. CASE KeepsRows BY <1>2, <1>3 DEF KeepsRows
  <1>4. ASSUME NEW p \in Sessions, Commits(p), ~KeepsRows
        PROVE  windows'[appointments'[a].window] = "booked"
    <2> DEFINE r == req[p]
    <2>1. Writes(r) BY <1>1, <1>4, CommitWrites DEF KeepsRows
    <2>2. r.op \notin Releasing BY <1>1 DEF AllOccupy, Releasing, Moving
    <2>3. phase[p] = "checked" BY <1>4, CommitsFinish
    <2>4. /\ r.op = "book" => r.winSeen = "open"
          /\ r.op \in {"close"} \cup Opening => windows[r.win] # "booked"
          /\ r.op # "none" => r.win \in Windows
          /\ r.op \in {"confirm"} \cup Ending \cup Moving =>
                /\ r.app \in Appointments /\ appointments[r.app].status # "absent"
                /\ appointments[r.app].window = r.win
      BY <1>1, <2>3 DEF Decided, WindowAsChecked, Opening, Typed, RequestsComplete, Ending, Moving
    <2> HIDE DEF r
    <2>5. CASE appointments[a].status = "absent"
      <3>1. CASE Books(r)
        <4>1. appointments'[a].window = r.win
          BY <1>1, <2>5, <3>1 DEF Books, NewVisit, Added, OnlyChanges, ActiveStatuses
        <4>2. windows'[r.win] = "booked" BY <2>4, <3>1 DEF Books, OrmWrite
        <4> QED BY <4>1, <4>2
      <3>2. CASE Moves(r) BY <2>2, <3>2 DEF Moves, Releasing
      <3>3. CASE Ends(r) \/ Confirms(r) \/ SetsWindow(r)
        BY <2>4, <2>5, <3>3
        DEF Ends, Confirms, SetsWindow, Unchanged, OnlyChanges, ActiveStatuses
      <3> QED BY <2>1, <3>1, <3>2, <3>3 DEF Writes
    <2>6. CASE appointments[a].status # "absent"
      <3>1. appointments'[a].window = appointments[a].window
            /\ appointments[a].status \in ActiveStatuses
        BY <1>1, <1>4, <2>6, VisitEffects
      <3>2. PICK w \in Windows : w = appointments[a].window /\ windows[w] = "booked"
        BY <1>1, <1>2, <2>6, <3>1 DEF Typed, RowsComplete
      <3> SUFFICES windows'[w] = "booked" BY <3>1, <3>2
      <3>3. CASE Books(r) BY <2>4, <3>2, <3>3 DEF Books, OnlyWindows, OrmWrite
      <3>4. CASE Ends(r)
        <4>1. a # r.app
          BY <3>4 DEF Ends, EndedStatuses, ActiveStatuses
        <4>2. r.win # w
          BY <1>1, <2>4, <3>1, <3>2, <3>4, <4>1
          DEF Ends, AllOccupy, OneOccupant, OnWindow, InStatus, CapacityStatuses
        <4> QED BY <3>2, <3>4, <4>2 DEF Ends, OnlyWindows
      <3>5. CASE Confirms(r) BY <3>2, <3>5 DEF Confirms
      <3>6. CASE Moves(r) BY <2>2, <3>6 DEF Moves, Releasing
      <3>7. CASE SetsWindow(r)
        <4>1. r.win # w BY <2>4, <3>2, <3>7 DEF SetsWindow
        <4> QED BY <3>2, <3>7, <4>1 DEF SetsWindow, OnlyWindows
      <3> QED BY <2>1, <3>3, <3>4, <3>5, <3>6, <3>7 DEF Writes
    <2> QED BY <2>5, <2>6
  <1> QED BY <1>1, <1>3, <1>4, SessionSteps

\* Bookings, confirmations, completions and changes of windows never leave a
\* live visit in a window that is not booked; only a cancellation or a move can
\* (AppointmentService, AvailabilityService; see the run stale_cancel).
THEOREM LiveVisitHolds ==
  ASSUME Ops \cap Releasing = {}
  PROVE  Spec => []LiveVisitHoldsItsWindow
  <1>1. Init => LiveInv
    <2>1. Init => AllOccupy /\ LiveVisitHoldsItsWindow
      BY DEF Init, AllOccupy, LiveVisitHoldsItsWindow, OneOccupant, OnWindow, InStatus, NoRow,
             NoRequest, CapacityStatuses, ActiveStatuses
    <2> QED BY <2>1, CalendarInvAlways DEF LiveInv
  <1>2. LiveInv /\ [Next]_vars => LiveInv'
    BY CalendarInvAlways, AllOccupyNext, LiveVisitNext DEF LiveInv
  <1>3. LiveInv => LiveVisitHoldsItsWindow BY DEF LiveInv
  <1> QED BY <1>1, <1>2, <1>3, PTL DEF Spec
=============================================================================
