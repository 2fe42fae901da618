--------------------------- MODULE BookingProofs ---------------------------
(***************************************************************************)
(* Theorems about Booking, for every number of sessions, windows,          *)
(* appointments, clients, services and staff members.                      *)
(***************************************************************************)
EXTENDS Booking, FiniteSetTheorems, SequenceTheorems, TLAPS

-----------------------------------------------------------------------------
(* The typing invariant and the two facts it needs to be inductive: a row   *)
(* that exists is complete, and so is a request.                           *)

RowsComplete ==
    \A a \in Appointments : appointments[a].status # "absent" =>
        /\ appointments[a].window \in Windows
        /\ appointments[a].client \in Clients
        /\ appointments[a].service \in Services

RequestsComplete ==
    \A p \in Sessions :
        /\ phase[p] # "idle" => req[p].op # "none"
        /\ req[p].op # "none" => req[p].win \in Windows
        /\ req[p].op \notin {"none", "close", "reopen", "create"} =>
              req[p].client \in Clients /\ req[p].service \in Services
        /\ req[p].op \notin {"none", "book", "close", "reopen", "create"} =>
              /\ req[p].app \in Appointments
              /\ appointments[req[p].app].status # "absent"
              /\ appointments[req[p].app].window = req[p].win
        /\ req[p].op \in {"reschedule_my", "reschedule_admin"} =>
              req[p].to \in Windows /\ req[p].to # req[p].win

Typed == TypeOK /\ RowsComplete /\ RequestsComplete

LEMMA TypedInit == Init => Typed
  BY BookingAssumption
  DEF Init, Typed, TypeOK, RowsComplete, RequestsComplete, NoRow, NoRequest, AppointmentRow,
      Request, WindowStatus, AppointmentStatus, AllOps

\* What a transaction that ends leaves behind is well typed.
LEMMA FinishTyped ==
  ASSUME Typed, NEW p \in Sessions, Finish(p)
  PROVE  /\ clock' \in 0..MaxClock
         /\ holder' \in [Locks -> Sessions \cup {None}]
         /\ req' \in [Sessions -> Request]
         /\ phase' \in [Sessions -> {"idle", "locking", "checked"}]
         /\ step' \in [Sessions -> Nat]
         /\ req'[p] = NoRequest /\ phase'[p] = "idle"
         /\ \A q \in Sessions \ {p} : req'[q] = req[q] /\ phase'[q] = phase[q]
  <1>1. NoRequest \in Request
    BY BookingAssumption DEF NoRequest, Request, WindowStatus, AppointmentStatus, AllOps
  <1> QED BY <1>1 DEF Typed, TypeOK, Finish, ReleasedBy

\* Rolling back keeps the rows, and so everything said of them.
LEMMA RollbackTyped ==
  ASSUME Typed, NEW p \in Sessions, Rollback(p)
  PROVE  Typed'
  <1>1. Finish(p) /\ UNCHANGED <<windows, appointments>> BY DEF Rollback
  <1>2. TypeOK' BY <1>1, FinishTyped DEF Typed, TypeOK
  <1>3. RowsComplete' BY <1>1 DEF Typed, RowsComplete
  <1>4. RequestsComplete'
    BY <1>1, FinishTyped DEF Typed, RequestsComplete, NoRequest
  <1> QED BY <1>2, <1>3, <1>4 DEF Typed

\* Rows that may replace the committed ones: well typed, complete, and with
\* the window of every row that existed left alone.
GoodRows(rows) ==
    /\ rows \in [Appointments -> AppointmentRow]
    /\ \A a \in Appointments : rows[a].status # "absent" =>
          /\ rows[a].window \in Windows
          /\ rows[a].client \in Clients
          /\ rows[a].service \in Services
    /\ \A a \in Appointments : appointments[a].status # "absent" =>
          rows[a].status # "absent" /\ rows[a].window = appointments[a].window

LEMMA CommitTyped ==
  ASSUME Typed, NEW p \in Sessions, NEW rows, NEW wins, Commit(p, rows, wins),
         GoodRows(rows), wins \in [Windows -> WindowStatus]
  PROVE  Typed'
  <1>1. Finish(p) BY DEF Commit
  <1>2. \/ appointments' = rows /\ windows' = wins
        \/ UNCHANGED <<appointments, windows>>
    BY DEF Commit
  <1>3. TypeOK' BY <1>1, <1>2, FinishTyped DEF Typed, TypeOK, GoodRows
  <1>4. RowsComplete' BY <1>2 DEF Typed, RowsComplete, GoodRows
  <1>5. RequestsComplete'
    BY <1>1, <1>2, FinishTyped DEF Typed, RequestsComplete, GoodRows, NoRequest
  <1> QED BY <1>3, <1>4, <1>5 DEF Typed
-----------------------------------------------------------------------------
(* Every step keeps Typed. *)

\* A request that is complete when it arrives.
GoodRequest(r) ==
    /\ r \in Request /\ r.op # "none" /\ r.win \in Windows
    /\ r.op \notin {"close", "reopen", "create"} =>
          r.client \in Clients /\ r.service \in Services
    /\ r.op \notin {"book", "close", "reopen", "create"} =>
          /\ r.app \in Appointments
          /\ appointments[r.app].status # "absent"
          /\ appointments[r.app].window = r.win
    /\ r.op \in {"reschedule_my", "reschedule_admin"} => r.to \in Windows /\ r.to # r.win

\* Requests stay requests when one of their fields is filled in.
LEMMA RequestFields ==
  ASSUME NEW q \in Request
  PROVE  /\ \A b \in BOOLEAN : [q EXCEPT !.withinLimit = b] \in Request
         /\ \A w \in Windows, st \in WindowStatus :
               [q EXCEPT !.to = w, !.toSeen = st] \in Request
  BY DEF Request

LEMMA BeginTyped ==
  ASSUME Typed, NEW p \in Sessions, NEW r, GoodRequest(r), Begin(p, r)
  PROVE  Typed'
  <1>1. TypeOK' BY DEF Typed, TypeOK, Begin, GoodRequest
  <1>2. RowsComplete' BY DEF Typed, RowsComplete, Begin
  <1>3. RequestsComplete'
    BY DEF Typed, TypeOK, RequestsComplete, Begin, GoodRequest
  <1> QED BY <1>1, <1>2, <1>3 DEF Typed

LEMMA ArriveTyped ==
  ASSUME Typed, NEW p \in Sessions, Arrive(p)
  PROVE  Typed'
  <1> USE BookingAssumption
  <1>0. clock \in 0..MaxClock /\ windows \in [Windows -> WindowStatus]
        /\ appointments \in [Appointments -> AppointmentRow]
    BY DEF Typed, TypeOK
  <1>1. ASSUME NEW w \in Windows, NEW c \in Clients, NEW s \in Services, Book(p, w, c, s)
        PROVE  Typed'
    <2> DEFINE r == [NoRequest EXCEPT !.op = "book", !.win = w, !.client = c, !.service = s,
                                      !.now = clock, !.winSeen = windows[w]]
    <2>1. GoodRequest(r)
      BY <1>0 DEF GoodRequest, NoRequest, Request, AllOps, WindowStatus, AppointmentStatus
    <2> QED BY <1>1, <2>1, BeginTyped DEF Book
  <1>2. ASSUME NEW a \in Appointments, NEW op \in AllOps \ {"book", "close", "reopen", "create"},
               NEW reopen \in BOOLEAN, Exists(a)
        PROVE  /\ OnAppointment(op, a, reopen) \in Request
               /\ OnAppointment(op, a, reopen).op = op
               /\ OnAppointment(op, a, reopen).app = a
               /\ OnAppointment(op, a, reopen).win = appointments[a].window
               /\ OnAppointment(op, a, reopen).win \in Windows
               /\ OnAppointment(op, a, reopen).client \in Clients
               /\ OnAppointment(op, a, reopen).service \in Services
    <2>1. /\ appointments[a].window \in Windows /\ appointments[a].client \in Clients
          /\ appointments[a].service \in Services
      BY <1>2 DEF Typed, RowsComplete, Exists
    <2>2. appointments[a].status \in AppointmentStatus
      BY <1>0 DEF AppointmentRow
    <2> QED BY <1>0, <2>1, <2>2 DEF OnAppointment, NoRequest, Request, WindowStatus, AppointmentStatus, AllOps
  <1>3. ASSUME NEW a \in Appointments, NEW op \in {"cancel_my", "cancel_admin", "confirm", "complete", "no_show"},
               NEW reopen \in BOOLEAN, Exists(a), Begin(p, OnAppointment(op, a, reopen))
        PROVE  Typed'
    <2>1. GoodRequest(OnAppointment(op, a, reopen))
      BY <1>2, <1>3 DEF GoodRequest, Exists, AllOps
    <2> QED BY <1>3, <2>1, BeginTyped
  <1>4. ASSUME NEW a \in Appointments, NEW w \in Windows,
               NEW op \in {"reschedule_my", "reschedule_admin"}, Reschedule(p, op, a, w)
        PROVE  Typed'
    <2> DEFINE r == [OnAppointment(op, a, FALSE) EXCEPT !.to = w, !.toSeen = windows[w]]
    <2>1. Exists(a) /\ w # appointments[a].window /\ Begin(p, r) BY <1>4 DEF Reschedule
    <2> DEFINE q == OnAppointment(op, a, FALSE)
    <2>5. op \in AllOps \ {"book", "close", "reopen", "create"} BY DEF AllOps
    <2>6. /\ q \in Request /\ q.op = op /\ q.app = a /\ q.win = appointments[a].window
          /\ q.win \in Windows /\ q.client \in Clients /\ q.service \in Services
      BY <1>2, <2>1, <2>5
    <2>7. r = [q EXCEPT !.to = w, !.toSeen = windows[w]] OBVIOUS
    <2>8. windows[w] \in WindowStatus BY <1>0
    <2> HIDE DEF q, r
    <2>2. r \in Request BY <2>6, <2>7, <2>8, RequestFields
    <2>3. /\ r.op = op /\ r.app = a /\ r.win = appointments[a].window /\ r.to = w
          /\ r.win \in Windows /\ r.client \in Clients /\ r.service \in Services
      BY <2>6, <2>7 DEF Request
    <2>4. GoodRequest(r)
      BY <2>1, <2>2, <2>3 DEF GoodRequest, Exists
    <2> QED BY <2>1, <2>4, BeginTyped DEF r
  <1>5. ASSUME NEW w \in Windows, NEW op \in {"close", "reopen", "create"},
               Begin(p, OnWindowOnly(op, w))
        PROVE  Typed'
    <2>1. GoodRequest(OnWindowOnly(op, w))
      BY <1>0 DEF GoodRequest, OnWindowOnly, NoRequest, Request, AllOps, WindowStatus,
                  AppointmentStatus
    <2> QED BY <1>5, <2>1, BeginTyped
  <1>6. CASE \E w \in Windows, c \in Clients, s \in Services : Book(p, w, c, s)
    BY <1>1, <1>6
  <1>7. CASE \E a \in Appointments : \/ CancelMy(p, a) \/ ConfirmVisit(p, a)
                                    \/ CompleteVisit(p, a) \/ MarkNoShow(p, a)
                                    \/ \E reopen \in BOOLEAN : CancelAdmin(p, a, reopen)
    BY <1>3, <1>7 DEF CancelMy, CancelAdmin, ConfirmVisit, CompleteVisit, MarkNoShow
  <1>8. CASE \E a \in Appointments, w \in Windows, op \in {"reschedule_my", "reschedule_admin"} :
                Reschedule(p, op, a, w)
    BY <1>4, <1>8
  <1>9. CASE \E w \in Windows : CloseWindow(p, w) \/ ReopenWindow(p, w) \/ CreateWindow(p, w)
    BY <1>5, <1>9 DEF CloseWindow, ReopenWindow, CreateWindow
  <1> QED BY <1>6, <1>7, <1>8, <1>9 DEF Arrive

LEMMA LockTyped ==
  ASSUME Typed, NEW p \in Sessions, Lock(p)
  PROVE  Typed'
  <1> DEFINE r == [req[p] EXCEPT !.withinLimit = BelowLimit(req[p].client, req[p].now)]
  <1>1. BelowLimit(req[p].client, req[p].now) \in BOOLEAN BY DEF BelowLimit
  <1>2. req' = req \/ req' = [req EXCEPT ![p] = r]
    BY DEF Lock, Typed, TypeOK
  <1>3. r \in Request
    <2>1. req[p] \in Request BY DEF Typed, TypeOK
    <2>2. \A b \in BOOLEAN : [req[p] EXCEPT !.withinLimit = b] \in Request
      BY <2>1, RequestFields
    <2> QED BY <1>1, <2>2, Zenon
  <1> HIDE DEF r
  <1>4. TypeOK'
    <2>1. holder' \in [Locks -> Sessions \cup {None}] BY DEF Lock, Typed, TypeOK
    <2>2. step' \in [Sessions -> Nat] BY DEF Lock, Typed, TypeOK
    <2>3. req' \in [Sessions -> Request] BY <1>2, <1>3 DEF Typed, TypeOK
    <2>4. UNCHANGED <<clock, windows, appointments, phase>> BY DEF Lock
    <2> QED BY <2>1, <2>2, <2>3, <2>4 DEF Typed, TypeOK
  <1>5. RowsComplete' BY DEF Lock, Typed, RowsComplete
  <1>6. \A q \in Sessions : /\ req'[q].op = req[q].op /\ req'[q].win = req[q].win
                            /\ req'[q].app = req[q].app /\ req'[q].to = req[q].to
                            /\ req'[q].client = req[q].client
                            /\ req'[q].service = req[q].service
    BY <1>2 DEF Typed, TypeOK, Request, r
  <1>7. RequestsComplete' BY <1>6 DEF Lock, Typed, RequestsComplete
  <1> QED BY <1>4, <1>5, <1>7 DEF Typed

LEMMA CommitsTyped ==
  ASSUME Typed, NEW p \in Sessions, Commits(p)
  PROVE  Typed'
  <1> USE BookingAssumption
  <1>0. /\ windows \in [Windows -> WindowStatus] /\ req[p] \in Request
        /\ appointments \in [Appointments -> AppointmentRow]
    BY DEF Typed, TypeOK
  <1>1. req[p].op # "none" /\ req[p].win \in Windows
    BY DEF Typed, RequestsComplete, Commits, CommitBook, CommitCancel, CommitConfirm,
           CommitComplete, CommitNoShow, CommitReschedule, CommitWindow, Committing
  <1>2. ASSUME NEW seen, NEW new \in WindowStatus, NEW w \in Windows
        PROVE  OrmWrite(windows[w], seen, new) \in WindowStatus
    BY <1>0 DEF OrmWrite
  \* A new row at a free id, or an existing row with another status, is good.
  <1>3. ASSUME NEW a \in Appointments, IsNextId(a), NEW w \in Windows, NEW c \in Clients,
               NEW s \in Services, NEW f \in Appointments \cup {None},
               NEW rows, GoodRows(rows), rows[a].status = "absent"
        PROVE  GoodRows([rows EXCEPT ![a] = NewRow(w, c, s, f)])
    <2>1. NewRow(w, c, s, f) \in AppointmentRow
      BY DEF NewRow, AppointmentRow, AppointmentStatus
    <2>2. appointments[a].status = "absent" BY <1>3 DEF IsNextId, FreeIds, InStatus
    <2> QED BY <1>3, <2>1, <2>2 DEF GoodRows, NewRow
  <1>4. ASSUME NEW a \in Appointments, appointments[a].status # "absent",
               NEW st \in AppointmentStatus \ {"absent"}
        PROVE  /\ GoodRows([appointments EXCEPT ![a].status = st])
               /\ GoodRows(Ended(appointments, a, st))
               /\ \A b \in Appointments \ {a} : Ended(appointments, a, st)[b] = appointments[b]
    <2>1. appointments[a] \in AppointmentRow BY <1>0
    <2>2. [appointments[a] EXCEPT !.status = st] \in AppointmentRow
      BY <2>1 DEF AppointmentRow
    <2>3. [appointments[a] EXCEPT !.status = st, !.reminders = FALSE] \in AppointmentRow
      BY <2>1 DEF AppointmentRow
    <2>4. /\ [appointments[a] EXCEPT !.status = st].status # "absent"
          /\ [appointments[a] EXCEPT !.status = st, !.reminders = FALSE].status # "absent"
      BY <2>1 DEF AppointmentRow
    <2>5. \A f \in {"window", "client", "service"} :
             /\ [appointments[a] EXCEPT !.status = st][f] = appointments[a][f]
             /\ [appointments[a] EXCEPT !.status = st, !.reminders = FALSE][f]
                    = appointments[a][f]
      BY <2>1 DEF AppointmentRow
    <2>6. \A row \in AppointmentRow :
             (/\ row.status # "absent" /\ row.window = appointments[a].window
              /\ row.client = appointments[a].client /\ row.service = appointments[a].service)
             => GoodRows([appointments EXCEPT ![a] = row])
      BY <1>0, <1>4 DEF GoodRows, Typed, RowsComplete
    <2>7. Ended(appointments, a, st) =
             [appointments EXCEPT ![a] =
                [appointments[a] EXCEPT !.status = st, !.reminders = FALSE]]
      BY <1>0 DEF Ended
    <2>8. [appointments EXCEPT ![a].status = st]
             = [appointments EXCEPT ![a] = [appointments[a] EXCEPT !.status = st]]
      OBVIOUS
    <2>9. GoodRows([appointments EXCEPT ![a].status = st])
      BY <2>2, <2>4, <2>5, <2>6, <2>8
    <2>10. GoodRows(Ended(appointments, a, st))
      BY <2>3, <2>4, <2>5, <2>6, <2>7
    <2>11. \A b \in Appointments \ {a} : Ended(appointments, a, st)[b] = appointments[b]
      BY <1>0, <2>7
    <2> QED BY <2>9, <2>10, <2>11
  <1>5. GoodRows(appointments) BY <1>0 DEF GoodRows, Typed, RowsComplete
  <1>6. req[p].op \notin {"none", "book", "close", "reopen", "create"} =>
           req[p].app \in Appointments /\ appointments[req[p].app].status # "absent"
    BY DEF Typed, RequestsComplete
  <1>7. CASE CommitBook(p)
    <2>1. PICK a \in Appointments : IsNextId(a)
            /\ Commit(p, [appointments EXCEPT
                            ![a] = NewRow(req[p].win, req[p].client, req[p].service, None)],
                         [windows EXCEPT
                            ![req[p].win] = OrmWrite(@, req[p].winSeen, "booked")])
      BY <1>7 DEF CommitBook
    <2>2. req[p].client \in Clients /\ req[p].service \in Services
      BY <1>7 DEF Typed, RequestsComplete, CommitBook, Committing
    <2>3. GoodRows([appointments EXCEPT
                      ![a] = NewRow(req[p].win, req[p].client, req[p].service, None)])
      BY <1>1, <1>3, <1>5, <2>1, <2>2 DEF IsNextId, FreeIds, InStatus
    <2>4. [windows EXCEPT ![req[p].win] = OrmWrite(@, req[p].winSeen, "booked")]
             \in [Windows -> WindowStatus]
      BY <1>0, <1>1, <1>2 DEF WindowStatus
    <2> QED BY <2>1, <2>3, <2>4, CommitTyped
  <1>8. CASE CommitCancel(p)
    <2>1. CancelledStatus(req[p]) \in AppointmentStatus \ {"absent"}
          /\ ReleasedWindow(req[p]) \in WindowStatus
      BY DEF CancelledStatus, ReleasedWindow, AppointmentStatus, WindowStatus
    <2>2. GoodRows(Ended(appointments, req[p].app, CancelledStatus(req[p])))
      BY <1>4, <1>6, <1>8, <2>1 DEF CommitCancel, Committing
    <2>3. [windows EXCEPT ![req[p].win] = OrmWrite(@, req[p].winSeen, ReleasedWindow(req[p]))]
             \in [Windows -> WindowStatus]
      BY <1>0, <1>1, <1>2, <2>1
    <2> QED BY <1>8, <2>2, <2>3, CommitTyped DEF CommitCancel
  <1>9. CASE CommitConfirm(p)
    <2>1. GoodRows([appointments EXCEPT ![req[p].app].status = "client_confirmed"])
      BY <1>4, <1>6, <1>9 DEF CommitConfirm, Committing, AppointmentStatus
    <2> QED BY <1>0, <1>9, <2>1, CommitTyped DEF CommitConfirm
  <1>10. CASE CommitComplete(p)
    <2>1. GoodRows(Ended(appointments, req[p].app, "completed"))
      BY <1>4, <1>6, <1>10 DEF CommitComplete, Committing, AppointmentStatus
    <2>2. [windows EXCEPT ![req[p].win] = OrmWrite(@, req[p].winSeen, "closed")]
             \in [Windows -> WindowStatus]
      BY <1>0, <1>1, <1>2 DEF WindowStatus
    <2> QED BY <1>10, <2>1, <2>2, CommitTyped DEF CommitComplete
  <1>11. CASE CommitNoShow(p)
    <2>1. GoodRows(Ended(appointments, req[p].app, "no_show"))
      BY <1>4, <1>6, <1>11 DEF CommitNoShow, Committing, AppointmentStatus
    <2>2. [windows EXCEPT ![req[p].win] = OrmWrite(@, req[p].winSeen, "closed")]
             \in [Windows -> WindowStatus]
      BY <1>0, <1>1, <1>2 DEF WindowStatus
    <2> QED BY <1>11, <2>1, <2>2, CommitTyped DEF CommitNoShow
  <1>12. CASE CommitReschedule(p)
    <2> DEFINE old == IF StartAt[req[p].win] > req[p].now THEN "open" ELSE "closed"
               wins == [windows EXCEPT ![req[p].win] = OrmWrite(@, req[p].winSeen, old),
                                       ![req[p].to] = OrmWrite(@, req[p].toSeen, "booked")]
    <2>1. PICK a \in Appointments : IsNextId(a) /\ Commit(p, Moved(req[p], a), wins)
      BY <1>12 DEF CommitReschedule
    <2>2. /\ req[p].client \in Clients /\ req[p].service \in Services
          /\ req[p].to \in Windows /\ req[p].to # req[p].win
          /\ req[p].app \in Appointments /\ appointments[req[p].app].status # "absent"
      BY <1>6, <1>12 DEF Typed, RequestsComplete, CommitReschedule, Committing
    <2>3. appointments[a].status = "absent" /\ a # req[p].app
      BY <2>1, <2>2 DEF IsNextId, FreeIds, InStatus
    <2>4. GoodRows(Ended(appointments, req[p].app, "rescheduled"))
          /\ Ended(appointments, req[p].app, "rescheduled")[a].status = "absent"
      <3>1. "rescheduled" \in AppointmentStatus \ {"absent"} BY DEF AppointmentStatus
      <3>2. /\ GoodRows(Ended(appointments, req[p].app, "rescheduled"))
            /\ \A b \in Appointments \ {req[p].app} :
                  Ended(appointments, req[p].app, "rescheduled")[b] = appointments[b]
        BY <1>4, <2>2, <3>1
      <3> QED BY <2>1, <2>3, <3>2
    <2>5. GoodRows(Moved(req[p], a))
      BY <1>3, <2>1, <2>2, <2>4 DEF Moved
    <2>6. wins \in [Windows -> WindowStatus]
      BY <1>0, <1>1, <1>2, <2>2 DEF WindowStatus
    <2> QED BY <2>1, <2>5, <2>6, CommitTyped
  <1>13. CASE CommitWindow(p)
    <2>1. [windows EXCEPT ![req[p].win] = IF req[p].op = "close" THEN "closed" ELSE "open"]
             \in [Windows -> WindowStatus]
      BY <1>0 DEF WindowStatus
    <2> QED BY <1>5, <1>13, <2>1, CommitTyped DEF CommitWindow
  <1> QED BY <1>7, <1>8, <1>9, <1>10, <1>11, <1>12, <1>13 DEF Commits

LEMMA TypedNext == Typed /\ [Next]_vars => Typed'
  <1> SUFFICES ASSUME Typed, [Next]_vars PROVE Typed'
    OBVIOUS
  <1>1. CASE Tick
    BY <1>1, BookingAssumption DEF Tick, Typed, TypeOK, RowsComplete, RequestsComplete
  <1>2. ASSUME NEW p \in Sessions, Check(p) PROVE Typed'
    BY <1>2 DEF Check, Typed, TypeOK, RowsComplete, RequestsComplete, AllLocked
  <1>3. ASSUME NEW p \in Sessions, LockTimeout(p) \/ Reject(p) \/ Crash(p) PROVE Typed'
    BY <1>3, RollbackTyped DEF LockTimeout, Reject, Crash
  <1>4. CASE UNCHANGED vars
    BY <1>4 DEF vars, Typed, TypeOK, RowsComplete, RequestsComplete
  <1> QED
    BY <1>1, <1>2, <1>3, <1>4, ArriveTyped, LockTyped, CommitsTyped DEF Next, Progress

LEMMA AlwaysTyped == Spec => []Typed
  BY TypedInit, TypedNext, PTL DEF Spec

\* Every value the model stores has its type: no handler writes a status, an
\* owner of a lock or a row that is not one (models/appointment.py).
THEOREM TypeCorrect == Spec => []TypeOK
  <1>1. Typed => TypeOK BY DEF Typed
  <1> QED BY <1>1, AlwaysTyped, PTL
-----------------------------------------------------------------------------
(* Double booking. *)

\* A change of the committed rows is one the indexes of the table accept.
LEMMA RowsAccepted ==
  ASSUME Typed, [Next]_vars
  PROVE  appointments' = appointments \/ OneOccupant(appointments')
  <1>1. ASSUME NEW p \in Sessions, NEW rows, NEW wins, Commit(p, rows, wins)
        PROVE  appointments' = appointments \/ OneOccupant(appointments')
    BY <1>1 DEF Commit, DbAccepts
  <1>2. ASSUME NEW p \in Sessions, Commits(p)
        PROVE  appointments' = appointments \/ OneOccupant(appointments')
    BY <1>1, <1>2 DEF Commits, CommitBook, CommitCancel, CommitConfirm, CommitComplete,
                      CommitNoShow, CommitReschedule, CommitWindow
  <1>3. ASSUME NEW p \in Sessions, Arrive(p) PROVE appointments' = appointments
    BY <1>3 DEF Arrive, Book, CancelMy, CancelAdmin, ConfirmVisit, CompleteVisit, MarkNoShow,
                Reschedule, CloseWindow, ReopenWindow, CreateWindow, Begin
  <1>4. ASSUME NEW p \in Sessions, Lock(p) \/ LockTimeout(p) \/ Check(p) \/ Reject(p) \/ Crash(p)
        PROVE  appointments' = appointments
    BY <1>4 DEF Lock, LockTimeout, Check, Reject, Crash, Rollback
  <1> QED BY <1>2, <1>3, <1>4 DEF Next, Progress, Tick, vars

\* No window has two visits, whatever the handlers read without a lock and in
\* whatever order their transactions commit (uq_appointments_occupied_window,
\* with the window of every occupying row present).
THEOREM OneVisit == Spec => []OneVisitPerWindow
  <1> DEFINE Inv == Typed /\ OneOccupant(appointments)
  <1>1. Init => Inv
    BY TypedInit DEF Init, OneOccupant, OnWindow, InStatus, NoRow, CapacityStatuses,
                     ActiveStatuses
  <1>2. Inv /\ [Next]_vars => Inv'
    <2> SUFFICES ASSUME Inv, [Next]_vars PROVE OneOccupant(appointments)'
      BY TypedNext
    <2>1. CASE appointments' = appointments
      BY <2>1 DEF OneOccupant, OnWindow, InStatus
    <2>2. CASE OneOccupant(appointments')
      BY <2>2 DEF OneOccupant, OnWindow, InStatus
    <2> QED BY <2>1, <2>2, RowsAccepted
  <1>3. Inv => OneVisitPerWindow
    BY DEF Typed, RowsComplete, OneOccupant, OneVisitPerWindow, OnWindow, InStatus,
           CapacityStatuses, ActiveStatuses, Kept, CalledOff, AppointmentStatus
  <1> QED BY <1>1, <1>2, <1>3, PTL DEF Spec
-----------------------------------------------------------------------------
(* The daily limit.  A booking or a reschedule counts the visits of the day *)
(* and writes later; what makes the count still true at the commit is the  *)
(* lock of the day (WindowRepository.lock_local_date), so the invariant    *)
(* says who owns which lock, and that a count made under it stays good.    *)

Moving == {"reschedule_my", "reschedule_admin"}
Ending == {"cancel_my", "cancel_admin", "complete", "no_show"}

\* The days whose advisory lock an operation takes.
DaysOf(r) ==
    IF r.op \in Moving THEN {DayOf[r.win], DayOf[r.to]}
    ELSE IF r.op \in {"book"} \cup Ending THEN {DayOf[r.win]} ELSE {}

\* A session holds the locks it took, and has taken all of them when it has
\* made its checks.
Owned ==
    \A p \in Sessions :
        /\ step[p] \in 0..Len(Plan(req[p]))
        /\ phase[p] = "checked" => step[p] = Len(Plan(req[p]))
        /\ \A i \in 1..step[p] : holder[Plan(req[p])[i]] = p

\* What a handler checked under its locks is still so until it commits.
ChecksStillHold ==
    \A p \in Sessions : phase[p] = "checked" =>
        /\ req[p].op = "book" => DailyCount(appointments, DayOf[req[p].win], None) < MaxPerDay
        /\ req[p].op \in Moving =>
              DailyCount(appointments, DayOf[req[p].to], req[p].app) < MaxPerDay
        /\ req[p].op = "confirm" => appointments[req[p].app].status = "confirmed"

\* A request whose fields are those its operation uses.
WellFormed(r) ==
    /\ r \in Request
    /\ r.op # "none" => r.win \in Windows
    /\ r.op \notin {"none", "close", "reopen", "create"} =>
          r.client \in Clients /\ r.service \in Services
    /\ r.op \notin {"none", "book", "close", "reopen", "create"} => r.app \in Appointments
    /\ r.op \in Moving => r.to \in Windows /\ r.to # r.win

DayInv == Typed /\ Owned /\ ChecksStillHold

LEMMA RequestsWellFormed ==
  /\ Typed => \A p \in Sessions : WellFormed(req[p])
  /\ Typed' => \A p \in Sessions : WellFormed(req'[p])
  BY DEF Typed, TypeOK, RequestsComplete, WellFormed, Moving

\* Short sequences of locks.
LEMMA Tuples ==
  ASSUME NEW S
  PROVE  /\ \A a \in S : <<a>> \in Seq(S)
         /\ \A a, b \in S : <<a, b>> \in Seq(S)
         /\ \A a, b, c \in S : <<a, b, c>> \in Seq(S)
         /\ \A a, b, c, d \in S : <<a, b, c, d>> \in Seq(S)
         /\ \A a, b, c, d, e \in S : <<a, b, c, d, e>> \in Seq(S)
  OBVIOUS

\* Two sequences of locks taken one after the other.
LEMMA Joined ==
  ASSUME NEW S, NEW s \in Seq(S), NEW t \in Seq(S), NEW u, u = s \o t
  PROVE  /\ u \in Seq(S) /\ Len(u) = Len(s) + Len(t)
         /\ \A i \in 1..Len(s) : u[i] = s[i]
         /\ \A i \in 1..Len(t) : u[Len(s) + i] = t[i]
  <1>1. Len(s) \in Nat /\ Len(t) \in Nat OBVIOUS
  <1>2. /\ u \in Seq(S) /\ Len(u) = Len(s) + Len(t)
        /\ \A i \in 1 .. Len(s) + Len(t) : u[i] = IF i <= Len(s) THEN s[i] ELSE t[i - Len(s)]
    BY ConcatProperties
  <1>3. ASSUME NEW i \in 1..Len(s) PROVE u[i] = s[i]
    BY <1>1, <1>2
  <1>4. ASSUME NEW i \in 1..Len(t) PROVE u[Len(s) + i] = t[i]
    <2>1. Len(s) + i \in 1..Len(s) + Len(t) /\ ~(Len(s) + i <= Len(s))
          /\ (Len(s) + i) - Len(s) = i
      BY <1>1
    <2> QED BY <1>2, <2>1, Zenon
  <1> QED BY <1>2, <1>3, <1>4

LEMMA JoinedTwice ==
  ASSUME NEW S, NEW s \in Seq(S), NEW t \in Seq(S), NEW u \in Seq(S), NEW v,
         v = (s \o t) \o u
  PROVE  /\ v \in Seq(S) /\ Len(v) = Len(s) + Len(t) + Len(u)
         /\ \A i \in 1..Len(s) : v[i] = s[i]
         /\ \A i \in 1..Len(t) : v[Len(s) + i] = t[i]
         /\ \A i \in 1..Len(u) : v[Len(s) + Len(t) + i] = u[i]
  <1>1. PICK x : x = s \o t OBVIOUS
  <1>2. /\ x \in Seq(S) /\ Len(x) = Len(s) + Len(t)
        /\ \A i \in 1..Len(s) : x[i] = s[i]
    BY <1>1, Joined
  <1>3. v = x \o u BY <1>1
  <1>4. v \in Seq(S) /\ Len(v) = Len(x) + Len(u) BY <1>2, <1>3, Joined
  <1>5. \A i \in 1..Len(x) : v[i] = x[i] BY <1>2, <1>3, Joined
  <1>6. \A i \in 1..Len(u) : v[Len(x) + i] = u[i] BY <1>2, <1>3, Joined
  <1>7. Len(s) \in Nat /\ Len(t) \in Nat OBVIOUS
  <1>8. \A i \in 1..Len(t) : x[Len(s) + i] = t[i] BY <1>1, Joined
  <1>9. ASSUME NEW i \in 1..Len(t) PROVE v[Len(s) + i] = t[i]
    <2>1. Len(s) + i \in 1..Len(x) BY <1>2, <1>7
    <2> QED BY <1>5, <1>8, <2>1
  <1> QED BY <1>2, <1>4, <1>5, <1>6, <1>7, <1>9

\* The locks of a plan are locks, and the two that matter here are in it.
LEMMA PlanLocks ==
  ASSUME NEW r, WellFormed(r)
  PROVE  /\ Plan(r) \in Seq(Locks)
         /\ \A d \in DaysOf(r) : \E i \in 1..Len(Plan(r)) : Plan(r)[i] = DateLock(d)
         /\ r.op \in {"confirm"} \cup Ending \cup Moving =>
               \E i \in 1..Len(Plan(r)) : Plan(r)[i] = AppointmentLock(r.app)
  <1> USE BookingAssumption
  <1>1. r \in Request BY DEF WellFormed
  <1>2. r.op \in AllOps \cup {"none"} BY <1>1 DEF Request
  <1>3. /\ r.op # "none" => r.win \in Windows
        /\ r.op \notin {"none", "close", "reopen", "create"} =>
              r.client \in Clients /\ r.service \in Services
        /\ r.op \notin {"none", "book", "close", "reopen", "create"} => r.app \in Appointments
        /\ r.op \in Moving => r.to \in Windows /\ r.to # r.win
    BY DEF WellFormed, Moving
  <1>4. /\ \A d \in Days : DateLock(d) \in Locks
        /\ \A w \in Windows : WindowLock(w) \in Locks
        /\ \A a \in Appointments : AppointmentLock(a) \in Locks
        /\ \A c \in Clients : ClientLock(c) \in Locks
        /\ \A s \in Services : ServiceLock(s) \in Locks
        /\ \A m \in Staff : StaffLock(m) \in Locks
    BY DEF Locks, DateLock, WindowLock, AppointmentLock, ClientLock, ServiceLock, StaffLock
  <1>5. r.op # "none" => DayOf[r.win] \in Days /\ StaffOf[r.win] \in Staff
    BY <1>3
  <1>6. r.op \in Moving => DayOf[r.to] \in Days /\ StaffOf[r.to] \in Staff
    BY <1>3
  <1> DEFINE Good(plan) ==
        /\ plan \in Seq(Locks)
        /\ \A d \in DaysOf(r) : \E i \in 1..Len(plan) : plan[i] = DateLock(d)
        /\ r.op \in {"confirm"} \cup Ending \cup Moving =>
              \E i \in 1..Len(plan) : plan[i] = AppointmentLock(r.app)
  <1>7. CASE r.op = "book"
    <2>1. Plan(r) = BookPlan(r) BY <1>7 DEF Plan
    <2>2. Len(BookPlan(r)) = 5 /\ BookPlan(r)[1] = DateLock(DayOf[r.win])
      BY DEF BookPlan
    <2>3. BookPlan(r) \in Seq(Locks)
      <3>1. /\ DateLock(DayOf[r.win]) \in Locks /\ WindowLock(r.win) \in Locks
            /\ ClientLock(r.client) \in Locks /\ ServiceLock(r.service) \in Locks
            /\ StaffLock(StaffOf[r.win]) \in Locks
        BY <1>3, <1>4, <1>5, <1>7
      <3> QED BY <3>1, Tuples DEF BookPlan
    <2>4. DaysOf(r) = {DayOf[r.win]} BY <1>7 DEF DaysOf, Moving
    <2>5. Good(Plan(r)) BY <1>7, <2>1, <2>2, <2>3, <2>4 DEF Ending, Moving
    <2> QED BY <2>5
  <1>8. CASE r.op \in Ending
    <2> DEFINE base == AppointmentPlan(r)
    <2>1. Len(base) = 3 /\ base[1] = DateLock(DayOf[r.win]) /\ base[3] = AppointmentLock(r.app)
      BY DEF AppointmentPlan
    <2>0. /\ DateLock(DayOf[r.win]) \in Locks /\ WindowLock(r.win) \in Locks
          /\ AppointmentLock(r.app) \in Locks /\ ClientLock(r.client) \in Locks
      BY <1>3, <1>4, <1>5, <1>8 DEF Ending
    <2>2. base \in Seq(Locks) BY <2>0, Tuples DEF AppointmentPlan
    <2>3. <<ClientLock(r.client)>> \in Seq(Locks) BY <2>0, Tuples
    <2>4. Plan(r) = base \/ Plan(r) = base \o <<ClientLock(r.client)>>
      BY <1>8 DEF Plan, Ending
    <2>5. DaysOf(r) = {DayOf[r.win]} BY <1>8 DEF DaysOf, Ending, Moving
    <2> HIDE DEF base
    <2>9. \A t \in Seq(Locks) :
             /\ base \o t \in Seq(Locks) /\ Len(base \o t) = Len(base) + Len(t)
             /\ \A i \in 1..Len(base) : (base \o t)[i] = base[i]
      BY <2>2, Joined
    <2> DEFINE longer == base \o <<ClientLock(r.client)>>
    <2>10. /\ longer \in Seq(Locks) /\ Len(longer) = 4
           /\ longer[1] = base[1] /\ longer[3] = base[3]
      <3>1. Len(<<ClientLock(r.client)>>) = 1 OBVIOUS
      <3>2. /\ longer \in Seq(Locks) /\ Len(longer) = 3 + 1
            /\ \A i \in 1..3 : longer[i] = base[i]
        BY <2>1, <2>3, <2>9, <3>1
      <3> HIDE DEF longer
      <3> QED BY <3>2
    <2> HIDE DEF longer
    <2>11. Plan(r) = base \/ Plan(r) = longer BY <2>4 DEF longer
    <2>6. Plan(r) \in Seq(Locks) /\ Len(Plan(r)) \in Nat /\ Len(Plan(r)) >= 3
          /\ Plan(r)[1] = DateLock(DayOf[r.win]) /\ Plan(r)[3] = AppointmentLock(r.app)
      BY <2>1, <2>2, <2>10, <2>11
    <2>7. Good(Plan(r)) BY <2>5, <2>6
    <2> QED BY <2>7
  <1>9. CASE r.op = "confirm"
    <2>1. Plan(r) = <<AppointmentLock(r.app), ClientLock(r.client)>> BY <1>9 DEF Plan
    <2>2. Plan(r) \in Seq(Locks)
      <3>1. AppointmentLock(r.app) \in Locks /\ ClientLock(r.client) \in Locks
        BY <1>3, <1>4, <1>9
      <3> QED BY <2>1, <3>1, Tuples
    <2>3. DaysOf(r) = {} BY <1>9 DEF DaysOf, Ending, Moving
    <2>4. Good(Plan(r)) BY <2>1, <2>2, <2>3
    <2> QED BY <2>4
  <1>10. CASE r.op \in Moving
    <2> DEFINE x == DayOf[r.win]
               y == DayOf[r.to]
               dates == DateLocks(x, y)
               wins == WindowLocks(r.win, r.to)
               rest == <<AppointmentLock(r.app), StaffLock(StaffOf[r.to]),
                         ServiceLock(r.service), ClientLock(r.client)>>
    <2>1. x \in Days /\ y \in Days /\ r.win \in Windows /\ r.to \in Windows
      BY <1>3, <1>5, <1>6, <1>10 DEF Moving
    <2>2. /\ dates \in Seq(Locks) /\ Len(dates) \in 1..2
          /\ \E i \in 1..Len(dates) : dates[i] = DateLock(x)
          /\ \E i \in 1..Len(dates) : dates[i] = DateLock(y)
      <3> HIDE DEF x, y
      <3>1. CASE x = y
        BY <1>4, <2>1, <3>1 DEF DateLocks, InOrder
      <3>2. CASE x # y
        <4>1. PICK u \in Days, v \in Days : /\ InOrder(x, y) = <<u, v>>
                                            /\ (u = x /\ v = y) \/ (u = y /\ v = x)
          BY <2>1, <3>2 DEF InOrder
        <4>2. dates = [i \in 1..2 |-> DateLock(<<u, v>>[i])] BY <4>1 DEF DateLocks
        <4>3. dates \in Seq(Locks) /\ Len(dates) = 2 /\ dates[1] = DateLock(u)
              /\ dates[2] = DateLock(v)
          BY <1>4, <4>2
        <4> QED BY <4>1, <4>3
      <3> QED BY <3>1, <3>2
    <2>3. wins \in Seq(Locks) /\ Len(wins) \in 1..2
      <3>1. PICK u \in Windows, v \in Windows : InOrder(r.win, r.to) = <<u, v>>
        BY <1>3, <1>10, <2>1 DEF InOrder
      <3>2. wins = [i \in 1..2 |-> WindowLock(<<u, v>>[i])] BY <3>1 DEF WindowLocks
      <3> QED BY <1>4, <3>2
    <2>4. rest \in Seq(Locks) /\ Len(rest) = 4 /\ rest[1] = AppointmentLock(r.app)
      <3>1. /\ AppointmentLock(r.app) \in Locks /\ StaffLock(StaffOf[r.to]) \in Locks
            /\ ServiceLock(r.service) \in Locks /\ ClientLock(r.client) \in Locks
        BY <1>3, <1>4, <1>6, <1>10 DEF Moving
      <3> QED BY <3>1, Tuples
    <2>5. Plan(r) = dates \o wins \o rest BY <1>10 DEF Plan, ReschedulePlan, Moving
    <2>6. DaysOf(r) = {x, y} BY <1>10 DEF DaysOf, Ending, Moving
    <2> HIDE DEF x, y, dates, wins, rest
    <2>7. /\ Plan(r) \in Seq(Locks) /\ Len(Plan(r)) = Len(dates) + Len(wins) + 4
          /\ \A i \in 1..Len(dates) : Plan(r)[i] = dates[i]
          /\ Plan(r)[Len(dates) + Len(wins) + 1] = AppointmentLock(r.app)
      <3>1. /\ Plan(r) \in Seq(Locks) /\ Len(Plan(r)) = Len(dates) + Len(wins) + Len(rest)
            /\ \A i \in 1..Len(dates) : Plan(r)[i] = dates[i]
            /\ \A i \in 1..Len(rest) : Plan(r)[Len(dates) + Len(wins) + i] = rest[i]
        <4>1. Plan(r) = (dates \o wins) \o rest BY <2>5
        <4>2. dates \in Seq(Locks) /\ wins \in Seq(Locks) /\ rest \in Seq(Locks)
          BY <2>2, <2>3, <2>4
        <4>3. Plan(r) \in Seq(Locks) /\ Len(Plan(r)) = Len(dates) + Len(wins) + Len(rest)
          BY <4>1, <4>2, JoinedTwice
        <4>4. \A i \in 1..Len(dates) : Plan(r)[i] = dates[i] BY <4>1, <4>2, JoinedTwice
        <4>5. \A i \in 1..Len(rest) : Plan(r)[Len(dates) + Len(wins) + i] = rest[i]
          BY <4>1, <4>2, JoinedTwice
        <4> QED BY <4>3, <4>4, <4>5
      <3>2. 1 \in 1..Len(rest) BY <2>4
      <3> QED BY <2>4, <3>1, <3>2
    <2>8. Good(Plan(r)) BY <2>2, <2>3, <2>6, <2>7
    <2> QED BY <2>8
  <1>11. CASE r.op \in {"close", "reopen", "create", "none"}
    <2>1. DaysOf(r) = {} BY <1>11 DEF DaysOf, Ending, Moving
    <2>2. Plan(r) \in Seq(Locks) BY <1>3, <1>4, <1>5, <1>11 DEF Plan
    <2>3. Good(Plan(r)) BY <1>11, <2>1, <2>2 DEF Ending, Moving
    <2> QED BY <2>3
  <1> QED BY <1>2, <1>7, <1>8, <1>9, <1>10, <1>11 DEF AllOps, Ending, Moving

LEMMA SamePlan ==
  ASSUME NEW q, NEW r, q.op = r.op, q.win = r.win, q.to = r.to, q.app = r.app,
         q.client = r.client, q.service = r.service
  PROVE  Plan(q) = Plan(r)
  BY DEF Plan, BookPlan, AppointmentPlan, ReschedulePlan

\* A lock step fills in one field of one request; every plan stays what it was.
LEMMA LockKeepsPlans ==
  ASSUME Typed, NEW p \in Sessions, Lock(p)
  PROVE  \A q \in Sessions : Plan(req'[q]) = Plan(req[q])
  <1> DEFINE r == [req[p] EXCEPT !.withinLimit = BelowLimit(req[p].client, req[p].now)]
  <1>1. req' = req \/ req' = [req EXCEPT ![p] = r]
    BY DEF Lock, Typed, TypeOK
  <1>2. \A q \in Sessions : /\ req'[q].op = req[q].op /\ req'[q].win = req[q].win
                            /\ req'[q].app = req[q].app /\ req'[q].to = req[q].to
                            /\ req'[q].client = req[q].client
                            /\ req'[q].service = req[q].service
    BY <1>1 DEF Typed, TypeOK, Request
  <1> QED BY <1>2, SamePlan

LEMMA OwnedInit == Init => Owned
  BY DEF Init, Owned, NoRequest, Plan

LEMMA FinishOwned ==
  ASSUME Typed, Owned, NEW p \in Sessions, Finish(p)
  PROVE  Owned'
  <1>1. Plan(NoRequest) = << >> BY DEF Plan, NoRequest
  <1>2. req'[p] = NoRequest /\ phase'[p] = "idle" /\ step'[p] = 0
    BY DEF Finish, Typed, TypeOK
  <1>3. \A q \in Sessions \ {p} :
           req'[q] = req[q] /\ phase'[q] = phase[q] /\ step'[q] = step[q]
    BY DEF Finish, Typed, TypeOK
  <1>4. \A l \in Locks : holder[l] # p => holder'[l] = holder[l]
    BY DEF Finish, ReleasedBy
  <1>5. ASSUME NEW q \in Sessions \ {p}, NEW i \in 1..step[q]
        PROVE  holder'[Plan(req[q])[i]] = q
    <2>1. holder[Plan(req[q])[i]] = q BY DEF Owned
    <2>2. step[q] \in 0..Len(Plan(req[q])) BY DEF Owned
    <2>3. Plan(req[q]) \in Seq(Locks) BY PlanLocks, RequestsWellFormed
    <2>4. Plan(req[q])[i] \in Locks BY <2>2, <2>3
    <2> QED BY <1>4, <2>1, <2>4
  <1> QED BY <1>1, <1>2, <1>3, <1>5 DEF Owned

LEMMA CommitsFinish ==
  ASSUME NEW p \in Sessions, Commits(p)
  PROVE  Finish(p) /\ phase[p] = "checked"
  BY DEF Commits, CommitBook, CommitCancel, CommitConfirm, CommitComplete, CommitNoShow,
         CommitReschedule, CommitWindow, Commit, Committing

LEMMA OwnedNext == Typed /\ Owned /\ [Next]_vars => Owned'
  <1> SUFFICES ASSUME Typed, Owned, [Next]_vars PROVE Owned'
    OBVIOUS
  <1>1. ASSUME NEW p \in Sessions, Arrive(p) PROVE Owned'
    <2>1. PICK r : Begin(p, r)
      BY <1>1 DEF Arrive, Book, CancelMy, CancelAdmin, ConfirmVisit, CompleteVisit, MarkNoShow,
                  Reschedule, CloseWindow, ReopenWindow, CreateWindow
    <2>2. /\ req'[p] = r /\ phase'[p] = "locking" /\ step'[p] = 0
          /\ \A q \in Sessions \ {p} :
                req'[q] = req[q] /\ phase'[q] = phase[q] /\ step'[q] = step[q]
          /\ holder' = holder
      BY <2>1 DEF Begin, Typed, TypeOK
    <2>3. Plan(req'[p]) \in Seq(Locks)
      <3>1. Typed' BY <1>1, ArriveTyped
      <3>2. WellFormed(req'[p]) BY <3>1, RequestsWellFormed
      <3> QED BY <3>2, PlanLocks
    <2>4. Len(Plan(req'[p])) \in Nat BY <2>3
    <2> QED BY <2>2, <2>4 DEF Owned
  <1>2. ASSUME NEW p \in Sessions, Lock(p) PROVE Owned'
    <2> DEFINE l == WantedLock(p)
    <2>1. \A q \in Sessions : Plan(req'[q]) = Plan(req[q]) BY <1>2, LockKeepsPlans
    <2>2. l = Plan(req[p])[step[p] + 1] /\ holder[l] = None /\ step[p] < Len(Plan(req[p]))
          /\ phase[p] = "locking"
      BY <1>2 DEF Lock, WantedLock
    <2> HIDE DEF l
    <2>3. /\ holder' = [holder EXCEPT ![l] = p] /\ step' = [step EXCEPT ![p] = @ + 1]
          /\ phase' = phase
      BY <1>2 DEF Lock, l
    <2>4. \A q \in Sessions : Plan(req[q]) \in Seq(Locks) BY PlanLocks, RequestsWellFormed
    <2>5. step[p] \in Nat /\ Len(Plan(req[p])) \in Nat BY <2>4 DEF Typed, TypeOK
    <2>6. l \in Locks BY <2>2, <2>4, <2>5
    <2>7. holder \in [Locks -> Sessions \cup {None}] BY DEF Typed, TypeOK
    <2>8. ASSUME NEW q \in Sessions, NEW i \in 1..step[q]
          PROVE  holder'[Plan(req[q])[i]] = q
      <3>1. holder[Plan(req[q])[i]] = q /\ q # None BY BookingAssumption DEF Owned
      <3>2. step[q] \in 0..Len(Plan(req[q])) BY DEF Owned
      <3>3. Plan(req[q])[i] \in Locks BY <2>4, <3>2
      <3> QED BY <2>2, <2>3, <2>7, <3>1, <3>3
    <2>9. holder'[l] = p BY <2>3, <2>6, <2>7
    <2>10. ASSUME NEW q \in Sessions
           PROVE /\ step'[q] \in 0..Len(Plan(req'[q]))
                 /\ phase'[q] = "checked" => step'[q] = Len(Plan(req'[q]))
                 /\ \A i \in 1..step'[q] : holder'[Plan(req'[q])[i]] = q
      <3>1. Plan(req'[q]) = Plan(req[q]) BY <2>1
      <3>2. CASE q # p
        <4>1. step'[q] = step[q] BY <2>3, <3>2 DEF Typed, TypeOK
        <4> QED BY <2>3, <2>8, <3>1, <4>1 DEF Owned
      <3>3. CASE q = p
        <4>1. step'[p] = step[p] + 1 BY <2>3 DEF Typed, TypeOK
        <4>2. phase'[p] = "locking" BY <2>2, <2>3
        <4>3. step'[p] \in 0..Len(Plan(req[p])) BY <2>2, <2>5, <4>1
        <4>4. ASSUME NEW i \in 1..step'[p] PROVE holder'[Plan(req[p])[i]] = p
          <5>1. i \in 1..step[p] \/ i = step[p] + 1 BY <2>5, <4>1
          <5> QED BY <2>2, <2>8, <2>9, <5>1
        <4> QED BY <3>1, <3>3, <4>2, <4>3, <4>4
      <3> QED BY <3>2, <3>3
    <2> QED BY <2>10 DEF Owned
  <1>3. ASSUME NEW p \in Sessions, Check(p) PROVE Owned'
    <2>1. step[p] = Len(Plan(req[p])) BY <1>3 DEF Check, AllLocked
    <2>2. UNCHANGED <<holder, req, step>> /\ \A q \in Sessions \ {p} : phase'[q] = phase[q]
      BY <1>3 DEF Check, Typed, TypeOK
    <2> QED BY <2>1, <2>2 DEF Owned
  <1>4. ASSUME NEW p \in Sessions, LockTimeout(p) \/ Reject(p) \/ Crash(p) \/ Commits(p)
        PROVE  Owned'
    BY <1>4, FinishOwned, CommitsFinish DEF LockTimeout, Reject, Crash, Rollback
  <1>5. CASE Tick \/ UNCHANGED vars
    BY <1>5 DEF Tick, vars, Owned
  <1> QED BY <1>1, <1>2, <1>3, <1>4, <1>5 DEF Next, Progress

\* A lock of the plan of a session that has made its checks is its own.
LEMMA CheckedHolds ==
  ASSUME Typed, Owned, NEW p \in Sessions, phase[p] = "checked"
  PROVE  /\ \A d \in DaysOf(req[p]) : holder[DateLock(d)] = p
         /\ req[p].op \in {"confirm"} \cup Ending \cup Moving =>
               holder[AppointmentLock(req[p].app)] = p
  <1>1. step[p] = Len(Plan(req[p])) BY DEF Owned
  <1>2. \A i \in 1..Len(Plan(req[p])) : holder[Plan(req[p])[i]] = p BY <1>1 DEF Owned
  <1>3. WellFormed(req[p]) BY RequestsWellFormed
  <1> QED BY <1>2, <1>3, PlanLocks

OnlyChanges(S) == \A b \in Appointments \ S : appointments'[b] = appointments[b]

\* What a commit does to the rows, handler by handler.
Unchanged == appointments' = appointments
StatusChanged(r) ==
    /\ r.op \in {"confirm"} \cup Ending /\ OnlyChanges({r.app})
    /\ appointments'[r.app].status \in AppointmentStatus \ {"absent"}
    /\ appointments'[r.app].window = r.win
    /\ r.op = "confirm" => appointments'[r.app].status = "client_confirmed"
Added(r, w, a) ==
    /\ a \in Appointments /\ appointments[a].status = "absent"
    /\ appointments'[a].status = "confirmed" /\ appointments'[a].window = w
Booked(r) ==
    r.op = "book" /\ \E a \in Appointments : Added(r, r.win, a) /\ OnlyChanges({a})
Replaced(r) ==
    /\ r.op \in Moving /\ appointments'[r.app].status = "rescheduled"
    /\ \E a \in Appointments : Added(r, r.to, a) /\ OnlyChanges({a, r.app})

LEMMA CommitEffects ==
  ASSUME Typed, NEW p \in Sessions, Commits(p)
  PROVE  \/ Unchanged \/ StatusChanged(req[p]) \/ Booked(req[p]) \/ Replaced(req[p])
  <1> DEFINE r == req[p]
  <1>0. appointments \in [Appointments -> AppointmentRow] BY DEF Typed, TypeOK
  <1>1. r.op \in {"confirm"} \cup Ending \cup Moving =>
           /\ r.app \in Appointments /\ appointments[r.app].status # "absent"
           /\ appointments[r.app].window = r.win
    BY DEF Typed, RequestsComplete, Ending, Moving
  <1>2. ASSUME NEW rows, NEW wins, Commit(p, rows, wins)
        PROVE  Unchanged \/ appointments' = rows
    BY <1>2 DEF Commit, Unchanged
  <1>3. ASSUME NEW st \in AppointmentStatus \ {"absent"}, r.op \in {"confirm"} \cup Ending \cup Moving
        PROVE  /\ Ended(appointments, r.app, st) \in [Appointments -> AppointmentRow]
               /\ Ended(appointments, r.app, st)[r.app].status = st
               /\ Ended(appointments, r.app, st)[r.app].window = r.win
               /\ \A b \in Appointments \ {r.app} :
                     Ended(appointments, r.app, st)[b] = appointments[b]
    <2> HIDE DEF r
    <2>1. appointments[r.app] \in AppointmentRow BY <1>0, <1>1, <1>3
    <2> DEFINE row == [appointments[r.app] EXCEPT !.status = st, !.reminders = FALSE]
    <2>2. /\ row \in AppointmentRow /\ row.status = st
          /\ row.window = appointments[r.app].window
      BY <2>1 DEF AppointmentRow
    <2>3. Ended(appointments, r.app, st) = [appointments EXCEPT ![r.app] = row]
      BY <1>0 DEF Ended
    <2> HIDE DEF row
    <2> QED BY <1>0, <1>1, <1>3, <2>2, <2>3
  <1>4. ASSUME r.op \in Ending, NEW st \in AppointmentStatus \ {"absent"}, NEW wins,
               Commit(p, Ended(appointments, r.app, st), wins)
        PROVE  Unchanged \/ StatusChanged(r)
    <2>1. r.op # "confirm" BY <1>4 DEF Ending
    <2> QED BY <1>2, <1>3, <1>4, <2>1 DEF StatusChanged, OnlyChanges
  <1>5. CASE CommitBook(p)
    <2>1. PICK a \in Appointments : IsNextId(a)
            /\ Commit(p, [appointments EXCEPT
                            ![a] = NewRow(req[p].win, req[p].client, req[p].service, None)],
                         [windows EXCEPT
                            ![req[p].win] = OrmWrite(@, req[p].winSeen, "booked")])
      BY <1>5 DEF CommitBook
    <2>2. Unchanged \/ appointments' = [appointments EXCEPT
                            ![a] = NewRow(req[p].win, req[p].client, req[p].service, None)]
      BY <1>2, <2>1
    <2> QED BY <1>0, <1>5, <2>1, <2>2
        DEF Booked, Added, OnlyChanges, NewRow, IsNextId, FreeIds, InStatus, CommitBook, Committing
  <1>6. CASE CommitCancel(p)
    <2>1. CancelledStatus(r) \in AppointmentStatus \ {"absent"}
      BY DEF CancelledStatus, AppointmentStatus
    <2> QED BY <1>4, <1>6, <2>1 DEF CommitCancel, Committing, Ending
  <1>7. CASE CommitConfirm(p)
    <2> DEFINE row == [appointments[r.app] EXCEPT !.status = "client_confirmed"]
    <2>1. r.op = "confirm" BY <1>7 DEF CommitConfirm, Committing
    <2>2. Unchanged \/ appointments' = [appointments EXCEPT ![r.app] = row]
      <3>1. Unchanged \/ appointments' = [appointments EXCEPT ![r.app].status = "client_confirmed"]
        BY <1>2, <1>7 DEF CommitConfirm
      <3> QED BY <3>1
    <2>3. appointments[r.app] \in AppointmentRow BY <1>0, <1>1, <2>1
    <2>4. row.status = "client_confirmed" /\ row.window = appointments[r.app].window
      <3> HIDE DEF r
      <3> QED BY <2>3 DEF AppointmentRow
    <2> HIDE DEF row, r
    <2> QED BY <1>0, <1>1, <2>1, <2>2, <2>4 DEF StatusChanged, OnlyChanges, AppointmentStatus, r
  <1>8. CASE CommitComplete(p)
    BY <1>4, <1>8 DEF CommitComplete, Committing, Ending, AppointmentStatus
  <1>9. CASE CommitNoShow(p)
    BY <1>4, <1>9 DEF CommitNoShow, Committing, Ending, AppointmentStatus
  <1>10. CASE CommitReschedule(p)
    <2>1. PICK a \in Appointments : IsNextId(a) /\ (Unchanged \/ appointments' = Moved(r, a))
      BY <1>2, <1>10 DEF CommitReschedule
    <2>2. r.op \in Moving BY <1>10 DEF CommitReschedule, Committing, Moving
    <2>3. appointments[a].status = "absent" /\ a # r.app
      BY <1>1, <2>1, <2>2 DEF IsNextId, FreeIds, InStatus
    <2> DEFINE old == Ended(appointments, r.app, "rescheduled")
    <2>4. /\ old \in [Appointments -> AppointmentRow] /\ old[r.app].status = "rescheduled"
          /\ \A b \in Appointments \ {r.app} : old[b] = appointments[b]
      <3>1. "rescheduled" \in AppointmentStatus \ {"absent"} BY DEF AppointmentStatus
      <3> QED BY <1>3, <2>2, <3>1
    <2>5. Moved(r, a) = [old EXCEPT ![a] = NewRow(r.to, r.client, r.service, r.app)]
      BY DEF Moved
    <2> HIDE DEF old
    <2>6. CASE appointments' = Moved(r, a)
      <3>1. appointments'[a] = NewRow(r.to, r.client, r.service, r.app)
        BY <2>4, <2>5, <2>6
      <3>2. \A b \in Appointments \ {a} : appointments'[b] = old[b]
        BY <2>4, <2>5, <2>6
      <3>3. Added(r, r.to, a) BY <2>3, <3>1 DEF Added, NewRow
      <3>4. OnlyChanges({a, r.app}) BY <2>4, <3>2 DEF OnlyChanges
      <3>5. appointments'[r.app].status = "rescheduled" BY <1>1, <2>2, <2>3, <2>4, <3>2
      <3> QED BY <2>2, <3>3, <3>4, <3>5 DEF Replaced
    <2> QED BY <2>1, <2>6
  <1>11. CASE CommitWindow(p)
    BY <1>2, <1>11 DEF CommitWindow, Unchanged
  <1> QED BY <1>5, <1>6, <1>7, <1>8, <1>9, <1>10, <1>11 DEF Commits

\* A commit adds no visit to a day whose lock its session does not hold, and
\* leaves alone the visits whose rows it has not locked.
LEMMA OthersUntouched ==
  ASSUME DayInv, NEW p \in Sessions, Commits(p)
  PROVE  /\ \A d \in Days : holder[DateLock(d)] # p =>
               UsingDay(appointments', d) \subseteq UsingDay(appointments, d)
         /\ \A a \in Appointments :
               (holder[AppointmentLock(a)] # p /\ appointments[a].status = "confirmed")
                   => appointments'[a].status = "confirmed"
  <1> DEFINE r == req[p]
  <1>1. phase[p] = "checked" BY CommitsFinish
  <1>2. /\ \A d \in DaysOf(r) : holder[DateLock(d)] = p
        /\ r.op \in {"confirm"} \cup Ending \cup Moving => holder[AppointmentLock(r.app)] = p
    BY <1>1, CheckedHolds DEF DayInv
  <1>3. /\ r.op = "confirm" =>
              r.app \in Appointments /\ appointments[r.app].window = r.win
                /\ appointments[r.app].status = "confirmed"
        /\ r.op \in Moving => r.app \in Appointments
    BY <1>1 DEF DayInv, Typed, RequestsComplete, ChecksStillHold, Moving
  <1>4. Unchanged \/ StatusChanged(r) \/ Booked(r) \/ Replaced(r)
    BY CommitEffects DEF DayInv
  <1> HIDE DEF r
  <1>5. CASE Unchanged
    BY <1>5 DEF Unchanged, UsingDay, InStatus
  <1>6. CASE StatusChanged(r)
    <2>1. CASE r.op = "confirm"
      BY <1>2, <1>3, <1>6, <2>1
      DEF StatusChanged, OnlyChanges, UsingDay, InStatus, CapacityStatuses, ActiveStatuses
    <2>2. CASE r.op \in Ending
      <3>1. DayOf[r.win] \in DaysOf(r) BY <2>2 DEF DaysOf, Ending, Moving
      <3> QED BY <1>2, <1>6, <2>2, <3>1 DEF StatusChanged, OnlyChanges, UsingDay, InStatus
    <2> QED BY <1>6, <2>1, <2>2 DEF StatusChanged
  <1>7. CASE Booked(r)
    <2>1. DayOf[r.win] \in DaysOf(r) BY <1>7 DEF Booked, DaysOf, Moving
    <2> QED BY <1>2, <1>7, <2>1 DEF Booked, Added, OnlyChanges, UsingDay, InStatus
  <1>8. CASE Replaced(r)
    <2>1. DayOf[r.to] \in DaysOf(r) BY <1>8 DEF Replaced, DaysOf
    <2>2. appointments'[r.app].status \notin CapacityStatuses
      BY <1>8 DEF Replaced, CapacityStatuses, ActiveStatuses
    <2> QED BY <1>2, <1>8, <2>1, <2>2 DEF Replaced, Added, OnlyChanges, UsingDay, InStatus
  <1> QED BY <1>4, <1>5, <1>6, <1>7, <1>8

LEMMA DaysFinite ==
  ASSUME NEW rows, NEW d
  PROVE  IsFiniteSet(UsingDay(rows, d)) /\ Cardinality(UsingDay(rows, d)) \in Nat
  <1>1. IsFiniteSet(Appointments) BY BookingAssumption
  <1>2. UsingDay(rows, d) \subseteq Appointments BY DEF UsingDay, InStatus
  <1>3. IsFiniteSet(UsingDay(rows, d)) BY <1>1, <1>2, FS_Subset
  <1> QED BY <1>3, FS_CardinalityType

\* A count over fewer rows is no larger.
LEMMA CountShrinks ==
  ASSUME NEW rows, NEW new, NEW d, NEW x, UsingDay(new, d) \subseteq UsingDay(rows, d)
  PROVE  DailyCount(new, d, x) <= DailyCount(rows, d, x)
  <1> DEFINE A == UsingDay(rows, d) \ {x}
             B == UsingDay(new, d) \ {x}
  <1>1. IsFiniteSet(UsingDay(rows, d)) BY DaysFinite
  <1>2. A \subseteq UsingDay(rows, d) /\ B \subseteq A OBVIOUS
  <1>3. IsFiniteSet(A) BY <1>1, <1>2, FS_Subset
  <1>4. Cardinality(B) <= Cardinality(A) BY <1>2, <1>3, FS_Subset
  <1> QED BY <1>4 DEF DailyCount

LEMMA ChecksNext == DayInv /\ [Next]_vars => ChecksStillHold'
  <1> SUFFICES ASSUME DayInv, [Next]_vars PROVE ChecksStillHold'
    OBVIOUS
  <1>0. /\ req \in [Sessions -> Request]
        /\ phase \in [Sessions -> {"idle", "locking", "checked"}]
    BY DEF DayInv, Typed, TypeOK
  <1> DEFINE Still(q, rows) ==
        /\ req[q].op = "book" => DailyCount(rows, DayOf[req[q].win], None) < MaxPerDay
        /\ req[q].op \in Moving => DailyCount(rows, DayOf[req[q].to], req[q].app) < MaxPerDay
        /\ req[q].op = "confirm" => rows[req[q].app].status = "confirmed"
  \* The sessions that were checked before the step.
  <1>1. ASSUME \A q \in Sessions : phase'[q] = "checked" =>
                  phase[q] = "checked" /\ req'[q] = req[q],
               appointments' = appointments
        PROVE  ChecksStillHold'
    BY <1>1 DEF DayInv, ChecksStillHold
  <1>2. ASSUME NEW p \in Sessions, Check(p) PROVE ChecksStillHold'
    <2>1. req' = req /\ appointments' = appointments
          /\ \A q \in Sessions \ {p} : phase'[q] = phase[q]
      BY <1>0, <1>2 DEF Check
    <2>2. Accepts(req[p]) BY <1>2 DEF Check
    <2>3. Still(p, appointments)
      BY <2>2 DEF Accepts, BookAccepts, RescheduleAccepts, ConfirmAccepts, Moving
    <2>4. \A q \in Sessions \ {p} : phase[q] = "checked" => Still(q, appointments)
      BY DEF DayInv, ChecksStillHold
    <2>5. \A q \in Sessions : phase'[q] = "checked" => Still(q, appointments)
      BY <2>1, <2>3, <2>4
    <2> QED BY <2>1, <2>5 DEF ChecksStillHold
  <1>3. ASSUME NEW p \in Sessions, Commits(p) PROVE ChecksStillHold'
    <2>1. /\ phase'[p] = "idle"
          /\ \A q \in Sessions \ {p} : req'[q] = req[q] /\ phase'[q] = phase[q]
      BY <1>0, <1>3, CommitsFinish DEF Finish
    <2>2. ASSUME NEW q \in Sessions \ {p}, phase[q] = "checked" PROVE Still(q, appointments')
      <3>1. /\ \A d \in DaysOf(req[q]) : holder[DateLock(d)] = q
            /\ req[q].op = "confirm" => holder[AppointmentLock(req[q].app)] = q
        BY <2>2, CheckedHolds DEF DayInv
      <3>2. Still(q, appointments) BY <2>2 DEF DayInv, ChecksStillHold
      <3>3. /\ req[q].op \in {"book"} \cup Moving => req[q].win \in Windows
            /\ req[q].op \in Moving => req[q].to \in Windows
            /\ req[q].op = "confirm" => req[q].app \in Appointments
        BY DEF DayInv, Typed, RequestsComplete, Moving
      <3>4. ASSUME NEW d \in Days, d \in DaysOf(req[q]), NEW x
            PROVE  DailyCount(appointments', d, x) <= DailyCount(appointments, d, x)
        <4>1. holder[DateLock(d)] # p BY <3>1, <3>4
        <4>2. UsingDay(appointments', d) \subseteq UsingDay(appointments, d)
          BY <1>3, <4>1, OthersUntouched
        <4> QED BY <4>2, CountShrinks
      <3>5. ASSUME NEW d, NEW x
            PROVE  DailyCount(appointments, d, x) \in Nat /\ DailyCount(appointments', d, x) \in Nat
        <4>1. IsFiniteSet(UsingDay(appointments, d)) /\ IsFiniteSet(UsingDay(appointments', d))
          BY DaysFinite
        <4>2. IsFiniteSet(UsingDay(appointments, d) \ {x})
              /\ IsFiniteSet(UsingDay(appointments', d) \ {x})
          BY <4>1, FS_RemoveElement
        <4> QED BY <4>2, FS_CardinalityType DEF DailyCount
      <3>6. MaxPerDay \in Nat BY BookingAssumption
      <3>7. CASE req[q].op = "book"
        <4>1. DayOf[req[q].win] \in Days /\ DayOf[req[q].win] \in DaysOf(req[q])
          BY <3>3, <3>7, BookingAssumption DEF DaysOf, Moving
        <4>2. DailyCount(appointments', DayOf[req[q].win], None)
                 <= DailyCount(appointments, DayOf[req[q].win], None)
          BY <3>4, <4>1
        <4>3. DailyCount(appointments, DayOf[req[q].win], None) < MaxPerDay BY <3>2, <3>7
        <4>4. DailyCount(appointments', DayOf[req[q].win], None) < MaxPerDay
          BY <3>5, <3>6, <4>2, <4>3
        <4> QED BY <3>7, <4>4 DEF Moving
      <3>8. CASE req[q].op \in Moving
        <4>1. DayOf[req[q].to] \in Days /\ DayOf[req[q].to] \in DaysOf(req[q])
          BY <3>3, <3>8, BookingAssumption DEF DaysOf
        <4>2. DailyCount(appointments', DayOf[req[q].to], req[q].app)
                 <= DailyCount(appointments, DayOf[req[q].to], req[q].app)
          BY <3>4, <4>1
        <4>3. DailyCount(appointments, DayOf[req[q].to], req[q].app) < MaxPerDay BY <3>2, <3>8
        <4>4. DailyCount(appointments', DayOf[req[q].to], req[q].app) < MaxPerDay
          BY <3>5, <3>6, <4>2, <4>3
        <4> QED BY <3>8, <4>4 DEF Moving
      <3>9. CASE req[q].op = "confirm"
        <4>1. holder[AppointmentLock(req[q].app)] # p
              /\ appointments[req[q].app].status = "confirmed"
          BY <3>1, <3>2, <3>9
        <4>2. appointments'[req[q].app].status = "confirmed"
          BY <1>3, <3>3, <3>9, <4>1, OthersUntouched
        <4> QED BY <3>9, <4>2 DEF Moving
      <3> QED BY <3>7, <3>8, <3>9
    <2> QED BY <2>1, <2>2 DEF ChecksStillHold
  <1>4. ASSUME NEW p \in Sessions, LockTimeout(p) \/ Reject(p) \/ Crash(p) PROVE ChecksStillHold'
    BY <1>0, <1>1, <1>4 DEF LockTimeout, Reject, Crash, Rollback, Finish
  <1>5. ASSUME NEW p \in Sessions, Arrive(p) PROVE ChecksStillHold'
    <2>1. PICK r : Begin(p, r)
      BY <1>5 DEF Arrive, Book, CancelMy, CancelAdmin, ConfirmVisit, CompleteVisit, MarkNoShow,
                  Reschedule, CloseWindow, ReopenWindow, CreateWindow
    <2> QED BY <1>0, <1>1, <2>1 DEF Begin
  <1>6. ASSUME NEW p \in Sessions, Lock(p) PROVE ChecksStillHold'
    <2>1. phase[p] = "locking" /\ phase' = phase /\ appointments' = appointments
      BY <1>6 DEF Lock
    <2>2. \A q \in Sessions \ {p} : req'[q] = req[q] BY <1>0, <1>6 DEF Lock
    <2> QED BY <1>1, <2>1, <2>2
  <1>7. CASE Tick \/ UNCHANGED vars
    BY <1>1, <1>7 DEF Tick, vars
  <1> QED BY <1>2, <1>3, <1>4, <1>5, <1>6, <1>7 DEF Next, Progress

\* A new visit is the one the committing session adds, and its day has room.
LEMMA NewVisitHasRoom ==
  ASSUME DayInv, NEW p \in Sessions, Commits(p), NEW a \in Appointments, IsNew(a)
  PROVE  Cardinality(UsingDay(appointments', DayOf[appointments'[a].window])) <= MaxPerDay
  <1> DEFINE r == req[p]
  <1>1. phase[p] = "checked" BY CommitsFinish
  <1>2. appointments[a].status = "absent" /\ appointments'[a].status # "absent" BY DEF IsNew
  <1>3. Unchanged \/ StatusChanged(r) \/ Booked(r) \/ Replaced(r)
    BY CommitEffects DEF DayInv
  <1>4. r.op \in {"confirm"} \cup Ending \cup Moving =>
           r.app \in Appointments /\ appointments[r.app].status # "absent"
    BY DEF DayInv, Typed, RequestsComplete, Ending, Moving
  <1>5. /\ r.op = "book" => DailyCount(appointments, DayOf[r.win], None) < MaxPerDay
        /\ r.op \in Moving => DailyCount(appointments, DayOf[r.to], r.app) < MaxPerDay
    BY <1>1 DEF DayInv, ChecksStillHold
  <1> HIDE DEF r
  <1>6. MaxPerDay \in Nat /\ None \notin Appointments BY BookingAssumption
  \* One more visit in a day where, but for x, there was room for it.
  <1>7. ASSUME NEW d, NEW x, DailyCount(appointments, d, x) < MaxPerDay,
               UsingDay(appointments', d) \subseteq (UsingDay(appointments, d) \ {x}) \cup {a}
        PROVE  Cardinality(UsingDay(appointments', d)) <= MaxPerDay
    <2> DEFINE A == UsingDay(appointments, d) \ {x}
    <2>1. IsFiniteSet(UsingDay(appointments, d)) BY DaysFinite
    <2>2. IsFiniteSet(A) BY <2>1, FS_RemoveElement
    <2>3. /\ IsFiniteSet(A \cup {a})
          /\ Cardinality(A \cup {a}) = IF a \in A THEN Cardinality(A) ELSE Cardinality(A) + 1
      BY <2>2, FS_AddElement
    <2>4. Cardinality(A) < MaxPerDay /\ Cardinality(A) \in Nat
      BY <1>7, <2>2, FS_CardinalityType DEF DailyCount
    <2>5. UsingDay(appointments', d) \subseteq A \cup {a} BY <1>7
    <2> HIDE DEF A
    <2>6. Cardinality(UsingDay(appointments', d)) <= Cardinality(A \cup {a})
      BY <2>3, <2>5, FS_Subset
    <2>7. Cardinality(UsingDay(appointments', d)) \in Nat BY DaysFinite
    <2>8. Cardinality(A \cup {a}) <= MaxPerDay /\ Cardinality(A \cup {a}) \in Nat
      BY <1>6, <2>3, <2>4
    <2> QED BY <1>6, <2>6, <2>7, <2>8
  <1>8. CASE Unchanged \/ StatusChanged(r)
    BY <1>2, <1>4, <1>8 DEF Unchanged, StatusChanged, OnlyChanges
  <1>9. CASE Booked(r)
    <2>1. PICK b \in Appointments : Added(r, r.win, b) /\ OnlyChanges({b})
      BY <1>9 DEF Booked
    <2>2. a = b BY <1>2, <2>1 DEF OnlyChanges
    <2>3. appointments'[a].window = r.win BY <2>1, <2>2 DEF Added
    <2>4. DailyCount(appointments, DayOf[r.win], None) < MaxPerDay BY <1>5, <1>9 DEF Booked
    <2>5. UsingDay(appointments', DayOf[r.win])
             \subseteq (UsingDay(appointments, DayOf[r.win]) \ {None}) \cup {a}
      BY <1>6, <2>1, <2>2 DEF OnlyChanges, UsingDay, InStatus
    <2> QED BY <1>7, <2>3, <2>4, <2>5
  <1>10. CASE Replaced(r)
    <2>1. PICK b \in Appointments : Added(r, r.to, b) /\ OnlyChanges({b, r.app})
      BY <1>10 DEF Replaced
    <2>2. a # r.app BY <1>2, <1>4, <1>10 DEF Replaced
    <2>3. a = b BY <1>2, <2>1, <2>2 DEF OnlyChanges
    <2>4. appointments'[a].window = r.to BY <2>1, <2>3 DEF Added
    <2>5. DailyCount(appointments, DayOf[r.to], r.app) < MaxPerDay BY <1>5, <1>10 DEF Replaced
    <2>6. appointments'[r.app].status \notin CapacityStatuses
      BY <1>10 DEF Replaced, CapacityStatuses, ActiveStatuses
    <2>7. UsingDay(appointments', DayOf[r.to])
             \subseteq (UsingDay(appointments, DayOf[r.to]) \ {r.app}) \cup {a}
      BY <2>1, <2>3, <2>6 DEF OnlyChanges, UsingDay, InStatus
    <2> QED BY <1>7, <2>4, <2>5, <2>7
  <1> QED BY <1>3, <1>8, <1>9, <1>10

\* No booking and no reschedule takes a day over its limit of visits, whatever
\* other requests run between the count and the commit: the lock of the day
\* covers both (BookingService.book, RescheduleService._reschedule).
THEOREM DailyLimit == Spec => DailyLimitHeld
  <1>1. Init => DayInv
    BY TypedInit, OwnedInit DEF Init, DayInv, ChecksStillHold
  <1>2. DayInv /\ [Next]_vars => DayInv'
    BY TypedNext, OwnedNext, ChecksNext DEF DayInv
  <1>3. DayInv /\ [Next]_vars =>
          [\A a \in Appointments : IsNew(a) =>
             Cardinality(UsingDay(appointments', DayOf[appointments'[a].window]))
                <= MaxPerDay]_vars
    <2> SUFFICES ASSUME DayInv, [Next]_vars, NEW a \in Appointments, IsNew(a)
                 PROVE  Cardinality(UsingDay(appointments', DayOf[appointments'[a].window]))
                          <= MaxPerDay
      OBVIOUS
    <2>1. appointments' # appointments BY DEF IsNew
    <2>2. ASSUME NEW p \in Sessions, Arrive(p) PROVE appointments' = appointments
      BY <2>2 DEF Arrive, Book, CancelMy, CancelAdmin, ConfirmVisit, CompleteVisit, MarkNoShow,
                  Reschedule, CloseWindow, ReopenWindow, CreateWindow, Begin
    <2>3. \E p \in Sessions : Commits(p)
      BY <2>1, <2>2 DEF Next, Progress, Tick, vars, Lock, LockTimeout, Check, Reject, Crash,
                        Rollback
    <2> QED BY <2>3, NewVisitHasRoom
  <1> QED BY <1>1, <1>2, <1>3, PTL DEF Spec, DailyLimitHeld
=============================================================================
