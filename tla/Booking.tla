------------------------------ MODULE Booking ------------------------------
(***************************************************************************)
(* The calendar core: availability windows and the appointments in them,   *)
(* changed by concurrent database sessions, each running one request of    *)
(* BookingService, RescheduleService, AppointmentService or                *)
(* AvailabilityService (app/services), with payments disabled.             *)
(*                                                                         *)
(* A session first reads rows WITHOUT a lock (the handler's "initial"      *)
(* objects), then takes its locks one by one in the order of the code,     *)
(* then runs its checks, then writes and commits.  A SELECT ... FOR UPDATE *)
(* of a row the session has already loaded takes the lock but does not     *)
(* refresh the loaded object (SQLAlchemy's identity map; no statement of   *)
(* the repository asks for populate_existing), so those checks see the     *)
(* values of the first read, kept here in req[p].*Seen.  COUNT queries and *)
(* rows first loaded under their lock see the committed state.             *)
(***************************************************************************)
EXTENDS Integers, Sequences, FiniteSets

CONSTANTS
    Sessions,       \* database sessions, each serving one request at a time
    Windows,        \* ids of availability windows
    Appointments,   \* ids of appointments; bounds how many are ever created
    Clients,        \* users who book
    Services,       \* services of the catalogue
    Staff,          \* staff members
    Days,           \* ids of (staff member, local date) pairs, in lock order
    DayOf,          \* the day of a window
    StaffOf,        \* the staff member of a window
    StartAt,        \* start of a window, in clock ticks
    EndAt,          \* end of a window
    InitiallyOpen,  \* windows that exist, open, at the start
    MaxPerDay,      \* settings.max_appointments_per_day
    MaxFuture,      \* settings.future_booking_limit_max
    Deadline,       \* cancellation and reschedule deadline of clients
    MaxClock,       \* bound on the clock
    Ops,            \* the operations requested in this instance
    None            \* no window, no appointment, nobody

AllOps == {"book", "cancel_my", "cancel_admin", "confirm", "complete", "no_show",
           "reschedule_my", "reschedule_admin", "close", "reopen", "create"}

ASSUME BookingAssumption ==
    /\ Windows \subseteq Nat /\ Appointments \subseteq Nat /\ Days \subseteq Nat
    /\ IsFiniteSet(Appointments)
    /\ DayOf \in [Windows -> Days] /\ StaffOf \in [Windows -> Staff]
    /\ StartAt \in [Windows -> Nat] /\ EndAt \in [Windows -> Nat]
    /\ InitiallyOpen \subseteq Windows
    /\ MaxPerDay \in Nat \ {0} /\ MaxFuture \in Nat \ {0}
    /\ Deadline \in Nat /\ MaxClock \in Nat
    /\ Ops \subseteq AllOps
    /\ None \notin Sessions \cup Windows \cup Appointments \cup Clients \cup Services
\* The table of windows is finite, as is every table.
ASSUME FiniteWindows == IsFiniteSet(Windows)

VARIABLES
    clock,          \* the wall clock
    windows,        \* committed status of each window
    appointments,   \* committed row of each appointment
    holder,         \* which session holds each lock
    req,            \* the request each session runs, with the rows it has read
    phase,          \* "idle", "locking" or "checked"
    step            \* how many locks of its plan the session has taken

vars == <<clock, windows, appointments, holder, req, phase, step>>
-----------------------------------------------------------------------------
(* Statuses. *)

WindowStatus == {"absent", "open", "booked", "closed"}
AppointmentStatus == {"absent", "confirmed", "client_confirmed", "completed", "no_show",
                      "cancelled_by_client", "cancelled_by_admin", "rescheduled"}

ActiveStatuses == {"confirmed", "client_confirmed"}
\* Variant: a past visit gives up its window.
PastReleased == ActiveStatuses
CapacityStatuses == ActiveStatuses \cup {"completed", "no_show"}
ActiveWindows == {"open", "booked"}

AppointmentRow == [status: AppointmentStatus, window: Windows \cup {None},
                   client: Clients \cup {None}, service: Services \cup {None},
                   from: Appointments \cup {None}, reminders: BOOLEAN]
NoRow == [status |-> "absent", window |-> None, client |-> None, service |-> None,
          from |-> None, reminders |-> FALSE]

Request == [op: AllOps \cup {"none"}, app: Appointments \cup {None},
            win: Windows \cup {None}, to: Windows \cup {None},
            client: Clients \cup {None}, service: Services \cup {None},
            reopen: BOOLEAN, now: 0..MaxClock,
            appSeen: AppointmentStatus, winSeen: WindowStatus, toSeen: WindowStatus,
            withinLimit: BOOLEAN]
NoRequest == [op |-> "none", app |-> None, win |-> None, to |-> None, client |-> None,
              service |-> None, reopen |-> FALSE, now |-> 0, appSeen |-> "absent",
              winSeen |-> "absent", toSeen |-> "absent", withinLimit |-> FALSE]
-----------------------------------------------------------------------------
(* Queries over the committed state. *)

InStatus(rows, S) == {a \in Appointments : rows[a].status \in S}
OnWindow(rows, w, S) == {a \in InStatus(rows, S) : rows[a].window = w}

\* count_capacity_between: the rows of a day that use its capacity.
UsingDay(rows, d) ==
    {a \in InStatus(rows, CapacityStatuses) :
        rows[a].window \in Windows /\ DayOf[rows[a].window] = d}
DailyCount(rows, d, exclude) == Cardinality(UsingDay(rows, d) \ {exclude})

\* count_for_future_booking_limit: the future appointments of a client.
FutureOf(rows, c, now) ==
    {a \in InStatus(rows, ActiveStatuses) :
        rows[a].client = c /\ rows[a].window \in Windows /\ StartAt[rows[a].window] >= now}

\* list_active_between: the active windows of a day, but for one.
OtherActiveWindows(d, w) ==
    {x \in Windows \ {w} : DayOf[x] = d /\ windows[x] \in ActiveWindows}
FreeIds == InStatus(appointments, {"absent"})
-----------------------------------------------------------------------------
(* Locks: row locks, the advisory lock of a day, and the locks foreign keys *)
(* take on the rows they reference.                                        *)

DateLock(d) == <<"date", d>>
WindowLock(w) == <<"window", w>>
AppointmentLock(a) == <<"appointment", a>>
ClientLock(c) == <<"client", c>>
ServiceLock(s) == <<"service", s>>
StaffLock(m) == <<"staff", m>>
Locks == ({"date"} \X Days) \cup ({"window"} \X Windows)
         \cup ({"appointment"} \X Appointments) \cup ({"client"} \X Clients)
         \cup ({"service"} \X Services) \cup ({"staff"} \X Staff)

\* Two ids in increasing order, once when they are equal.
InOrder(x, y) == IF x = y THEN <<x>> ELSE IF x < y THEN <<x, y>> ELSE <<y, x>>
DateLocks(x, y) ==
    LET s == InOrder(x, y) IN [i \in 1..Len(s) |-> DateLock(s[i])]
WindowLocks(x, y) ==
    LET s == InOrder(x, y) IN [i \in 1..Len(s) |-> WindowLock(s[i])]

BookPlan(r) == <<DateLock(DayOf[r.win]), WindowLock(r.win), ClientLock(r.client),
                 ServiceLock(r.service), StaffLock(StaffOf[r.win])>>
AppointmentPlan(r) == <<DateLock(DayOf[r.win]), WindowLock(r.win), AppointmentLock(r.app)>>
ReschedulePlan(r) ==
    DateLocks(DayOf[r.win], DayOf[r.to]) \o WindowLocks(r.win, r.to)
        \o <<AppointmentLock(r.app), StaffLock(StaffOf[r.to]),
             ServiceLock(r.service), ClientLock(r.client)>>

Plan(r) ==
    CASE r.op = "book" -> BookPlan(r)
      [] r.op \in {"cancel_admin", "no_show"} -> AppointmentPlan(r)
      [] r.op \in {"cancel_my", "complete"} -> AppointmentPlan(r) \o <<ClientLock(r.client)>>
      [] r.op = "confirm" -> <<AppointmentLock(r.app), ClientLock(r.client)>>
      [] r.op \in {"reschedule_my", "reschedule_admin"} -> ReschedulePlan(r)
      [] r.op = "close" -> <<WindowLock(r.win)>>
      [] r.op = "reopen" ->
            <<WindowLock(r.win), StaffLock(StaffOf[r.win]), DateLock(DayOf[r.win])>>
      [] r.op = "create" -> <<StaffLock(StaffOf[r.win]), DateLock(DayOf[r.win])>>
      [] OTHER -> << >>

WantedLock(p) == Plan(req[p])[step[p] + 1]
Holds(p, l) == holder[l] = p
ReleasedBy(p) == [l \in Locks |-> IF holder[l] = p THEN None ELSE holder[l]]

\* p waits for a lock that q holds.
WaitsFor(p, q) ==
    /\ phase[p] = "locking" /\ step[p] < Len(Plan(req[p]))
    /\ p # q /\ Holds(q, WantedLock(p))
-----------------------------------------------------------------------------
(* A request arrives: the session reads its first rows, without a lock.    *)

Begin(p, r) ==
    /\ phase[p] = "idle" /\ r.op \in Ops
    /\ req' = [req EXCEPT ![p] = r]
    /\ phase' = [phase EXCEPT ![p] = "locking"]
    /\ step' = [step EXCEPT ![p] = 0]
    /\ UNCHANGED <<clock, windows, appointments, holder>>

\* Bound: no more creating requests in flight than unused appointment ids.
Creating == {"book", "reschedule_my", "reschedule_admin"}
RoomForNew ==
    Cardinality({q \in Sessions : req[q].op \in Creating}) < Cardinality(FreeIds)

\* The window row a booking reads before it locks.
Book(p, w, c, s) ==
    /\ windows[w] # "absent" /\ RoomForNew
    /\ Begin(p, [NoRequest EXCEPT !.op = "book", !.win = w, !.client = c, !.service = s,
                                  !.now = clock, !.winSeen = windows[w]])

\* The appointment and window rows read before the locks of a change to a visit.
OnAppointment(op, a, reopen) ==
    LET row == appointments[a] IN
    [NoRequest EXCEPT !.op = op, !.app = a, !.win = row.window, !.client = row.client,
                      !.service = row.service, !.reopen = reopen, !.now = clock,
                      !.appSeen = row.status, !.winSeen = windows[row.window]]
Exists(a) == appointments[a].status # "absent"

CancelMy(p, a) == Exists(a) /\ Begin(p, OnAppointment("cancel_my", a, TRUE))
CancelAdmin(p, a, reopen) ==
    Exists(a) /\ Begin(p, OnAppointment("cancel_admin", a, reopen))
ConfirmVisit(p, a) == Exists(a) /\ Begin(p, OnAppointment("confirm", a, FALSE))
CompleteVisit(p, a) == Exists(a) /\ Begin(p, OnAppointment("complete", a, FALSE))
MarkNoShow(p, a) == Exists(a) /\ Begin(p, OnAppointment("no_show", a, FALSE))

Reschedule(p, op, a, w) ==
    /\ Exists(a) /\ RoomForNew
    /\ windows[w] # "absent" /\ w # appointments[a].window
    /\ Begin(p, [OnAppointment(op, a, FALSE) EXCEPT !.to = w, !.toSeen = windows[w]])

\* These load their row under its lock: nothing is read before.
OnWindowOnly(op, w) == [NoRequest EXCEPT !.op = op, !.win = w, !.now = clock]
CloseWindow(p, w) == windows[w] # "absent" /\ Begin(p, OnWindowOnly("close", w))
ReopenWindow(p, w) == windows[w] # "absent" /\ Begin(p, OnWindowOnly("reopen", w))
CreateWindow(p, w) == windows[w] = "absent" /\ Begin(p, OnWindowOnly("create", w))

Arrive(p) ==
    \/ \E w \in Windows, c \in Clients, s \in Services : Book(p, w, c, s)
    \/ \E a \in Appointments :
        \/ CancelMy(p, a)
        \/ \E reopen \in BOOLEAN : CancelAdmin(p, a, reopen)
        \/ ConfirmVisit(p, a) \/ CompleteVisit(p, a) \/ MarkNoShow(p, a)
        \/ \E w \in Windows, op \in {"reschedule_my", "reschedule_admin"} :
               Reschedule(p, op, a, w)
    \/ \E w \in Windows : CloseWindow(p, w) \/ ReopenWindow(p, w) \/ CreateWindow(p, w)
-----------------------------------------------------------------------------
(* Locks, and how a transaction ends without a commit.                     *)

\* Variant: the limit is off by one.
BelowLimitInclusive(c, now) == Cardinality(FutureOf(appointments, c, now)) <= MaxFuture
BelowLimit(c, now) == Cardinality(FutureOf(appointments, c, now)) < MaxFuture

\* Take the next lock of the plan.  A booking counts the client's future
\* appointments as soon as it holds the client.
Lock(p) ==
    /\ phase[p] = "locking" /\ step[p] < Len(Plan(req[p]))
    /\ holder[WantedLock(p)] = None
    /\ holder' = [holder EXCEPT ![WantedLock(p)] = p]
    /\ step' = [step EXCEPT ![p] = @ + 1]
    /\ req' = IF req[p].op = "book" /\ WantedLock(p) = ClientLock(req[p].client)
                THEN [req EXCEPT ![p].withinLimit = BelowLimit(req[p].client, req[p].now)]
                ELSE req
    /\ UNCHANGED <<clock, windows, appointments, phase>>

\* The session is closed: its transaction is over and its locks are released.
Finish(p) ==
    /\ holder' = ReleasedBy(p)
    /\ req' = [req EXCEPT ![p] = NoRequest]
    /\ phase' = [phase EXCEPT ![p] = "idle"]
    /\ step' = [step EXCEPT ![p] = 0]
    /\ UNCHANGED clock

Rollback(p) == Finish(p) /\ UNCHANGED <<windows, appointments>>

\* Variant: a waiting transaction waits for ever.
NoLockTimeout(p) == FALSE
\* PostgreSQL's lock_timeout, or its deadlock detector, ends a waiting transaction.
LockTimeout(p) == (\E q \in Sessions : WaitsFor(p, q)) /\ Rollback(p)

\* The process dies or its connection breaks: PostgreSQL rolls back.
Crash(p) == phase[p] # "idle" /\ Rollback(p)
-----------------------------------------------------------------------------
(* The checks of each handler, with every lock held.                       *)

\* Variant: a dropped count.
BookAcceptsFullDay(r) == r.winSeen = "open" /\ StartAt[r.win] > r.now /\ r.withinLimit
BookAccepts(r) ==
    /\ r.winSeen = "open" /\ StartAt[r.win] > r.now
    /\ r.withinLimit
    /\ DailyCount(appointments, DayOf[r.win], None) < MaxPerDay

CancelAccepts(r) ==
    /\ r.appSeen \in ActiveStatuses /\ r.winSeen = "booked"
    /\ r.op = "cancel_my" => StartAt[r.win] - r.now >= Deadline

ConfirmAccepts(r) == appointments[r.app].status = "confirmed"
CompleteAccepts(r) == r.appSeen \in ActiveStatuses /\ StartAt[r.win] <= r.now
NoShowAccepts(r) == r.appSeen \in ActiveStatuses /\ EndAt[r.win] <= r.now

RescheduleAccepts(r) ==
    /\ r.appSeen \in ActiveStatuses /\ r.winSeen = "booked"
    /\ r.op = "reschedule_my" => StartAt[r.win] - r.now >= Deadline
    /\ r.toSeen = "open" /\ StartAt[r.to] > r.now
    /\ DailyCount(appointments, DayOf[r.to], r.app) < MaxPerDay

\* Variant: a booked window can be closed.
CloseAcceptsBooked(r) == windows[r.win] \in ActiveWindows
CloseAccepts(r) == windows[r.win] = "open"
\* Variant: the limit is off by one.
RoomInDayInclusive(r) ==
    /\ StartAt[r.win] > r.now
    /\ Cardinality(OtherActiveWindows(DayOf[r.win], r.win)) <= MaxPerDay
RoomInDay(r) ==
    /\ StartAt[r.win] > r.now
    /\ Cardinality(OtherActiveWindows(DayOf[r.win], r.win)) < MaxPerDay
ReopenAccepts(r) == windows[r.win] = "closed" /\ RoomInDay(r)
CreateAccepts(r) == windows[r.win] = "absent" /\ RoomInDay(r)

Accepts(r) ==
    CASE r.op = "book" -> BookAccepts(r)
      [] r.op \in {"cancel_my", "cancel_admin"} -> CancelAccepts(r)
      [] r.op = "confirm" -> ConfirmAccepts(r)
      [] r.op = "complete" -> CompleteAccepts(r)
      [] r.op = "no_show" -> NoShowAccepts(r)
      [] r.op \in {"reschedule_my", "reschedule_admin"} -> RescheduleAccepts(r)
      [] r.op = "close" -> CloseAccepts(r)
      [] r.op = "reopen" -> ReopenAccepts(r)
      [] r.op = "create" -> CreateAccepts(r)
      [] OTHER -> FALSE

AllLocked(p) == phase[p] = "locking" /\ step[p] = Len(Plan(req[p]))

Check(p) ==
    /\ AllLocked(p) /\ Accepts(req[p])
    /\ phase' = [phase EXCEPT ![p] = "checked"]
    /\ UNCHANGED <<clock, windows, appointments, holder, req, step>>

Reject(p) == AllLocked(p) /\ ~Accepts(req[p]) /\ Rollback(p)
-----------------------------------------------------------------------------
(* Writes and commit.                                                      *)

\* The flush emits an UPDATE only for an attribute that differs from the
\* value the object was loaded with.
OrmWrite(committed, seen, new) == IF new = seen THEN committed ELSE new

\* uq_appointments_occupied_window and the unique rescheduled_from_id.
OneOccupant(rows) ==
    \A w \in Windows : \A a, b \in OnWindow(rows, w, CapacityStatuses) : a = b
OneSuccessor(rows) ==
    \A a, b \in Appointments : rows[a].from = rows[b].from => a = b \/ rows[a].from = None
DbAccepts(rows) == OneOccupant(rows) /\ OneSuccessor(rows)

\* An IntegrityError rolls the whole transaction back.
Commit(p, rows, wins) ==
    /\ Finish(p)
    /\ \/ DbAccepts(rows) /\ appointments' = rows /\ windows' = wins
       \/ ~DbAccepts(rows) /\ UNCHANGED <<appointments, windows>>

Committing(p, ops) == phase[p] = "checked" /\ req[p].op \in ops

\* The next id of the sequence.
IsNextId(a) == a \in FreeIds /\ \A b \in FreeIds : a <= b
NewRow(w, c, s, from) ==
    [status |-> "confirmed", window |-> w, client |-> c, service |-> s,
     from |-> from, reminders |-> TRUE]

CommitBook(p) ==
    /\ Committing(p, {"book"})
    /\ \E a \in Appointments :
        /\ IsNextId(a)
        /\ Commit(p,
                  [appointments EXCEPT
                     ![a] = NewRow(req[p].win, req[p].client, req[p].service, None)],
                  [windows EXCEPT ![req[p].win] = OrmWrite(@, req[p].winSeen, "booked")])

\* The change every handler that ends a visit makes: the status, and
\* cancel_unsent on the reminders of the visit.
Ended(rows, a, status) == [rows EXCEPT ![a].status = status, ![a].reminders = FALSE]

ReleasedWindow(r) == IF r.reopen /\ StartAt[r.win] > r.now THEN "open" ELSE "closed"
\* Variant: the status is named after the role, whatever the column knows.
CancelledStatusByRole(r) ==
    IF r.op = "cancel_my" THEN "cancelled_by_client" ELSE "cancelled_by_staff"
CancelledStatus(r) ==
    IF r.op = "cancel_my" THEN "cancelled_by_client" ELSE "cancelled_by_admin"

\* Variant: the window is not given back.
CommitCancelKeepsWindow(p) ==
    /\ Committing(p, {"cancel_my", "cancel_admin"})
    /\ Commit(p, Ended(appointments, req[p].app, CancelledStatus(req[p])), windows)
CommitCancel(p) ==
    /\ Committing(p, {"cancel_my", "cancel_admin"})
    /\ Commit(p,
              Ended(appointments, req[p].app, CancelledStatus(req[p])),
              [windows EXCEPT ![req[p].win] =
                  OrmWrite(@, req[p].winSeen, ReleasedWindow(req[p]))])

CommitConfirm(p) ==
    /\ Committing(p, {"confirm"})
    /\ Commit(p, [appointments EXCEPT ![req[p].app].status = "client_confirmed"], windows)

CommitComplete(p) ==
    /\ Committing(p, {"complete"})
    /\ Commit(p,
              Ended(appointments, req[p].app, "completed"),
              [windows EXCEPT ![req[p].win] = OrmWrite(@, req[p].winSeen, "closed")])

CommitNoShow(p) ==
    /\ Committing(p, {"no_show"})
    /\ Commit(p,
              Ended(appointments, req[p].app, "no_show"),
              [windows EXCEPT ![req[p].win] = OrmWrite(@, req[p].winSeen, "closed")])

\* The old visit gives up its window and a new visit takes the other one.
Moved(r, a) ==
    [Ended(appointments, r.app, "rescheduled") EXCEPT
        ![a] = NewRow(r.to, r.client, r.service, r.app)]

CommitReschedule(p) ==
    /\ Committing(p, {"reschedule_my", "reschedule_admin"})
    /\ \E a \in Appointments :
        /\ IsNextId(a)
        /\ Commit(p,
                  Moved(req[p], a),
                  [windows EXCEPT
                     ![req[p].win] =
                        OrmWrite(@, req[p].winSeen,
                                 IF StartAt[req[p].win] > req[p].now THEN "open" ELSE "closed"),
                     ![req[p].to] = OrmWrite(@, req[p].toSeen, "booked")])

CommitWindow(p) ==
    /\ Committing(p, {"close", "reopen", "create"})
    /\ Commit(p, appointments,
              [windows EXCEPT ![req[p].win] =
                  IF req[p].op = "close" THEN "closed" ELSE "open"])
-----------------------------------------------------------------------------
Tick ==
    /\ clock < MaxClock
    /\ clock' = clock + 1
    /\ UNCHANGED <<windows, appointments, holder, req, phase, step>>

Init ==
    /\ clock = 0
    /\ windows = [w \in Windows |-> IF w \in InitiallyOpen THEN "open" ELSE "absent"]
    /\ appointments = [a \in Appointments |-> NoRow]
    /\ holder = [l \in Locks |-> None]
    /\ req = [p \in Sessions |-> NoRequest]
    /\ phase = [p \in Sessions |-> "idle"]
    /\ step = [p \in Sessions |-> 0]

Commits(p) ==
    \/ CommitBook(p) \/ CommitCancel(p) \/ CommitConfirm(p) \/ CommitComplete(p)
    \/ CommitNoShow(p) \/ CommitReschedule(p) \/ CommitWindow(p)

\* What a session does on its own once a request is in it.
Progress(p) == Lock(p) \/ LockTimeout(p) \/ Check(p) \/ Reject(p) \/ Commits(p)

Next == Tick \/ \E p \in Sessions : Arrive(p) \/ Progress(p) \/ Crash(p)

Spec == Init /\ [][Next]_vars
FairSpec == Spec /\ \A p \in Sessions : WF_vars(Progress(p))
-----------------------------------------------------------------------------
(* Properties. *)

TypeOK ==
    /\ clock \in 0..MaxClock
    /\ windows \in [Windows -> WindowStatus]
    /\ appointments \in [Appointments -> AppointmentRow]
    /\ holder \in [Locks -> Sessions \cup {None}]
    /\ req \in [Sessions -> Request]
    /\ phase \in [Sessions -> {"idle", "locking", "checked"}]
    /\ step \in [Sessions -> Nat]

\* The visits that took place, or still may: all but those called off.
CalledOff == {"cancelled_by_client", "cancelled_by_admin", "rescheduled"}
Kept == AppointmentStatus \ (CalledOff \cup {"absent"})

\* A window serves at most one visit over its whole life, whatever requests race
\* for it: one that was read open may have been booked and its visit completed
\* meanwhile (BookingService.book, RescheduleService._reschedule).
OneVisitPerWindow ==
    \A a, b \in InStatus(appointments, Kept) :
        appointments[a].window = appointments[b].window => a = b

\* A booked window is the window of a live visit: no handler takes the visit
\* away and leaves the window booked, or books it without storing the visit.
BookedWindowHasVisit ==
    \A w \in Windows : windows[w] = "booked" => OnWindow(appointments, w, ActiveStatuses) # {}

\* A live visit keeps its window booked: nobody is offered its time.
LiveVisitHoldsItsWindow ==
    \A a \in InStatus(appointments, ActiveStatuses) :
        windows[appointments[a].window] = "booked"

IsNew(a) == appointments[a].status = "absent" /\ appointments'[a].status # "absent"

\* A visit that appears, by a booking or a reschedule, finds its day at most at
\* the daily limit, whatever other requests of that day run (book, _reschedule).
DailyLimitHeld ==
    [][\A a \in Appointments : IsNew(a) =>
        Cardinality(UsingDay(appointments', DayOf[appointments'[a].window])) <= MaxPerDay]_vars

\* A booking never takes a client over the limit of future visits, though the
\* windows may be of different days and staff (_enforce_future_booking_limit).
FutureLimitHeld ==
    [][\A a \in Appointments : IsNew(a) /\ appointments'[a].from = None =>
        Cardinality(FutureOf(appointments', appointments'[a].client, clock)) <= MaxFuture]_vars

\* Opening a window, new or closed before, never takes its day over the limit of
\* active windows (create_window, reopen_window).
WindowLimitHeld ==
    [][\A p \in Sessions : \A w \in Windows :
        (req[p].op \in {"create", "reopen"} /\ CommitWindow(p) /\ w = req[p].win) =>
            Cardinality({x \in Windows : DayOf[x] = DayOf[w] /\ windows'[x] \in ActiveWindows})
                <= MaxPerDay]_vars

\* Every request ends, with a commit or without: sessions do not wait forever.
RequestsEnd == \A p \in Sessions : phase[p] # "idle" ~> phase[p] = "idle"
=============================================================================
