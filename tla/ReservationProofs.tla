------------------------- MODULE ReservationProofs -------------------------
(***************************************************************************)
(* Theorems about Reservation, for every number of handlers, checkouts and *)
(* windows and every mix of payment modes: its states are well typed, its  *)
(* windows, visits and reservations agree, it keeps the promise of module  *)
(* Slots, an approval can be repeated, and a provider's payment moves as   *)
(* the transition table allows and keeps its visit.                        *)
(***************************************************************************)
EXTENDS Reservation, TLAPS

-----------------------------------------------------------------------------
(* The typing invariant, with what a busy handler knows of its request.    *)

JobsComplete ==
    \A p \in Handlers :
        /\ job[p].at # "idle" => job[p].c \in Checkouts
        /\ job[p].at = "hold" => job[p].now + Ttl <= MaxClock
        /\ job[p].at = "apply" => job[p].answer # "none"

Typed == TypeOK /\ JobsComplete

LEMMA NoJobTyped == NoJob \in Job /\ NoPayment \in PaymentRow /\ NoReservation \in ReservationRow
  BY ReservationAssumption
  DEF NoJob, NoPayment, NoReservation, Job, PaymentRow, ReservationRow, WindowStatus,
      PaymentStatus, ManualStatus, VisitStatus, ReservationStatus, Answers, Live, Occupying,
      Pending, Released

LEMMA TypedInit == Init => Typed
  BY ReservationAssumption, NoJobTyped
  DEF Init, Typed, TypeOK, JobsComplete, NoJob, WindowStatus, VisitStatus, ProviderStatus,
      InboxStatus

\* A handler that ends, starts or goes on stays well typed.
LEMMA EndsTyped ==
  ASSUME Typed, NEW p \in Handlers, Ends(p)
  PROVE  job' \in [Handlers -> Job] /\ JobsComplete'
  BY NoJobTyped DEF Typed, TypeOK, JobsComplete, Ends, NoJob

LEMMA GoesTyped ==
  ASSUME Typed, NEW p \in Handlers, NEW at \in {"submit", "call", "consume", "reconcile"},
         job[p].at # "idle", Goes(p, at)
  PROVE  job' \in [Handlers -> Job] /\ JobsComplete'
  BY DEF Typed, TypeOK, JobsComplete, Goes, Job

LEMMA StartsTyped ==
  ASSUME Typed, NEW p \in Handlers, NEW c \in Checkouts,
         NEW at \in {"submit", "get", "reconcile"}, job' = [job EXCEPT ![p] = Start(p, c, at)]
  PROVE  job' \in [Handlers -> Job] /\ JobsComplete'
  BY NoJobTyped DEF Typed, TypeOK, JobsComplete, Start, NoJob, Job

LEMMA JobTyped ==
  ASSUME Typed, NEW p \in Handlers, NEW j \in Job, job' = [job EXCEPT ![p] = j],
         j.at # "idle" => j.c \in Checkouts,
         j.at = "hold" => j.now + Ttl <= MaxClock,
         j.at = "apply" => j.answer # "none"
  PROVE  job' \in [Handlers -> Job] /\ JobsComplete'
  <1>1. job \in [Handlers -> Job] /\ JobsComplete BY DEF Typed, TypeOK
  <1>2. job'[p] = j /\ \A q \in Handlers \ {p} : job'[q] = job[q] BY <1>1
  <1> QED BY <1>1, <1>2 DEF JobsComplete

\* A handler that has got an answer stays well typed.
LEMMA AnswerTyped ==
  ASSUME Typed, NEW p \in Handlers, NEW a \in Answers, NEW at \in {"apply", "apply_event"},
         job[p].c \in Checkouts, at = "apply" => a # "none",
         job' = [job EXCEPT ![p].at = at, ![p].answer = a]
  PROVE  job' \in [Handlers -> Job] /\ JobsComplete'
  <1> DEFINE j == [job[p] EXCEPT !.at = at, !.answer = a]
  <1>1. job[p] \in Job /\ job \in [Handlers -> Job] BY DEF Typed, TypeOK
  <1>2. j \in Job /\ j.at = at /\ j.c = job[p].c /\ j.answer = a BY <1>1 DEF Job
  <1>3. job' = [job EXCEPT ![p] = j] BY <1>1
  <1> HIDE DEF j
  <1> QED BY <1>2, <1>3, JobTyped

\* What the transactions write into the rows.
LEMMA RowsTyped ==
  ASSUME Typed, NEW c \in Checkouts
  PROVE  /\ \A v \in VisitStatus : [visits EXCEPT ![c] = v] \in [Checkouts -> VisitStatus]
         /\ \A r \in ReservationRow :
               [reservations EXCEPT ![c] = r] \in [Checkouts -> ReservationRow]
         /\ \A y \in PaymentRow : [payments EXCEPT ![c] = y] \in [Checkouts -> PaymentRow]
         /\ \A s \in ReservationStatus : [reservations[c] EXCEPT !.status = s] \in ReservationRow
         /\ \A s \in PaymentStatus : [payments[c] EXCEPT !.status = s] \in PaymentRow
         /\ \A s \in ManualStatus : [payments[c] EXCEPT !.manual = s] \in PaymentRow
         /\ \A s \in WindowStatus :
               [windows EXCEPT ![WindowOf[c]] = s] \in [Windows -> WindowStatus]
  BY ReservationAssumption DEF Typed, TypeOK, ReservationRow, PaymentRow

LEMMA ConfirmTyped ==
  ASSUME Typed, NEW c \in Checkouts, Confirm(c)
  PROVE  /\ windows' \in [Windows -> WindowStatus]
         /\ visits' \in [Checkouts -> VisitStatus]
         /\ reservations' \in [Checkouts -> ReservationRow]
  BY RowsTyped
  DEF Confirm, WindowStatus, VisitStatus, Occupying, Pending, ReservationStatus

LEMMA ReleaseTyped ==
  ASSUME Typed, NEW c \in Checkouts, ReleaseWindow(c)
  PROVE  windows' \in [Windows -> WindowStatus]
  BY DEF Typed, TypeOK, ReleaseWindow, WindowStatus

LEMMA TypedNext ==
  ASSUME Typed, [Next]_vars
  PROVE  Typed'
  <1> USE DEF Typed
  <1>1. CASE UNCHANGED vars BY <1>1 DEF vars, TypeOK, JobsComplete
  <1>2. CASE Tick
    BY <1>2, ReservationAssumption DEF Tick, TypeOK, JobsComplete
  <1>3. ASSUME NEW p \in Handlers, HoldWindow(p) PROVE Typed'
    <2>1. job[p].c \in Checkouts BY <1>3 DEF HoldWindow, At, JobsComplete
    <2>2. CASE ~HoldAccepts(job[p])
      BY <1>3, <2>2, EndsTyped DEF HoldWindow, TypeOK
    <2>3. CASE HoldAccepts(job[p])
      <3>1. job' \in [Handlers -> Job] /\ JobsComplete'
        BY <1>3, <2>3, GoesTyped DEF HoldWindow, At
      <3>2. [status |-> "active", expires |-> job[p].now + Ttl] \in ReservationRow
        BY <1>3, ReservationAssumption
        DEF HoldWindow, At, JobsComplete, TypeOK, Job, ReservationRow, ReservationStatus, Live
      <3>3. \A m \in {"awaiting_payment", "none"} :
               [status |-> "created", sent |-> FALSE, manual |-> m] \in PaymentRow
        BY DEF PaymentRow, PaymentStatus, ManualStatus
      <3>4. windows' \in [Windows -> WindowStatus] /\ visits' \in [Checkouts -> VisitStatus]
        BY <1>3, <2>1, <2>3
        DEF HoldWindow, TypeOK, WindowStatus, VisitStatus, Occupying, Pending
      <3>5. reservations' \in [Checkouts -> ReservationRow]
        BY <1>3, <2>1, <2>3, <3>2, RowsTyped DEF HoldWindow
      <3>6. payments' \in [Checkouts -> PaymentRow]
        BY <1>3, <2>1, <2>3, <3>3 DEF HoldWindow, TypeOK
      <3> QED BY <1>3, <3>1, <3>4, <3>5, <3>6 DEF HoldWindow, TypeOK
    <2> QED BY <2>2, <2>3
  <1>4. ASSUME NEW p \in Handlers, SubmitPayment(p) PROVE Typed'
    BY <1>4, EndsTyped, GoesTyped DEF SubmitPayment, Finalizes, At, TypeOK
  <1>5. ASSUME NEW p \in Handlers, CallProvider(p) PROVE Typed'
    <2>1. job[p].c \in Checkouts BY <1>5 DEF CallProvider, At, JobsComplete
    <2>2. ASSUME NEW a \in Answers \ {"none"}, Answered(p, a)
          PROVE  job' \in [Handlers -> Job] /\ JobsComplete'
      BY <2>1, <2>2, AnswerTyped DEF Answered
    <2>3. Created(job[p].c) \in {"pending", "succeeded", "cancelled"}
      BY <2>1 DEF Created, TypeOK, ProviderStatus
    <2> QED
      BY <1>5, <2>1, <2>2, <2>3 DEF CallProvider, TypeOK, ProviderStatus, Answers
  <1>6. ASSUME NEW p \in Handlers, ApplyAnswer(p) PROVE Typed'
    <2>1. job[p].c \in Checkouts BY <1>6 DEF ApplyAnswer, At, JobsComplete
    <2>2. job' \in [Handlers -> Job] /\ JobsComplete'
      BY <1>6, EndsTyped, GoesTyped DEF ApplyAnswer, Finalizes, At
    <2>3. job[p].answer \in Answers \ {"none"}
      BY <1>6 DEF ApplyAnswer, At, JobsComplete, TypeOK, Job
    <2>4. payments[job[p].c] \in PaymentRow BY <2>1 DEF TypeOK
    <2>5. ASSUME NEW a \in {"pending", "succeeded", "cancelled"}
          PROVE  [payments[job[p].c] EXCEPT !.status = a, !.sent = TRUE] \in PaymentRow
      BY <2>4 DEF PaymentRow, PaymentStatus
    <2>6. [payments[job[p].c] EXCEPT !.status = "failed"] \in PaymentRow
      BY <2>4 DEF PaymentRow, PaymentStatus
    <2>7. payments' \in [Checkouts -> PaymentRow]
      BY <1>6, <2>1, <2>3, <2>4, <2>5, <2>6, RowsTyped DEF ApplyAnswer, Answers
    <2> QED BY <1>6, <2>2, <2>7 DEF ApplyAnswer, TypeOK
  <1>7. ASSUME NEW p \in Handlers, ConsumeReservation(p) PROVE Typed'
    <2>1. job[p].c \in Checkouts BY <1>7 DEF ConsumeReservation, At, JobsComplete
    <2>2. job' \in [Handlers -> Job] /\ JobsComplete'
      BY <1>7, EndsTyped DEF ConsumeReservation
    <2> QED BY <1>7, <2>1, <2>2, ConfirmTyped DEF ConsumeReservation, TypeOK
  <1>8. ASSUME NEW p \in Handlers, GetPayment(p) PROVE Typed'
    <2>1. job[p].c \in Checkouts BY <1>8 DEF GetPayment, At, JobsComplete
    <2>2. inbox' \in [Checkouts -> InboxStatus]
      BY <1>8, <2>1 DEF GetPayment, TypeOK, InboxStatus
    <2>3. job' \in [Handlers -> Job] /\ JobsComplete'
      <3>1. CASE Ends(p) BY <3>1, EndsTyped
      <3>2. CASE job' = [job EXCEPT ![p].at = "apply_event", ![p].answer = provider[job[p].c]]
        <4>1. PICK a \in Answers :
                 job' = [job EXCEPT ![p].at = "apply_event", ![p].answer = a]
          BY <2>1, <3>2 DEF TypeOK, ProviderStatus, Answers
        <4> QED BY <2>1, <4>1, AnswerTyped
      <3> QED BY <1>8, <3>1, <3>2 DEF GetPayment
    <2> QED BY <1>8, <2>2, <2>3 DEF GetPayment, TypeOK
  <1>9. ASSUME NEW p \in Handlers, ApplyEvent(p) PROVE Typed'
    <2>1. job[p].c \in Checkouts BY <1>9 DEF ApplyEvent, At, JobsComplete
    <2>2. job' \in [Handlers -> Job] /\ JobsComplete'
      BY <1>9, EndsTyped, GoesTyped DEF ApplyEvent, Finalizes, At
    <2>3. inbox' \in [Checkouts -> InboxStatus]
      BY <1>9, <2>1 DEF ApplyEvent, TypeOK, InboxStatus
    <2>4. payments[job[p].c] \in PaymentRow BY <2>1 DEF TypeOK
    <2>5. TransitionAllowed(payments[job[p].c].status, job[p].answer)
             => job[p].answer \in PaymentStatus
      BY <2>4 DEF TransitionAllowed, PaymentRow, PaymentStatus
    <2>6. payments' \in [Checkouts -> PaymentRow]
      <3>1. CASE payments' = payments BY <3>1 DEF TypeOK
      <3>2. CASE payments' = [payments EXCEPT ![job[p].c].status = job[p].answer]
        BY <1>9, <2>1, <2>4, <2>5, <3>2 DEF ApplyEvent, TypeOK, PaymentRow
      <3> QED BY <1>9, <3>1, <3>2 DEF ApplyEvent
    <2> QED BY <1>9, <2>2, <2>3, <2>6 DEF ApplyEvent, TypeOK
  <1>10. ASSUME NEW p \in Handlers, ReportPaid(p) PROVE Typed'
    <2>1. job[p].c \in Checkouts BY <1>10 DEF ReportPaid, At, JobsComplete
    <2>2. job' \in [Handlers -> Job] /\ JobsComplete'
      BY <1>10, EndsTyped DEF ReportPaid
    <2>3. CASE ~ReportAccepts(job[p]) BY <1>10, <2>2, <2>3 DEF ReportPaid, TypeOK
    <2>4. CASE ReportAccepts(job[p])
      <3>1. reservations' \in [Checkouts -> ReservationRow]
        BY <1>10, <2>1, <2>4
        DEF ReportPaid, ReservationRow, ReservationStatus, Live, TypeOK
      <3>2. visits' \in [Checkouts -> VisitStatus]
        BY <1>10, <2>1, <2>4 DEF ReportPaid, VisitStatus, Occupying, Pending, TypeOK
      <3>3. payments' \in [Checkouts -> PaymentRow]
        BY <1>10, <2>1, <2>4 DEF ReportPaid, PaymentRow, ManualStatus, TypeOK
      <3> QED BY <1>10, <2>2, <3>1, <3>2, <3>3 DEF ReportPaid, TypeOK
    <2> QED BY <2>3, <2>4
  <1>11. ASSUME NEW p \in Handlers, SubmitForReview(p) PROVE Typed'
    <2>1. job[p].c \in Checkouts BY <1>11 DEF SubmitForReview, At, JobsComplete
    <2>2. job' \in [Handlers -> Job] /\ JobsComplete'
      BY <1>11, EndsTyped DEF SubmitForReview
    <2>3. payments' \in [Checkouts -> PaymentRow]
      <3>1. CASE payments' = payments BY <3>1 DEF TypeOK
      <3>2. CASE payments' = [payments EXCEPT ![job[p].c].manual = "review_pending"]
        BY <2>1, <3>2, RowsTyped DEF ManualStatus, TypeOK
      <3> QED BY <1>11, <3>1, <3>2 DEF SubmitForReview
    <2> QED BY <1>11, <2>2, <2>3 DEF SubmitForReview, TypeOK
  <1>12. ASSUME NEW p \in Handlers, RejectManual(p) PROVE Typed'
    <2>1. job[p].c \in Checkouts BY <1>12 DEF RejectManual, At, JobsComplete
    <2>2. job' \in [Handlers -> Job] /\ JobsComplete'
      BY <1>12, EndsTyped DEF RejectManual
    <2>3. CASE ~RejectAccepts(job[p]) BY <1>12, <2>2, <2>3 DEF RejectManual, TypeOK
    <2>4. CASE RejectAccepts(job[p])
      <3>1. visits' \in [Checkouts -> VisitStatus]
        BY <1>12, <2>1, <2>4, RowsTyped DEF RejectManual, VisitStatus, Released
      <3>2. reservations' \in [Checkouts -> ReservationRow]
        BY <1>12, <2>1, <2>4
        DEF RejectManual, CancelReservation, ReservationRow, ReservationStatus, TypeOK
      <3>3. payments' \in [Checkouts -> PaymentRow]
        BY <1>12, <2>1, <2>4 DEF RejectManual, PaymentRow, PaymentStatus, ManualStatus, TypeOK
      <3>4. windows' \in [Windows -> WindowStatus]
        BY <1>12, <2>1, <2>4, ReleaseTyped DEF RejectManual
      <3> QED BY <1>12, <2>2, <3>1, <3>2, <3>3, <3>4 DEF RejectManual, TypeOK
    <2> QED BY <2>3, <2>4
  <1>13. ASSUME NEW p \in Handlers, Crash(p) PROVE Typed'
    BY <1>13, EndsTyped DEF Crash, TypeOK
  <1>14. ASSUME NEW p \in Handlers, NEW c \in Checkouts, Arrive(p, c) PROVE Typed'
    <2>1. CASE Checkout(p, c)
      <3>1. CASE job' = [job EXCEPT ![p] = Start(p, c, "submit")]
        BY <2>1, <3>1, StartsTyped DEF Checkout, TypeOK
      <3>2. CASE /\ clock + Ttl <= MaxClock
                 /\ job' = [job EXCEPT ![p] =
                       [Start(p, c, "hold") EXCEPT !.winSeen = windows[WindowOf[c]]]]
        <4>1. windows[WindowOf[c]] \in WindowStatus BY ReservationAssumption DEF TypeOK
        <4> DEFINE j == [Start(p, c, "hold") EXCEPT !.winSeen = windows[WindowOf[c]]]
        <4>2. j \in Job /\ j.at = "hold" /\ j.c = c /\ j.now = clock
          BY <4>1, NoJobTyped DEF Start, NoJob, Job, TypeOK
        <4>3. job' = [job EXCEPT ![p] = j] BY <3>2
        <4> HIDE DEF j
        <4>4. job' \in [Handlers -> Job] /\ JobsComplete' BY <3>2, <4>2, <4>3, JobTyped
        <4> QED BY <2>1, <4>4 DEF Checkout, TypeOK
      <3> QED BY <2>1, <3>1, <3>2 DEF Checkout
    <2>2. CASE Webhook(p, c)
      <3>1. job' \in [Handlers -> Job] /\ JobsComplete'
        <4>1. CASE UNCHANGED job BY <4>1 DEF TypeOK, JobsComplete
        <4> QED BY <2>2, <4>1, StartsTyped DEF Webhook
      <3> QED BY <2>2, <3>1 DEF Webhook, TypeOK, InboxStatus
    <2>3. CASE ApproveManual(p, c)
      <3>1. job' \in [Handlers -> Job] /\ JobsComplete'
        BY <2>3, StartsTyped DEF ApproveManual
      <3>2. [payments[c] EXCEPT !.status = "succeeded", !.manual = "confirmed"] \in PaymentRow
        BY DEF TypeOK, PaymentRow, PaymentStatus, ManualStatus
      <3>3. \/ payments' = payments
            \/ payments' = [payments EXCEPT
                  ![c] = [payments[c] EXCEPT !.status = "succeeded", !.manual = "confirmed"]]
        BY <2>3 DEF ApproveManual, TypeOK
      <3>4. payments' \in [Checkouts -> PaymentRow] BY <3>2, <3>3 DEF TypeOK
      <3> QED BY <2>3, <3>1, <3>4 DEF ApproveManual, TypeOK
    <2>4. ASSUME NEW at \in {"report", "review", "reject"}, ReadsPayment(p, c, at) PROVE Typed'
      <3> DEFINE j == [Start(p, c, at) EXCEPT !.paySeen = payments[c], !.visitSeen = visits[c]]
      <3>1. payments[c] \in PaymentRow /\ visits[c] \in VisitStatus BY DEF TypeOK
      <3>2. j \in Job /\ j.at = at /\ j.c = c BY <3>1, NoJobTyped DEF Start, NoJob, Job, TypeOK
      <3>3. job' = [job EXCEPT ![p] = j] BY <2>4 DEF ReadsPayment
      <3> HIDE DEF j
      <3>4. job' \in [Handlers -> Job] /\ JobsComplete' BY <3>2, <3>3, JobTyped
      <3> QED BY <2>4, <3>4 DEF ReadsPayment, TypeOK
    <2> QED BY <1>14, <2>1, <2>2, <2>3, <2>4 DEF Arrive
  <1>15. ASSUME NEW c \in Checkouts, ExpireReservation(c) PROVE Typed'
    <2>1. CASE MustReconcileAsPaid(c)
      BY <1>15, <2>1, ConfirmTyped DEF ExpireReservation, TypeOK, JobsComplete
    <2>2. CASE ~MustReconcileAsPaid(c)
      <3>1. visits' \in [Checkouts -> VisitStatus]
        BY <1>15, <2>2 DEF ExpireReservation, VisitStatus, Released, TypeOK
      <3>2. reservations' \in [Checkouts -> ReservationRow]
        BY <1>15, <2>2 DEF ExpireReservation, ReservationRow, ReservationStatus, TypeOK
      <3>3. ExpirePayment(payments[c]) \in PaymentRow
        BY DEF ExpirePayment, PaymentRow, PaymentStatus, ManualStatus, TypeOK
      <3>4. payments' \in [Checkouts -> PaymentRow]
        BY <1>15, <2>2, <3>3 DEF ExpireReservation, TypeOK
      <3>5. windows' \in [Windows -> WindowStatus]
        BY <1>15, <2>2, ReleaseTyped DEF ExpireReservation, TypeOK
      <3> QED
        BY <1>15, <3>1, <3>2, <3>4, <3>5 DEF ExpireReservation, TypeOK, JobsComplete
    <2> QED BY <2>1, <2>2
  <1>16. ASSUME NEW c \in Checkouts, Outside(c) PROVE Typed'
    BY <1>16 DEF Outside, ClientPays, ProviderCancels, TypeOK, JobsComplete, ProviderStatus
  <1> QED
    BY <1>1, <1>2, <1>3, <1>4, <1>5, <1>6, <1>7, <1>8, <1>9, <1>10, <1>11, <1>12, <1>13, <1>14,
       <1>15, <1>16 DEF Next, Progress

\* No handler, worker, client or crash leaves a row or a request ill typed.
THEOREM TypeCorrect == Spec => []TypeOK
  <1>1. Typed => TypeOK BY DEF Typed
  <1> QED BY <1>1, TypedInit, TypedNext, PTL DEF Spec

-----------------------------------------------------------------------------
(* Windows, visits and reservations agree.  OneClaimPerWindow alone is not *)
(* inductive: that a checkout may take a window depends on what the visits *)
(* and the reservations say of each other.                                 *)

\* A reservation and its visit live and end together.
VisitFollowsReservation ==
    \A c \in Checkouts :
        /\ reservations[c].status = "absent" <=> visits[c] = "absent"
        /\ reservations[c].status \in Live <=> visits[c] \in Pending
        /\ reservations[c].status = "consumed" <=> visits[c] = "confirmed"

Agreement ==
    /\ Typed
    /\ VisitFollowsReservation
    /\ LiveHoldKeepsWindow
    /\ OneClaimPerWindow
    /\ ReservedWindowHasHold

\* What a step may do to the three: v, r and w are the new statuses of the
\* visit, the reservation and the window of checkout c.
Sets(c, v, r, w) ==
    /\ visits' = [visits EXCEPT ![c] = v]
    /\ windows' = [windows EXCEPT ![WindowOf[c]] = w]
    /\ reservations' \in [Checkouts -> ReservationRow]
    /\ reservations'[c].status = r
    /\ \A d \in Checkouts \ {c} : reservations'[d] = reservations[d]

Reserved(c) ==
    /\ reservations[c].status = "absent" /\ NotOccupied(c)
    /\ Sets(c, "pending_payment", "active", "reserved")
Waiting(c) ==
    /\ reservations[c].status \in Live
    /\ \E v \in Pending : Sets(c, v, "awaiting_review", windows[WindowOf[c]])
Taken(c) ==
    /\ reservations[c].status \in Live
    /\ Sets(c, "confirmed", "consumed", "booked")
GivenUp(c) ==
    /\ reservations[c].status \in Live
    /\ \E v \in Released, r \in {"expired", "cancelled"} : Sets(c, v, r, "open")
Untouched == UNCHANGED <<windows, visits, reservations>>

LEMMA ConfirmTakes ==
  ASSUME Agreement, NEW c \in Checkouts, reservations[c].status \in Live, Confirm(c)
  PROVE  Taken(c)
  BY ConfirmTyped DEF Agreement, Typed, TypeOK, Confirm, Taken, Sets, ReservationRow

LEMMA ReleaseOpens ==
  ASSUME Agreement, NEW c \in Checkouts, reservations[c].status \in Live, ReleaseWindow(c)
  PROVE  windows' = [windows EXCEPT ![WindowOf[c]] = "open"]
  BY ReservationAssumption DEF Agreement, Typed, TypeOK, LiveHoldKeepsWindow, ReleaseWindow

\* Every step has one of these effects.
LEMMA Effects ==
  ASSUME Agreement, [Next]_vars
  PROVE  \/ Untouched
         \/ \E c \in Checkouts : Reserved(c) \/ Waiting(c) \/ Taken(c) \/ GivenUp(c)
  <1>1. Typed' BY TypedNext DEF Agreement
  <1>2. TypeOK /\ JobsComplete BY DEF Agreement, Typed
  <1>3. reservations' \in [Checkouts -> ReservationRow] BY <1>1 DEF Typed, TypeOK
  <1>4. ASSUME NEW p \in Handlers, HoldWindow(p)
        PROVE  Untouched \/ \E c \in Checkouts : Reserved(c)
    <2>1. job[p].c \in Checkouts BY <1>2, <1>4 DEF HoldWindow, At, JobsComplete
    <2>2. CASE HoldAccepts(job[p])
      <3>1. Reserved(job[p].c)
        BY <1>2, <1>3, <1>4, <2>1, <2>2
        DEF HoldWindow, HoldAccepts, KeyUnused, Reserved, Sets, TypeOK
      <3> QED BY <2>1, <3>1
    <2> QED BY <1>4, <2>2 DEF HoldWindow, Untouched
  <1>5. ASSUME NEW p \in Handlers, ConsumeReservation(p)
        PROVE  Untouched \/ \E c \in Checkouts : Taken(c)
    <2>1. job[p].c \in Checkouts BY <1>2, <1>5 DEF ConsumeReservation, At, JobsComplete
    <2> QED BY <1>5, <2>1, ConfirmTakes DEF ConsumeReservation, Untouched
  <1>6. ASSUME NEW p \in Handlers, ReportPaid(p)
        PROVE  Untouched \/ \E c \in Checkouts : Waiting(c)
    <2>1. job[p].c \in Checkouts BY <1>2, <1>6 DEF ReportPaid, At, JobsComplete
    <2>2. CASE ReportAccepts(job[p])
      <3> DEFINE c == job[p].c
      <3>1. reservations[c].status = "active" /\ visits[c] \in Pending
        BY <2>1, <2>2 DEF ReportAccepts, Agreement, VisitFollowsReservation, Live
      <3>2. windows' = [windows EXCEPT ![WindowOf[c]] = windows[WindowOf[c]]]
        BY <1>2, <1>6 DEF ReportPaid, TypeOK
      <3>3. reservations'[c].status = "awaiting_review"
        BY <1>2, <1>6, <2>1, <2>2 DEF ReportPaid, TypeOK, ReservationRow
      <3>4. \A d \in Checkouts \ {c} : reservations'[d] = reservations[d]
        BY <1>2, <1>6, <2>1, <2>2 DEF ReportPaid, TypeOK
      <3>5. \E v \in Pending : visits' = [visits EXCEPT ![c] = v]
        BY <1>6, <2>1, <2>2, <3>1 DEF ReportPaid, Pending
      <3> QED BY <1>3, <2>1, <3>1, <3>2, <3>3, <3>4, <3>5 DEF Waiting, Sets, Live
    <2> QED BY <1>6, <2>2 DEF ReportPaid, Untouched
  <1>7. ASSUME NEW p \in Handlers, RejectManual(p)
        PROVE  Untouched \/ \E c \in Checkouts : GivenUp(c)
    <2>1. job[p].c \in Checkouts BY <1>2, <1>7 DEF RejectManual, At, JobsComplete
    <2>2. CASE RejectAccepts(job[p])
      <3>1. reservations[job[p].c].status \in Live BY <2>2 DEF RejectAccepts, Live
      <3>2. Sets(job[p].c, "cancelled_by_admin", "cancelled", "open")
        BY <1>2, <1>3, <1>7, <2>1, <2>2, <3>1, ReleaseOpens
        DEF RejectManual, CancelReservation, Sets, TypeOK, ReservationRow
      <3> QED BY <2>1, <3>1, <3>2 DEF GivenUp, Released
    <2> QED BY <1>7, <2>2 DEF RejectManual, Untouched
  <1>8. ASSUME NEW c \in Checkouts, ExpireReservation(c)
        PROVE  Taken(c) \/ GivenUp(c)
    <2>1. reservations[c].status \in Live BY <1>8 DEF ExpireReservation, Claims, Live
    <2>2. CASE MustReconcileAsPaid(c)
      BY <1>8, <2>1, <2>2, ConfirmTakes DEF ExpireReservation
    <2>3. CASE ~MustReconcileAsPaid(c)
      <3>1. visits[c] \in Pending BY <2>1 DEF Agreement, VisitFollowsReservation
      <3>2. visits' = [visits EXCEPT ![c] = "payment_expired"]
        BY <1>8, <2>3, <3>1 DEF ExpireReservation
      <3>3. ReleaseWindow(c)
        BY <1>2, <1>8, <2>3, <3>2 DEF ExpireReservation, Released, TypeOK
      <3>4. Sets(c, "payment_expired", "expired", "open")
        BY <1>2, <1>3, <1>8, <2>1, <2>3, <3>2, <3>3, ReleaseOpens
        DEF ExpireReservation, Sets, TypeOK, ReservationRow
      <3> QED BY <2>1, <3>4 DEF GivenUp, Released
    <2> QED BY <2>2, <2>3
  <1>9. ASSUME NEW p \in Handlers,
               \/ SubmitPayment(p) \/ CallProvider(p) \/ ApplyAnswer(p) \/ GetPayment(p)
               \/ ApplyEvent(p) \/ SubmitForReview(p) \/ Crash(p)
        PROVE  Untouched
    BY <1>9 DEF SubmitPayment, CallProvider, ApplyAnswer, GetPayment, ApplyEvent,
                SubmitForReview, Crash, Untouched
  <1>10. ASSUME NEW p \in Handlers, NEW c \in Checkouts, Arrive(p, c)
         PROVE  Untouched
    BY <1>10 DEF Arrive, Checkout, Webhook, ApproveManual, ReadsPayment, Untouched
  <1>11. ASSUME NEW c \in Checkouts, Outside(c) PROVE Untouched
    BY <1>11 DEF Outside, ClientPays, ProviderCancels, Untouched
  <1>12. CASE UNCHANGED vars \/ Tick BY <1>12 DEF vars, Tick, Untouched
  <1> QED
    BY <1>4, <1>5, <1>6, <1>7, <1>8, <1>9, <1>10, <1>11, <1>12 DEF Next, Progress

LEMMA AgreementInit == Init => Agreement
  BY TypedInit, ReservationAssumption
  DEF Init, Agreement, VisitFollowsReservation, LiveHoldKeepsWindow, OneClaimPerWindow,
      ReservedWindowHasHold, NoReservation, Live, Pending, Occupying

\* The agreement survives each of the effects.
LEMMA AgreementNext ==
  ASSUME Agreement, [Next]_vars
  PROVE  Agreement'
  <1>1. Typed' BY TypedNext DEF Agreement
  <1>2. CASE Untouched
    BY <1>1, <1>2
    DEF Untouched, Agreement, VisitFollowsReservation, LiveHoldKeepsWindow, OneClaimPerWindow,
        ReservedWindowHasHold
  <1>3. ASSUME NEW c \in Checkouts, NEW v \in VisitStatus, NEW r \in ReservationStatus,
               NEW w \in WindowStatus, Sets(c, v, r, w)
        PROVE  /\ visits'[c] = v /\ reservations'[c].status = r /\ windows'[WindowOf[c]] = w
               /\ \A d \in Checkouts \ {c} :
                     visits'[d] = visits[d] /\ reservations'[d] = reservations[d]
               /\ \A x \in Windows \ {WindowOf[c]} : windows'[x] = windows[x]
    BY <1>3, ReservationAssumption DEF Sets, Agreement, Typed, TypeOK
  <1>4. ASSUME NEW c \in Checkouts, Reserved(c) PROVE Agreement'
    <2> DEFINE v == "pending_payment" r == "active" w == "reserved"
    <2>1. v \in Pending /\ r \in Live /\ w = "reserved" BY DEF Pending, Live
    <2>2. reservations[c].status = "absent" /\ NotOccupied(c) BY <1>4 DEF Reserved
    <2>3. /\ visits'[c] = v /\ reservations'[c].status = r /\ windows'[WindowOf[c]] = w
          /\ \A d \in Checkouts \ {c} :
                visits'[d] = visits[d] /\ reservations'[d] = reservations[d]
          /\ \A x \in Windows \ {WindowOf[c]} : windows'[x] = windows[x]
      BY <1>3, <1>4 DEF Reserved, VisitStatus, ReservationStatus, WindowStatus, Occupying, Pending,
                        Live
    <2> HIDE DEF v, r, w
    <2>4. VisitFollowsReservation'
      BY <2>1, <2>2, <2>3 DEF Agreement, VisitFollowsReservation, Live, Pending, Released
    <2>5. OneClaimPerWindow'
      BY <2>1, <2>2, <2>3 DEF Agreement, VisitFollowsReservation, OneClaimPerWindow, NotOccupied,
                              Live, Pending, Occupying, Released
    <2>6. LiveHoldKeepsWindow'
      BY <2>1, <2>2, <2>3, <2>4, <2>5, ReservationAssumption
      DEF Agreement, VisitFollowsReservation, LiveHoldKeepsWindow, OneClaimPerWindow, NotOccupied,
          Live, Pending, Occupying, Released
    <2>7. ReservedWindowHasHold'
      BY <2>1, <2>2, <2>3, ReservationAssumption
      DEF Agreement, ReservedWindowHasHold, LiveHoldKeepsWindow, OneClaimPerWindow, Live, Pending,
          Occupying
    <2> QED BY <1>1, <2>4, <2>5, <2>6, <2>7 DEF Agreement
  <1>5. ASSUME NEW c \in Checkouts, Waiting(c) PROVE Agreement'
    <2>1. PICK v \in Pending, r \in {"awaiting_review"}, w \in {"reserved"} : Sets(c, v, r, w)
      BY <1>5, ReservationAssumption
      DEF Waiting, Agreement, Typed, TypeOK, LiveHoldKeepsWindow
    <2>2. reservations[c].status \in Live /\ visits[c] \in Pending
      BY <1>5 DEF Waiting, Agreement, VisitFollowsReservation
    <2>3. /\ visits'[c] = v /\ reservations'[c].status = r /\ windows'[WindowOf[c]] = w
          /\ \A d \in Checkouts \ {c} :
                visits'[d] = visits[d] /\ reservations'[d] = reservations[d]
          /\ \A x \in Windows \ {WindowOf[c]} : windows'[x] = windows[x]
      BY <1>3, <2>1 DEF VisitStatus, ReservationStatus, WindowStatus, Occupying, Pending, Released,
                        Live
    <2>4. VisitFollowsReservation'
      BY <2>1, <2>2, <2>3 DEF Agreement, VisitFollowsReservation, Live, Pending, Released
    <2>5. OneClaimPerWindow'
      BY <2>1, <2>2, <2>3 DEF Agreement, VisitFollowsReservation, OneClaimPerWindow, NotOccupied,
                              Live, Pending, Occupying, Released
    <2>6. LiveHoldKeepsWindow'
      BY <2>1, <2>2, <2>3, <2>4, <2>5, ReservationAssumption
      DEF Agreement, VisitFollowsReservation, LiveHoldKeepsWindow, OneClaimPerWindow, NotOccupied,
          Live, Pending, Occupying, Released
    <2>7. ReservedWindowHasHold'
      BY <2>1, <2>2, <2>3, ReservationAssumption
      DEF Agreement, ReservedWindowHasHold, LiveHoldKeepsWindow, OneClaimPerWindow, Live, Pending,
          Occupying
    <2> QED BY <1>1, <2>4, <2>5, <2>6, <2>7 DEF Agreement
  <1>6. ASSUME NEW c \in Checkouts, Taken(c) PROVE Agreement'
    <2>1. PICK v \in {"confirmed"}, r \in {"consumed"}, w \in {"booked"} : Sets(c, v, r, w)
      BY <1>6, ReservationAssumption
      DEF Taken, Agreement, Typed, TypeOK, LiveHoldKeepsWindow
    <2>2. reservations[c].status \in Live /\ visits[c] \in Pending
      BY <1>6 DEF Taken, Agreement, VisitFollowsReservation
    <2>3. /\ visits'[c] = v /\ reservations'[c].status = r /\ windows'[WindowOf[c]] = w
          /\ \A d \in Checkouts \ {c} :
                visits'[d] = visits[d] /\ reservations'[d] = reservations[d]
          /\ \A x \in Windows \ {WindowOf[c]} : windows'[x] = windows[x]
      BY <1>3, <2>1 DEF VisitStatus, ReservationStatus, WindowStatus, Occupying, Pending, Released,
                        Live
    <2>4. VisitFollowsReservation'
      BY <2>1, <2>2, <2>3 DEF Agreement, VisitFollowsReservation, Live, Pending, Released
    <2>5. OneClaimPerWindow'
      BY <2>1, <2>2, <2>3 DEF Agreement, VisitFollowsReservation, OneClaimPerWindow, NotOccupied,
                              Live, Pending, Occupying, Released
    <2>6. LiveHoldKeepsWindow'
      BY <2>1, <2>2, <2>3, <2>4, <2>5, ReservationAssumption
      DEF Agreement, VisitFollowsReservation, LiveHoldKeepsWindow, OneClaimPerWindow, NotOccupied,
          Live, Pending, Occupying, Released
    <2>7. ReservedWindowHasHold'
      BY <2>1, <2>2, <2>3, ReservationAssumption
      DEF Agreement, ReservedWindowHasHold, LiveHoldKeepsWindow, OneClaimPerWindow, Live, Pending,
          Occupying
    <2> QED BY <1>1, <2>4, <2>5, <2>6, <2>7 DEF Agreement
  <1>7. ASSUME NEW c \in Checkouts, GivenUp(c) PROVE Agreement'
    <2>1. PICK v \in Released, r \in {"expired", "cancelled"}, w \in {"open"} : Sets(c, v, r, w)
      BY <1>7, ReservationAssumption
      DEF GivenUp, Agreement, Typed, TypeOK, LiveHoldKeepsWindow
    <2>2. reservations[c].status \in Live /\ visits[c] \in Pending
      BY <1>7 DEF GivenUp, Agreement, VisitFollowsReservation
    <2>3. /\ visits'[c] = v /\ reservations'[c].status = r /\ windows'[WindowOf[c]] = w
          /\ \A d \in Checkouts \ {c} :
                visits'[d] = visits[d] /\ reservations'[d] = reservations[d]
          /\ \A x \in Windows \ {WindowOf[c]} : windows'[x] = windows[x]
      BY <1>3, <2>1 DEF VisitStatus, ReservationStatus, WindowStatus, Occupying, Pending, Released,
                        Live
    <2>4. VisitFollowsReservation'
      BY <2>1, <2>2, <2>3 DEF Agreement, VisitFollowsReservation, Live, Pending, Released
    <2>5. OneClaimPerWindow'
      BY <2>1, <2>2, <2>3 DEF Agreement, VisitFollowsReservation, OneClaimPerWindow, NotOccupied,
                              Live, Pending, Occupying, Released
    <2>6. LiveHoldKeepsWindow'
      BY <2>1, <2>2, <2>3, <2>4, <2>5, ReservationAssumption
      DEF Agreement, VisitFollowsReservation, LiveHoldKeepsWindow, OneClaimPerWindow, NotOccupied,
          Live, Pending, Occupying, Released
    <2>7. ReservedWindowHasHold'
      BY <2>1, <2>2, <2>3, ReservationAssumption
      DEF Agreement, ReservedWindowHasHold, LiveHoldKeepsWindow, OneClaimPerWindow, Live, Pending,
          Occupying
    <2> QED BY <1>1, <2>4, <2>5, <2>6, <2>7 DEF Agreement
  <1> QED BY <1>2, <1>4, <1>5, <1>6, <1>7, Effects

\* Two visits never claim one window, though a checkout decides on a window that
\* it read before its lock (book, uq_appointments_occupied_window).
THEOREM OneClaim == Spec => []OneClaimPerWindow
  <1>1. Agreement => OneClaimPerWindow BY DEF Agreement
  <1> QED BY <1>1, AgreementInit, AgreementNext, PTL DEF Spec

\* While its reservation lives, a waiting visit keeps its window, and no window stays
\* reserved longer; all three end in one transaction (consume, expire_claimed,
\* reject_manual).
THEOREM WindowFollows == Spec => []WindowFollowsHold
  <1>1. Agreement => WindowFollowsHold BY DEF Agreement, WindowFollowsHold
  <1> QED BY <1>1, AgreementInit, AgreementNext, PTL DEF Spec

-----------------------------------------------------------------------------
(* A confirmed visit is paid.  The last transaction of a checkout does not *)
(* look at the payment of a visit under review: it relies on the payment   *)
(* it saw succeeded, and on the fact that whatever undoes a payment ends   *)
(* the reservation with it.                                                *)

ConsumesPaid ==
    \A p \in Handlers : job[p].at = "consume" =>
        /\ reservations[job[p].c].status # "absent"
        /\ reservations[job[p].c].status \in Live => payments[job[p].c].status = "succeeded"

PaymentFollowsReservation ==
    \A c \in Checkouts : payments[c].status = "absent" <=> reservations[c].status = "absent"

PaidAgreement ==
    Agreement /\ ConsumesPaid /\ PaymentFollowsReservation /\ ConfirmedIsPaid

\* The payments and the reservations that a step leaves alone keep the three facts,
\* if no handler enters the last transaction.
LEMMA PaidFrame ==
  ASSUME PaidAgreement, Agreement', UNCHANGED <<visits, reservations>>,
         \A c \in Checkouts :
            /\ payments'[c].status = "absent" <=> payments[c].status = "absent"
            /\ payments[c].status = "succeeded" => payments'[c].status = "succeeded",
         \A p \in Handlers : job'[p].at = "consume" =>
            /\ job'[p].c \in Checkouts
            /\ job'[p] = job[p] \/ payments'[job'[p].c].status = "succeeded"
  PROVE  PaidAgreement'
  <1>1. PaymentFollowsReservation' /\ ConfirmedIsPaid'
    BY DEF PaidAgreement, PaymentFollowsReservation, ConfirmedIsPaid
  <1>2. ConsumesPaid'
    BY <1>1 DEF PaidAgreement, ConsumesPaid, PaymentFollowsReservation
  <1> QED BY <1>1, <1>2 DEF PaidAgreement

LEMMA PaidInit == Init => PaidAgreement
  BY AgreementInit
  DEF Init, PaidAgreement, ConsumesPaid, PaymentFollowsReservation, ConfirmedIsPaid, NoJob,
      NoPayment, NoReservation

LEMMA PaidNext ==
  ASSUME PaidAgreement, [Next]_vars
  PROVE  PaidAgreement'
  <1>1. Agreement /\ Agreement' BY AgreementNext DEF PaidAgreement
  <1>2. TypeOK /\ JobsComplete /\ TypeOK' /\ JobsComplete' BY <1>1 DEF Agreement, Typed
  <1>3. ASSUME NEW p \in Handlers, HoldWindow(p) PROVE PaidAgreement'
    <2>1. job[p].c \in Checkouts BY <1>2, <1>3 DEF HoldWindow, At, JobsComplete
    <2>2. CASE ~HoldAccepts(job[p])
      BY <1>1, <1>2, <1>3, <2>2, PaidFrame DEF HoldWindow, Ends, NoJob, JobsComplete, TypeOK
    <2>3. CASE HoldAccepts(job[p])
      <3> DEFINE c == job[p].c
      <3>1. /\ reservations[c].status = "absent" /\ reservations'[c].status = "active"
            /\ payments'[c].status = "created" /\ visits'[c] = "pending_payment"
            /\ \A d \in Checkouts \ {c} : /\ reservations'[d] = reservations[d]
                                          /\ payments'[d] = payments[d] /\ visits'[d] = visits[d]
        BY <1>2, <1>3, <2>1, <2>3 DEF HoldWindow, HoldAccepts, KeyUnused, TypeOK
      <3>2. \A q \in Handlers : job'[q].at = "consume" => job'[q] = job[q] /\ job[q].c # c
        BY <1>2, <1>3, <2>3, <3>1
        DEF HoldWindow, Goes, TypeOK, Job, PaidAgreement, ConsumesPaid
      <3>3. ConsumesPaid'
        BY <1>2, <3>1, <3>2 DEF PaidAgreement, ConsumesPaid, JobsComplete
      <3>4. PaymentFollowsReservation' /\ ConfirmedIsPaid'
        BY <3>1 DEF PaidAgreement, PaymentFollowsReservation, ConfirmedIsPaid
      <3> QED BY <1>1, <3>3, <3>4 DEF PaidAgreement
    <2> QED BY <2>2, <2>3
  <1>4. ASSUME NEW p \in Handlers, SubmitPayment(p) PROVE PaidAgreement'
    BY <1>1, <1>2, <1>4, PaidFrame
    DEF SubmitPayment, Finalizes, Goes, Ends, NoJob, At, JobsComplete, TypeOK, Job
  <1>5. ASSUME NEW p \in Handlers, CallProvider(p) PROVE PaidAgreement'
    BY <1>1, <1>2, <1>5, PaidFrame DEF CallProvider, Answered, At, JobsComplete, TypeOK, Job
  <1>6. ASSUME NEW p \in Handlers, ApplyAnswer(p) PROVE PaidAgreement'
    <2>1. job[p].c \in Checkouts BY <1>2, <1>6 DEF ApplyAnswer, At, JobsComplete
    <2> DEFINE c == job[p].c
    <2>2. job[p].answer # "absent" /\ job[p].answer # "none"
      BY <1>2, <1>6 DEF ApplyAnswer, At, JobsComplete, TypeOK, Job, Answers
    <2>3. /\ payments'[c].status = "absent" <=> payments[c].status = "absent"
          /\ payments[c].status = "succeeded" => payments'[c].status = "succeeded"
          /\ \A d \in Checkouts \ {c} : payments'[d] = payments[d]
      BY <1>2, <1>6, <2>1, <2>2 DEF ApplyAnswer, TypeOK, PaymentRow
    <2>4. \A q \in Handlers \ {p} : job'[q] = job[q]
      BY <1>2, <1>6 DEF ApplyAnswer, Finalizes, Goes, Ends, TypeOK
    <2>5. job'[p].at = "consume" => job'[p].c = c /\ payments'[c].status = "succeeded"
      BY <1>2, <1>6, <2>1 DEF ApplyAnswer, Finalizes, Goes, Ends, NoJob, TypeOK, Job, PaymentRow
    <2>6. UNCHANGED <<visits, reservations>> BY <1>6 DEF ApplyAnswer
    <2> QED BY <1>1, <1>2, <2>1, <2>3, <2>4, <2>5, <2>6, PaidFrame DEF JobsComplete
  <1>7. ASSUME NEW p \in Handlers, ConsumeReservation(p) PROVE PaidAgreement'
    <2>1. job[p].c \in Checkouts BY <1>2, <1>7 DEF ConsumeReservation, At, JobsComplete
    <2> DEFINE c == job[p].c
    <2>2. CASE UNCHANGED <<windows, visits, reservations>>
      BY <1>1, <1>2, <1>7, <2>2, PaidFrame
      DEF ConsumeReservation, Ends, NoJob, JobsComplete, TypeOK
    <2>3. CASE reservations[c].status \in Live /\ Confirm(c)
      <3>1. payments' = payments /\ payments[c].status = "succeeded"
        <4>1. CASE At(p, "consume")
          BY <1>7, <2>3, <4>1 DEF ConsumeReservation, At, PaidAgreement, ConsumesPaid
        <4>2. CASE At(p, "reconcile") /\ payments[c].status # "succeeded"
          <5>1. UNCHANGED reservations BY <1>7, <4>2 DEF ConsumeReservation
          <5>2. reservations'[c].status = "consumed"
            BY <1>2, <2>1, <2>3 DEF Confirm, TypeOK, ReservationRow
          <5> QED BY <2>3, <5>1, <5>2 DEF Live
        <4> QED BY <1>7, <4>1, <4>2 DEF ConsumeReservation
      <3>2. /\ reservations[c].status # "absent" /\ reservations'[c].status = "consumed"
            /\ \A d \in Checkouts \ {c} :
                  reservations'[d] = reservations[d] /\ visits'[d] = visits[d]
        BY <1>1, <2>1, <2>3, ConfirmTakes, ReservationAssumption
        DEF Taken, Sets, Agreement, Typed, TypeOK, Live
      <3>3. \A q \in Handlers : job'[q].at = "consume" => job'[q] = job[q]
        BY <1>2, <1>7 DEF ConsumeReservation, Ends, NoJob, TypeOK
      <3>4. ConsumesPaid'
        BY <1>2, <3>1, <3>2, <3>3 DEF PaidAgreement, ConsumesPaid, JobsComplete, Live
      <3>5. PaymentFollowsReservation' /\ ConfirmedIsPaid'
        BY <3>1, <3>2 DEF PaidAgreement, PaymentFollowsReservation, ConfirmedIsPaid
      <3> QED BY <1>1, <3>4, <3>5 DEF PaidAgreement
    <2> QED BY <1>7, <2>2, <2>3 DEF ConsumeReservation
  <1>8. ASSUME NEW p \in Handlers, GetPayment(p) PROVE PaidAgreement'
    <2>1. UNCHANGED <<visits, reservations, payments>> BY <1>8 DEF GetPayment
    <2>2. \A q \in Handlers : job'[q].at = "consume" => job'[q] = job[q]
      BY <1>2, <1>8 DEF GetPayment, Ends, NoJob, TypeOK, Job
    <2> QED BY <1>1, <1>2, <2>1, <2>2, PaidFrame DEF JobsComplete
  <1>9. ASSUME NEW p \in Handlers, ApplyEvent(p) PROVE PaidAgreement'
    <2>1. job[p].c \in Checkouts BY <1>2, <1>9 DEF ApplyEvent, At, JobsComplete
    <2> DEFINE c == job[p].c
    <2>2. job[p].answer # "absent" BY <1>2 DEF TypeOK, Job, Answers
    <2>3. /\ payments'[c].status = "absent" <=> payments[c].status = "absent"
          /\ payments[c].status = "succeeded" => payments'[c].status = "succeeded"
          /\ \A d \in Checkouts \ {c} : payments'[d] = payments[d]
      BY <1>2, <1>9, <2>1, <2>2 DEF ApplyEvent, TransitionAllowed, TypeOK, PaymentRow
    <2>4. \A q \in Handlers \ {p} : job'[q] = job[q]
      BY <1>2, <1>9 DEF ApplyEvent, Finalizes, Goes, Ends, TypeOK
    <2>5. job'[p].at = "consume" => job'[p].c = c /\ payments'[c].status = "succeeded"
      BY <1>2, <1>9, <2>1
      DEF ApplyEvent, Finalizes, Goes, Ends, NoJob, At, TypeOK, Job, PaymentRow
    <2>6. UNCHANGED <<visits, reservations>> BY <1>9 DEF ApplyEvent
    <2> QED BY <1>1, <1>2, <2>1, <2>3, <2>4, <2>5, <2>6, PaidFrame DEF JobsComplete
  <1>10. ASSUME NEW p \in Handlers, ReportPaid(p) PROVE PaidAgreement'
    <2>1. job[p].c \in Checkouts BY <1>2, <1>10 DEF ReportPaid, At, JobsComplete
    <2> DEFINE c == job[p].c
    <2>2. \A q \in Handlers : job'[q].at = "consume" => job'[q] = job[q]
      BY <1>2, <1>10 DEF ReportPaid, Ends, NoJob, TypeOK
    <2>3. CASE ~ReportAccepts(job[p])
      BY <1>1, <1>2, <1>10, <2>2, <2>3, PaidFrame DEF ReportPaid, JobsComplete
    <2>4. CASE ReportAccepts(job[p])
      <3>1. /\ reservations[c].status \in Live /\ reservations'[c].status \in Live
            /\ visits'[c] \in Pending
            /\ \A d \in Checkouts : payments'[d].status = payments[d].status
            /\ \A d \in Checkouts \ {c} :
                  reservations'[d] = reservations[d] /\ visits'[d] = visits[d]
        <4>1. visits[c] \in Pending
          BY <1>1, <2>1, <2>4 DEF ReportAccepts, Agreement, VisitFollowsReservation, Live
        <4>2. reservations[c].status = "active" BY <2>4 DEF ReportAccepts
        <4>3. reservations' = [reservations EXCEPT ![c].status = "awaiting_review"]
          BY <1>10, <2>4 DEF ReportPaid
        <4>4. payments' = [payments EXCEPT ![c].manual = "client_reported"]
          BY <1>10, <2>4 DEF ReportPaid
        <4>5. \E v \in Pending : visits' = [visits EXCEPT ![c] = v]
          BY <1>10, <2>1, <2>4, <4>1 DEF ReportPaid, Pending
        <4>6. \A d \in Checkouts : payments'[d].status = payments[d].status
          BY <1>2, <2>1, <4>4 DEF TypeOK, PaymentRow
        <4> QED
          BY <1>2, <2>1, <4>2, <4>3, <4>5, <4>6 DEF TypeOK, ReservationRow, Live
      <3>2. ConsumesPaid'
        BY <1>2, <2>2, <3>1 DEF PaidAgreement, ConsumesPaid, JobsComplete, Live
      <3>3. PaymentFollowsReservation' /\ ConfirmedIsPaid'
        BY <3>1 DEF PaidAgreement, PaymentFollowsReservation, ConfirmedIsPaid, Live, Pending
      <3> QED BY <1>1, <3>2, <3>3 DEF PaidAgreement
    <2> QED BY <2>3, <2>4
  <1>11. ASSUME NEW p \in Handlers, SubmitForReview(p) PROVE PaidAgreement'
    <2>1. job[p].c \in Checkouts BY <1>2, <1>11 DEF SubmitForReview, At, JobsComplete
    <2>2. \A d \in Checkouts : payments'[d].status = payments[d].status
      BY <1>2, <1>11, <2>1 DEF SubmitForReview, TypeOK, PaymentRow
    <2>3. \A q \in Handlers : job'[q].at = "consume" => job'[q] = job[q]
      BY <1>2, <1>11 DEF SubmitForReview, Ends, NoJob, TypeOK
    <2>4. UNCHANGED <<visits, reservations>> BY <1>11 DEF SubmitForReview
    <2> QED BY <1>1, <1>2, <2>2, <2>3, <2>4, PaidFrame DEF JobsComplete
  <1>12. ASSUME NEW p \in Handlers, RejectManual(p) PROVE PaidAgreement'
    <2>1. job[p].c \in Checkouts BY <1>2, <1>12 DEF RejectManual, At, JobsComplete
    <2> DEFINE c == job[p].c
    <2>2. \A q \in Handlers : job'[q].at = "consume" => job'[q] = job[q]
      BY <1>2, <1>12 DEF RejectManual, Ends, NoJob, TypeOK
    <2>3. CASE ~RejectAccepts(job[p])
      BY <1>1, <1>2, <1>12, <2>2, <2>3, PaidFrame DEF RejectManual, JobsComplete
    <2>4. CASE RejectAccepts(job[p])
      <3>1. /\ reservations[c].status \in Live /\ reservations'[c].status = "cancelled"
            /\ visits'[c] # "confirmed" /\ payments'[c].status = "failed"
            /\ \A d \in Checkouts \ {c} : /\ reservations'[d] = reservations[d]
                                          /\ payments'[d] = payments[d] /\ visits'[d] = visits[d]
        BY <1>2, <1>12, <2>1, <2>4
        DEF RejectManual, RejectAccepts, CancelReservation, TypeOK, ReservationRow, PaymentRow, Live
      <3>2. payments[c].status # "absent"
        BY <2>1, <3>1 DEF PaidAgreement, PaymentFollowsReservation, Live
      <3>3. ConsumesPaid'
        BY <1>2, <2>2, <3>1 DEF PaidAgreement, ConsumesPaid, JobsComplete, Live
      <3>4. PaymentFollowsReservation' /\ ConfirmedIsPaid'
        BY <3>1, <3>2 DEF PaidAgreement, PaymentFollowsReservation, ConfirmedIsPaid, Live
      <3> QED BY <1>1, <3>3, <3>4 DEF PaidAgreement
    <2> QED BY <2>3, <2>4
  <1>13. ASSUME NEW p \in Handlers, Crash(p) PROVE PaidAgreement'
    BY <1>1, <1>2, <1>13, PaidFrame DEF Crash, Ends, NoJob, JobsComplete, TypeOK
  <1>14. ASSUME NEW p \in Handlers, NEW c \in Checkouts, Arrive(p, c) PROVE PaidAgreement'
    <2>1. UNCHANGED <<visits, reservations>>
      BY <1>14 DEF Arrive, Checkout, Webhook, ApproveManual, ReadsPayment
    <2>2. \A d \in Checkouts :
             /\ payments'[d].status = "absent" <=> payments[d].status = "absent"
             /\ payments[d].status = "succeeded" => payments'[d].status = "succeeded"
      BY <1>2, <1>14
      DEF Arrive, Checkout, Webhook, ApproveManual, ApproveAccepts, ReadsPayment, TypeOK, PaymentRow
    <2>3. ASSUME NEW q \in Handlers, job'[q].at = "consume"
          PROVE  job'[q] = job[q] \/ payments'[job'[q].c].status = "succeeded"
      <3>1. CASE Checkout(p, c)
        <4>1. \A x \in Handlers \ {p} : job'[x] = job[x] BY <1>2, <3>1 DEF Checkout, TypeOK
        <4>2. job'[p].at \in {"hold", "submit"}
          <5>1. CASE job' = [job EXCEPT ![p] = Start(p, c, "submit")]
            BY <1>2, <5>1 DEF Start, NoJob, TypeOK
          <5>2. CASE job' = [job EXCEPT ![p] =
                        [Start(p, c, "hold") EXCEPT !.winSeen = windows[WindowOf[c]]]]
            BY <1>2, <5>2 DEF Start, NoJob, TypeOK
          <5> QED BY <3>1, <5>1, <5>2 DEF Checkout
        <4> QED BY <2>3, <4>1, <4>2
      <3>2. CASE Webhook(p, c)
        <4>1. CASE job' = [job EXCEPT ![p] = Start(p, c, "reconcile")]
          BY <1>2, <2>3, <4>1 DEF Start, NoJob, TypeOK
        <4>2. CASE job' = [job EXCEPT ![p] = Start(p, c, "get")]
          BY <1>2, <2>3, <4>2 DEF Start, NoJob, TypeOK
        <4> QED BY <3>2, <4>1, <4>2 DEF Webhook
      <3>3. CASE ApproveManual(p, c)
        BY <1>2, <2>3, <3>3 DEF ApproveManual, Start, NoJob, TypeOK, PaymentRow
      <3>4. ASSUME NEW at \in {"report", "review", "reject"}, ReadsPayment(p, c, at)
            PROVE  job'[q] = job[q]
        BY <1>2, <2>3, <3>4 DEF ReadsPayment, Start, NoJob, TypeOK
      <3> QED BY <1>14, <3>1, <3>2, <3>3, <3>4 DEF Arrive
    <2> QED BY <1>1, <1>2, <2>1, <2>2, <2>3, PaidFrame DEF JobsComplete
  <1>15. ASSUME NEW c \in Checkouts, ExpireReservation(c) PROVE PaidAgreement'
    <2>1. reservations[c].status \in Live /\ visits[c] \in Pending
      BY <1>1, <1>15
      DEF ExpireReservation, Claims, Agreement, VisitFollowsReservation, Live
    <2>2. job' = job BY <1>15 DEF ExpireReservation
    <2>3. CASE MustReconcileAsPaid(c)
      <3>1. payments' = payments /\ payments[c].status = "succeeded"
        BY <1>15, <2>1, <2>3 DEF ExpireReservation, MustReconcileAsPaid, Pending
      <3>2. /\ reservations'[c].status = "consumed"
            /\ \A d \in Checkouts \ {c} :
                  reservations'[d] = reservations[d] /\ visits'[d] = visits[d]
        BY <1>2, <1>15, <2>3 DEF ExpireReservation, Confirm, TypeOK, ReservationRow
      <3>3. ConsumesPaid'
        BY <1>2, <2>1, <2>2, <3>1, <3>2 DEF PaidAgreement, ConsumesPaid, JobsComplete, Live
      <3>4. PaymentFollowsReservation' /\ ConfirmedIsPaid'
        BY <2>1, <3>1, <3>2 DEF PaidAgreement, PaymentFollowsReservation, ConfirmedIsPaid, Live
      <3> QED BY <1>1, <3>3, <3>4 DEF PaidAgreement
    <2>4. CASE ~MustReconcileAsPaid(c)
      <3>1. /\ reservations'[c].status = "expired" /\ visits'[c] = "payment_expired"
            /\ payments'[c].status = "absent" <=> payments[c].status = "absent"
            /\ \A d \in Checkouts \ {c} : /\ reservations'[d] = reservations[d]
                                          /\ payments'[d] = payments[d] /\ visits'[d] = visits[d]
        <4>1. reservations' = [reservations EXCEPT ![c].status = "expired"]
          BY <1>15, <2>4 DEF ExpireReservation
        <4>2. visits' = [visits EXCEPT ![c] = "payment_expired"]
          BY <1>15, <2>1, <2>4 DEF ExpireReservation
        <4>3. payments' = [payments EXCEPT ![c] = ExpirePayment(payments[c])]
          BY <1>15, <2>1, <2>4 DEF ExpireReservation
        <4>4. ExpirePayment(payments[c]).status = "absent" <=> payments[c].status = "absent"
          <5>1. payments[c] \in PaymentRow BY <1>2 DEF TypeOK
          <5> QED BY <5>1 DEF ExpirePayment, PaymentRow
        <4> QED BY <1>2, <4>1, <4>2, <4>3, <4>4 DEF TypeOK, ReservationRow
      <3>2. ConsumesPaid'
        BY <1>2, <2>1, <2>2, <3>1 DEF PaidAgreement, ConsumesPaid, JobsComplete, Live
      <3>3. PaymentFollowsReservation' /\ ConfirmedIsPaid'
        BY <2>1, <3>1 DEF PaidAgreement, PaymentFollowsReservation, ConfirmedIsPaid, Live
      <3> QED BY <1>1, <3>2, <3>3 DEF PaidAgreement
    <2> QED BY <2>3, <2>4
  <1>16. ASSUME NEW c \in Checkouts, Outside(c) PROVE PaidAgreement'
    BY <1>1, <1>2, <1>16, PaidFrame DEF Outside, ClientPays, ProviderCancels, JobsComplete
  <1>17. CASE UNCHANGED vars \/ Tick
    BY <1>1, <1>2, <1>17, PaidFrame DEF vars, Tick, JobsComplete
  <1> QED
    BY <1>3, <1>4, <1>5, <1>6, <1>7, <1>8, <1>9, <1>10, <1>11, <1>12, <1>13, <1>14, <1>15, <1>16,
       <1>17 DEF Next, Progress

\* Whoever confirms a visit, its payment has succeeded and stays so
\* (consume, expire_claimed, apply_payment_webhook_result, reject_manual).
THEOREM ConfirmedPaid == Spec => []ConfirmedIsPaid
  <1>1. PaidAgreement => ConfirmedIsPaid BY DEF PaidAgreement
  <1> QED BY <1>1, PaidInit, PaidNext, PTL DEF Spec

-----------------------------------------------------------------------------
(* Refinement: the visits alone tell who holds, who took and who lost.     *)

\* Reservation implements Slots: a checkout that lost its window never gets
\* it back, whatever is retried (book, consume, expire_claimed, reject_manual).
THEOREM PromiseKept == Spec => KeepsPromise
  <1>1. Init => Promise!Init
    BY DEF Init, Promise!Init, Pending, Released
  <1>2. Agreement /\ [Next]_vars => [Promise!Next]_(Promise!slots)
    <2> SUFFICES ASSUME Agreement, [Next]_vars
                 PROVE  [Promise!Next]_(Promise!slots)
      OBVIOUS
    <2>1. CASE Untouched BY <2>1 DEF Untouched, Promise!slots
    <2>2. ASSUME NEW c \in Checkouts, Reserved(c) PROVE Promise!Hold(c)
      BY <2>2 DEF Reserved, Sets, NotOccupied, Agreement, Typed, TypeOK, VisitFollowsReservation,
                  Promise!Hold, Promise!Free, Pending, Occupying, Released
    <2>3. ASSUME NEW c \in Checkouts, Waiting(c) PROVE UNCHANGED Promise!slots
      BY <2>3 DEF Waiting, Sets, Agreement, Typed, TypeOK, VisitFollowsReservation, Promise!slots,
                  Pending, Released
    <2>4. ASSUME NEW c \in Checkouts, Taken(c) PROVE Promise!Take(c)
      BY <2>4 DEF Taken, Sets, Agreement, Typed, TypeOK, VisitFollowsReservation, Promise!Take,
                  Pending, Released
    <2>5. ASSUME NEW c \in Checkouts, GivenUp(c) PROVE Promise!Drop(c)
      BY <2>5 DEF GivenUp, Sets, Agreement, Typed, TypeOK, VisitFollowsReservation, Promise!Drop,
                  Pending, Released
    <2> QED BY <2>1, <2>2, <2>3, <2>4, <2>5, Effects DEF Promise!Next
  <1> QED BY <1>1, <1>2, AgreementInit, AgreementNext, PTL DEF Spec, KeepsPromise, Promise!Spec
-----------------------------------------------------------------------------
(* Payments.  The handlers that decide on a payment they read without a    *)
(* lock serve manual payments only; so nobody moves the payment of a       *)
(* provider against the table, or gives up a visit that it has paid.       *)

\* The steps of these handlers.
Stale == {"report", "review", "reject"}
StaleIsManual == \A p \in Handlers : job[p].at \in Stale => Mode[job[p].c] = "manual"

\* A payment under review has been reported, and stays so until the review is over.
ReviewedIsReported ==
    \A c \in Checkouts : reservations[c].status = "awaiting_review" =>
        payments[c].manual \in Reported \cup {"confirmed"}

Reviews == StaleIsManual /\ ReviewedIsReported

LEMMA StaleStep ==
  ASSUME PaidAgreement, StaleIsManual, [Next]_vars
  PROVE  StaleIsManual'
  <1>1. job \in [Handlers -> Job]
    BY DEF PaidAgreement, Agreement, Typed, TypeOK
  <1>2. ASSUME UNCHANGED job PROVE StaleIsManual'
    BY <1>2 DEF StaleIsManual
  <1>3. ASSUME NEW p \in Handlers, NEW j, job' = [job EXCEPT ![p] = j],
               j.at \in Stale => Mode[j.c] = "manual"
        PROVE  StaleIsManual'
    BY <1>1, <1>3 DEF StaleIsManual
  <1>4. ASSUME NEW p \in Handlers, Ends(p) PROVE StaleIsManual'
    BY <1>3, <1>4 DEF Ends, NoJob, Stale
  <1>5. ASSUME NEW p \in Handlers,
               NEW at \in {"submit", "call", "consume", "reconcile"}, Goes(p, at)
        PROVE  StaleIsManual'
    <2> DEFINE j == [job[p] EXCEPT !.at = at]
    <2>1. job' = [job EXCEPT ![p] = j] /\ j.at = at
      BY <1>1, <1>5 DEF Goes, Job
    <2> HIDE DEF j
    <2> QED BY <1>3, <2>1 DEF Stale
  <1>6. ASSUME NEW p \in Handlers, NEW a, NEW at \in {"apply", "apply_event"},
               job' = [job EXCEPT ![p].at = at, ![p].answer = a]
        PROVE  StaleIsManual'
    <2> DEFINE j == [job[p] EXCEPT !.at = at, !.answer = a]
    <2>1. job' = [job EXCEPT ![p] = j] /\ j.at = at
      BY <1>1, <1>6 DEF Job
    <2> HIDE DEF j
    <2> QED BY <1>3, <2>1 DEF Stale
  <1>7. ASSUME NEW p \in Handlers, NEW c \in Checkouts,
               NEW at \in {"submit", "get", "reconcile"}, job' = [job EXCEPT ![p] = Start(p, c, at)]
        PROVE  StaleIsManual'
    <2>1. Start(p, c, at).at = at
      BY DEF Start, NoJob
    <2> QED BY <1>3, <1>7, <2>1 DEF Stale
  <1>8. ASSUME NEW p \in Handlers, Progress(p) PROVE StaleIsManual'
    BY <1>2, <1>4, <1>5, <1>6, <1>8
    DEF Progress, HoldWindow, SubmitPayment, CallProvider, ApplyAnswer, ConsumeReservation,
        GetPayment, ApplyEvent, ReportPaid, SubmitForReview, RejectManual, Finalizes, Answered
  <1>9. ASSUME NEW p \in Handlers, NEW c \in Checkouts, NEW at \in Stale, ReadsPayment(p, c, at)
        PROVE  StaleIsManual'
    <2> DEFINE j == [Start(p, c, at) EXCEPT !.paySeen = payments[c], !.visitSeen = visits[c]]
    <2>1. job' = [job EXCEPT ![p] = j] /\ Mode[c] = "manual"
      BY <1>9 DEF ReadsPayment
    <2>2. j.c = c
      BY DEF Start, NoJob
    <2> HIDE DEF j
    <2> QED BY <1>3, <2>1, <2>2
  <1>10. ASSUME NEW p \in Handlers, NEW c \in Checkouts, Checkout(p, c) PROVE StaleIsManual'
    <2> DEFINE j == [Start(p, c, "hold") EXCEPT !.winSeen = windows[WindowOf[c]]]
    <2>1. job' = [job EXCEPT ![p] = j] \/ job' = [job EXCEPT ![p] = Start(p, c, "submit")]
      BY <1>10 DEF Checkout
    <2>2. j.at = "hold"
      BY DEF Start, NoJob
    <2> HIDE DEF j
    <2> QED BY <1>3, <1>7, <2>1, <2>2 DEF Stale
  <1>11. ASSUME NEW p \in Handlers, NEW c \in Checkouts, Webhook(p, c) \/ ApproveManual(p, c)
         PROVE  StaleIsManual'
    BY <1>2, <1>7, <1>11 DEF Webhook, ApproveManual
  <1>12. ASSUME NEW c \in Checkouts, ExpireReservation(c) \/ Outside(c) PROVE StaleIsManual'
    BY <1>2, <1>12 DEF ExpireReservation, Outside, ClientPays, ProviderCancels
  <1>13. CASE UNCHANGED vars \/ Tick
    BY <1>2, <1>13 DEF vars, Tick
  <1> QED
    BY <1>4, <1>8, <1>9, <1>10, <1>11, <1>12, <1>13 DEF Next, Arrive, Stale, Crash

\* What a step may do to a payment: it moves along the table, unless it is manual; and it
\* stays reported as long as it is under review.
PaymentStep(c) ==
    /\ \/ payments'[c].status = payments[c].status
       \/ PaymentOrder[payments[c].status] < PaymentOrder[payments'[c].status]
       \/ Mode[c] = "manual"
    /\ \/ payments'[c].manual = payments[c].manual
       \/ payments'[c].manual \in Reported \cup {"confirmed"}
       \/ reservations'[c].status # "awaiting_review"

LEMMA PaymentSteps ==
  ASSUME PaidAgreement, StaleIsManual, [Next]_vars, NEW c \in Checkouts
  PROVE  PaymentStep(c)
  <1>1. /\ TypeOK /\ JobsComplete /\ payments \in [Checkouts -> PaymentRow]
        /\ payments[c] \in PaymentRow /\ reservations \in [Checkouts -> ReservationRow]
    BY DEF PaidAgreement, Agreement, Typed, TypeOK
  <1>2. CASE payments'[c] = payments[c]
    BY <1>2 DEF PaymentStep
  <1>3. ASSUME NEW p \in Handlers, HoldWindow(p), payments'[c] # payments[c]
        PROVE  PaymentStep(c)
    <2>1. job[p].c = c /\ HoldAccepts(job[p]) /\ payments'[c].status = "created"
      BY <1>1, <1>3 DEF HoldWindow
    <2>2. payments[c].status = "absent"
      BY <2>1 DEF HoldAccepts, KeyUnused, PaidAgreement, PaymentFollowsReservation
    <2>3. reservations'[c].status = "active"
      BY <1>1, <1>3, <2>1 DEF HoldWindow
    <2> QED BY <2>1, <2>2, <2>3 DEF PaymentStep, PaymentOrder
  <1>4. ASSUME NEW p \in Handlers, ApplyAnswer(p), payments'[c] # payments[c]
        PROVE  PaymentStep(c)
    <2>1. job[p].c = c /\ payments[c].status = "created" /\ job[p].answer # "unavailable"
      BY <1>1, <1>4 DEF ApplyAnswer
    <2>2. job[p].answer \in {"pending", "succeeded", "cancelled", "refused"}
      BY <1>1, <1>4, <2>1 DEF ApplyAnswer, At, JobsComplete, TypeOK, Job, Answers
    <2>3. \/ payments'[c] = [payments[c] EXCEPT !.status = "failed"]
          \/ /\ job[p].answer # "refused"
             /\ payments'[c] = [payments[c] EXCEPT !.status = job[p].answer, !.sent = TRUE]
      BY <1>1, <1>4, <2>1 DEF ApplyAnswer
    <2>4. /\ payments'[c].status \in {"pending", "succeeded", "cancelled", "failed"}
          /\ payments'[c].manual = payments[c].manual
      BY <1>1, <2>2, <2>3 DEF PaymentRow
    <2> QED BY <2>1, <2>4 DEF PaymentStep, PaymentOrder
  <1>5. ASSUME NEW p \in Handlers, ApplyEvent(p), payments'[c] # payments[c]
        PROVE  PaymentStep(c)
    <2>1. /\ job[p].c = c /\ TransitionAllowed(payments[c].status, job[p].answer)
          /\ payments'[c] = [payments[c] EXCEPT !.status = job[p].answer]
      BY <1>1, <1>5 DEF ApplyEvent
    <2>2. /\ payments'[c].status = job[p].answer /\ payments'[c].manual = payments[c].manual
      BY <1>1, <2>1 DEF PaymentRow
    <2> QED BY <2>1, <2>2 DEF PaymentStep, PaymentOrder, TransitionAllowed
  <1>6. ASSUME NEW p \in Handlers, ReportPaid(p) \/ SubmitForReview(p), payments'[c] # payments[c]
        PROVE  PaymentStep(c)
    <2>1. \/ payments'[c] = [payments[c] EXCEPT !.manual = "client_reported"]
          \/ payments'[c] = [payments[c] EXCEPT !.manual = "review_pending"]
      BY <1>1, <1>6 DEF ReportPaid, SubmitForReview
    <2>2. payments'[c].status = payments[c].status /\ payments'[c].manual \in Reported
      BY <1>1, <2>1 DEF PaymentRow, Reported
    <2> QED BY <2>2 DEF PaymentStep
  <1>7. ASSUME NEW p \in Handlers, RejectManual(p), payments'[c] # payments[c]
        PROVE  PaymentStep(c)
    <2>1. job[p].c = c /\ job[p].at = "reject" /\ RejectAccepts(job[p])
      BY <1>1, <1>7 DEF RejectManual, At
    <2>2. Mode[c] = "manual"
      BY <2>1 DEF StaleIsManual, Stale
    <2>3. reservations'[c].status = "cancelled"
      BY <1>1, <1>7, <2>1 DEF RejectManual, CancelReservation, ReservationRow
    <2> QED BY <2>2, <2>3 DEF PaymentStep
  <1>8. ASSUME NEW p \in Handlers, NEW d \in Checkouts, Arrive(p, d), payments'[c] # payments[c]
        PROVE  PaymentStep(c)
    <2>1. ApproveManual(p, d)
      BY <1>8 DEF Arrive, Checkout, Webhook, ReadsPayment
    <2>2. payments' = [payments EXCEPT ![d] =
                         [payments[d] EXCEPT !.status = "succeeded", !.manual = "confirmed"]]
      BY <1>1, <1>8, <2>1 DEF ApproveManual
    <2>3. d = c /\ payments'[c] = [payments[c] EXCEPT !.status = "succeeded", !.manual = "confirmed"]
      BY <1>1, <1>8, <2>2
    <2>4. payments'[c].manual = "confirmed" /\ Mode[c] = "manual"
      BY <1>1, <2>1, <2>3 DEF ApproveManual, PaymentRow
    <2> QED BY <2>4 DEF PaymentStep
  <1>9. ASSUME NEW d \in Checkouts, ExpireReservation(d), payments'[c] # payments[c]
        PROVE  PaymentStep(c)
    <2>1. d = c /\ payments'[c] = ExpirePayment(payments[c])
      BY <1>1, <1>9 DEF ExpireReservation
    <2>2. reservations'[c].status = "expired"
      BY <1>1, <1>9, <2>1 DEF ExpireReservation, ReservationRow
    <2>3. payments[c].status = "pending" /\ payments'[c].status = "cancelled"
      BY <1>1, <1>9, <2>1 DEF ExpirePayment, PaymentRow
    <2> QED BY <2>2, <2>3 DEF PaymentStep, PaymentOrder
  <1>10. ASSUME NEW p \in Handlers,
                \/ SubmitPayment(p) \/ CallProvider(p) \/ ConsumeReservation(p) \/ GetPayment(p)
                \/ Crash(p)
         PROVE  payments' = payments
    BY <1>10 DEF SubmitPayment, CallProvider, ConsumeReservation, GetPayment, Crash
  <1>11. ASSUME NEW d \in Checkouts, Outside(d) PROVE payments' = payments
    BY <1>11 DEF Outside, ClientPays, ProviderCancels
  <1>12. CASE UNCHANGED vars \/ Tick
    BY <1>2, <1>12 DEF vars, Tick
  <1> QED
    BY <1>2, <1>3, <1>4, <1>5, <1>6, <1>7, <1>8, <1>9, <1>10, <1>11, <1>12 DEF Next, Progress

LEMMA ReviewedStep ==
  ASSUME PaidAgreement, Reviews, [Next]_vars
  PROVE  ReviewedIsReported'
  <1> SUFFICES ASSUME NEW c \in Checkouts, reservations'[c].status = "awaiting_review"
               PROVE  payments'[c].manual \in Reported \cup {"confirmed"}
    BY DEF ReviewedIsReported
  <1>1. /\ TypeOK /\ JobsComplete /\ reservations \in [Checkouts -> ReservationRow]
        /\ payments \in [Checkouts -> PaymentRow]
    BY DEF PaidAgreement, Agreement, Typed, TypeOK
  <1>2. CASE reservations[c].status = "awaiting_review"
    BY <1>2, PaymentSteps DEF PaymentStep, Reviews, ReviewedIsReported
  <1>3. CASE reservations[c].status # "awaiting_review"
    <2>1. ASSUME NEW p \in Handlers, ReportPaid(p)
          PROVE  payments'[c].manual = "client_reported"
      <3>1. ReportAccepts(job[p]) /\ job[p].c = c
        BY <1>1, <1>3, <2>1 DEF ReportPaid
      <3>2. payments' = [payments EXCEPT ![c].manual = "client_reported"]
        BY <2>1, <3>1 DEF ReportPaid
      <3> QED BY <1>1, <3>2 DEF PaymentRow
    <2>2. ASSUME NEW p \in Handlers, HoldWindow(p) \/ ConsumeReservation(p) \/ RejectManual(p)
          PROVE  FALSE
      <3>1. job[p].c \in Checkouts
        BY <1>1, <2>2 DEF HoldWindow, ConsumeReservation, RejectManual, At, JobsComplete
      <3>2. \/ reservations' = reservations
            \/ \E s \in {"consumed", "cancelled"} :
                  reservations' = [reservations EXCEPT ![job[p].c].status = s]
            \/ \E x : reservations' = [reservations EXCEPT
                                         ![job[p].c] = [status |-> "active", expires |-> x]]
        BY <2>2 DEF HoldWindow, ConsumeReservation, Confirm, RejectManual, CancelReservation
      <3>3. ASSUME NEW s \in {"consumed", "cancelled"},
                   reservations' = [reservations EXCEPT ![job[p].c].status = s]
            PROVE  FALSE
        BY <1>1, <1>3, <3>1, <3>3 DEF ReservationRow
      <3>4. ASSUME NEW x, reservations' = [reservations EXCEPT
                                             ![job[p].c] = [status |-> "active", expires |-> x]]
            PROVE  FALSE
        BY <1>1, <1>3, <3>1, <3>4
      <3> QED BY <1>3, <3>2, <3>3, <3>4
    <2>3. ASSUME NEW d \in Checkouts, ExpireReservation(d) PROVE FALSE
      <3>1. \E s \in {"consumed", "expired"} : reservations' = [reservations EXCEPT ![d].status = s]
        BY <2>3 DEF ExpireReservation, Confirm
      <3> QED BY <1>1, <1>3, <3>1 DEF ReservationRow
    <2>4. ASSUME NEW p \in Handlers,
                 \/ SubmitPayment(p) \/ CallProvider(p) \/ ApplyAnswer(p) \/ GetPayment(p)
                 \/ ApplyEvent(p) \/ SubmitForReview(p) \/ Crash(p)
                 \/ \E d \in Checkouts : Arrive(p, d)
          PROVE  FALSE
      BY <1>3, <2>4
      DEF SubmitPayment, CallProvider, ApplyAnswer, GetPayment, ApplyEvent, SubmitForReview, Crash,
          Arrive, Checkout, Webhook, ApproveManual, ReadsPayment
    <2>5. ASSUME NEW d \in Checkouts, Outside(d) PROVE FALSE
      BY <1>3, <2>5 DEF Outside, ClientPays, ProviderCancels
    <2>6. CASE UNCHANGED vars \/ Tick
      BY <1>3, <2>6 DEF vars, Tick
    <2> QED BY <2>1, <2>2, <2>3, <2>4, <2>5, <2>6 DEF Next, Progress, Reported
  <1> QED BY <1>2, <1>3

LEMMA ReviewsHold == Spec => [](PaidAgreement /\ Reviews)
  <1>1. Init => Reviews
    BY DEF Init, Reviews, StaleIsManual, ReviewedIsReported, Stale, NoJob, NoReservation
  <1>2. PaidAgreement /\ Reviews /\ [Next]_vars => Reviews'
    BY StaleStep, ReviewedStep DEF Reviews
  <1> QED BY <1>1, <1>2, PaidInit, PaidNext, PTL DEF Spec

\* An approval that died after its first transaction finds the payment and the visit as
\* its second needs them: only a rejection or an approval ends a review (approve, consume,
\* claim_expired).
THEOREM ApprovalRepeats == Spec => []ApprovalCanBeRepeated
  <1>1. PaidAgreement /\ Reviews => ApprovalCanBeRepeated
    <2> SUFFICES ASSUME PaidAgreement, Reviews, NEW c \in Checkouts,
                        reservations[c].status = "awaiting_review",
                        payments[c].status = "succeeded"
                 PROVE  ApproveAccepts(c) /\ ConsumeAccepts(c, clock)
      BY DEF ApprovalCanBeRepeated
    <2>1. ApproveAccepts(c)
      BY DEF Reviews, ReviewedIsReported, ApproveAccepts
    <2>2. windows[WindowOf[c]] = "reserved" /\ visits[c] \in Pending
      BY DEF PaidAgreement, Agreement, LiveHoldKeepsWindow, Live
    <2> QED BY <2>1, <2>2 DEF ConsumeAccepts, Occupying
  <1> QED BY <1>1, ReviewsHold, PTL

\* Nobody takes a provider's payment back or out of an end it has reached: not an answer
\* that was overtaken by the webhook, nor the expiry of the reservation, nor the event that
\* is applied a second time (apply_payment_webhook_result, expire_claimed).
THEOREM PaymentsMove == Spec => PaymentMovesAsAllowed
  <1> DEFINE Moves == \A c \in Checkouts :
               Mode[c] = "yookassa" /\ payments'[c].status # payments[c].status =>
                   PaymentOrder[payments[c].status] < PaymentOrder[payments'[c].status]
  <1>1. ASSUME PaidAgreement, Reviews, [Next]_vars PROVE [Moves]_vars
    BY <1>1, PaymentSteps DEF Reviews, PaymentStep
  <1> QED BY <1>1, ReviewsHold, PTL DEF Spec, PaymentMovesAsAllowed

\* A visit that is paid through the provider is given up by nobody: the worker that finds
\* its reservation expired looks at the payment under the lock of the visit, and a
\* rejection never meets it (expire_claimed, reject_manual).
THEOREM PaidVisitKept == Spec => PaidVisitIsKept
  <1> DEFINE Kept == \A c \in Checkouts :
               Mode[c] = "yookassa" /\ payments[c].status = "succeeded" /\ visits[c] \in Occupying
                   => visits'[c] \in Occupying
  <1>1. ASSUME PaidAgreement, Reviews, [Next]_vars PROVE [Kept]_vars
    <2> SUFFICES ASSUME NEW c \in Checkouts, Mode[c] = "yookassa",
                        payments[c].status = "succeeded", visits[c] \in Occupying
                 PROVE  visits'[c] \in Occupying
      OBVIOUS
    <2>1. /\ TypeOK /\ JobsComplete /\ visits \in [Checkouts -> VisitStatus]
      BY <1>1 DEF PaidAgreement, Agreement, Typed, TypeOK
    <2>2. ASSUME NEW p \in Handlers, HoldWindow(p) PROVE visits'[c] \in Occupying
      BY <2>1, <2>2 DEF HoldWindow, Occupying, Pending
    <2>3. ASSUME NEW p \in Handlers, ConsumeReservation(p) PROVE visits'[c] \in Occupying
      BY <2>1, <2>3 DEF ConsumeReservation, Confirm, Occupying, Pending
    <2>4. ASSUME NEW p \in Handlers, ReportPaid(p) PROVE visits'[c] \in Occupying
      BY <2>1, <2>4 DEF ReportPaid, Occupying, Pending
    <2>5. ASSUME NEW p \in Handlers, RejectManual(p) PROVE visits'[c] \in Occupying
      <3>1. Mode[job[p].c] = "manual"
        BY <1>1, <2>5 DEF Reviews, StaleIsManual, Stale, RejectManual, At
      <3>2. c # job[p].c
        BY <3>1
      <3> QED BY <2>1, <2>5, <3>2 DEF RejectManual
    <2>6. ASSUME NEW d \in Checkouts, ExpireReservation(d) PROVE visits'[c] \in Occupying
      <3>1. CASE MustReconcileAsPaid(d)
        BY <2>1, <2>6, <3>1 DEF ExpireReservation, Confirm, Occupying, Pending
      <3>2. CASE ~MustReconcileAsPaid(d)
        <4>1. c # d
          BY <3>2 DEF MustReconcileAsPaid, Occupying
        <4> QED BY <2>1, <2>6, <3>2, <4>1 DEF ExpireReservation
      <3> QED BY <3>1, <3>2
    <2>7. ASSUME NEW p \in Handlers,
                 \/ SubmitPayment(p) \/ CallProvider(p) \/ ApplyAnswer(p) \/ GetPayment(p)
                 \/ ApplyEvent(p) \/ SubmitForReview(p) \/ Crash(p)
                 \/ \E d \in Checkouts : Arrive(p, d)
          PROVE  visits' = visits
      BY <2>7
      DEF SubmitPayment, CallProvider, ApplyAnswer, GetPayment, ApplyEvent, SubmitForReview, Crash,
          Arrive, Checkout, Webhook, ApproveManual, ReadsPayment
    <2>8. ASSUME NEW d \in Checkouts, Outside(d) PROVE visits' = visits
      BY <2>8 DEF Outside, ClientPays, ProviderCancels
    <2>9. ASSUME UNCHANGED vars \/ Tick PROVE visits' = visits
      BY <2>9 DEF vars, Tick
    <2> QED
      BY <1>1, <2>2, <2>3, <2>4, <2>5, <2>6, <2>7, <2>8, <2>9 DEF Next, Progress
  <1> QED BY <1>1, ReviewsHold, PTL DEF Spec, PaidVisitIsKept
=============================================================================
