---------------------------- MODULE Reservation ----------------------------
(***************************************************************************)
(* The prepaid checkout: a window is reserved while its payment is made,   *)
(* and the reservation ends consumed (the visit is confirmed), cancelled   *)
(* (an administrator rejects the payment) or expired (the worker frees the *)
(* window).  Requests run several transactions with external calls between *)
(* them and may die after any of them.                                     *)
(*                                                                         *)
(* A step is one transaction.  A transaction that reads its rows under its *)
(* locks is atomic here: every path to a reservation locks its row first.  *)
(* Three manual handlers read the payment and the visit without a lock and *)
(* select them FOR UPDATE afterwards, which does not refresh what the      *)
(* session has loaded: they decide on paySeen and visitSeen.               *)
(***************************************************************************)
EXTENDS Integers, FiniteSets

CONSTANTS
    Handlers,   \* concurrent request handlers
    Checkouts,  \* checkouts, by idempotency key: each has one reservation,
                \* one visit and one payment
    Windows,    \* availability windows
    WindowOf,   \* the window of a checkout
    Mode,       \* the payment mode of a checkout, "manual" or "yookassa"
    Ttl,        \* settings.reservation_ttl_minutes, in ticks
    MaxClock,   \* bound on the clock
    None        \* no checkout

ASSUME ReservationAssumption ==
    /\ WindowOf \in [Checkouts -> Windows]
    /\ Mode \in [Checkouts -> {"manual", "yookassa"}]
    /\ Ttl \in Nat \ {0} /\ MaxClock \in Nat
    /\ None \notin Checkouts

VARIABLES
    clock,
    windows,        \* status of each window
    visits,         \* status of each checkout's appointment
    reservations,   \* its reservation
    payments,       \* its payment
    provider,       \* YooKassa's state of the payment
    inbox,          \* the stored webhook event of the payment
    job             \* what each handler does, and what it has read

vars == <<clock, windows, visits, reservations, payments, provider, inbox, job>>
-----------------------------------------------------------------------------
WindowStatus == {"open", "reserved", "booked"}
Pending == {"pending_payment", "pending_manual"}
Occupying == Pending \cup {"confirmed"}
Released == {"payment_expired", "cancelled_by_admin"}
VisitStatus == {"absent"} \cup Occupying \cup Released

Live == {"active", "awaiting_review"}
ReservationStatus == {"absent", "consumed", "expired", "cancelled"} \cup Live
ReservationRow == [status: ReservationStatus, expires: 0..MaxClock]
NoReservation == [status |-> "absent", expires |-> 0]

PaymentStatus == {"absent", "created", "pending", "succeeded", "cancelled", "failed"}
ManualStatus == {"none", "awaiting_payment", "client_reported", "review_pending",
                 "confirmed", "rejected", "expired"}
\* sent: the provider's id of the payment, and its URL, are stored.
PaymentRow == [status: PaymentStatus, manual: ManualStatus, sent: BOOLEAN]
NoPayment == [status |-> "absent", manual |-> "none", sent |-> FALSE]

ProviderStatus == {"none", "pending", "succeeded", "cancelled"}
InboxStatus == {"absent", "pending", "processed", "failed"}
Answers == {"none", "pending", "succeeded", "cancelled", "unavailable", "refused"}

Job == [at: {"idle", "hold", "submit", "call", "apply", "consume", "reconcile", "get",
             "apply_event", "report", "review", "reject"},
        c: Checkouts \cup {None}, now: 0..MaxClock,
        winSeen: WindowStatus, paySeen: PaymentRow, visitSeen: VisitStatus,
        answer: Answers]
NoJob == [at |-> "idle", c |-> None, now |-> 0, winSeen |-> "open",
          paySeen |-> NoPayment, visitSeen |-> "absent", answer |-> "none"]

\* Variant: a payment moves from any status to any other.
AnyTransition(from, to) == TRUE
\* require_payment_transition, without the refunds.
TransitionAllowed(from, to) ==
    \/ from = to
    \/ from = "created" /\ to \in {"pending", "succeeded", "cancelled", "failed"}
    \/ from = "pending" /\ to \in {"succeeded", "cancelled", "failed"}
-----------------------------------------------------------------------------
(* Handlers. *)

Start(p, c, at) == [NoJob EXCEPT !.at = at, !.c = c, !.now = clock]
Goes(p, at) == job' = [job EXCEPT ![p].at = at]
Ends(p) == job' = [job EXCEPT ![p] = NoJob]
Idle(p) == job[p].at = "idle"
At(p, at) == job[p].at = at
-----------------------------------------------------------------------------
(* Checkout: reserve the window, submit the payment, consume if it is paid. *)

\* A checkout whose key is known is resumed, unless its reservation is over.
\* Bound: a new reservation can expire before the clock ends.
Checkout(p, c) ==
    /\ Idle(p)
    /\ \/ /\ reservations[c].status = "absent" /\ clock + Ttl <= MaxClock
          /\ job' = [job EXCEPT ![p] =
                [Start(p, c, "hold") EXCEPT !.winSeen = windows[WindowOf[c]]]]
       \/ /\ reservations[c].status \in {"active", "awaiting_review", "consumed"}
          /\ job' = [job EXCEPT ![p] = Start(p, c, "submit")]
    /\ UNCHANGED <<clock, windows, visits, reservations, payments, provider, inbox>>

\* Variant: the index on occupied windows is missing.
NoOccupantIndex(c) == TRUE
\* uq_appointments_occupied_window, on the insert of the appointment.
NotOccupied(c) ==
    \A d \in Checkouts \ {c} : visits[d] \in Occupying => WindowOf[d] # WindowOf[c]
\* get_active_for_window and uq_booking_reservations_active_window.
NotReserved(c) ==
    \A d \in Checkouts : reservations[d].status \in Live => WindowOf[d] # WindowOf[c]

\* Variant: the reservation stored under the key is not looked up.
KeyIgnored(c) == reservations[c].status \notin Live \cup {"consumed"}
KeyUnused(c) == reservations[c].status = "absent"

\* The window is judged by what was read before its lock.  The check
\* constraint expires_at > created_at refuses a reservation born expired.
HoldAccepts(j) ==
    /\ j.winSeen = "open"
    /\ NotOccupied(j.c) /\ KeyUnused(j.c) /\ NotReserved(j.c)
    /\ j.now + Ttl > clock

HoldWindow(p) ==
    LET c == job[p].c IN
    /\ At(p, "hold")
    /\ IF HoldAccepts(job[p])
         THEN /\ windows' = [windows EXCEPT ![WindowOf[c]] = "reserved"]
              /\ visits' = [visits EXCEPT ![c] = "pending_payment"]
              /\ reservations' = [reservations EXCEPT
                    ![c] = [status |-> "active", expires |-> job[p].now + Ttl]]
              /\ payments' = [payments EXCEPT
                    ![c] = [status |-> "created", sent |-> FALSE,
                            manual |-> IF Mode[c] = "manual" THEN "awaiting_payment"
                                       ELSE "none"]]
              /\ Goes(p, "submit")
         ELSE Ends(p) /\ UNCHANGED <<windows, visits, reservations, payments>>
    /\ UNCHANGED <<clock, provider, inbox>>

\* A checkout goes on if its payment has succeeded.
Finalizes(p, status) == IF status = "succeeded" THEN Goes(p, "consume") ELSE Ends(p)

\* Only a payment that is still "created" is sent to the provider.
SubmitPayment(p) ==
    /\ At(p, "submit")
    /\ IF payments[job[p].c].status = "created"
         THEN Goes(p, "call")
         ELSE Finalizes(p, payments[job[p].c].status)
    /\ UNCHANGED <<clock, windows, visits, reservations, payments, provider, inbox>>

Created(c) == IF provider[c] = "none" THEN "pending" ELSE provider[c]
Answered(p, a) == job' = [job EXCEPT ![p].at = "apply", ![p].answer = a]

\* The provider, called outside any transaction, with the payment's own
\* idempotency key: it creates the payment or returns the one it has.  The
\* answer may be lost; a call may be refused.
CallProvider(p) ==
    LET c == job[p].c IN
    /\ At(p, "call")
    /\ \/ Mode[c] = "manual" /\ Answered(p, "pending") /\ UNCHANGED provider
       \/ /\ Mode[c] = "yookassa"
          /\ \/ /\ provider' = [provider EXCEPT ![c] = Created(c)]
                /\ Answered(p, Created(c)) \/ Answered(p, "unavailable")
             \/ /\ provider[c] = "none"
                /\ Answered(p, "refused") \/ Answered(p, "unavailable")
                /\ UNCHANGED provider
    /\ UNCHANGED <<clock, windows, visits, reservations, payments, inbox>>

\* The answer counts only while the payment is still "created".
ApplyAnswer(p) ==
    LET c == job[p].c
        a == job[p].answer
        new == IF payments[c].status # "created" \/ a = "unavailable" THEN payments[c]
               ELSE IF a = "refused" THEN [payments[c] EXCEPT !.status = "failed"]
               ELSE [payments[c] EXCEPT !.status = a, !.sent = TRUE] IN
    /\ At(p, "apply")
    /\ payments' = [payments EXCEPT ![c] = new]
    /\ IF a \in {"unavailable", "refused"} THEN Ends(p) ELSE Finalizes(p, new.status)
    /\ UNCHANGED <<clock, windows, visits, reservations, provider, inbox>>

\* ReservationService.consume, on a live reservation.
ConsumeAccepts(c, now) ==
    /\ reservations[c].status = "active" => reservations[c].expires > now
    /\ visits[c] = "pending_payment" => payments[c].status = "succeeded"
    /\ visits[c] \in Occupying
    /\ windows[WindowOf[c]] \in {"reserved", "booked"}

\* The visit is confirmed and its window booked, by consume or by the worker.
Confirm(c) ==
    /\ visits' = [visits EXCEPT ![c] = "confirmed"]
    /\ windows' = [windows EXCEPT ![WindowOf[c]] = "booked"]
    /\ reservations' = [reservations EXCEPT ![c].status = "consumed"]

\* The last transaction of a checkout, and of an approval or a webhook, which
\* look at the payment again.  What may not be consumed is left alone.
ConsumeReservation(p) ==
    LET c == job[p].c IN
    /\ At(p, "consume") \/ At(p, "reconcile")
    /\ IF /\ At(p, "reconcile") => payments[c].status = "succeeded"
          /\ reservations[c].status \in Live /\ ConsumeAccepts(c, job[p].now)
         THEN Confirm(c)
         ELSE UNCHANGED <<windows, visits, reservations>>
    /\ Ends(p)
    /\ UNCHANGED <<clock, payments, provider, inbox>>
-----------------------------------------------------------------------------
(* YooKassa: the client pays or gives up; the webhook is delivered at least *)
(* once, verified by a GET, applied, and the reservation consumed.         *)

\* The client has seen the payment page, whose URL is stored with the id.
ClientPays(c) ==
    /\ Mode[c] = "yookassa" /\ payments[c].sent /\ provider[c] = "pending"
    /\ provider' = [provider EXCEPT ![c] = "succeeded"]
    /\ UNCHANGED <<clock, windows, visits, reservations, payments, inbox, job>>
ProviderCancels(c) ==
    /\ provider[c] = "pending"
    /\ provider' = [provider EXCEPT ![c] = "cancelled"]
    /\ UNCHANGED <<clock, windows, visits, reservations, payments, inbox, job>>

\* First transaction: store the event or find it, and find the payment.  A
\* payment whose provider id is not stored yet is not found.
Webhook(p, c) ==
    /\ Idle(p)
    /\ provider[c] \in {"succeeded", "cancelled"}
    /\ inbox' = [inbox EXCEPT ![c] = IF @ = "absent" THEN "pending" ELSE @]
    /\ IF inbox[c] = "processed"
         THEN job' = [job EXCEPT ![p] = Start(p, c, "reconcile")]
         ELSE IF inbox[c] \in {"absent", "pending"} /\ payments[c].sent
         THEN job' = [job EXCEPT ![p] = Start(p, c, "get")]
         ELSE UNCHANGED job
    /\ UNCHANGED <<clock, windows, visits, reservations, payments, provider>>

\* The GET outside any transaction; a failure that may not be retried closes
\* the event.
GetPayment(p) ==
    LET c == job[p].c IN
    /\ At(p, "get")
    /\ \/ /\ job' = [job EXCEPT ![p].at = "apply_event", ![p].answer = provider[c]]
          /\ UNCHANGED inbox
       \/ Ends(p) /\ UNCHANGED inbox
       \/ /\ Ends(p)
          /\ inbox' = [inbox EXCEPT ![c] = IF @ = "pending" THEN "failed" ELSE @]
    /\ UNCHANGED <<clock, windows, visits, reservations, payments, provider>>

\* Second transaction: an event closed meanwhile is not applied again.
ApplyEvent(p) ==
    LET c == job[p].c
        a == job[p].answer
        allowed == TransitionAllowed(payments[c].status, a) IN
    /\ At(p, "apply_event")
    /\ IF inbox[c] # "pending"
         THEN /\ IF inbox[c] = "processed" THEN Goes(p, "reconcile") ELSE Ends(p)
              /\ UNCHANGED <<inbox, payments>>
         ELSE /\ inbox' = [inbox EXCEPT ![c] = IF allowed THEN "processed" ELSE "failed"]
              /\ payments' = IF allowed THEN [payments EXCEPT ![c].status = a] ELSE payments
              /\ IF allowed /\ a = "succeeded" THEN Goes(p, "reconcile") ELSE Ends(p)
    /\ UNCHANGED <<clock, windows, visits, reservations, provider>>
-----------------------------------------------------------------------------
(* Manual prepayment: the client reports a transfer, sends it to review, and *)
(* an administrator approves or rejects it.                                *)

\* The first reads of the client's report, the review request and the
\* rejection, without a lock.
ReadsPayment(p, c, at) ==
    /\ Idle(p) /\ Mode[c] = "manual" /\ payments[c].status # "absent"
    /\ job' = [job EXCEPT ![p] =
         [Start(p, c, at) EXCEPT !.paySeen = payments[c], !.visitSeen = visits[c]]]
    /\ UNCHANGED <<clock, windows, visits, reservations, payments, provider, inbox>>

Reported == {"client_reported", "review_pending"}

ReportAccepts(j) ==
    /\ j.paySeen.manual = "awaiting_payment" /\ j.paySeen.status = "pending"
    /\ reservations[j.c].status = "active" /\ reservations[j.c].expires > j.now
    /\ j.visitSeen \in Pending

ReportPaid(p) ==
    LET c == job[p].c IN
    /\ At(p, "report")
    /\ IF ReportAccepts(job[p])
         THEN /\ reservations' = [reservations EXCEPT ![c].status = "awaiting_review"]
              /\ visits' = [visits EXCEPT
                    ![c] = IF job[p].visitSeen = "pending_manual" THEN @ ELSE "pending_manual"]
              /\ payments' = [payments EXCEPT ![c].manual = "client_reported"]
         ELSE UNCHANGED <<visits, reservations, payments>>
    /\ Ends(p)
    /\ UNCHANGED <<clock, windows, provider, inbox>>

\* The status of the payment itself is not looked at.
SubmitForReview(p) ==
    LET c == job[p].c IN
    /\ At(p, "review")
    /\ payments' = IF /\ job[p].paySeen.manual = "client_reported"
                      /\ reservations[c].status = "awaiting_review"
                     THEN [payments EXCEPT ![c].manual = "review_pending"]
                     ELSE payments
    /\ Ends(p)
    /\ UNCHANGED <<clock, windows, visits, reservations, provider, inbox>>

RejectAccepts(j) ==
    /\ j.paySeen.manual \in Reported /\ j.paySeen.status = "pending"
    /\ j.visitSeen \in Occupying
    /\ reservations[j.c].status = "awaiting_review"

CancelReservation(c) == reservations' = [reservations EXCEPT ![c].status = "cancelled"]

\* Variant: the window is not given back.
KeepWindow(c) == UNCHANGED windows
\* A window that was reserved or booked is free again.
ReleaseWindow(c) ==
    windows' = [windows EXCEPT
        ![WindowOf[c]] = IF @ \in {"reserved", "booked"} THEN "open" ELSE @]

RejectManual(p) ==
    LET c == job[p].c IN
    /\ At(p, "reject")
    /\ IF RejectAccepts(job[p])
         THEN /\ payments' = [payments EXCEPT ![c].status = "failed", ![c].manual = "rejected"]
              /\ visits' = [visits EXCEPT ![c] = "cancelled_by_admin"]
              /\ CancelReservation(c) /\ ReleaseWindow(c)
         ELSE UNCHANGED <<windows, visits, reservations, payments>>
    /\ Ends(p)
    /\ UNCHANGED <<clock, provider, inbox>>

\* Variant: an approved payment cannot be approved again.
ApproveAcceptsOnce(c) ==
    payments[c].manual \in Reported /\ payments[c].status = "pending"
ApproveAccepts(c) ==
    \/ payments[c].manual = "confirmed" /\ payments[c].status = "succeeded"
    \/ payments[c].manual \in Reported /\ payments[c].status \in {"pending", "succeeded"}

\* The first transaction of an approval reads the payment under its lock; an
\* approval that was interrupted before the second may be repeated.
ApproveManual(p, c) ==
    /\ Idle(p) /\ Mode[c] = "manual" /\ ApproveAccepts(c)
    /\ payments' = IF payments[c].status = "succeeded" THEN payments
                    ELSE [payments EXCEPT ![c].status = "succeeded", ![c].manual = "confirmed"]
    /\ job' = [job EXCEPT ![p] = Start(p, c, "reconcile")]
    /\ UNCHANGED <<clock, windows, visits, reservations, provider, inbox>>
-----------------------------------------------------------------------------
(* The expiry worker.                                                      *)

\* Variants: the payment of a pending visit is not looked at, or no visit is
\* ever repaired.
ReconcilePending(c) == visits[c] \in Occupying
ReconcileNever(c) == FALSE
MustReconcileAsPaid(c) ==
    \/ visits[c] = "confirmed"
    \/ visits[c] \in Pending /\ payments[c].status = "succeeded"

\* Variant: a status that payments do not have.
ExpirePaymentAs(pay) == [pay EXCEPT !.status = "expired", !.manual = "expired"]
ExpirePayment(pay) ==
    IF pay.status # "pending" THEN pay
    ELSE [pay EXCEPT !.status = "cancelled",
                     !.manual = IF @ = "awaiting_payment" THEN "expired" ELSE @]

\* Variant: the worker leaves a payment that was never submitted to its checkout.
ClaimsSubmitted(c) ==
    /\ reservations[c].status = "active" /\ reservations[c].expires <= clock
    /\ payments[c].status # "created"
\* claim_expired.
Claims(c) == reservations[c].status = "active" /\ reservations[c].expires <= clock

ExpireReservation(c) ==
    /\ Claims(c)
    /\ IF MustReconcileAsPaid(c)
         THEN Confirm(c) /\ UNCHANGED payments
         ELSE /\ visits' = [visits EXCEPT ![c] = IF @ \in Pending THEN "payment_expired" ELSE @]
              /\ payments' = [payments EXCEPT
                    ![c] = IF visits[c] \in Pending THEN ExpirePayment(@) ELSE @]
              /\ reservations' = [reservations EXCEPT ![c].status = "expired"]
              /\ IF visits'[c] \in Released THEN ReleaseWindow(c) ELSE UNCHANGED windows
    /\ UNCHANGED <<clock, provider, inbox, job>>
-----------------------------------------------------------------------------
\* The process dies between two transactions, or in one that rolls back.
Crash(p) ==
    /\ ~Idle(p) /\ Ends(p)
    /\ UNCHANGED <<clock, windows, visits, reservations, payments, provider, inbox>>

Tick ==
    /\ clock < MaxClock
    /\ clock' = clock + 1
    /\ UNCHANGED <<windows, visits, reservations, payments, provider, inbox, job>>

Init ==
    /\ clock = 0
    /\ windows = [w \in Windows |-> "open"]
    /\ visits = [c \in Checkouts |-> "absent"]
    /\ reservations = [c \in Checkouts |-> NoReservation]
    /\ payments = [c \in Checkouts |-> NoPayment]
    /\ provider = [c \in Checkouts |-> "none"]
    /\ inbox = [c \in Checkouts |-> "absent"]
    /\ job = [p \in Handlers |-> NoJob]

Arrive(p, c) ==
    \/ Checkout(p, c) \/ Webhook(p, c) \/ ApproveManual(p, c)
    \/ \E at \in {"report", "review", "reject"} : ReadsPayment(p, c, at)

\* What a handler does on its own once a request is in it.
Progress(p) ==
    \/ HoldWindow(p) \/ SubmitPayment(p) \/ CallProvider(p) \/ ApplyAnswer(p)
    \/ ConsumeReservation(p) \/ GetPayment(p) \/ ApplyEvent(p)
    \/ ReportPaid(p) \/ SubmitForReview(p) \/ RejectManual(p)

Outside(c) == ClientPays(c) \/ ProviderCancels(c)

Next ==
    \/ Tick
    \/ \E p \in Handlers : Progress(p) \/ Crash(p) \/ \E c \in Checkouts : Arrive(p, c)
    \/ \E c \in Checkouts : ExpireReservation(c) \/ Outside(c)

Spec == Init /\ [][Next]_vars
\* The worker's loop, the clock, and requests that do not stop in the middle.
FairSpec ==
    /\ Spec /\ WF_vars(Tick)
    /\ \A p \in Handlers : WF_vars(Progress(p))
    /\ \A c \in Checkouts : WF_vars(ExpireReservation(c))
-----------------------------------------------------------------------------
(* Properties. *)

TypeOK ==
    /\ clock \in 0..MaxClock
    /\ windows \in [Windows -> WindowStatus]
    /\ visits \in [Checkouts -> VisitStatus]
    /\ reservations \in [Checkouts -> ReservationRow]
    /\ payments \in [Checkouts -> PaymentRow]
    /\ provider \in [Checkouts -> ProviderStatus]
    /\ inbox \in [Checkouts -> InboxStatus]
    /\ job \in [Handlers -> Job]

\* No window stays reserved when nobody can pay for it any more (expire_claimed,
\* reject_manual, consume).
ReservedWindowHasHold ==
    \A w \in Windows : windows[w] = "reserved" =>
        \E c \in Checkouts : WindowOf[c] = w /\ reservations[c].status \in Live

\* A live reservation keeps its window off the calendar for a visit that still
\* waits, until one transaction ends all three.
LiveHoldKeepsWindow ==
    \A c \in Checkouts : reservations[c].status \in Live =>
        windows[WindowOf[c]] = "reserved" /\ visits[c] \in Pending
\* A window is off the calendar as long as somebody can pay for it, and no longer,
\* although deadlines, late payments and stale rejections end its reservation.
WindowFollowsHold == ReservedWindowHasHold /\ LiveHoldKeepsWindow

\* A window is claimed by one visit, pending or confirmed, although a checkout
\* judges a window that it read before its lock.
OneClaimPerWindow ==
    \A c, d \in Checkouts :
        visits[c] \in Occupying /\ visits[d] \in Occupying /\ WindowOf[c] = WindowOf[d]
            => c = d

\* A confirmed visit was paid: by the provider's word or an administrator's.
ConfirmedIsPaid ==
    \A c \in Checkouts : visits[c] = "confirmed" => payments[c].status = "succeeded"

\* An approval that died between its two transactions can be repeated: the
\* worker does not look at reservations under review (approve, consume).
ApprovalCanBeRepeated ==
    \A c \in Checkouts :
        reservations[c].status = "awaiting_review" /\ payments[c].status = "succeeded"
            => ApproveAccepts(c) /\ ConsumeAccepts(c, clock)

PaymentOrder == [absent |-> 0, created |-> 1, pending |-> 2,
                 succeeded |-> 3, cancelled |-> 3, failed |-> 3]
\* A payment by the provider moves only along the transition table, whoever races to
\* move it.  (A rejection that read a manual payment before writes over it.)
PaymentMovesAsAllowed ==
    [][\A c \in Checkouts :
        Mode[c] = "yookassa" /\ payments'[c].status # payments[c].status =>
            PaymentOrder[payments[c].status] < PaymentOrder[payments'[c].status]]_vars

\* A visit that is paid through the provider is never given up by the worker that finds
\* its reservation expired.
PaidVisitIsKept ==
    [][\A c \in Checkouts :
        Mode[c] = "yookassa" /\ payments[c].status = "succeeded" /\ visits[c] \in Occupying
            => visits'[c] \in Occupying]_vars

\* Every active reservation ends, though its handler may have died.
HoldsEnd ==
    \A c \in Checkouts : reservations[c].status = "active" ~> reservations[c].status # "active"

\* A payment that arrived in time confirms its visit, even when the process dies
\* between the payment's transaction and the reservation's.
PaidHoldConfirms ==
    \A c \in Checkouts :
        payments[c].status = "succeeded" /\ reservations[c].status = "active"
            ~> visits[c] = "confirmed"

\* A payment that is recorded as successful confirms its visit in the end,
\* however late it came (docs/yookassa.md, section 7).
SuccessfulPaymentConfirms ==
    \A c \in Checkouts : payments[c].status = "succeeded" ~> visits[c] = "confirmed"

\* The checkouts keep the promise of module Slots: one holder of a window at a
\* time, no way back for a checkout that lost it.
Promise == INSTANCE Slots WITH
    held <- {c \in Checkouts : visits[c] \in Pending},
    taken <- {c \in Checkouts : visits[c] = "confirmed"},
    gone <- {c \in Checkouts : visits[c] \in Released}
KeepsPromise == Promise!Spec
=============================================================================
