------------------------------ MODULE Refunds ------------------------------
(***************************************************************************)
(* The refund of a paid visit: the request of an administrator, its        *)
(* submission to the provider, the provider's events in the webhook inbox, *)
(* and the confirmation of a manual refund (RefundCoordinator,             *)
(* YooKassaWebhookCoordinator, PaymentAdministrationService).              *)
(*                                                                         *)
(* A step is one transaction, or one call of the provider outside any      *)
(* transaction.  Transactions are atomic: all of them lock the payment     *)
(* before they read what they decide on, but for the refund that a manual  *)
(* confirmation reads first, and the visit that a handler of visits reads. *)
(* request_remaining_refund is the only caller: it asks for all that is    *)
(* left, under a key made of the amounts.  So a payment has one refund,    *)
(* and amounts are counted in whole payments.                              *)
(***************************************************************************)
EXTENDS Naturals

CONSTANTS
    Payments,    \* succeeded payments, each of one visit
    Admins,      \* administrators at work
    Listeners,   \* webhook requests being handled
    MaxFaults,   \* bound: crashes and failing calls of the provider
    None

ASSUME RefundsAssumption == MaxFaults \in Nat /\ None \notin Payments

VARIABLES
    payment,     \* payments
    refund,      \* refunds
    visit,       \* appointments.status
    inbox,       \* payment_webhook_events.status, of the two events of a payment
    remote,      \* the refund at the provider
    admin,       \* where an administrator's request is
    listener,    \* where a webhook request is
    ending,      \* the visits a handler has read as confirmed and is about to end
    faults       \* how many faults there were

vars == <<payment, refund, visit, inbox, remote, admin, listener, ending, faults>>
books == <<payment, refund, visit>>
-----------------------------------------------------------------------------
(* Statuses and rows. *)

Events == {"payment", "refund"}
EventStatus == {"absent", "pending", "processed", "failed"}
RemoteStatus == {"none", "refused", "pending", "succeeded", "cancelled"}
RefundStatus == {"absent", "pending", "succeeded", "failed", "cancelled"}
VisitStatus == {"confirmed", "ended", "payment_expired", "refund_pending", "refunded"}

PaymentRow == [provider: {"yookassa", "manual"},
               status: {"succeeded", "refund_pending", "refunded"}, refunded: 0..1]
RefundRow == [status: RefundStatus, known: BOOLEAN]
NoRefund == [status |-> "absent", known |-> FALSE]

\* ensure_appointment_transition.
VisitMay(from, to) ==
    \/ from = to
    \/ from \in {"confirmed", "ended"} /\ to = "refund_pending"
    \/ from = "refund_pending" /\ to = "refunded"
\* require_payment_transition, for the statuses of a payment that has succeeded.
PaymentMay(from, to) == from = to \/ from # "refunded"
\* require_refund_transition.
RefundMay(from, to) == from = to \/ from = "pending"

Idle == [at |-> "idle", x |-> None, answer |-> "none", seen |-> NoRefund]
Session == [at: {"idle", "ensure", "prepare", "call", "answered", "confirm"},
            x: Payments \cup {None}, answer: RemoteStatus \cup {"lost"}, seen: RefundRow]
Waiting == [at |-> "idle", x |-> None, event |-> "payment"]
Request == [at: {"idle", "fetch", "apply"}, x: Payments \cup {None}, event: Events]

Manual(x) == payment[x].provider = "manual"
Goes(a, session) == admin' = [admin EXCEPT ![a] = session]
At(a, stage) == admin[a].at = stage
Turns(l, request) == listener' = [listener EXCEPT ![l] = request]
Fault == faults < MaxFaults /\ faults' = faults + 1
-----------------------------------------------------------------------------
(* The rows a result of the provider leads to. *)

\* Variant: the sum of the refunds is not compared with the payment.
AnySum(p) == TRUE
WithinPayment(p) == p.refunded + 1 <= 1

\* apply_authoritative_refund accepts a success: the refund may still succeed, the
\* sum fits, the payment may move.
SuccessAccepted(p, row) ==
    /\ RefundMay(row.status, "succeeded")
    /\ row.status = "succeeded" \/ WithinPayment(p)
    /\ PaymentMay(p.status, "refunded")
Paid(p, row) ==
    [p EXCEPT !.status = "refunded",
              !.refunded = IF row.status = "succeeded" THEN @ ELSE @ + 1]
\* Variant: a refund that fails makes a failed payment.
RestoredFailed(p) == [p EXCEPT !.status = "failed"]
\* _restore_payment_after_failed_refund.
Restored(p) == [p EXCEPT !.status = "succeeded"]

\* _sync_refund_appointment_status: an impossible move raises.
VisitFollows(x) == VisitMay(visit[x], "refunded")

\* A success is written to the three rows of a payment, or nothing is.
WriteSuccess(x, row) ==
    /\ refund' = [refund EXCEPT ![x] = [status |-> "succeeded", known |-> TRUE]]
    /\ payment' = [payment EXCEPT ![x] = Paid(@, row)]
    /\ visit' = [visit EXCEPT ![x] = "refunded"]
WriteFailure(x, status, known) ==
    /\ refund' = [refund EXCEPT ![x] = [status |-> status, known |-> known]]
    /\ payment' = [payment EXCEPT ![x] = Restored(@)]
    /\ UNCHANGED visit
-----------------------------------------------------------------------------
(* An administrator asks for the refund of all that is left. *)

\* request_remaining_refund reads the payment without a lock.
Refundable(x) == payment[x].status = "succeeded" /\ payment[x].refunded < 1
AskRefund(a, x) ==
    /\ At(a, "idle") /\ Refundable(x)
    /\ Goes(a, [Idle EXCEPT !.at = "ensure", !.x = x])
    /\ UNCHANGED <<books, inbox, remote, listener, ending, faults>>

\* _ensure_refund: the refund of this key if the same person has asked for it, otherwise
\* a new one, with payment and visit.  A refusal rolls back.
EnsureRefund(a) ==
    LET x == admin[a].x IN
    /\ At(a, "ensure")
    /\ \/ /\ refund[x].status # "absent"
          /\ Goes(a, [admin[a] EXCEPT !.at = "prepare"]) \/ Goes(a, Idle)
          /\ UNCHANGED books
       \/ /\ refund[x].status = "absent"
          /\ Refundable(x) /\ VisitMay(visit[x], "refund_pending")
          /\ refund' = [refund EXCEPT ![x].status = "pending"]
          /\ payment' = [payment EXCEPT ![x].status = "refund_pending"]
          /\ visit' = [visit EXCEPT ![x] = "refund_pending"]
          /\ Goes(a, [admin[a] EXCEPT !.at = "prepare"])
       \/ /\ refund[x].status = "absent"
          /\ ~(Refundable(x) /\ VisitMay(visit[x], "refund_pending"))
          /\ Goes(a, Idle)
          /\ UNCHANGED books
    /\ UNCHANGED <<inbox, remote, listener, ending, faults>>

\* _prepare_pending_refund: only a refund the provider has not answered is submitted.
Unanswered(row) == row.status = "pending" /\ ~row.known
PrepareRefund(a) ==
    /\ At(a, "prepare")
    /\ Goes(a, IF Unanswered(refund[admin[a].x]) THEN [admin[a] EXCEPT !.at = "call"] ELSE Idle)
    /\ UNCHANGED <<books, inbox, remote, listener, ending, faults>>

\* The provider gives one answer to a key, however often it is asked ("refused" is an
\* error for good, or a refund that failed); it may be lost, before or after the refund
\* was made.
Answers(x) ==
    IF Manual(x) THEN {"none"}
    ELSE IF remote[x] = "none" THEN {"refused", "pending", "succeeded", "cancelled"}
    ELSE {remote[x]}
\* submit_refund, outside any transaction.  The manual provider makes no object and
\* answers that the refund is pending.
SubmitRefund(a) ==
    LET x == admin[a].x IN
    /\ At(a, "call")
    /\ \/ /\ \E s \in Answers(x) :
                /\ remote' = [remote EXCEPT ![x] = s]
                /\ Goes(a, [admin[a] EXCEPT !.at = "answered",
                                            !.answer = IF Manual(x) THEN "pending" ELSE s])
          /\ UNCHANGED faults
       \/ /\ Fault /\ ~Manual(x)
          /\ \E s \in Answers(x) \cup {remote[x]} : remote' = [remote EXCEPT ![x] = s]
          /\ Goes(a, [admin[a] EXCEPT !.at = "answered", !.answer = "lost"])
    /\ UNCHANGED <<books, inbox, listener, ending>>

\* _apply_refund_result and _apply_refund_failure.  Nothing is written to a refund that
\* was answered meanwhile; a result whose visit cannot follow rolls back.
ApplyAnswer(a) ==
    LET x == admin[a].x
        row == refund[x]
        answer == admin[a].answer
    IN
    /\ At(a, "answered")
    /\ Goes(a, Idle)
    /\ IF ~Unanswered(row) \/ answer = "lost" THEN UNCHANGED books
       ELSE \/ /\ answer = "pending"
               /\ refund' = [refund EXCEPT ![x].known = TRUE]
               /\ UNCHANGED <<payment, visit>>
            \/ /\ answer = "succeeded" /\ SuccessAccepted(payment[x], row) /\ VisitFollows(x)
               /\ WriteSuccess(x, row)
            \/ /\ answer = "succeeded"
               /\ ~(SuccessAccepted(payment[x], row) /\ VisitFollows(x))
               /\ UNCHANGED books
            \/ answer = "cancelled" /\ WriteFailure(x, "cancelled", TRUE)
            \/ /\ answer = "refused"
               /\ \E known \in BOOLEAN : WriteFailure(x, "failed", known)
    /\ UNCHANGED <<inbox, remote, listener, ending, faults>>

\* approve_manual_refund reads the refund, then locks the payment.
StartConfirm(a, x) ==
    /\ At(a, "idle") /\ Manual(x) /\ refund[x].status # "absent"
    /\ Goes(a, [Idle EXCEPT !.at = "confirm", !.x = x, !.seen = refund[x]])
    /\ UNCHANGED <<books, inbox, remote, listener, ending, faults>>

\* Its decision is about the refund it has read; payment and visit are the present ones.
ConfirmRefund(a) ==
    LET x == admin[a].x
        seen == admin[a].seen
        accepted == /\ seen.status # "succeeded" /\ seen.known
                    /\ SuccessAccepted(payment[x], seen) /\ VisitFollows(x)
    IN
    /\ At(a, "confirm")
    /\ Goes(a, Idle)
    /\ IF accepted THEN WriteSuccess(x, seen) ELSE UNCHANGED books
    /\ UNCHANGED <<inbox, remote, listener, ending, faults>>

\* The bot's process dies.
AdminCrash(a) ==
    /\ ~At(a, "idle") /\ Fault
    /\ Goes(a, Idle)
    /\ UNCHANGED <<books, inbox, remote, listener, ending>>
-----------------------------------------------------------------------------
(* The provider's events: payment.succeeded and refund.succeeded, delivered *)
(* any number of times.                                                    *)

\* Variant: an event that is stored already is taken for done.
AlreadyStored(x, e) == inbox[x][e] # "absent"
Terminal(x, e) == inbox[x][e] \in {"processed", "failed"}
Marked(x, e, status) == inbox' = [inbox EXCEPT ![x][e] = status]

\* process_untrusted_notification, first transaction: the event is stored once; one that
\* is settled, or whose refund is not known yet, goes no further.
Deliver(l, x, e) ==
    /\ listener[l].at = "idle" /\ ~Manual(x)
    /\ e = "refund" => remote[x] = "succeeded"
    /\ \/ Terminal(x, e) /\ UNCHANGED <<inbox, listener>>
       \/ /\ ~Terminal(x, e)
          /\ Marked(x, e, "pending")
          /\ IF e = "refund" /\ ~refund[x].known THEN UNCHANGED listener
             ELSE Turns(l, [at |-> "fetch", x |-> x, event |-> e])
    /\ UNCHANGED <<books, remote, admin, ending, faults>>

\* fetch_authoritative_payment and fetch_authoritative_refund: the provider is asked
\* again.  What succeeded there stays so, and that is its answer; a refusal fails the
\* event.
Fetch(l) ==
    LET x == listener[l].x
        e == listener[l].event
    IN
    /\ listener[l].at = "fetch"
    /\ \/ /\ Turns(l, [listener[l] EXCEPT !.at = "apply"])
          /\ UNCHANGED <<inbox, faults>>
       \/ /\ Fault /\ Turns(l, Waiting)
          /\ IF Terminal(x, e) THEN UNCHANGED inbox ELSE Marked(x, e, "failed")
    /\ UNCHANGED <<books, remote, admin, ending>>

\* Variant: the status of the provider's payment replaces that of a refund.
ResetByEvent(p) == "succeeded"
\* apply_authoritative_payment: a payment that is being refunded stays so.
StatusAfterEvent(p) == p.status

\* _apply_payment_result.
ApplyPaymentEvent(l) ==
    LET x == listener[l].x IN
    /\ listener[l].at = "apply" /\ listener[l].event = "payment"
    /\ Turns(l, Waiting)
    /\ IF Terminal(x, "payment") THEN UNCHANGED <<payment, inbox>>
       ELSE /\ payment' = [payment EXCEPT ![x].status = StatusAfterEvent(payment[x])]
            /\ Marked(x, "payment", "processed")
    /\ UNCHANGED <<refund, visit, remote, admin, ending, faults>>

\* _apply_refund_result of the webhook.  A refused result fails the event; a visit that
\* cannot follow rolls back and leaves it pending.
ApplyRefundEvent(l) ==
    LET x == listener[l].x
        accepted == SuccessAccepted(payment[x], refund[x])
    IN
    /\ listener[l].at = "apply" /\ listener[l].event = "refund"
    /\ Turns(l, Waiting)
    /\ IF ~Terminal(x, "refund") /\ accepted /\ VisitFollows(x)
         THEN WriteSuccess(x, refund[x]) /\ Marked(x, "refund", "processed")
         ELSE /\ UNCHANGED books
              /\ IF Terminal(x, "refund") \/ accepted THEN UNCHANGED inbox
                 ELSE Marked(x, "refund", "failed")
    /\ UNCHANGED <<remote, admin, ending, faults>>

\* The provider is away, or the process of the API dies: the event stays as it is.
Abandon(l) ==
    /\ listener[l].at # "idle" /\ Fault
    /\ Turns(l, Waiting)
    /\ UNCHANGED <<books, inbox, remote, admin, ending>>
-----------------------------------------------------------------------------
(* The provider, and the handlers that end a visit. *)

\* A refund that was accepted is made, or not.
Settle(x) ==
    /\ remote[x] = "pending"
    /\ \E s \in {"succeeded", "cancelled"} : remote' = [remote EXCEPT ![x] = s]
    /\ UNCHANGED <<books, inbox, admin, listener, ending, faults>>

\* AppointmentService reads the visit, waits for its lock, and decides on what it read.
StartEnding(x) ==
    /\ visit[x] = "confirmed" /\ x \notin ending
    /\ ending' = ending \cup {x}
    /\ UNCHANGED <<books, inbox, remote, admin, listener, faults>>
CommitEnding(x) ==
    /\ x \in ending
    /\ ending' = ending \ {x}
    /\ visit' = [visit EXCEPT ![x] = "ended"]
    /\ UNCHANGED <<payment, refund, inbox, remote, admin, listener, faults>>
-----------------------------------------------------------------------------
Init ==
    /\ payment \in [Payments -> {row \in PaymentRow : row.status = "succeeded" /\ row.refunded = 0}]
    /\ refund = [x \in Payments |-> NoRefund]
    /\ visit \in [Payments -> {"confirmed", "payment_expired"}]
    /\ \A x \in Payments : Manual(x) => visit[x] = "confirmed"
    /\ inbox = [x \in Payments |-> [e \in Events |-> "absent"]]
    /\ remote = [x \in Payments |-> "none"]
    /\ admin = [a \in Admins |-> Idle]
    /\ listener = [l \in Listeners |-> Waiting]
    /\ ending = {}
    /\ faults = 0

AdminSteps(a) ==
    \/ EnsureRefund(a) \/ PrepareRefund(a) \/ SubmitRefund(a) \/ ApplyAnswer(a)
    \/ ConfirmRefund(a)
ListenerSteps(l) == Fetch(l) \/ ApplyPaymentEvent(l) \/ ApplyRefundEvent(l)

Next ==
    \/ \E a \in Admins :
        AdminSteps(a) \/ AdminCrash(a) \/ \E x \in Payments : AskRefund(a, x) \/ StartConfirm(a, x)
    \/ \E l \in Listeners :
        \/ ListenerSteps(l) \/ Abandon(l)
        \/ \E x \in Payments, e \in Events : Deliver(l, x, e)
    \/ \E x \in Payments : Settle(x) \/ StartEnding(x) \/ CommitEnding(x)

Spec == Init /\ [][Next]_vars
\* The provider delivers an event until it is taken, and a request that was taken ends.
FairSpec ==
    /\ Spec
    /\ \A l \in Listeners : WF_vars(ListenerSteps(l))
    /\ \A x \in Payments : SF_vars(\E l \in Listeners : Deliver(l, x, "refund"))
-----------------------------------------------------------------------------
(* Properties. *)

TypeOK ==
    /\ payment \in [Payments -> PaymentRow]
    /\ refund \in [Payments -> RefundRow]
    /\ visit \in [Payments -> VisitStatus]
    /\ inbox \in [Payments -> [Events -> EventStatus]]
    /\ remote \in [Payments -> RemoteStatus]
    /\ admin \in [Admins -> Session]
    /\ listener \in [Listeners -> Request]
    /\ ending \subseteq Payments
    /\ faults \in 0..MaxFaults

\* What the books say was paid back was paid back, once, whoever recorded it: the
\* answer, an event, or a confirmation that read the refund before another one
\* (approve_manual_refund).  A refund that was made is not written off.
BooksAreTrue ==
    \A x \in Payments :
        /\ payment[x].refunded = IF refund[x].status = "succeeded" THEN 1 ELSE 0
        /\ ~Manual(x) /\ refund[x].status = "succeeded" => remote[x] = "succeeded"
        /\ remote[x] = "succeeded" => refund[x].status \in {"pending", "succeeded"}
        /\ inbox[x]["refund"] = "processed" => refund[x].status = "succeeded"

\* Payment, visit and refund tell one story, whatever old or repeated events arrive:
\* a payment waits exactly while its refund is open; a visit shows the refund, but for
\* one that a handler of visits has ended on an old read (apply_authoritative_payment,
\* _sync_refund_appointment_status).
StatusesAgree ==
    \A x \in Payments :
        /\ payment[x].status = "refund_pending" <=> refund[x].status = "pending"
        /\ payment[x].status = "refunded" <=> refund[x].status = "succeeded"
        /\ refund[x].status = "pending" => visit[x] \in {"refund_pending", "ended"}
        /\ refund[x].status = "succeeded" => visit[x] \in {"refunded", "ended"}

\* A refund the provider has made and the books know of is recorded, though events
\* come twice, processes die and the provider is away: unless the visit was ended on an
\* old read, or the provider refused to confirm the event.
RefundIsRecorded ==
    \A x \in Payments :
        remote[x] = "succeeded" /\ refund[x] = [status |-> "pending", known |-> TRUE] ~>
            refund[x].status = "succeeded" \/ visit[x] = "ended" \/ inbox[x]["refund"] = "failed"
=============================================================================
