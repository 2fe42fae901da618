# Verification of the booking system

TLA+ models of `lanrouge-nails-bot`, a Telegram booking bot of a nail studio
(Python, aiogram, SQLAlchemy on PostgreSQL). The models are translated from the
code under `src/app`; each definition is tied to its lines in `PROJECT.json`
(`map`). TLC checks them on small instances; TLAPS proves the safety properties
for every instance.

Contents: 1 the system, 2 the modules, 3 what the runs check, 4 fairness,
5 where the code disagrees with its documents, 6 what is proved, 7 what is left
out, 8 the plan.

## 1. The system

The bot, the HTTP API with its webhooks, and the background workers are separate
processes. What the models are about they share only through the database. A
request is a handful of transactions at READ COMMITTED; correctness rests on row locks (`SELECT ... FOR UPDATE`), advisory
locks for a day, unique indexes, and status checks inside the transaction.

The point that matters most in this code is how SQLAlchemy's identity map meets
these locks: a handler usually loads an object first (for authorisation or to
know which day to lock), then selects it `FOR UPDATE`. The second select waits
for the lock but does **not** refresh the attributes already loaded (nowhere is
`populate_existing` used), so the checks "after the lock" see the values from
before it. Only counts, rows first loaded under their lock, and database
constraints see the present. The models keep the two apart.

| Component | State | Operations | Interacts with | Hard behaviour | What makes it correct |
|---|---|---|---|---|---|
| Booking (`booking_service.py`) | appointments, window status | `book`, checkout with reservation | windows, day lock, client, payments, reminders | races for a window and for the last place of a day; stale window object; repeat with the same key | one visit per window; daily and future limits; a closed window is not booked |
| Visit life (`appointment_service.py`) | appointment status, reminders | confirm, cancel (client, admin), complete, no-show | windows, reminders, refunds | two handlers end one visit; window given away meanwhile | terminal statuses are final; a live visit keeps its window; reminders end with the visit |
| Reschedule (`reschedule_service.py`) | old and new row | move by client or admin | two days, two windows, two visits | two-window locking; insert refused after the old row is given up | only a live visit is moved; it is never lost; limits hold; no deadlock |
| Availability (`availability_service.py`) | windows | create, close, reopen, delete | day lock, bookings | count and insert; locks in another order than bookings | limit of active windows; a booked window is not closed |
| Reservation (`reservation_service.py`, `workers/reservation_expiry.py`) | reservation rows with a deadline | hold, consume, expire, reconcile | windows, visits, payments | deadline against payment; crash between transactions | window, visit and reservation end together; every hold ends |
| Payment (`payment_service.py`, `payment_coordinator.py`) | payment rows, status machine | submit, apply answer, apply webhook, refund | provider, reservation | repeated, late, reordered events; lost answers | status moves only along the table; paid visit is kept |
| Manual prepayment (`manual_prepayment_service.py`, `payment_admin_service.py`) | manual status | report, review, approve, reject | reservation, payment | decisions on stale reads; approval in two transactions | a confirmed visit was paid; an approval can be repeated |
| Webhook inbox (`payment_coordinator.py`) | stored events, attempts | store, process, retry | provider | duplicate delivery, failing processing | each event is applied once in effect |
| Refunds (`payment_coordinator.py`) | refund rows | request, submit, reconcile | provider, cancellation | lost answers, late payments | never more refunded than paid; every request ends |
| Notifications (`notification_service.py`, `workers/reminders.py`) | job rows with a lease | enqueue, rebuild, claim, send, mark, cancel | visits, settings, feature flags | at-least-once delivery, crash after sending, message prepared before its visit ends, rebuild over rows in flight | a second copy needs a fault; a row recorded as sent was delivered; a late sender has lost its row; every row is settled |
| Waitlist (`waitlist_service.py`, `waitlist_matching.py`, `waitlist_delivery_service.py`) | entries, offers with a lease | join, match, deliver, book, archive | windows that open, bookings | matching on unlocked reads, offer of a window that is gone | only an offered entry is closed by a booking; an offer goes once per entry and window |
| Broadcasts (`broadcast_service.py`, `broadcast_delivery_service.py`, `workers/broadcasts.py`) | broadcast, recipients | draft, launch, claim, deliver in parts, cancel, finish | Telegram, subscriptions | cancel and delivery lock in opposite orders; last two recipients; crash between two parts | an ended broadcast has no open recipient and a true outcome, and ends once; every recipient is settled |
| Privacy (`privacy_service.py`, `privacy_repository.py`, `workers/privacy_deletion.py`) | deletion requests with a lease, users, memberships, consents | ask, review, claim, anonymise, fail, retry | consents, staff, reminders | claim and write in two transactions, locks in two orders, late executions | one open request; who is anonymised asked for it and keeps no consent and no message; approved requests settle; staff keep their account |
| Authorization and staff (`authorization_service.py`) | memberships, invitations, grants | invite, accept, revoke, change role, transfer visits | privacy, visits, business type | counts before locks, transfers in both directions | owners stay; an invitation is used once; the business type follows the staff |
| Reference media (`reference_cleanup_service.py`) | media rows, files | list, anonymise, record failure | files | one transaction per file | every expired file goes |
| Workstations, sessions, CRM, catalogue, settings, reviews, portfolio, marketing, subscriptions, UI | own tables | mostly CRUD | – | little concurrency of their own | see `PROJECT.json`, components |

`PROJECT.json` lists all components with their status, and under `hazards` the
places where this code can go wrong in ways a test hardly reaches.

## 2. The modules

| Module | What it is |
|---|---|
| `Booking` | windows and visits, changed by concurrent requests of the booking, reschedule, appointment and availability services, with payments disabled |
| `Slots` | the abstract promise of a prepaid booking: one holder of a window at a time, a window is taken only by its holder, no way back for who lost it |
| `Reservation` | the prepaid checkout: reservation, payment, webhook, manual review, expiry worker; it implements `Slots` |
| `Messages` | reminders, review requests and waitlist offers: their queues, the changes of visits, windows and entries they depend on, and the delivery workers |
| `Broadcasts` | campaigns and their recipients, launched and cancelled by staff, delivered by workers in parts |
| `Privacy` | deletion requests of clients, executed by a worker and by administrators, beside the client's consents, his staff membership and his reminders |
| `Refunds` | the refund of a paid visit: request, submission, the provider's events in the webhook inbox, confirmation of a manual refund |
| `MCBooking`, `MCReservation`, `MCMessages`, `MCBroadcasts`, `MCPrivacy`, `MCRefunds` | small instances: days, hours, payment modes, matches, symmetry |
| `BookingProofs`, `ReservationProofs`, `MessagesProofs`, `BroadcastsProofs`, `PrivacyProofs`, `RefundsProofs` | the theorems about each module |
| `BookingLimitsProofs`, `MessagesCopiesProofs` | further theorems about `Booking` and `Messages`, which build on the first ones |

Definitions marked `Variant:` are not part of the model. Each is a plausible bug
(a dropped guard, a missing index, an off-by-one) which, put in the place of the
definition after it, makes some property fail; they document that the
properties depend on the code.

### Booking

A session runs one request in four stages, which are the places where others can
interleave: `Arrive` (the unlocked reads: `appSeen`, `winSeen`,
`toSeen`), `Lock` (one lock of its plan at a time, in the order of the code),
`Check` (the checks after the last lock; a refusal rolls back), and a commit
(`CommitBook`, `CommitCancel`, `CommitReschedule`, ...). `LockTimeout` is the
database giving up on a waiting session, `Crash` a lost process or any other
refusal: both roll back. `DbAccepts` stands for the unique indexes on appointments
at the commit (one visit per window, one successor per moved visit).

What the checks see is the point of the module: status checks look at `*Seen`,
counts (`DailyCount`, `FutureOf`, `OtherActiveWindows`) at the committed rows.
The plans `BookPlan`, `AppointmentPlan`, `ReschedulePlan`, and the rest of `Plan` give
the lock orders, with the locks that foreign keys take on referenced rows.

Abstractions: the two unlocked reads of a request are one step; foreign-key
locks (`KEY SHARE`) are exclusive, so two of them wait for each other in the
model though not in PostgreSQL, which adds waiting and takes away nothing;
windows do not overlap, so the exclusion constraints never refuse; all windows lie within the
horizon of the future limit; identifiers are not reused.

### Reservation

A step is one transaction, or one call of the provider outside any transaction.
Transactions are atomic because all of them lock the reservation row first; the
exception are the three manual handlers that read payment and visit first
(`ReportPaid`, `SubmitForReview`, `RejectManual` decide on `paySeen`,
`visitSeen`). A handler passes through the stages of `job[p].at`:

* checkout: `Checkout` (look up the key, read the window) → `HoldWindow` →
  `SubmitPayment` → `CallProvider` → `ApplyAnswer` → `ConsumeReservation` if paid;
* webhook: store the event → `GetPayment` (ask the provider) → `ApplyEvent` →
  reconcile and consume;
* manual: report, submit for review, approve (`succeeded` in one transaction,
  consumption in the next), reject;
* the worker: `ExpireReservation`, one row, which reconciles a payment that has
  succeeded and otherwise releases visit, payment and window.

`Crash(p)` ends a handler after any of its transactions. `Outside` is the
client paying at the provider and the provider cancelling.

The mode of a checkout is a constant (`payment_mode_snapshot`). Each checkout has
one payment and one event of it; an event may be delivered again and again. The
answers of the provider carry the right amount and metadata. The life of a
visit after it is confirmed belongs to `Booking`, its refund to `Refunds`.

### Messages

Three queues have one shape (`Row`): `notification_jobs` for reminders and review
requests, `waitlist_notifications` for offers. A worker (`worker[p]`) claims due rows
with a lease (`ClaimBatch`), then takes them one by one: `Prepare` (still its row? still
meant? recipient reachable?), `Send` outside any transaction, `Record`. Rows come
back by `LeaseEnds` and `BecomesDue`. The answers are those the worker tells apart:
delivered, retry, blocked, failed; a network error may hide a delivered message.

Around them is what the messages are about: `BookVisit`, `CloseVisit`,
`CancelVisit`, `OpenWindow`, `JoinList`, `LeaveList`, `SwitchOff`, and the rebuild of all
reminders (`StartRebuild`, `CommitRebuild`), which decides on rows it has read
before; SQLAlchemy writes an attribute only where it differs from what was read
(`Merge`). A window that opens reads its matching entries (`StartOpening`) and
writes their offers later (`CommitOpening`); the transaction holds the window and,
for a cancellation, the visit. `copies` counts what reached the recipient, and
`faults` what is needed for a second copy: crashes, lost answers, overrun leases,
rebuilds.

Abstractions: a visit belongs to one window and one client, so that a moved visit is
one that ends and another one that is booked; dates, times and services of an entry
are the constant relation `Matches`; the several reminders of a visit are one.

### Broadcasts

A campaign is `draft`, `queued`, `sending` and then one of its ends. `Launch` freezes the
recipients. A worker claims a batch, `Prepare`s a recipient (locks its row, checks the
broadcast, the feature, the subscription), and sends the parts it still owes
(`Missing`): photos, a checkpoint (`Checkpoint`), the text; then `Record` and, in the
same transaction, the count of the recipients left (`Outcome`). Transactions that
lock both a recipient and its broadcast are split at the second lock (`Prepare` and
`Close`, `Record` and `Finish`, `StartCancel` and `CommitCancel`), because cancelling
takes the two in the other order; `LockFails` and `FailCancel` are the lock timeout.

### Privacy

A request passes through the statuses of `data_deletion_requests`. The client's steps
are split where he holds the lock of his person (`StartAsking`, `Ask`). An executor
takes a request (`Take`, with its lock), claims it under the lock of the person
(`Claim`, which also looks for blockers), and in a second transaction writes
(`Start`, `Write`) or, in a third, records the failure (`RecordFailure`). The
transactions that lock request and person stop between the two locks, because
`Ask` takes them in the other order; `AskFails`, `ClaimFails`, `WriteFails` are the
lock timeout, and any other error. What one anonymisation writes is kept as far as
something depends on it: the account (`gone`), the unlinked staff membership, the
consents, the reminder.

Abstractions: who was anonymised is another client when he comes back; a client belongs to
one business; of the queues only the client's reminder is here, in one row.

### Refunds

An administrator's request (`admin[a].at`) is a handful of transactions with one call
between them: `AskRefund` (reads the payment without a lock) → `EnsureRefund` (refund,
payment and visit, under the lock of the payment) → `PrepareRefund` → `SubmitRefund` (the
call) → `ApplyAnswer`. A manual refund is answered "pending" and ends by `StartConfirm`,
`ConfirmRefund`, which decides on the refund it read before the lock. A webhook request
(`listener[l].at`) stores the event (`Deliver`), asks the provider (`Fetch`) and applies the
answer (`ApplyPaymentEvent`, `ApplyRefundEvent`); what it could not do stays pending in the
inbox for the next delivery, what was refused fails. `SuccessAccepted` and `VisitFollows`
are the three checks a success must pass, all in one transaction with its writes.
`StartEnding` and `CommitEnding` are any handler of `AppointmentService` that ends the
visit on the status it read before its lock.

Abstractions: `request_remaining_refund` is the only caller of the coordinator and asks
for all that is left, so a payment has one refund, its amount is one whole payment,
and `partially_refunded` does not occur; whether a repeat comes from the same person,
which the key requires, is open (`EnsureRefund` lets it go on or be refused); what the
provider says of a refund has the right amount and identifiers. Visits are `confirmed`,
`ended` (completed, cancelled, no-show, moved), `payment_expired`, and the refund's own.

## 3. What the runs check

All runs are bounded: identifiers are taken from small sets (no room, no new
row), the clock stops at `MaxClock`, and faults are counted up to `MaxFaults`.
Since these run out, a run may come to a stop, which is not a deadlock of the
program: hence `CHECK_DEADLOCK FALSE`. Sessions, handlers, workers and clients are
interchangeable, and the safety runs use that as symmetry; runs with liveness
do not.

| Run | Instance | Shows |
|---|---|---|
| `booking_race` | 2 sessions, 2 clients, 3 windows on 2 days, 2 visits, limits 1 | bookings, moves, confirmations and cancellations racing at the limits: no booked window without its visit, daily limit, future limit |
| `booking_windows` | 2 sessions, 2 windows of one day, limit 1, clock to 2, fair | windows opened, closed, reopened beside bookings: one visit per window, also after the first one took place, a live visit holds its window, limit of active windows, every request ends |
| `stale_cancel` | 2 sessions, 1 client, 2 windows | counterexample, section 5 |
| `reservation_race` | 2 handlers, a manual and a YooKassa checkout of one window, fair | window, visit, reservation agree; one claim per window; confirmed means paid; an interrupted approval can be repeated; a YooKassa payment moves along the table and its paid visit is kept; every active reservation ends; a payment in time confirms; implements `Slots` |
| `late_payment` | 1 handler, 1 checkout | counterexample, section 5 |
| `messages_race` | 2 workers, 1 visit, 1 window, 1 entry | no second copy without a fault; sent means delivered, and stays; a late sender has lost its row |
| `messages_settle` | 2 workers, the same rows without the waiting list, fair | every message that is due is sent, cancelled or given up |
| `broadcasts` | 2 workers, 2 recipients, photos and text, fair | an ended broadcast has no open recipient, a true outcome, and keeps it; no part twice without a fault; every recipient is settled |
| `broadcast_stuck` | 2 workers, 2 recipients | counterexample, section 5 |
| `privacy` | 1 client, 2 requests, a worker and an administrator, 2 attempts, 2 faults, fair | one open request; anonymised only on request; no consent and no message left; approved requests settle |
| `privacy_staff` | 1 client, 1 request | counterexample, section 5 |
| `refunds` | 1 payment, manual or YooKassa, 2 administrators, 2 webhook requests, 2 faults, fair | the books say what was paid back, once; payment, visit and refund agree; a refund that is known to be made is recorded |

Why the bounds are enough. Every race in the code is between two requests or
workers about the same day, window, visit, payment or row, and a third party only
matters as the one who takes what was given up; so two actors, run again and
again, show them. Limits of 1 with one place fewer than requests put every count at
its boundary. Two days are needed for the client's limit (two bookings of
different days do not share a day lock) and for lock circles. Two recipients are needed for the
count that ends a broadcast, two requests of a client for a second one after a
failure. Time only matters as before/after an hour, a deadline, a lease or an
expiry, so flags or two to four ticks cover every order. Attempts are limited to
2: one that is retried and one that is the last. One fault shows a second copy, two
a fault during the recovery from the first.

Properties worth a word:

* `LiveVisitHoldsItsWindow` holds with overlapping requests as long as nobody
  cancels (`booking_windows`); `stale_cancel` is the other case.
* `ApprovalCanBeRepeated`: the worker does not claim reservations under review,
  so after a crash between the two transactions of an approval only a second
  approval finishes it. The property says that it is always accepted.
* `PaidVisitIsKept`: between the transaction that records a payment and the one
  that consumes the reservation, the worker may find it expired.
* `ExtraCopyNeedsFault` bounds the copies of a message by the faults: sending is outside
  the transactions, so at-least-once is all the code can give, and nothing but a
  fault may cost a copy.
* `LateSenderHasLostItsRow`: a worker cannot take a message back that it is sending when its
  visit ends. What the code can do is to take the row from it, so that the late
  message is not recorded.
* `EndIsFinal`: `prepare_delivery` writes the status of a broadcast without having
  locked it; a cancellation must survive that.
* `BooksAreTrue`: a success can come from the answer, from an event delivered twice, and from
  two confirmations that both read the refund as pending; the lock of the payment and
  the comparison of the sums are what keeps it counted once.
* `RefundIsRecorded` depends on the inbox: an event that came before the answer, or whose
  request died, must not be taken for done when it comes again (`AlreadyStored`).
* `ApprovedSettles`: executor and client lock the same two rows in opposite orders, and
  an execution can lose both its lock and its lease.

## 4. Fairness

`Booking!FairSpec` assumes weak fairness of `Progress(p)`: a session that holds
its locks goes on, and one that waits is timed out. The code justifies it: every
connection sets `lock_timeout` and `statement_timeout`
(`src/app/database/session.py`), and handlers have no unbounded loops. Without
the time-out (`NoLockTimeout`) two sessions that lock in opposite orders wait
for ever.

`Reservation!FairSpec` assumes weak fairness of the clock, of a handler's next
transaction (a crash is still possible at any step), and of the worker's claim of
each due reservation (`workers/reservation_expiry.py` loops with a sleep and
survives failing rounds). Nothing is assumed of clients, webhooks or the
provider: `HoldsEnd` and `PaidHoldConfirms` do not depend on them.

`Messages!FairSpec`, `Broadcasts!FairSpec` and `Privacy!FairSpec` assume weak fairness
of a worker's next step (the worker processes loop, sleep and are restarted), of the
end of leases and delays, and of the end of a transaction that waits for a lock, by
its commit or by the timeout. Nothing is assumed of clients, staff or Telegram, and the
faults stay possible up to their bound.

`Refunds!FairSpec` assumes that a webhook request that has begun goes on (weak fairness of
`ListenerSteps`; it may still die or find the provider away, which is a fault), and that
the provider delivers `refund.succeeded` again until it is taken (strong fairness of
`Deliver`, as both webhook requests may be busy): YooKassa repeats a notification that
was not answered with success, and the API answers so only when the event is settled.
Nothing is assumed of administrators.

## 5. Where the code disagrees with its documents

Each of the four is a run that ends in a counterexample; the quotes are in `PROJECT.json`.

* `stale_cancel`: a cancellation decides on the visit and the window read before
  the locks. A double cancellation, with a new booking of the window in between,
  opens the window of the new visit.
* `late_payment`: the worker expires a reservation without cancelling the payment
  at the provider; the client can still pay, the payment is recorded (or its
  event refused), and no visit comes of it.
* `broadcast_stuck`: two workers that settle the last two recipients each count the other
  one as open; the broadcast stays `sending`. The lock that `docs/architecture.md`
  promises to keep workers alone is not in the code.
* `privacy_staff`: the blockers of an anonymisation are looked for when it is
  claimed, not when it is written; a client who accepts a staff invitation in between is
  anonymised while an active staff member.

Of the same kind, read in the code and not shown by a run (the models contain
them, and therefore state no property about them):

* `book` judges a window object loaded before the lock (`booking_service.py:383`), so a
  window that an administrator closes in between is booked, against
  `docs/booking-rules.md:194`;
* a reschedule moves a visit that was ended while it waited for the lock
  (`reschedule_service.py:213`), and of two handlers that end a visit the second
  overwrites the first (`appointment_service.py:648`);
* ordering the windows (`window_repository.py:128`) does not keep reschedules out of
  deadlocks with bookings of another day, which lock staff, service and client rows in another
  order; PostgreSQL aborts one of the two;
* a rejection that read the payment before an approval committed writes `failed` over
  `succeeded` (`payment_admin_service.py:442`); the visit stays confirmed;
* a refund whose request died, or was answered with a retryable error, stays pending without
  the provider's identifier (`payment_coordinator.py:718`). Its events find no refund, and asking
  again is rejected, as the payment waits for its refund (`payment_admin_service.py:550`); against
  `docs/yookassa.md:145`, a "безопасный повторяемый статус";
* a refund that failed or was cancelled gives the payment back its status, but leaves the
  visit `REFUND_PENDING`; asking again finds the refund of the same key and does not submit it.
  A cancellation that comes after the answer has no event, so that it is not recorded at all;
* a handler of visits that read the visit before a refund was requested writes its end over
  `REFUND_PENDING` when it gets the lock (`appointment_service.py:648`); the refund's success
  cannot move that visit and is rolled back each time it comes (`payment_coordinator.py:1004`).
  `StatusesAgree` and `RefundIsRecorded` except such a visit;
* the visit of a late payment (`PAYMENT_EXPIRED`) cannot be refunded: it has no transition to
  `REFUND_PENDING` (`domain/appointments.py`);
* a rejection that read the payment before an approval, and commits between the approval's two
  transactions, gives up a visit that is paid (`payment_admin_service.py:442`): hence
  `PaidVisitIsKept` is about YooKassa's checkouts;
* matching writes `matched` over an entry of the waiting list that was closed
  meanwhile (`waitlist_matching.py:57`);
* `sync_business_type` counts before it locks (`staff_repository.py:366`); not modelled;
* `docs/payments.md` lets a manual checkout begin in `PENDING_MANUAL_CONFIRMATION`; the
  code begins in `PENDING_PAYMENT` and changes when the client reports the transfer.

## 6. What is proved

For all values of the constants that satisfy the modules' assumptions
(`BookingAssumption`, `ReservationAssumption`, `MessagesAssumption`,
`BroadcastsAssumption`, `PrivacyAssumption`, `RefundsAssumption`: types and non-empty limits, with
`None` outside the sets; `Appointments` is finite because its rows are counted) and
`FiniteWindows` (`Windows` is finite, for the same reason). Every invariant and every action
property of the runs that pass is a theorem.

`BookingProofs`

* `TypeCorrect`: `Spec => []TypeOK`. `Typed` adds that the fields
  an appointment row or a request needs are filled (`RowsComplete`,
  `RequestsComplete`).
* `OneVisit`: `Spec => []OneVisitPerWindow`, whatever the requests have read.
  Only commits that pass the unique index write a new row (`RowsAccepted`).
* `DailyLimit`: `Spec => DailyLimitHeld`. The inductive invariant `DayInv` is
  `Typed /\ Owned /\ ChecksStillHold`. `Owned`: a session holds the locks it took,
  and all of its plan once it has made its checks. `ChecksStillHold`: between `Check` and the commit of
  a booking or a move, the count of the day it checked is still below the limit.
  It is needed because the count is taken in one step and used in another; it is
  inductive because every handler that adds a visit to a day holds the lock of
  that day (`PlanLocks`, `CheckedHolds`), so nobody else adds one
  (`OthersUntouched`), and the others only take visits away (`CountShrinks`).

`BookingLimitsProofs`

* `FutureLimit`: `Spec => FutureLimitHeld`. `ClientCounted`: a booking that was allowed holds
  its client's row since it counted, and the count is still below the limit. Bookings of other days do not
  share a day lock, so the client's row is all there is; the visits of a client
  only become fewer as the clock goes on.
* `WindowLimit`: `Spec => WindowLimitHeld`, from `WindowsCounted`, in the same way under the
  lock of the day. Not only creations and reopenings make a window active: a cancellation that
  read its window booked opens it, whatever it has become since. All of them hold the lock of the
  day from before the count until the commit.
* `BookedHasVisit`: `Spec => []BookedWindowHasVisit`. Handlers end visits on a window
  status read before their locks; what saves the property is `Decided` (a cancellation
  goes on only from a booked window, and opens it) and `SeenClosed` (a completion
  that read the window closed, and leaves it alone, finds it still not booked: only a new
  visit books it, and the index lets none in while the old one occupies it).
* `LiveVisitHolds`: `ASSUME Ops \cap Releasing = {} PROVE Spec => []LiveVisitHoldsItsWindow`.
  The hypothesis leaves out cancellations and moves; the run `booking_windows` satisfies
  it, and `stale_cancel` shows that the property fails without it. `WindowAsChecked`
  says that the status on which a closing, reopening or creation was accepted is still there.

`ReservationProofs`

* `TypeCorrect`, then `OneClaim` and `WindowFollows` (`WindowFollowsHold`: its two halves are
  `LiveHoldKeepsWindow` and `ReservedWindowHasHold`) from the
  inductive invariant `Agreement` == `Typed`, `VisitFollowsReservation` (which visit statuses go
  with which reservation status), `LiveHoldKeepsWindow`, `OneClaimPerWindow` and
  `ReservedWindowHasHold`. None of the last three is inductive alone: a window
  stays reserved because its reservation is live, a reservation is the only one
  because the window is reserved. The lemma `Effects` says that every step does one of five
  things to windows, visits and reservations: untouched, reserved, waiting, taken, given up.
* `ConfirmedPaid`: `PaidAgreement` adds that a handler which is going to consume
  has a succeeded payment (`ConsumesPaid`) and that payment statuses follow those of the
  reservation (`PaymentFollowsReservation`). It is the point where the review
  handlers' stale reads could hurt, as `consume` does not look at the payment of
  a visit under review.
* `PromiseKept`: `Spec => KeepsPromise`, the refinement of `Slots`: held are the
  pending visits, taken the confirmed ones, gone the expired and cancelled ones.
  Each kind of step in `Effects` is a step of `Slots` or a stutter.
* `ApprovalRepeats` (`ApprovalCanBeRepeated`), `PaymentsMove` (`PaymentMovesAsAllowed`) and
  `PaidVisitKept` (`PaidVisitIsKept`) from `PaidAgreement /\ Reviews`. `StaleIsManual`: the
  handlers that decide on a payment read without a lock serve manual checkouts only, so
  no stale decision reaches a payment of the provider. `ReviewedIsReported`: a
  reservation under review has a payment that was reported, which is what
  a second approval asks for. The lemma `PaymentSteps` lists what a step may do to a payment.

`MessagesProofs`

* `TypeCorrect`; `SentDelivered`: `Spec => []SentMeansDelivered`. The invariant adds that a
  worker which is going to record a success has delivered a copy
  (the copy is counted in one step and recorded in another).
* `LateSenderIsAlone`: `Spec => []LateSenderHasLostItsRow`. Every change that takes the point
  from a message cancels its rows, also the claimed ones, in the same transaction;
  the invariant relates what the sender has checked to what has happened since.
* `BookedEntriesWereOffered`: `Spec => []BookedEntryWasOffered`, proved and not checked by a run.

`MessagesCopiesProofs`

* `SentFinal`: `Spec => SentIsFinal`. `Unwritten`: a visit that is not booked has no reminder, one that
  is not over no review request, and a rebuild under way has read nothing else, so
  that storing a row for the first time overwrites nothing.
* `ExtraCopyCosts`: `Spec => []ExtraCopyNeedsFault`. The property alone says nothing about the
  workers that are sending, so the invariant (`Counted`) bounds a sum: copies that arrived, workers in the
  middle of sending (`Senders`), and the sends the row still allows without another fault
  (`Chances`: 0 when it is settled or being delivered by its owner, 2 when its lease
  ended while it waits in a worker's queue, 1 otherwise) exceed the faults by at most one, or by
  less while a rebuild under way may still restore a row (`Debt`). One
  lemma per action shows that the sum grows only with a fault.

`BroadcastsProofs`

* `TypeCorrect`, then `NoOpenRowLeft`, `OutcomeTrue` and `EndFinal` from the
  locks: a worker in the middle of a transaction owns the row it has locked
  (`HeldIsOwned`), so what it counted is still true when it writes (`CountHolds`).
  The write of `prepare_delivery` to an unlocked broadcast is harmless because its
  worker still owns an open row, which an ended broadcast cannot have.
* `SentDelivered` (`SentMeansDelivered`: every part, across checkpoints and crashes) and
  `LateSenderIsAlone` (`LateSenderHasLostItsRow`) are proved and not checked by a run.
* `ExtraCopyCosts`: `Spec => []ExtraCopyNeedsFault`, for each part, by the same sum as for
  messages. A cancellation under way has been counted as a fault and may take the row from its
  owner, which is what `Reserve` allows for; `MediaStored` (what a worker remembers
  as sent is stored, as long as the row is its own) is why the photos stored at
  the checkpoint are not sent again with the text.

`PrivacyProofs`

* `TypeCorrect`; the inductive invariant is `Sound` == `Typed /\ LocksHeld`: one executor at a time
  is in a transaction on a request, a claim is made of an approved or a stale
  request, and who writes owns the claim. `OutsideEffects` and `ExecutorEffects` say what a
  step does to requests and locks, `StatusMoves` and `PersonMoves` what that is for one
  request and one client.
* `ClosedStays` (`ClosedIsFinal`, proved and not checked by a run), `OneOpen` (`OneOpenRequest`), and `AnonymizedAsked`
  (`AnonymizedOnRequest`), which needs `Agreed`: a client who is gone is not in the middle of
  asking, and the request that is completed was the only open one.
* `NoConsentRemains` (`NoConsentLeft`) and `NothingIsSent` (`NothingSentAfterwards`), both from
  `Silent`: no message of a client who is gone is being sent.

`RefundsProofs`

* `TypeCorrect`, `BooksTrue` (`BooksAreTrue`) and `StatusesAgreeAlways` (`StatusesAgree`) from the
  inductive invariant `Sound`. Its heart is `RowsAgree`, about the rows of one payment and
  the refund at the provider: the two properties, and that a refund which ended without
  success was refused or cancelled there. The rest is what a request on its way knows:
  an answer it carries is the provider's (`AnswerIsTrue`), an event it applies is of a
  refund that was made (`ListenerKnows`). `RowsMove` lists the seven things a step does to
  the rows of one payment; `MoveAgrees` shows that they keep `RowsAgree` and take away
  nothing final (`Later`), so that requests keep knowing what they knew
  (`AdminStillKnows`, `ListenerStillKnows`). One lemma per action (`AskEffect` ...) shows
  that it does one of the seven.

Only model-checked:

* the liveness properties (`RequestsEnd`, `HoldsEnd`, `PaidHoldConfirms`,
  `MessagesSettle`, `RecipientsSettle`, `ApprovedSettles`, `RefundIsRecorded`): TLAPS handles neither fairness nor
  `ENABLED`;
* induction over data and recursive operators are out of reach of the installed
  provers; no module here needs them.

## 7. What is left out

* In `Booking`: prices, add-ons, quotes, policies, the workstation lock, abuse
  counters, the waitlist's queue, audit and history rows, deletion of windows,
  review invitations. They are either rows nobody decides on, or refusals, which
  `Crash` covers. The row locks that creating and reopening a window take on the other
  active windows of the day are left out: they run under the day's lock, and who
  does not take that lock (closing) only makes room.
* In `Reservation`: receipts, notifications, audit, the number of webhook attempts
  and events whose amount or owner does not match, the batch of the worker (one row per
  step), changes of the window by an administrator.
* In `Refunds`: partial refunds, mismatches of money and metadata, events of unknown
  types or other shops, the audit rows, the consumption of a reservation after a payment
  event (it is in `Reservation`). Payments without a provider's identifier do not succeed.
* In `Messages`: notices about payments and to the staff, the texts, the cool-down's length
  (an entry cools and ages nondeterministically), pagination of lists.
* In `Broadcasts`: previews, statistics, the rate limiter and the pause that Telegram asks for.
* In `Privacy`: the other tables that an anonymisation rewrites, the versions of
  documents, the audit rows, the notice to the staff, clients of two businesses. That an
  anonymisation settles the client's open broadcast recipients without ending the broadcast
  (`privacy_repository.py:521`) is noted under the hazards.
* Not modelled: the components with status `not_modelled` in `PROJECT.json`.
  The bot's handlers, keyboards and presentation, migrations, backups, logging and
  health checks are I/O or run with the processes stopped, and stay out; most of
  the rest is CRUD in one transaction.

## 8. The plan

Done: `Booking`, `Slots`, `Reservation`, `Messages`, `Broadcasts`, `Privacy`, `Refunds`, with
their proofs.

Next, with the hazard each is for:

1. `Staff`: invitations, roles, revocation, transfer of visits, the bootstrap owner; the count
   before the lock in `sync_business_type`, transfers in both directions at once.
2. `Refunds` and `Booking` together: a cancellation that asks for a refund, a visit that ends
   while its refund is open, in all the statuses of `Booking`.
3. `Workstations`, `Sessions`, `ReferenceCleanup`.
4. Pure operators against reference definitions: prices and add-ons, schedule
   projection, availability slots.

Proofs: every safety property of the runs that pass is proved. The next ones belong to the
next modules; the proofs about `Refunds` would be the first to be extended, when its visits
get the statuses of `Booking`.
