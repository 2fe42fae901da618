------------------------------ MODULE Messages ------------------------------
(***************************************************************************)
(* The messages the bot sends on its own: reminders of a visit, the        *)
(* request for a review after it, and the offers of a freed window to the  *)
(* waiting list.  A transaction that changes a visit, an entry of the list *)
(* or the settings writes rows; worker processes claim due rows, check     *)
(* each of them again, send it outside any transaction and record what     *)
(* came of it.  A claim is a lease: it ends with the lease, and then       *)
(* another worker may take the row while the first one still sends.        *)
(*                                                                         *)
(* There is no clock.  What only waits for time to pass (a row that comes  *)
(* due, a lease, the start of a window, the cooldown of an entry) is a     *)
(* flag and an action that raises it, in any order.                        *)
(***************************************************************************)
EXTENDS Integers, FiniteSets

CONSTANTS
    Workers,      \* processes of workers/reminders.py
    Visits,       \* appointments
    Windows,      \* availability windows
    Entries,      \* entries of the waiting list
    Clients,
    VisitWindow,  \* the window of a visit
    VisitClient,  \* the client of a visit
    EntryClient,  \* the client of an entry
    Matches,      \* <<entry, window>>: dates, times, duration and service fit
    Switchable,   \* the kinds of message an owner switches off in this instance
    MaxAttempts,  \* settings.reminder_max_attempts
    BatchSize,    \* settings.reminder_batch_size
    MaxFaults,    \* bound on crashes, lost answers, overrun leases and rebuilds
    None          \* no worker, no message

ASSUME MessagesAssumption ==
    /\ VisitWindow \in [Visits -> Windows] /\ VisitClient \in [Visits -> Clients]
    /\ EntryClient \in [Entries -> Clients] /\ Matches \subseteq Entries \X Windows
    /\ Switchable \subseteq {"reminder", "review", "offer"}
    /\ MaxAttempts \in Nat \ {0} /\ BatchSize \in Nat \ {0} /\ MaxFaults \in Nat
    /\ None \notin Workers

VARIABLES
    visits,    \* status of each visit
    windows,   \* status of each window
    past,      \* windows that have started
    entries,   \* the waiting list
    blocked,   \* clients known to have blocked the bot
    features,  \* the kinds of message whose feature is on
    rows,      \* notification_jobs and waitlist_notifications
    worker,    \* what each worker does
    opening,   \* the transaction that is opening a window, with the entries it read
    rebuild,   \* the settings transaction that rebuilds reminders, with its reads
    copies,    \* how often a message reached its recipient
    faults     \* how many faults there have been

vars == <<visits, windows, past, entries, blocked, features, rows, worker, opening,
          rebuild, copies, faults>>
calendar == <<visits, windows, past>>
sending == <<worker, copies>>
-----------------------------------------------------------------------------
Reminder(a) == <<"reminder", a>>
Review(a) == <<"review", a>>
Offer(e, w) == <<"offer", e, w>>

Reminders == {Reminder(a) : a \in Visits}
Reviews == {Review(a) : a \in Visits}
Offers == {Offer(e, w) : e \in Entries, w \in Windows}
Jobs == Reminders \cup Reviews
Messages == Jobs \cup Offers

Kinds == {"reminder", "review", "offer"}
Recipient(k) == IF k[1] = "offer" THEN EntryClient[k[2]] ELSE VisitClient[k[2]]

VisitStatus == {"absent", "active", "completed", "ended"}
WindowStatus == {"open", "booked", "closed"}
LiveEntry == {"active", "matched"}
Entry == [status: {"absent", "booked", "cancelled"} \cup LiveEntry,
          cooling: BOOLEAN, expired: BOOLEAN]

\* A retried offer is "retry" in the source, a retried job "pending": one status.
Unsent == {"pending", "processing"}
Settled == {"sent", "failed", "cancelled"}
Row == [status: {"absent"} \cup Unsent \cup Settled, attempts: 0..MaxAttempts,
        due: BOOLEAN, by: Workers \cup {None}, leased: BOOLEAN]
\* Of a settled row only the status is read again.
RowIn(status) ==
    [status |-> status, attempts |-> 0, due |-> FALSE, by |-> None, leased |-> FALSE]
NewRow == RowIn("pending")
DueRow == [NewRow EXCEPT !.due = TRUE]

\* cancel_unsent on the rows K.
CancelUnsent(K) ==
    [k \in Messages |->
        IF k \in K /\ rows[k].status \in Unsent THEN RowIn("cancelled") ELSE rows[k]]
OffersOf(e) == {Offer(e, w) : w \in Windows}

Idle == [at |-> "ready", queue |-> {}, msg |-> None, answer |-> "none"]
Answers == {"none", "ok", "retry", "forbidden", "refused"}

NoOpening == [on |-> FALSE, visit |-> None, seen |-> {}, fresh |-> {}]
NoRebuild == [on |-> FALSE, seen |-> {}, rows |-> [k \in Jobs |-> RowIn("absent")]]
-----------------------------------------------------------------------------
(* Visits.  The window of a visit is locked by whoever opens or books it.  *)

Unlocked(w) == ~opening[w].on

\* Entries of this client that were offered this window, and are still live.
Fulfilled(a) ==
    {e \in Entries : /\ EntryClient[e] = VisitClient[a]
                     /\ entries[e].status \in LiveEntry
                     /\ rows[Offer(e, VisitWindow[a])].status # "absent"}

\* A booking: the reminders that still lie ahead are stored with the visit, and
\* the entries it fulfils are closed with their unsent offers.
BookVisit(a, ahead) ==
    LET w == VisitWindow[a]
        done == Fulfilled(a)
        silenced == CancelUnsent(UNION {OffersOf(e) : e \in done}) IN
    /\ visits[a] = "absent" /\ windows[w] = "open" /\ Unlocked(w) /\ w \notin past
    /\ VisitClient[a] \notin blocked
    /\ visits' = [visits EXCEPT ![a] = "active"]
    /\ windows' = [windows EXCEPT ![w] = "booked"]
    /\ entries' = [e \in Entries |->
            IF e \in done THEN [entries[e] EXCEPT !.status = "booked"] ELSE entries[e]]
    /\ rows' = IF ahead THEN [silenced EXCEPT ![Reminder(a)] = NewRow] ELSE silenced
    /\ UNCHANGED <<past, blocked, features, sending, opening, rebuild, faults>>

\* Completion, no-show, and a cancellation that does not free the window.
CloseVisit(a, status) ==
    LET w == VisitWindow[a]
        silenced == CancelUnsent({Reminder(a), Review(a)}) IN
    /\ visits[a] = "active" /\ Unlocked(w)
    /\ status = "completed" => w \in past
    /\ visits' = [visits EXCEPT ![a] = status]
    /\ windows' = [windows EXCEPT ![w] = "closed"]
    /\ rows' = IF status = "completed" /\ "review" \in features
                 THEN [silenced EXCEPT ![Review(a)] = NewRow] ELSE silenced
    /\ UNCHANGED <<past, entries, blocked, features, sending, opening, rebuild, faults>>
-----------------------------------------------------------------------------
(* A window becomes open: created, reopened, or freed by a cancellation or *)
(* a move.  The transaction reads the matching entries without a lock and  *)
(* writes their offers when it commits.                                    *)

\* list_matching.
MatchingEntries(w) ==
    {e \in Entries : /\ <<e, w>> \in Matches
                     /\ entries[e].status \in LiveEntry
                     /\ ~entries[e].expired /\ ~entries[e].cooling
                     /\ EntryClient[e] \notin blocked}

StartOpening(w, a) ==
    /\ Unlocked(w) /\ w \notin past
    /\ opening' = [opening EXCEPT ![w] =
            [on |-> TRUE, visit |-> a, seen |-> MatchingEntries(w),
             fresh |-> {e \in MatchingEntries(w) : entries[e].status # "matched"}]]
    /\ UNCHANGED <<calendar, entries, blocked, features, rows, sending, rebuild, faults>>

CancelVisit(a) == visits[a] = "active" /\ StartOpening(VisitWindow[a], a)
\* create_window, reopen_window; offer_window repeats the match of an open window.
OpenWindow(w) == windows[w] \in {"closed", "open"} /\ StartOpening(w, None)

\* INSERT ... ON CONFLICT DO NOTHING: an entry is offered a window once.
NewOffers(w) == {Offer(e, w) : e \in opening[w].seen} \ {k \in Offers : rows[k].status # "absent"}

\* The status of an entry is written only if it was not read as "matched".
CommitOpening(w) ==
    LET a == opening[w].visit
        ended == a # None
        silenced == IF ended THEN CancelUnsent({Reminder(a), Review(a)}) ELSE rows
        offered == {e \in Entries : Offer(e, w) \in NewOffers(w)} IN
    /\ opening[w].on
    /\ visits' = IF ended THEN [visits EXCEPT ![a] = "ended"] ELSE visits
    /\ windows' = [windows EXCEPT ![w] = "open"]
    /\ rows' = [k \in Messages |-> IF k \in NewOffers(w) THEN DueRow ELSE silenced[k]]
    /\ entries' = [e \in Entries |->
            IF e \in offered
              THEN [entries[e] EXCEPT !.cooling = TRUE,
                        !.status = IF e \in opening[w].fresh THEN "matched" ELSE @]
              ELSE entries[e]]
    /\ opening' = [opening EXCEPT ![w] = NoOpening]
    /\ UNCHANGED <<past, blocked, features, sending, rebuild, faults>>
-----------------------------------------------------------------------------
(* The waiting list, the switches and the settings.                        *)

JoinList(e) ==
    /\ entries[e].status = "absent" /\ "offer" \in features
    /\ entries' = [entries EXCEPT ![e].status = "active"]
    /\ UNCHANGED <<calendar, blocked, features, rows, sending, opening, rebuild, faults>>

\* cancel_my, archive_admin.
LeaveList(e) ==
    /\ entries[e].status \in LiveEntry
    /\ entries' = [entries EXCEPT ![e].status = "cancelled"]
    /\ rows' = CancelUnsent(OffersOf(e))
    /\ UNCHANGED <<calendar, blocked, features, sending, opening, rebuild, faults>>

\* set_enabled: only switching reviews off touches the rows.
SwitchOff(kind) ==
    /\ kind \in features \cap Switchable
    /\ features' = features \ {kind}
    /\ rows' = IF kind = "review" THEN CancelUnsent(Reviews) ELSE rows
    /\ UNCHANGED <<calendar, entries, blocked, sending, opening, rebuild, faults>>

\* SettingsService.update reads the future visits and their rows, unlocked.
StartRebuild ==
    /\ ~rebuild.on /\ faults < MaxFaults
    /\ rebuild' = [on |-> TRUE, rows |-> [k \in Jobs |-> rows[k]],
                   seen |-> {a \in Visits : visits[a] = "active" /\ VisitWindow[a] \notin past}]
    /\ faults' = faults + 1
    /\ UNCHANGED <<calendar, entries, blocked, features, rows, sending, opening>>

\* Variant: sent rows are scheduled again.
WantedAnyway(read, now) == NewRow
\* An attribute is written only where it differs from what was read.
Merge(read, now, new) == IF read = new THEN now ELSE new
\* A row that was read and is not wanted any more, and one that is.
Unwanted(read, now) ==
    IF read.status \in Unsent THEN [now EXCEPT !.status = "cancelled",
                                               !.by = Merge(read.by, @, None)] ELSE now
Wanted(read, now) ==
    IF read.status = "absent" THEN NewRow
    ELSE IF read.status = "sent" THEN now
    ELSE [status |-> Merge(read.status, now.status, "pending"),
          attempts |-> Merge(read.attempts, now.attempts, 0), due |-> FALSE,
          by |-> Merge(read.by, now.by, None), leased |-> now.leased]

\* With the new offsets the reminders of the visits in "ahead" are still to come.
CommitRebuild(ahead) ==
    /\ rebuild.on /\ ahead \subseteq rebuild.seen
    /\ rows' = [k \in Messages |->
            IF k \notin Jobs \/ k[2] \notin rebuild.seen THEN rows[k]
            ELSE IF k[1] = "reminder" /\ k[2] \in ahead THEN Wanted(rebuild.rows[k], rows[k])
            ELSE Unwanted(rebuild.rows[k], rows[k])]
    /\ rebuild' = NoRebuild
    /\ UNCHANGED <<calendar, entries, blocked, features, sending, opening, faults>>
-----------------------------------------------------------------------------
(* A worker: claim the due jobs, claim the due offers, then one by one     *)
(* prepare, send and record.                                               *)

Goes(p, r) == worker' = [worker EXCEPT ![p] = r]
At(p, at) == worker[p].at = at

\* Variant: the lease of a claimed row is not looked at.
ClaimableUnleased(k) == rows[k].status \in Unsent /\ rows[k].due
\* Variant: a claimed row is nobody else's, whatever becomes of its worker.
ClaimableOnce(k) == rows[k].status = "pending" /\ rows[k].due
Claimable(k) ==
    \/ rows[k].status = "pending" /\ rows[k].due
    \/ rows[k].status = "processing" /\ rows[k].due /\ ~rows[k].leased

LeastOf(m, n) == IF m < n THEN m ELSE n

\* Bound: attempts are only compared with MaxAttempts, and count no further.
Claimed(p, batch) ==
    [k \in Messages |->
        IF k \in batch
          THEN [rows[k] EXCEPT !.status = "processing", !.by = p, !.leased = TRUE,
                               !.attempts = LeastOf(@ + 1, MaxAttempts)]
          ELSE rows[k]]

Batches(K) ==
    LET ready == {k \in K : Claimable(k)} IN
    {batch \in SUBSET ready : Cardinality(batch) = LeastOf(Cardinality(ready), BatchSize)}

\* claim_due of the jobs and claim_due of the offers, by a worker that is done
\* with what it had.  A claim of nothing changes nothing.
ClaimBatch(p) ==
    /\ At(p, "ready") /\ worker[p].queue = {}
    /\ \E jobs \in Batches(Jobs), offers \in Batches(Offers) :
        /\ jobs \cup offers # {}
        /\ rows' = Claimed(p, jobs \cup offers)
        /\ Goes(p, [worker[p] EXCEPT !.queue = jobs \cup offers])
    /\ UNCHANGED <<calendar, entries, blocked, features, copies, opening, rebuild, faults>>

\* _claimed: the row is still this worker's.
Owns(p, k) == rows[k].status = "processing" /\ rows[k].by = p

\* Variant: the visit is not looked at again.
StillMeantOfKind(k) == k[1] \in features
\* The message still has a point: its feature is on, and its subject is as it was.
StillMeant(k) ==
    /\ k[1] \in features
    /\ k[1] = "reminder" => visits[k[2]] = "active" /\ VisitWindow[k[2]] \notin past
    /\ k[1] = "review" => visits[k[2]] = "completed"
    /\ k[1] = "offer" => /\ entries[k[2]].status \in LiveEntry /\ ~entries[k[2]].expired
                         /\ windows[k[3]] = "open" /\ k[3] \notin past

\* prepare_delivery.
Prepare(p, k) ==
    /\ At(p, "ready") /\ k \in worker[p].queue
    /\ IF Owns(p, k) /\ StillMeant(k) /\ Recipient(k) \notin blocked
         THEN /\ Goes(p, [worker[p] EXCEPT !.at = "send", !.msg = k, !.queue = @ \ {k}])
              /\ UNCHANGED rows
         ELSE /\ Goes(p, [worker[p] EXCEPT !.queue = @ \ {k}])
              /\ rows' = IF ~Owns(p, k) THEN rows
                         ELSE [rows EXCEPT ![k] =
                                RowIn(IF StillMeant(k) THEN "failed" ELSE "cancelled")]
    /\ UNCHANGED <<calendar, entries, blocked, features, copies, opening, rebuild, faults>>

\* Telegram, outside any transaction.  A network error may hide a message that
\* did arrive.
Send(p) ==
    LET k == worker[p].msg IN
    /\ At(p, "send")
    /\ \E answer \in Answers \ {"none"}, arrived \in BOOLEAN :
        /\ answer = "ok" => arrived
        /\ answer # "ok" /\ arrived => answer = "retry" /\ faults < MaxFaults
        /\ Goes(p, [worker[p] EXCEPT !.at = "record", !.answer = answer])
        /\ copies' = IF arrived THEN [copies EXCEPT ![k] = @ + 1] ELSE copies
        /\ faults' = IF arrived /\ answer # "ok" THEN faults + 1 ELSE faults
    /\ UNCHANGED <<calendar, entries, blocked, features, rows, opening, rebuild>>

\* Variant: the last attempt counts as delivered.
RetriedUntilSent(row) ==
    IF row.attempts >= MaxAttempts THEN RowIn("sent")
    ELSE [NewRow EXCEPT !.attempts = row.attempts]
Retried(row) ==
    IF row.attempts >= MaxAttempts THEN RowIn("failed")
    ELSE [NewRow EXCEPT !.attempts = row.attempts]

\* Variant: a refusal is stored as Telegram names it.
OutcomeRaw(row, answer) ==
    CASE answer = "ok" -> RowIn("sent")
      [] answer = "retry" -> Retried(row)
      [] OTHER -> RowIn(answer)
Outcome(row, answer) ==
    CASE answer = "ok" -> RowIn("sent")
      [] answer = "retry" -> Retried(row)
      [] OTHER -> RowIn("failed")

\* mark_sent, retry, mark_recipient_blocked, mark_permanent_failure.
Record(p) ==
    LET k == worker[p].msg
        answer == worker[p].answer IN
    /\ At(p, "record")
    /\ IF Owns(p, k)
         THEN /\ rows' = [rows EXCEPT ![k] = Outcome(@, answer)]
              /\ blocked' = IF answer = "forbidden" THEN blocked \cup {Recipient(k)} ELSE blocked
         ELSE UNCHANGED <<rows, blocked>>
    /\ Goes(p, [worker[p] EXCEPT !.at = "ready", !.msg = None, !.answer = "none"])
    /\ UNCHANGED <<calendar, entries, features, copies, opening, rebuild, faults>>

\* The process dies; the next one starts with nothing claimed.
Crash(p) ==
    /\ worker[p] # Idle /\ faults < MaxFaults
    /\ Goes(p, Idle) /\ faults' = faults + 1
    /\ UNCHANGED <<calendar, entries, blocked, features, rows, copies, opening, rebuild>>
-----------------------------------------------------------------------------
(* Time. *)

BecomesDue(k) ==
    /\ rows[k].status \in Unsent /\ ~rows[k].due
    /\ rows' = [rows EXCEPT ![k].due = TRUE]
    /\ UNCHANGED <<calendar, entries, blocked, features, sending, opening, rebuild, faults>>

HasIt(p, k) == k \in worker[p].queue \/ worker[p].msg = k

\* The lease of a row nobody works on ends; that of a slow worker is a fault.
LeaseEnds(k) ==
    LET slow == rows[k].by # None /\ HasIt(rows[k].by, k) IN
    /\ rows[k].status = "processing" /\ rows[k].leased
    /\ slow => faults < MaxFaults
    /\ rows' = [rows EXCEPT ![k].leased = FALSE]
    /\ faults' = IF slow THEN faults + 1 ELSE faults
    /\ UNCHANGED <<calendar, entries, blocked, features, sending, opening, rebuild>>

WindowStarts(w) ==
    /\ w \notin past /\ Unlocked(w)
    /\ past' = past \cup {w}
    /\ UNCHANGED <<visits, windows, entries, blocked, features, rows, sending, opening,
                   rebuild, faults>>

EntryAges(e) ==
    /\ \/ entries[e].cooling /\ entries' = [entries EXCEPT ![e].cooling = FALSE]
       \/ entries[e].status \in LiveEntry /\ ~entries[e].expired
          /\ entries' = [entries EXCEPT ![e].expired = TRUE]
    /\ UNCHANGED <<calendar, blocked, features, rows, sending, opening, rebuild, faults>>
-----------------------------------------------------------------------------
Init ==
    /\ visits = [a \in Visits |-> "absent"]
    /\ windows = [w \in Windows |-> "closed"]
    /\ past = {} /\ blocked = {} /\ features = Kinds
    /\ entries = [e \in Entries |-> [status |-> "absent", cooling |-> FALSE, expired |-> FALSE]]
    /\ rows = [k \in Messages |-> RowIn("absent")]
    /\ worker = [p \in Workers |-> Idle]
    /\ opening = [w \in Windows |-> NoOpening]
    /\ rebuild = NoRebuild
    /\ copies = [k \in Messages |-> 0]
    /\ faults = 0

Bookings ==
    \E a \in Visits :
        \/ \E ahead \in BOOLEAN : BookVisit(a, ahead)
        \/ \E status \in {"completed", "ended"} : CloseVisit(a, status)
        \/ CancelVisit(a)
Commits == \/ \E w \in Windows : CommitOpening(w)
           \/ \E ahead \in SUBSET Visits : CommitRebuild(ahead)
Requests == \/ \E w \in Windows : OpenWindow(w)
            \/ \E e \in Entries : JoinList(e) \/ LeaveList(e)
            \/ \E kind \in Kinds : SwitchOff(kind)
            \/ StartRebuild

Works(p) == \/ ClaimBatch(p) \/ Send(p) \/ Record(p)
            \/ \E k \in Messages : Prepare(p, k)
Time == \/ \E k \in Messages : BecomesDue(k) \/ LeaseEnds(k)
        \/ \E w \in Windows : WindowStarts(w)
        \/ \E e \in Entries : EntryAges(e)

Next == Bookings \/ Commits \/ Requests \/ Time \/ \E p \in Workers : Works(p) \/ Crash(p)

Spec == Init /\ [][Next]_vars
\* A worker goes on with its loop, and time passes.
FairSpec ==
    /\ Spec
    /\ \A p \in Workers : WF_vars(Works(p))
    /\ \A k \in Messages : WF_vars(BecomesDue(k)) /\ WF_vars(LeaseEnds(k))
-----------------------------------------------------------------------------
(* Properties. *)

TypeOK ==
    /\ visits \in [Visits -> VisitStatus]
    /\ windows \in [Windows -> WindowStatus]
    /\ past \subseteq Windows /\ blocked \subseteq Clients /\ features \subseteq Kinds
    /\ entries \in [Entries -> Entry]
    /\ rows \in [Messages -> Row]
    /\ worker \in [Workers -> [at: {"ready", "send", "record"},
                               queue: SUBSET Messages, msg: Messages \cup {None},
                               answer: Answers]]
    /\ opening \in [Windows -> [on: BOOLEAN, visit: Visits \cup {None},
                                seen: SUBSET Entries, fresh: SUBSET Entries]]
    /\ rebuild \in [on: BOOLEAN, seen: SUBSET Visits, rows: [Jobs -> Row]]
    /\ copies \in [Messages -> Nat]
    /\ faults \in 0..MaxFaults

\* A recipient gets a second copy of a message only at the price of a fault: a
\* crash, a lost answer, an overrun lease or a rebuild of the reminders.  Workers
\* that race for due rows, retries, and a window that is opened again and again
\* do not cost one (claim_due, _claimed, enqueue_match).
ExtraCopyNeedsFault == \A k \in Messages : copies[k] <= 1 + faults

\* A message that is recorded as sent did reach its recipient.
SentMeansDelivered == \A k \in Messages : rows[k].status = "sent" => copies[k] > 0

\* An entry that is booked was offered the window of a visit that its client has
\* or had (mark_booked_for_window).
BookedEntryWasOffered ==
    \A e \in Entries : entries[e].status = "booked" =>
        \E a \in Visits : /\ VisitClient[a] = EntryClient[e] /\ visits[a] # "absent"
                          /\ rows[Offer(e, VisitWindow[a])].status # "absent"

\* A recorded delivery is forgotten only by a rebuild of the reminders that read
\* the row before the delivery was recorded (_rebuild_future_reminders).
SentIsFinal ==
    [][\A k \in Messages : rows[k].status = "sent" /\ rows'[k].status # "sent" =>
        rebuild.on /\ k \in Jobs /\ rebuild.rows[k].status # "sent"]_vars

\* A worker that sends the reminder of a visit that is over has lost the row: it
\* prepared the message while the visit was live, and will not send it again
\* (prepare_delivery, cancel_unsent), although rows may be rebuilt meanwhile.
LateSenderHasLostItsRow ==
    \A p \in Workers, a \in Visits :
        /\ worker[p].at # "ready" /\ worker[p].msg = Reminder(a)
        /\ visits[a] \in {"completed", "ended"}
        => ~Owns(p, Reminder(a))

\* Every message is settled in the end, sent, failed or cancelled, although its
\* worker may die or its claim be stolen (run_delivery_cycle, claim_due).
MessagesSettle ==
    \A k \in Messages : rows[k].status \in Unsent ~> rows[k].status \notin Unsent
=============================================================================
