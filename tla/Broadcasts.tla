------------------------------ MODULE Broadcasts ------------------------------
(***************************************************************************)
(* Marketing campaigns.  An administrator launches a draft: the audience   *)
(* is frozen into one row per recipient.  Workers claim due rows with a    *)
(* lease, check each of them, send its parts outside any transaction and   *)
(* record the end; whoever ends the last row ends the campaign.            *)
(*                                                                         *)
(* Row locks are modelled where they decide something: a delivery locks    *)
(* its recipient and then the broadcast, a cancellation the broadcast and  *)
(* then its open recipients, so they can wait for each other, and then     *)
(* PostgreSQL lets one of them fail.  A claim skips what is locked.        *)
(***************************************************************************)
EXTENDS Integers, FiniteSets

CONSTANTS
    Workers,       \* processes of workers/broadcasts.py
    Broadcasts,    \* campaigns
    Clients,
    Toggling,      \* clients who change their subscription in this instance
    SwitchFeature, \* whether the owner uses the feature switch in this instance
    MaxAttempts,   \* settings.broadcast_max_retries
    BatchSize,     \* settings.reminder_batch_size
    MaxFaults,     \* bound on crashes, lost answers, overrun leases, cancellations
    None

ASSUME BroadcastsAssumption ==
    /\ Toggling \subseteq Clients /\ SwitchFeature \in BOOLEAN
    /\ MaxAttempts \in Nat \ {0} /\ BatchSize \in Nat \ {0} /\ MaxFaults \in Nat
    /\ None \notin Workers

VARIABLES
    broadcasts,  \* status of each broadcast
    format,      \* what each broadcast consists of
    rows,        \* broadcast_recipients
    subscribed,  \* clients with marketing consent
    blocked,     \* clients known to have blocked the bot
    feature,     \* whether broadcasts are switched on
    worker,      \* what each worker does
    cancelling,  \* broadcasts locked by a cancellation that waits for their rows
    copies,      \* how often each part reached its recipient
    faults       \* how many faults there have been

vars == <<broadcasts, format, rows, subscribed, blocked, feature, worker, cancelling, copies,
          faults>>
campaigns == <<broadcasts, format>>
people == <<subscribed, blocked, feature>>
-----------------------------------------------------------------------------
Recipients == Broadcasts \X Clients
RowsOf(b) == {b} \X Clients

\* A text, photos with the text as caption, photos followed by the text or the
\* button.
Parts == {"media", "text"}
Formats == {{"text"}, {"media"}, Parts}

Finished == {"completed", "partially_failed", "cancelled"}
BroadcastStatus == {"absent", "draft", "scheduled", "sending"} \cup Finished

Waiting == {"pending", "retry"}
OpenStatus == Waiting \cup {"processing"}
Failures == {"failed", "blocked"}
Settled == {"sent", "skipped", "unsubscribed"} \cup Failures
Row == [status: {"absent"} \cup OpenStatus \cup Settled, attempts: 0..MaxAttempts,
        due: BOOLEAN, by: Workers \cup {None}, leased: BOOLEAN, media: BOOLEAN]
\* Of a settled row only the status is read again.
RowIn(status) == [status |-> status, attempts |-> 0, due |-> FALSE, by |-> None,
                  leased |-> FALSE, media |-> FALSE]

Open(r) == rows[r].status \in OpenStatus
OpenRows(b) == {r \in RowsOf(b) : Open(r)}

Idle == [at |-> "ready", queue |-> {}, msg |-> None, media |-> FALSE,
         answer |-> "none", verdict |-> "none", outcome |-> "none"]
Answers == {"none", "ok", "retry", "forbidden", "refused"}
Goes(p, r) == worker' = [worker EXCEPT ![p] = r]
At(p, at) == worker[p].at = at

\* A transaction of a worker holds the lock of its recipient while it is in one
\* of these steps; everything else is one step and holds nothing afterwards.
Holds(p, r) == worker[p].at \in {"finish", "close"} /\ worker[p].msg = r
Locked(r) == \E p \in Workers : Holds(p, r)
-----------------------------------------------------------------------------
(* The administrator and the clients. *)

\* create_draft.
CreateDraft(b, parts) ==
    /\ broadcasts[b] = "absent" /\ feature
    /\ broadcasts' = [broadcasts EXCEPT ![b] = "draft"]
    /\ format' = [format EXCEPT ![b] = parts]
    /\ UNCHANGED <<rows, people, worker, cancelling, copies, faults>>

\* resolve_audience_user_ids: which clients a segment holds is any choice.
Audience == subscribed \ blocked

\* launch, freeze_recipients.
Launch(b, segment) ==
    LET chosen == segment \cap Audience IN
    /\ broadcasts[b] = "draft" /\ b \notin cancelling /\ chosen # {}
    /\ broadcasts' = [broadcasts EXCEPT ![b] = "scheduled"]
    /\ rows' = [r \in Recipients |->
            IF r \in {b} \X chosen THEN RowIn("pending") ELSE rows[r]]
    /\ UNCHANGED <<format, people, worker, cancelling, copies, faults>>

\* Variant: a finished broadcast is cancelled like any other.
CancelAcceptsAny(b) == broadcasts[b] # "absent"
CancelAccepts(b) == broadcasts[b] # "absent" /\ broadcasts[b] \notin Finished

\* cancel, up to the lock of the broadcast ...
StartCancel(b) ==
    /\ CancelAccepts(b) /\ b \notin cancelling /\ faults < MaxFaults
    /\ cancelling' = cancelling \cup {b}
    /\ faults' = faults + 1
    /\ UNCHANGED <<campaigns, rows, people, worker, copies>>

\* Variant: rows that a worker has claimed are left to the worker.
CancelledRowsUnclaimed(b) == {r \in RowsOf(b) : rows[r].status \in Waiting}
CancelledRows(b) == OpenRows(b)

\* ... and from the lock of the last open recipient on (cancel_open_recipients).
CommitCancel(b) ==
    /\ b \in cancelling /\ \A r \in OpenRows(b) : ~Locked(r)
    /\ cancelling' = cancelling \ {b}
    /\ broadcasts' = [broadcasts EXCEPT ![b] = "cancelled"]
    /\ rows' = [r \in Recipients |->
            IF r \in CancelledRows(b) THEN RowIn("skipped") ELSE rows[r]]
    /\ UNCHANGED <<format, people, worker, copies, faults>>

\* A lock timeout or a deadlock ends the cancellation.
FailCancel(b) ==
    /\ b \in cancelling /\ \E r \in OpenRows(b) : Locked(r)
    /\ cancelling' = cancelling \ {b}
    /\ UNCHANGED <<campaigns, rows, people, worker, copies, faults>>

ToggleSubscription(c) ==
    /\ c \in Toggling
    /\ subscribed' = IF c \in subscribed THEN subscribed \ {c} ELSE subscribed \cup {c}
    /\ UNCHANGED <<campaigns, rows, blocked, feature, worker, cancelling, copies, faults>>

\* set_enabled.
ToggleFeature ==
    /\ SwitchFeature
    /\ feature' = ~feature
    /\ UNCHANGED <<campaigns, rows, subscribed, blocked, worker, cancelling, copies, faults>>
-----------------------------------------------------------------------------
(* A worker. *)

LeastOf(m, n) == IF m < n THEN m ELSE n

\* Variants: the lease of a claimed row is not looked at; a claimed row is nobody
\* else's, whatever becomes of its worker.
ClaimableUnleased(r) ==
    /\ broadcasts[r[1]] \in {"scheduled", "sending"} /\ r[1] \notin cancelling
    /\ ~Locked(r) /\ Open(r) /\ rows[r].due
ClaimableOnce(r) ==
    /\ broadcasts[r[1]] \in {"scheduled", "sending"} /\ r[1] \notin cancelling
    /\ ~Locked(r) /\ rows[r].status \in Waiting /\ rows[r].due
\* FOR UPDATE SKIP LOCKED locks the recipient and, by the join, its broadcast.
Claimable(r) ==
    /\ broadcasts[r[1]] \in {"scheduled", "sending"} /\ r[1] \notin cancelling
    /\ ~Locked(r)
    /\ \/ rows[r].status \in Waiting /\ rows[r].due
       \/ rows[r].status = "processing" /\ ~rows[r].leased

Batches ==
    LET ready == {r \in Recipients : Claimable(r)} IN
    {batch \in SUBSET ready : Cardinality(batch) = LeastOf(Cardinality(ready), BatchSize)}

\* Bound: attempts are only compared with MaxAttempts, and count no further.
Claimed(p, row) == [row EXCEPT !.status = "processing", !.by = p, !.leased = TRUE,
                               !.attempts = LeastOf(@ + 1, MaxAttempts)]

\* claim_due.
ClaimBatch(p) ==
    /\ At(p, "ready") /\ worker[p].queue = {} /\ feature
    /\ \E batch \in Batches \ {{}} :
        /\ rows' = [r \in Recipients |-> IF r \in batch THEN Claimed(p, rows[r]) ELSE rows[r]]
        /\ broadcasts' = [b \in Broadcasts |->
                IF \E r \in batch : r[1] = b THEN "sending" ELSE broadcasts[b]]
        /\ Goes(p, [worker[p] EXCEPT !.queue = batch])
    /\ UNCHANGED <<format, people, cancelling, copies, faults>>

\* _claimed: the row is still this worker's.
Owns(p, r) == rows[r].status = "processing" /\ rows[r].by = p

\* prepare_delivery: what a row ends with that must not be sent.
Verdict(r) ==
    CASE ~feature \/ broadcasts[r[1]] # "sending" -> "skipped"
      [] feature /\ broadcasts[r[1]] = "sending" /\ r[2] \in blocked -> "blocked"
      [] feature /\ broadcasts[r[1]] = "sending" /\ r[2] \notin blocked
         /\ r[2] \notin subscribed -> "unsubscribed"
      [] OTHER -> "none"

\* Variant: the outcome does not look for rows that are still open.
OutcomeOfOne(r, verdict) == IF verdict \in Failures THEN "partially_failed" ELSE "completed"
\* _finalize, when row r ends with this verdict: what the broadcast becomes.  The
\* counts see the rows other transactions have committed.
Outcome(r, verdict) ==
    LET others == RowsOf(r[1]) \ {r} IN
    IF broadcasts[r[1]] = "cancelled" \/ \E s \in others : Open(s) THEN "none"
    ELSE IF verdict \in Failures \/ \E s \in others : rows[s].status \in Failures
    THEN "partially_failed" ELSE "completed"

Prepare(p, r) ==
    LET mine == Owns(p, r)
        rest == [worker[p] EXCEPT !.queue = @ \ {r}] IN
    /\ At(p, "ready") /\ r \in worker[p].queue /\ ~Locked(r)
    /\ \/ ~mine /\ Goes(p, rest)
       \/ mine /\ Verdict(r) = "none"
          /\ Goes(p, [rest EXCEPT !.at = "send", !.msg = r, !.media = rows[r].media])
       \/ mine /\ Verdict(r) # "none"
          /\ Goes(p, [rest EXCEPT !.at = "close", !.msg = r, !.verdict = Verdict(r),
                                  !.outcome = Outcome(r, Verdict(r))])
    /\ UNCHANGED <<campaigns, rows, people, cancelling, copies, faults>>

Ends(r, verdict, outcome) ==
    /\ rows' = [rows EXCEPT ![r] = RowIn(verdict)]
    /\ broadcasts' = IF outcome = "none" THEN broadcasts
                     ELSE [broadcasts EXCEPT ![r[1]] = outcome]

Ready(p) == Goes(p, [Idle EXCEPT !.queue = worker[p].queue])

\* The commit of prepare_delivery, which writes a broadcast it has not locked.
Close(p) ==
    LET r == worker[p].msg IN
    /\ At(p, "close")
    /\ worker[p].outcome # "none" => r[1] \notin cancelling
    /\ Ends(r, worker[p].verdict, worker[p].outcome)
    /\ Ready(p)
    /\ UNCHANGED <<format, people, cancelling, copies, faults>>

\* send_delivery: what is still to be sent.
Missing(p) == format[worker[p].msg[1]] \ (IF worker[p].media THEN {"media"} ELSE {})
NextPart(p) == IF "media" \in Missing(p) THEN "media" ELSE "text"

\* Telegram, outside any transaction.  A network error may hide a message that
\* did arrive.
Send(p) ==
    /\ At(p, "send") /\ Missing(p) # {}
    /\ \E answer \in Answers \ {"none"}, arrived \in BOOLEAN :
        /\ answer = "ok" => arrived
        /\ answer # "ok" /\ arrived => answer = "retry" /\ faults < MaxFaults
        /\ Goes(p, IF answer = "ok" /\ NextPart(p) = "media"
                     THEN [worker[p] EXCEPT !.at = "checkpoint"]
                     ELSE [worker[p] EXCEPT !.at = "record", !.answer = answer])
        /\ copies' = IF arrived THEN [copies EXCEPT ![worker[p].msg][NextPart(p)] = @ + 1]
                     ELSE copies
        /\ faults' = IF arrived /\ answer # "ok" THEN faults + 1 ELSE faults
    /\ UNCHANGED <<campaigns, rows, people, cancelling>>

\* A captioned photo whose checkpoint is stored is not sent again.
SendNothing(p) ==
    /\ At(p, "send") /\ Missing(p) = {}
    /\ Goes(p, [worker[p] EXCEPT !.at = "record", !.answer = "ok"])
    /\ UNCHANGED <<campaigns, rows, people, cancelling, copies, faults>>

\* mark_media_sent; a worker that has lost its row gives the delivery up.
Checkpoint(p) ==
    LET r == worker[p].msg IN
    /\ At(p, "checkpoint") /\ ~Locked(r)
    /\ rows' = IF Owns(p, r) THEN [rows EXCEPT ![r].media = TRUE] ELSE rows
    /\ Goes(p, IF Owns(p, r) THEN [worker[p] EXCEPT !.at = "send", !.media = TRUE]
               ELSE [worker[p] EXCEPT !.at = "record", !.answer = "retry"])
    /\ UNCHANGED <<campaigns, people, cancelling, copies, faults>>

\* Variant: a refusal is stored as Telegram names it.
RecordedRaw(row, answer) ==
    CASE answer = "ok" -> "sent"
      [] answer = "retry" -> IF row.attempts < MaxAttempts THEN "retry" ELSE "failed"
      [] OTHER -> answer
\* How the answer of Telegram is recorded.
Recorded(row, answer) ==
    CASE answer = "ok" -> "sent"
      [] answer = "forbidden" -> "blocked"
      [] answer = "retry" /\ row.attempts < MaxAttempts -> "retry"
      [] OTHER -> "failed"

\* mark_sent, retry, mark_blocked and mark_failed lock the recipient.  A retry is
\* committed; every other end goes on to the broadcast.
Record(p) ==
    LET r == worker[p].msg
        status == Recorded(rows[r], worker[p].answer) IN
    /\ At(p, "record") /\ ~Locked(r)
    /\ \/ ~Owns(p, r) /\ Ready(p) /\ UNCHANGED rows
       \/ Owns(p, r) /\ status = "retry" /\ Ready(p)
          /\ rows' = [rows EXCEPT ![r] = [@ EXCEPT !.status = "retry", !.due = FALSE,
                                                   !.by = None, !.leased = FALSE]]
       \/ Owns(p, r) /\ status # "retry" /\ UNCHANGED rows
          /\ Goes(p, [worker[p] EXCEPT !.at = "finish", !.verdict = status])
    /\ UNCHANGED <<campaigns, people, cancelling, copies, faults>>

\* _finalize_id locks the broadcast, counts and commits.
Finish(p) ==
    LET r == worker[p].msg
        verdict == worker[p].verdict IN
    /\ At(p, "finish") /\ r[1] \notin cancelling
    /\ Ends(r, verdict, Outcome(r, verdict))
    /\ blocked' = IF verdict = "blocked" THEN blocked \cup {r[2]} ELSE blocked
    /\ Ready(p)
    /\ UNCHANGED <<format, subscribed, feature, cancelling, copies, faults>>

\* A worker that waits for the broadcast loses a deadlock or times out: its
\* transaction is rolled back, the error ends the loop, and the process dies.
LockFails(p) ==
    /\ \/ At(p, "finish")
       \/ At(p, "close") /\ worker[p].outcome # "none"
    /\ worker[p].msg[1] \in cancelling
    /\ Goes(p, Idle)
    /\ UNCHANGED <<campaigns, rows, people, cancelling, copies, faults>>

\* The process dies; the next one starts with nothing claimed.
Crash(p) ==
    /\ worker[p] # Idle /\ faults < MaxFaults
    /\ Goes(p, Idle) /\ faults' = faults + 1
    /\ UNCHANGED <<campaigns, rows, people, cancelling, copies>>
-----------------------------------------------------------------------------
(* Time. *)

\* scheduled_at, or the delay of a retry, has passed.
BecomesDue(r) ==
    /\ rows[r].status \in Waiting /\ ~rows[r].due
    /\ rows' = [rows EXCEPT ![r].due = TRUE]
    /\ UNCHANGED <<campaigns, people, worker, cancelling, copies, faults>>

HasIt(p, r) == r \in worker[p].queue \/ worker[p].msg = r

\* The lease of a row nobody works on ends; that of a slow worker is a fault.
LeaseEnds(r) ==
    LET slow == rows[r].by # None /\ HasIt(rows[r].by, r) IN
    /\ rows[r].status = "processing" /\ rows[r].leased
    /\ slow => faults < MaxFaults
    /\ rows' = [rows EXCEPT ![r].leased = FALSE]
    /\ faults' = IF slow THEN faults + 1 ELSE faults
    /\ UNCHANGED <<campaigns, people, worker, cancelling, copies>>
-----------------------------------------------------------------------------
Init ==
    /\ broadcasts = [b \in Broadcasts |-> "absent"]
    /\ format = [b \in Broadcasts |-> {"text"}]
    /\ rows = [r \in Recipients |-> RowIn("absent")]
    /\ subscribed = Clients /\ blocked = {} /\ feature = TRUE
    /\ worker = [p \in Workers |-> Idle]
    /\ cancelling = {}
    /\ copies = [r \in Recipients |-> [part \in Parts |-> 0]]
    /\ faults = 0

Requests ==
    \/ \E b \in Broadcasts : \/ \E parts \in Formats : CreateDraft(b, parts)
                             \/ \E segment \in SUBSET Clients : Launch(b, segment)
                             \/ StartCancel(b) \/ CommitCancel(b) \/ FailCancel(b)
    \/ \E c \in Clients : ToggleSubscription(c)
    \/ ToggleFeature
Works(p) == \/ ClaimBatch(p) \/ Close(p) \/ Send(p) \/ SendNothing(p)
            \/ Checkpoint(p) \/ Record(p) \/ Finish(p)
            \/ \E r \in Recipients : Prepare(p, r)
Time == \E r \in Recipients : BecomesDue(r) \/ LeaseEnds(r)

Next == Requests \/ Time \/ \E p \in Workers : Works(p) \/ LockFails(p) \/ Crash(p)

Spec == Init /\ [][Next]_vars

\* The workers go on with their loops, time passes, and PostgreSQL ends every wait
\* for a lock.
WaitEnds(b) == \/ CommitCancel(b) \/ FailCancel(b)
               \/ \E p \in Workers : worker[p].msg \in RowsOf(b) /\ LockFails(p)
FairSpec ==
    /\ Spec
    /\ \A p \in Workers : WF_vars(Works(p))
    /\ \A r \in Recipients : WF_vars(BecomesDue(r)) /\ WF_vars(LeaseEnds(r))
    /\ \A b \in Broadcasts : WF_vars(WaitEnds(b))
-----------------------------------------------------------------------------
(* Properties. *)

TypeOK ==
    /\ broadcasts \in [Broadcasts -> BroadcastStatus] /\ format \in [Broadcasts -> Formats]
    /\ rows \in [Recipients -> Row]
    /\ subscribed \subseteq Clients /\ blocked \subseteq Clients /\ feature \in BOOLEAN
    /\ worker \in [Workers ->
            [at: {"ready", "send", "checkpoint", "record", "finish", "close"},
             queue: SUBSET Recipients, msg: Recipients \cup {None}, media: BOOLEAN,
             answer: Answers, verdict: Settled \cup {"none"},
             outcome: {"none", "completed", "partially_failed"}]]
    /\ cancelling \subseteq Broadcasts
    /\ copies \in [Recipients -> [Parts -> Nat]]
    /\ faults \in 0..MaxFaults

\* A campaign that has ended has no recipient left that a worker could still claim
\* or end: neither a cancellation nor the worker that counts the rows misses one
\* that another worker holds (cancel_open_recipients, _finalize).
EndedHasNoOpenRow == \A b \in Broadcasts : broadcasts[b] \in Finished => OpenRows(b) = {}

\* A campaign is "completed" only if no recipient failed, and "partially_failed"
\* only if one did, although the rows are counted while other workers end theirs.
OutcomeIsTrue ==
    \A b \in Broadcasts :
        broadcasts[b] \in {"completed", "partially_failed"} =>
            (broadcasts[b] = "completed"
                <=> \A r \in RowsOf(b) : rows[r].status \notin Failures)

\* An ended campaign stays as it ended: a worker that read it before a cancellation
\* does not write its own outcome over it (prepare_delivery writes it unlocked).
EndIsFinal ==
    [][\A b \in Broadcasts : broadcasts[b] \in Finished =>
        broadcasts'[b] = broadcasts[b]]_vars

\* A part reaches its recipient a second time only at the price of a fault: a crash,
\* a lost answer, an overrun lease, a cancellation that runs into a delivery.  A
\* retry of the text does not repeat the media (mark_media_sent).
ExtraCopyNeedsFault ==
    \A r \in Recipients, part \in Parts : copies[r][part] <= 1 + faults

\* Who is recorded as sent has got every part of the message.
SentMeansDelivered ==
    \A r \in Recipients : rows[r].status = "sent" =>
        \A part \in format[r[1]] : copies[r][part] > 0

\* A worker that still sends for a cancelled campaign has lost its row: it will
\* neither record the delivery nor send it again.
LateSenderHasLostItsRow ==
    \A p \in Workers : worker[p].msg # None /\ broadcasts[worker[p].msg[1]] \in Finished
        => ~Owns(p, worker[p].msg)

\* While broadcasts are switched on, every recipient of a campaign is settled in
\* the end, although workers die, lose deadlocks or lose their claims.
RecipientsSettle ==
    \A r \in Recipients : Open(r) /\ feature ~> ~Open(r) \/ ~feature

\* A campaign whose recipients are all settled ends.
BroadcastsEnd ==
    \A b \in Broadcasts :
        broadcasts[b] = "sending" /\ OpenRows(b) = {} ~> broadcasts[b] \in Finished
=============================================================================
