------------------------------- MODULE Privacy -------------------------------
(***************************************************************************)
(* Requests for the deletion of a client's data.  A client asks, the staff *)
(* review and approve, and a worker, or the staff by hand, anonymises: one *)
(* transaction claims the request with a lease, the next one writes.       *)
(*                                                                         *)
(* A request for deletion locks the person (users, business_clients) and   *)
(* then an open request; an execution locks the request and then the       *)
(* person.  They can wait for each other, and then PostgreSQL, or the lock *)
(* timeout, lets one of them fail.                                         *)
(***************************************************************************)
EXTENDS Integers, FiniteSets

CONSTANTS
    Clients,
    MaxRequests,   \* bound: requests of one client
    Workers,       \* processes of workers/privacy_deletion.py
    Handlers,      \* administrators executing a request by hand
    MaxAttempts,   \* data_deletion_requests.max_attempts
    MaxFaults,     \* bound on crashes, errors, overrun leases, repeated requests, late rebuilds
    None

Executors == Workers \cup Handlers

ASSUME PrivacyAssumption ==
    /\ MaxRequests \in Nat \ {0} /\ MaxAttempts \in Nat \ {0} /\ MaxFaults \in Nat
    /\ None \notin Executors

VARIABLES
    requests,    \* data_deletion_requests
    person,      \* users, business_clients, staff_members and the latest consents
    delivery,    \* the client's reminder, in notification_jobs
    sender,      \* the client whose reminder the reminder worker is sending
    asking,      \* clients whose request for deletion holds the lock of the person
    executor,    \* what each executor does
    faults       \* how many faults there have been

vars == <<requests, person, delivery, sender, asking, executor, faults>>
deliveries == <<delivery, sender>>
-----------------------------------------------------------------------------
Requests == Clients \X (1..MaxRequests)
Of(c) == {c} \X (1..MaxRequests)

Closed == {"rejected", "completed"}
OpenStatus == {"requested", "in_review", "approved", "processing", "failed"}
Request == [status: {"absent"} \cup OpenStatus \cup Closed, attempts: 0..MaxAttempts,
            by: Executors \cup {None}, leased: BOOLEAN]
Absent == [status |-> "absent", attempts |-> 0, by |-> None, leased |-> FALSE]

Is(r, status) == requests[r].status = status

Consents == {"privacy", "marketing"}
Person == [gone: BOOLEAN, staff: {"none", "active", "revoked"}, consents: SUBSET Consents]

Ready == [at |-> "ready", queue |-> {}, req |-> None]
Goes(e, x) == executor' = [executor EXCEPT ![e] = x]
Next1(e) == [executor[e] EXCEPT !.at = "ready", !.req = None]

At(e, at) == executor[e].at = at
Locked(r) == \E e \in Executors : executor[e].at \in {"claim", "write"} /\ executor[e].req = r
-----------------------------------------------------------------------------
(* Transitions of a request. *)

\* Variant: no transition is refused.
AllowedAny(from, to) == from # "absent"
\* _DELETION_TRANSITIONS; nobody asks for a cancellation.
Allowed(from, to) ==
    \/ from = "requested" /\ to = "in_review"
    \/ from = "in_review" /\ to \in {"approved", "rejected"}
    \/ from = "approved" /\ to \in {"in_review", "processing", "failed", "completed"}
    \/ from = "processing" /\ to \in {"approved", "completed", "failed"}
    \/ from = "failed" /\ to = "approved"

\* transition: what becomes of a row, apart from a claim.
Moved(row, to) ==
    [row EXCEPT !.status = to,
                !.by = IF to \in {"approved", "failed", "completed"} THEN None ELSE @,
                !.leased = IF to \in {"approved", "failed", "completed"} THEN FALSE ELSE @]
Claimed(row, e) ==
    [row EXCEPT !.status = "processing", !.attempts = @ + 1, !.by = e, !.leased = TRUE]
-----------------------------------------------------------------------------
(* The client. *)

\* Variant: a failed request counts as closed.
OpenOfUnfailed(c) == {r \in Of(c) : requests[r].status \in OpenStatus \ {"failed"}}
\* get_open_deletion_request.
OpenOf(c) == {r \in Of(c) : requests[r].status \in OpenStatus}

\* request_deletion begins: the upsert of the user locks the person.  Who has been
\* anonymised is somebody else when he comes back.
StartAsking(c) ==
    /\ c \notin asking /\ ~person[c].gone
    /\ OpenOf(c) # {} => faults < MaxFaults
    /\ asking' = asking \cup {c}
    /\ faults' = IF OpenOf(c) = {} THEN faults ELSE faults + 1
    /\ UNCHANGED <<requests, person, deliveries, executor>>

\* request: an open request is returned as it is, or a new one is stored; marketing
\* is withdrawn.
Ask(c) ==
    /\ c \in asking /\ \A r \in OpenOf(c) : ~Locked(r)
    /\ asking' = asking \ {c}
    /\ person' = [person EXCEPT ![c].consents = @ \ {"marketing"}]
    /\ \/ OpenOf(c) # {} /\ UNCHANGED requests
       \/ OpenOf(c) = {}
          /\ \E n \in 1..MaxRequests :
                /\ Is(<<c, n>>, "absent") /\ \A m \in 1..(n - 1) : ~Is(<<c, m>>, "absent")
                /\ requests' = [requests EXCEPT ![<<c, n>>].status = "requested"]
       \/ OpenOf(c) = {} /\ (\A r \in Of(c) : ~Is(r, "absent")) /\ UNCHANGED requests
    /\ UNCHANGED <<deliveries, executor, faults>>

\* A deadlock or the lock timeout.
AskFails(c) ==
    /\ c \in asking /\ \E r \in OpenOf(c) : Locked(r)
    /\ asking' = asking \ {c}
    /\ UNCHANGED <<requests, person, deliveries, executor, faults>>

\* What the client does locks the user first.
Present(c) == ~person[c].gone /\ c \notin asking

\* accept_privacy, set_marketing.
Consent(c, consent) ==
    /\ Present(c) /\ consent \notin person[c].consents
    /\ consent = "marketing" => "privacy" \in person[c].consents
    /\ person' = [person EXCEPT ![c].consents = @ \cup {consent}]
    /\ UNCHANGED <<requests, deliveries, asking, executor, faults>>

\* accept_invitation: whoever was staff before, and was not unlinked, is refused.
AcceptInvitation(c) ==
    /\ Present(c) /\ person[c].staff = "none"
    /\ person' = [person EXCEPT ![c].staff = "active"]
    /\ UNCHANGED <<requests, deliveries, asking, executor, faults>>
-----------------------------------------------------------------------------
(* The staff. *)

\* revoke_member.
RevokeMember(c) ==
    /\ person[c].staff = "active"
    /\ person' = [person EXCEPT ![c].staff = "revoked"]
    /\ UNCHANGED <<requests, deliveries, asking, executor, faults>>

\* start_review, approve and reject.
Decide(r, to) ==
    /\ ~Locked(r) /\ to \in {"in_review", "approved", "rejected"}
    /\ Allowed(requests[r].status, to)
    /\ requests' = [requests EXCEPT ![r] = Moved(@, to)]
    /\ UNCHANGED <<person, deliveries, asking, executor, faults>>

\* retry_failed, by the bootstrap owner.
RetryFailed(r) ==
    /\ ~Locked(r) /\ Is(r, "failed")
    /\ requests' = [requests EXCEPT ![r] = [Moved(@, "approved") EXCEPT !.attempts = 0]]
    /\ UNCHANGED <<person, deliveries, asking, executor, faults>>
-----------------------------------------------------------------------------
(* An execution. *)

\* run_deletion_cycle lists what is approved or being processed ...
ListRequests(e) ==
    LET found == {r \in Requests : requests[r].status \in {"approved", "processing"}} IN
    /\ e \in Workers /\ executor[e] = Ready /\ found # {}
    /\ Goes(e, [Ready EXCEPT !.queue = found])
    /\ UNCHANGED <<requests, person, deliveries, asking, faults>>

\* ... and an administrator chooses a request, as an old message shows it.
ChooseRequest(e, r) ==
    /\ e \in Handlers /\ executor[e] = Ready /\ ~Is(r, "absent")
    /\ Goes(e, [Ready EXCEPT !.queue = {r}])
    /\ UNCHANGED <<requests, person, deliveries, asking, faults>>

\* Variant: whoever holds a request holds it for good.
StaleNever(r) == FALSE
Stale(r) == Is(r, "processing") /\ ~requests[r].leased
\* Variant: one attempt too many.
ExhaustedLate(r) == requests[r].attempts > MaxAttempts
Exhausted(r) == requests[r].attempts >= MaxAttempts

Startable(r) == Is(r, "approved") \/ (Stale(r) /\ ~Exhausted(r))

\* _claim_anonymization, under the lock of the request.  A stale claim goes through
\* "failed" back to "approved" in the same transaction.
Take(e, r) ==
    LET rest == [executor[e] EXCEPT !.queue = @ \ {r}] IN
    /\ At(e, "ready") /\ r \in executor[e].queue /\ ~Locked(r)
    /\ \/ Startable(r)
          /\ Goes(e, [rest EXCEPT !.at = "claim", !.req = r]) /\ UNCHANGED requests
       \/ Stale(r) /\ Exhausted(r)
          /\ Goes(e, rest) /\ requests' = [requests EXCEPT ![r] = Moved(@, "failed")]
       \/ requests[r].status \in {"completed", "failed", "processing"} /\ ~Stale(r)
          /\ Goes(e, rest) /\ UNCHANGED requests
       \/ requests[r].status \in {"requested", "in_review", "rejected"}
          /\ Goes(e, Ready) /\ UNCHANGED requests
    /\ UNCHANGED <<person, deliveries, asking, faults>>

\* _claim_anonymization goes on under the lock of the person.
Claim(e) ==
    LET r == executor[e].req
        row == requests[r]
        blocked == person[r[1]].staff = "active" IN
    /\ At(e, "claim") /\ r[1] \notin asking
    /\ \/ blocked
          /\ requests' = [requests EXCEPT ![r] = Moved(Moved(row, "approved"), "in_review")]
          /\ Goes(e, Next1(e))
       \/ ~blocked /\ Exhausted(r)
          /\ requests' = [requests EXCEPT ![r] = Moved(row, "failed")]
          /\ Goes(e, Next1(e))
       \/ ~blocked /\ ~Exhausted(r)
          /\ requests' = [requests EXCEPT ![r] = Claimed(row, e)]
          /\ Goes(e, [executor[e] EXCEPT !.at = "run"])
    /\ UNCHANGED <<person, deliveries, asking, faults>>

\* The claim fails, and with it the rest of the cycle.
ClaimFails(e) ==
    /\ At(e, "claim") /\ executor[e].req[1] \in asking
    /\ Goes(e, Ready)
    /\ UNCHANGED <<requests, person, deliveries, asking, faults>>

Owns(e) == Is(executor[e].req, "processing") /\ requests[executor[e].req].by = e

\* _run_claimed_anonymization, up to the lock of the request.
Start(e) ==
    LET r == executor[e].req IN
    /\ At(e, "run") /\ ~Locked(r)
    /\ \/ Is(r, "completed") /\ Goes(e, Next1(e))
       \/ Owns(e) /\ Goes(e, [executor[e] EXCEPT !.at = "write"])
       \/ ~Is(r, "completed") /\ ~Owns(e) /\ Goes(e, [executor[e] EXCEPT !.at = "fail"])
    /\ UNCHANGED <<requests, person, deliveries, asking, faults>>

\* Variant: what a worker is sending is left to the worker.
CancelledDeliveryWaiting(c) == IF delivery[c] = "pending" THEN "cancelled" ELSE delivery[c]
CancelledDelivery(c) ==
    IF delivery[c] \in {"pending", "processing"} THEN "cancelled" ELSE delivery[c]
\* Variant: only marketing is withdrawn.
AnonymizedOfMarketing(c) ==
    [gone |-> TRUE, staff |-> person[c].staff, consents |-> person[c].consents \ {"marketing"}]
\* revoke_active_consents and anonymize_client_data; only a revoked membership is
\* unlinked.
Anonymized(c) ==
    [gone |-> TRUE, staff |-> IF person[c].staff = "revoked" THEN "none" ELSE person[c].staff,
     consents |-> {}]

\* ... and on: everything is written and committed at once.
Write(e) ==
    LET r == executor[e].req
        c == r[1] IN
    /\ At(e, "write") /\ c \notin asking
    /\ Allowed(requests[r].status, "completed")
    /\ requests' = [requests EXCEPT ![r] = Moved(@, "completed")]
    /\ person' = [person EXCEPT ![c] = Anonymized(c)]
    /\ delivery' = [delivery EXCEPT ![c] = CancelledDelivery(c)]
    /\ Goes(e, Next1(e))
    /\ UNCHANGED <<sender, asking, faults>>

\* The transaction is rolled back: by an error, or because it waits for the person.
WriteFails(e) ==
    LET waits == executor[e].req[1] \in asking IN
    /\ At(e, "write")
    /\ ~waits => faults < MaxFaults
    /\ Goes(e, [executor[e] EXCEPT !.at = "fail"])
    /\ faults' = IF waits THEN faults ELSE faults + 1
    /\ UNCHANGED <<requests, person, deliveries, asking>>

\* _record_execution_failure.
RecordFailure(e) ==
    LET r == executor[e].req IN
    /\ At(e, "fail") /\ ~Locked(r)
    /\ requests' = IF ~Owns(e) THEN requests
                   ELSE [requests EXCEPT ![r] =
                            Moved(@, IF Exhausted(r) THEN "failed" ELSE "approved")]
    /\ Goes(e, Next1(e))
    /\ UNCHANGED <<person, deliveries, asking, faults>>

\* The process dies; its locks are released and its claim stays.
Crash(e) ==
    /\ executor[e] # Ready /\ faults < MaxFaults
    /\ Goes(e, Ready) /\ faults' = faults + 1
    /\ UNCHANGED <<requests, person, deliveries, asking>>

Works(e) == \/ ListRequests(e) \/ Claim(e) \/ Start(e) \/ Write(e) \/ RecordFailure(e)
            \/ \E r \in Requests : Take(e, r)
-----------------------------------------------------------------------------
(* Reminders, as far as they meet an anonymisation, and time. *)

\* A booking, or the rebuild of the reminders, which may have read the client before
\* he was anonymised; that counts as a fault.
StoreDelivery(c) ==
    /\ delivery[c] \in {"none", "cancelled"}
    /\ person[c].gone => faults < MaxFaults
    /\ delivery' = [delivery EXCEPT ![c] = "pending"]
    /\ faults' = IF person[c].gone THEN faults + 1 ELSE faults
    /\ UNCHANGED <<requests, person, sender, asking, executor>>

\* prepare_delivery: an anonymised user is blocked.
StillReachable(c) == ~person[c].gone

Prepare(c) ==
    /\ sender = None /\ delivery[c] = "pending"
    /\ delivery' = [delivery EXCEPT ![c] = IF StillReachable(c) THEN "processing"
                                           ELSE "cancelled"]
    /\ sender' = IF StillReachable(c) THEN c ELSE None
    /\ UNCHANGED <<requests, person, asking, executor, faults>>

\* The message is sent, and recorded if the row is still the sender's (mark_sent).
RecordSent ==
    /\ sender # None
    /\ delivery' = IF delivery[sender] = "processing"
                     THEN [delivery EXCEPT ![sender] = "sent"] ELSE delivery
    /\ sender' = None
    /\ UNCHANGED <<requests, person, asking, executor, faults>>

\* The lease of a claim ends; that of an execution that still works is a fault.
LeaseEnds(r) ==
    LET e == requests[r].by
        slow == e # None /\ executor[e].req = r IN
    /\ Is(r, "processing") /\ requests[r].leased
    /\ slow => faults < MaxFaults
    /\ requests' = [requests EXCEPT ![r].leased = FALSE]
    /\ faults' = IF slow THEN faults + 1 ELSE faults
    /\ UNCHANGED <<person, deliveries, asking, executor>>
-----------------------------------------------------------------------------
Init ==
    /\ requests = [r \in Requests |-> Absent]
    /\ person = [c \in Clients |-> [gone |-> FALSE, staff |-> "none", consents |-> {}]]
    /\ delivery = [c \in Clients |-> "none"] /\ sender = None
    /\ asking = {}
    /\ executor = [e \in Executors |-> Ready]
    /\ faults = 0

Visits(c) == \/ StartAsking(c) \/ Ask(c) \/ AskFails(c)
             \/ \E consent \in Consents : Consent(c, consent)
             \/ AcceptInvitation(c) \/ RevokeMember(c)
             \/ StoreDelivery(c) \/ Prepare(c)
Decisions(r) == RetryFailed(r) \/ \E to \in {"in_review", "approved", "rejected"} : Decide(r, to)

Next ==
    \/ \E c \in Clients : Visits(c)
    \/ \E r \in Requests : Decisions(r) \/ LeaseEnds(r)
    \/ \E e \in Executors : \/ Works(e) \/ ClaimFails(e) \/ WriteFails(e) \/ Crash(e)
                             \/ \E r \in Requests : ChooseRequest(e, r)
    \/ RecordSent

Spec == Init /\ [][Next]_vars

\* The processes go on, leases end, and every transaction ends with its commit or with
\* the lock timeout.
FairSpec ==
    /\ Spec
    /\ \A e \in Executors : WF_vars(Works(e))
    /\ \A c \in Clients : WF_vars(Ask(c) \/ AskFails(c))
    /\ \A r \in Requests : WF_vars(LeaseEnds(r))
-----------------------------------------------------------------------------
(* Properties. *)

TypeOK ==
    /\ requests \in [Requests -> Request]
    /\ person \in [Clients -> Person]
    /\ delivery \in [Clients -> {"none", "pending", "processing", "sent", "cancelled"}]
    /\ sender \in Clients \cup {None}
    /\ asking \subseteq Clients
    /\ executor \in [Executors -> [at: {"ready", "claim", "run", "write", "fail"},
                                    queue: SUBSET Requests, req: Requests \cup {None}]]
    /\ faults \in 0..MaxFaults

\* A client has one open request, however often he asks and whatever his earlier
\* requests have become (request, uq_data_deletion_requests_open_client).
OneOpenRequest ==
    \A c \in Clients, r, s \in Requests :
        r \in Of(c) /\ s \in Of(c) /\ requests[r].status \in OpenStatus
            /\ requests[s].status \in OpenStatus => r = s

\* Who is anonymised asked for it and was not refused: that request is completed, no
\* other of his is open, and nobody else is completed (_run_claimed_anonymization).
AnonymizedOnRequest ==
    \A c \in Clients :
        /\ person[c].gone <=> \E r \in Of(c) : Is(r, "completed")
        /\ person[c].gone => \A r \in Of(c) : requests[r].status \notin OpenStatus

\* A rejected or a completed request stays so, also when an execution of it, or a
\* decision made from an old message, is still on its way.
ClosedIsFinal ==
    [][\A r \in Requests : requests[r].status \in Closed =>
        requests'[r].status = requests[r].status]_vars

\* No consent outlives an anonymisation, also one that the client gave again after he
\* had asked for it (revoke_active_consents).
NoConsentLeft == \A c \in Clients : person[c].gone => person[c].consents = {}

\* A reminder that a worker was sending is not recorded as sent any more, and one
\* stored later is never prepared.
NothingSentAfterwards ==
    [][\A c \in Clients : person[c].gone /\ delivery'[c] \in {"processing", "sent"} =>
        delivery'[c] = delivery[c]]_vars

\* An approved request does not stay approved or in processing for ever, although
\* workers die, lose deadlocks or lose their claims.
ApprovedSettles ==
    \A r \in Requests : Is(r, "approved") \/ Is(r, "processing")
        ~> ~(Is(r, "approved") \/ Is(r, "processing"))

\* Whoever works for the business keeps his account: the blockers of an anonymisation
\* are looked for when it is claimed (anonymization_blockers).
StaffKeepTheirAccount == \A c \in Clients : person[c].staff = "active" => ~person[c].gone
=============================================================================
