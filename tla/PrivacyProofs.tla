--------------------------- MODULE PrivacyProofs ---------------------------
(***************************************************************************)
(* Proofs about module Privacy, for any number of clients, requests,      *)
(* workers and administrators: its types, that a client has one open       *)
(* request, that who is anonymised asked for it and is left with neither a *)
(* consent nor a message, and that a closed request stays closed.          *)
(*                                                                         *)
(* The argument is about the lock of a request (LocksHeld): one executor   *)
(* at a time is in the middle of a transaction on it, and the status it    *)
(* has read under the lock is still the one in the table when it writes.   *)
(***************************************************************************)
EXTENDS Privacy, TLAPS

USE PrivacyAssumption

Executor == [at: {"ready", "claim", "run", "write", "fail"},
             queue: SUBSET Requests, req: Requests \cup {None}]
\* An executor that has begun has a request.
BusyHasRequest == \A e \in Executors : executor[e].at # "ready" => executor[e].req \in Requests
Typed == TypeOK /\ BusyHasRequest

\* The executor is in a transaction that holds the lock of its request.
Holds(e) == At(e, "claim") \/ At(e, "write")
-----------------------------------------------------------------------------
(* The values the model is built from. *)

\* A request belongs to a client.
LEMMA RequestTyped ==
  /\ \A r \in Requests : r[1] \in Clients /\ r \in Of(r[1])
  /\ \A c \in Clients : \A r \in Of(c) : r \in Requests /\ r[1] = c
  /\ \A c \in Clients, n \in 1..MaxRequests : <<c, n>> \in Of(c)
  BY DEF Requests, Of

\* What a transition makes of a row.
LEMMA MovedTyped ==
  ASSUME NEW row \in Request, NEW to \in OpenStatus \cup Closed
  PROVE  /\ Moved(row, to) \in Request
         /\ Moved(row, to).status = to /\ Moved(row, to).attempts = row.attempts
  BY DEF Moved, Request, OpenStatus, Closed

\* What a claim makes of a row.
LEMMA ClaimedTyped ==
  ASSUME NEW row \in Request, NEW e \in Executors, ~(row.attempts >= MaxAttempts)
  PROVE  /\ Claimed(row, e) \in Request
         /\ Claimed(row, e).status = "processing" /\ Claimed(row, e).by = e
  <1>1. row.attempts + 1 \in 0..MaxAttempts
    BY DEF Request
  <1> QED BY <1>1 DEF Claimed, Request, OpenStatus

\* An executor goes to a state, and the others stay where they are.
LEMMA GoesTyped ==
  ASSUME executor \in [Executors -> Executor], NEW e \in Executors, NEW x, Goes(e, x)
  PROVE  /\ executor'[e] = x
         /\ \A f \in Executors \ {e} : executor'[f] = executor[f]
         /\ x \in Executor => executor' \in [Executors -> Executor]
  BY DEF Goes

\* The states an executor goes to.
LEMMA ReadyTyped ==
  /\ Ready \in Executor /\ Ready.at = "ready"
  /\ \A Q \in SUBSET Requests : /\ [Ready EXCEPT !.queue = Q] \in Executor
                                /\ [Ready EXCEPT !.queue = Q].at = "ready"
  BY DEF Ready, Executor

\* The states of an executor between two requests, and inside one.
LEMMA NextTyped ==
  ASSUME executor \in [Executors -> Executor], NEW e \in Executors
  PROVE  /\ Next1(e) \in Executor /\ Next1(e).at = "ready"
         /\ \A a \in {"run", "write", "fail"} :
              /\ [executor[e] EXCEPT !.at = a] \in Executor
              /\ [executor[e] EXCEPT !.at = a].at = a
              /\ [executor[e] EXCEPT !.at = a].req = executor[e].req
         /\ \A r \in Requests :
              /\ [executor[e] EXCEPT !.queue = @ \ {r}] \in Executor
              /\ [executor[e] EXCEPT !.queue = @ \ {r}].at = executor[e].at
  BY DEF Next1, Executor

\* The state of an executor that takes a request from its queue.
LEMMA TakenTyped ==
  ASSUME executor \in [Executors -> Executor], NEW e \in Executors, NEW r \in Requests
  PROVE  LET x == [[executor[e] EXCEPT !.queue = @ \ {r}] EXCEPT !.at = "claim", !.req = r]
         IN  x \in Executor /\ x.at = "claim" /\ x.req = r
  BY DEF Executor
-----------------------------------------------------------------------------
(* What the steps do to requests and executors. *)

\* The steps of clients and staff, of the reminder worker and of time.
Outside ==
  \/ \E c \in Clients : Visits(c)
  \/ \E r \in Requests : Decisions(r) \/ LeaseEnds(r)
  \/ RecordSent
\* The steps of an executor.
Executes(e) ==
  \/ Works(e) \/ ClaimFails(e) \/ WriteFails(e) \/ Crash(e)
  \/ \E r \in Requests : ChooseRequest(e, r)

\* Every step comes from outside or is one of an executor.
LEMMA Steps == Next <=> Outside \/ \E e \in Executors : Executes(e)
  BY DEF Next, Outside, Executes

\* From outside, a request is stored, decided on while nobody locks it, or its lease
\* ends.
LEMMA OutsideEffects ==
  ASSUME Typed, Outside
  PROVE  /\ executor' = executor
         /\ \/ requests' = requests
            \/ \E c \in Clients : \E r \in Of(c), row \in Request :
                  /\ Ask(c) /\ OpenOf(c) = {} /\ Is(r, "absent")
                  /\ row.status = "requested" /\ requests' = [requests EXCEPT ![r] = row]
            \/ \E r \in Requests, row \in Request :
                  /\ ~Locked(r) /\ requests[r].status \in OpenStatus
                  /\ row.status \in (OpenStatus \cup Closed) \ {"completed"}
                  /\ requests' = [requests EXCEPT ![r] = row]
            \/ \E r \in Requests, row \in Request :
                  /\ Is(r, "processing") /\ row.status = requests[r].status
                  /\ row.by = requests[r].by
                  /\ requests' = [requests EXCEPT ![r] = row]
  <1> USE DEF Typed, TypeOK
  <1>1. ASSUME NEW c \in Clients, Ask(c)
        PROVE  \/ executor' = executor /\ requests' = requests
               \/ /\ executor' = executor
                  /\ \E r \in Of(c), row \in Request :
                        /\ OpenOf(c) = {} /\ Is(r, "absent") /\ row.status = "requested"
                        /\ requests' = [requests EXCEPT ![r] = row]
    <2>1. CASE requests' = requests
      BY <1>1, <2>1 DEF Ask
    <2>2. CASE requests' # requests
      <3>1. PICK n \in 1..MaxRequests :
              /\ Is(<<c, n>>, "absent")
              /\ requests' = [requests EXCEPT ![<<c, n>>].status = "requested"]
        BY <1>1, <2>2 DEF Ask
      <3>2. OpenOf(c) = {} /\ executor' = executor
        BY <1>1, <2>2 DEF Ask
      <3> DEFINE row == [requests[<<c, n>>] EXCEPT !.status = "requested"]
      <3>3. <<c, n>> \in Of(c) /\ <<c, n>> \in Requests
        BY DEF Of, Requests
      <3>4. row \in Request /\ row.status = "requested"
        BY <3>3 DEF Request, OpenStatus
      <3>5. requests' = [requests EXCEPT ![<<c, n>>] = row]
        BY <3>1
      <3> QED BY <3>1, <3>2, <3>3, <3>4, <3>5
    <2> QED BY <2>1, <2>2
  <1>2. ASSUME NEW c \in Clients, Visits(c), ~Ask(c)
        PROVE  executor' = executor /\ requests' = requests
    BY <1>2 DEF Visits, StartAsking, AskFails, Consent, AcceptInvitation, RevokeMember,
                StoreDelivery, Prepare
  <1>3. ASSUME NEW r \in Requests, Decisions(r)
        PROVE  /\ executor' = executor
               /\ \E row \in Request :
                     /\ ~Locked(r) /\ requests[r].status \in OpenStatus
                     /\ row.status \in (OpenStatus \cup Closed) \ {"completed"}
                     /\ requests' = [requests EXCEPT ![r] = row]
    <2>1. ASSUME NEW to \in {"in_review", "approved", "rejected"}, Decide(r, to)
          PROVE  /\ executor' = executor /\ ~Locked(r) /\ requests[r].status \in OpenStatus
                 /\ requests' = [requests EXCEPT ![r] = Moved(requests[r], to)]
      BY <2>1 DEF Decide, Allowed, OpenStatus
    <2>2. ASSUME NEW to \in {"in_review", "approved", "rejected"}
          PROVE  /\ Moved(requests[r], to) \in Request
                 /\ Moved(requests[r], to).status = to
                 /\ to \in (OpenStatus \cup Closed) \ {"completed"}
      BY MovedTyped DEF OpenStatus, Closed
    <2>3. CASE RetryFailed(r)
      <3> DEFINE row == [Moved(requests[r], "approved") EXCEPT !.attempts = 0]
      <3>1. row \in Request /\ row.status = "approved"
        BY <2>2 DEF Request
      <3>2. /\ executor' = executor /\ ~Locked(r) /\ requests[r].status \in OpenStatus
            /\ requests' = [requests EXCEPT ![r] = row]
        BY <2>3 DEF RetryFailed, Is, OpenStatus
      <3> QED BY <3>1, <3>2 DEF OpenStatus
    <2>4. CASE \E to \in {"in_review", "approved", "rejected"} : Decide(r, to)
      BY <2>1, <2>2, <2>4
    <2> QED BY <1>3, <2>3, <2>4 DEF Decisions
  <1>4. ASSUME NEW r \in Requests, LeaseEnds(r)
        PROVE  /\ executor' = executor
               /\ \E row \in Request :
                     /\ Is(r, "processing") /\ row.status = requests[r].status
                     /\ row.by = requests[r].by
                     /\ requests' = [requests EXCEPT ![r] = row]
    <2> DEFINE row == [requests[r] EXCEPT !.leased = FALSE]
    <2>0. requests[r] \in Request
      OBVIOUS
    <2>1. row \in Request /\ row.status = requests[r].status /\ row.by = requests[r].by
      BY <2>0 DEF Request
    <2>2. Is(r, "processing") /\ executor' = executor /\ requests' = [requests EXCEPT ![r] = row]
      BY <1>4 DEF LeaseEnds
    <2> QED BY <2>1, <2>2
  <1>5. RecordSent => executor' = executor /\ requests' = requests
    BY DEF RecordSent
  <1> HIDE DEF Typed, TypeOK
  <1> QED
    <2>1. CASE \E c \in Clients : Ask(c)
      BY <1>1, <2>1
    <2>2. CASE \E c \in Clients : Visits(c) /\ ~Ask(c)
      BY <1>2, <2>2
    <2>3. CASE \E r \in Requests : Decisions(r)
      BY <1>3, <2>3
    <2>4. CASE \E r \in Requests : LeaseEnds(r)
      BY <1>4, <2>4
    <2> QED BY <1>5, <2>1, <2>2, <2>3, <2>4 DEF Outside

\* What the executor does with requests and locks: it enters a transaction and holds
\* the lock of its request, or it is in none when the step is done.
Enters(e) ==
  /\ requests' = requests /\ executor'[e].at \in {"claim", "write"}
  /\ executor'[e].req \in Requests /\ ~Locked(executor'[e].req)
  /\ executor'[e].at = "claim" =>
        requests[executor'[e].req].status \in {"approved", "processing"}
  /\ executor'[e].at = "write" => /\ Is(executor'[e].req, "processing")
                                 /\ requests[executor'[e].req].by = e
Leaves(e) ==
  /\ executor'[e].at \notin {"claim", "write"}
  /\ \/ requests' = requests
     \/ \E r \in Requests, row \in Request :
           /\ requests[r].status \in OpenStatus /\ requests' = [requests EXCEPT ![r] = row]
           /\ \/ row.status \in OpenStatus /\ ~Locked(r)
              \/ row.status \in OpenStatus /\ At(e, "claim") /\ executor[e].req = r
              \/ row.status = "completed" /\ Write(e) /\ executor[e].req = r

\* The request an executor works on.
LEMMA BusyTyped ==
  ASSUME Typed, NEW e \in Executors
  PROVE  /\ executor[e] \in Executor /\ executor \in [Executors -> Executor]
         /\ executor[e].at # "ready" => executor[e].req \in Requests
         /\ \A r \in Requests : requests[r] \in Request
         /\ requests \in [Requests -> Request]
  BY DEF Typed, TypeOK, BusyHasRequest, Executor

LocksHeld ==
  /\ \A e, f \in Executors :
        Holds(e) /\ Holds(f) /\ executor[e].req = executor[f].req => e = f
  /\ \A e \in Executors :
        /\ At(e, "claim") => requests[executor[e].req].status \in {"approved", "processing"}
        /\ At(e, "write") => Owns(e)

\* An executor changes one request at most, and only under its lock.
LEMMA ExecutorEffects ==
  ASSUME Typed, LocksHeld, NEW e \in Executors, Executes(e)
  PROVE  /\ executor' \in [Executors -> Executor]
         /\ executor'[e].at # "ready" => executor'[e].req \in Requests
         /\ \A f \in Executors \ {e} : executor'[f] = executor[f]
         /\ Enters(e) \/ Leaves(e)
  <1> USE BusyTyped
  <1> DEFINE Good == /\ executor' \in [Executors -> Executor]
                     /\ executor'[e].at # "ready" => executor'[e].req \in Requests
                     /\ \A f \in Executors \ {e} : executor'[f] = executor[f]
                     /\ Enters(e) \/ Leaves(e)
  <1>1. ASSUME NEW x \in Executor, Goes(e, x), x.at \notin {"claim", "write"},
               x.at # "ready" => x.req \in Requests,
               \/ requests' = requests
               \/ \E r \in Requests, row \in Request :
                     /\ requests[r].status \in OpenStatus
                     /\ requests' = [requests EXCEPT ![r] = row]
                     /\ \/ row.status \in OpenStatus /\ ~Locked(r)
                        \/ row.status \in OpenStatus /\ At(e, "claim") /\ executor[e].req = r
                        \/ row.status = "completed" /\ Write(e) /\ executor[e].req = r
        PROVE  Good
    BY <1>1, GoesTyped DEF Leaves
  <1>2. ASSUME NEW x \in Executor, Goes(e, x), requests' = requests,
               x.at \in {"claim", "write"}, x.req \in Requests, ~Locked(x.req),
               x.at = "claim" => requests[x.req].status \in {"approved", "processing"},
               x.at = "write" => Is(x.req, "processing") /\ requests[x.req].by = e
        PROVE  Good
    BY <1>2, GoesTyped DEF Enters
  <1>3. CASE ListRequests(e) \/ (\E r \in Requests : ChooseRequest(e, r))
    <2> DEFINE found == {r \in Requests : requests[r].status \in {"approved", "processing"}}
    <2>1. CASE ListRequests(e)
      <3>1. Goes(e, [Ready EXCEPT !.queue = found]) /\ requests' = requests
        BY <2>1 DEF ListRequests
      <3>2. found \in SUBSET Requests
        OBVIOUS
      <3> HIDE DEF found
      <3> QED BY <3>1, <3>2, <1>1, ReadyTyped
    <2>2. ASSUME NEW r \in Requests, ChooseRequest(e, r)
          PROVE  Good
      <3>1. Goes(e, [Ready EXCEPT !.queue = {r}]) /\ requests' = requests
        BY <2>2 DEF ChooseRequest
      <3>2. {r} \in SUBSET Requests
        OBVIOUS
      <3> QED BY <3>1, <3>2, <1>1, ReadyTyped
    <2> QED BY <1>3, <2>1, <2>2
  <1>4. CASE ClaimFails(e) \/ Crash(e)
    <2>1. Goes(e, Ready) /\ requests' = requests
      BY <1>4 DEF ClaimFails, Crash
    <2> QED BY <2>1, <1>1, ReadyTyped
  <1>5. CASE WriteFails(e)
    <2>1. /\ Goes(e, [executor[e] EXCEPT !.at = "fail"]) /\ requests' = requests
          /\ executor[e].at # "ready"
      BY <1>5 DEF WriteFails, At
    <2> QED BY <2>1, <1>1, NextTyped
  <1>6. ASSUME NEW r \in Requests, Take(e, r)
        PROVE  Good
    <2> DEFINE rest == [executor[e] EXCEPT !.queue = @ \ {r}]
    <2>1. /\ rest \in Executor /\ rest.at = "ready" /\ ~Locked(r)
      BY <1>6, NextTyped DEF Take, At
    <2>2. CASE Startable(r) /\ Goes(e, [rest EXCEPT !.at = "claim", !.req = r])
               /\ requests' = requests
      <3>1. requests[r].status \in {"approved", "processing"}
        BY <2>2 DEF Startable, Stale, Is
      <3> QED BY <2>1, <2>2, <3>1, <1>2, TakenTyped
    <2>3. CASE Stale(r) /\ Goes(e, rest)
               /\ requests' = [requests EXCEPT ![r] = Moved(requests[r], "failed")]
      <3>1. requests[r].status \in OpenStatus
        BY <2>3 DEF Stale, Is, OpenStatus
      <3>2. /\ Moved(requests[r], "failed") \in Request
            /\ Moved(requests[r], "failed").status \in OpenStatus
        BY MovedTyped DEF OpenStatus
      <3> QED BY <2>1, <2>3, <3>1, <3>2, <1>1
    <2>4. CASE (Goes(e, rest) \/ Goes(e, Ready)) /\ requests' = requests
      BY <2>1, <2>4, <1>1, ReadyTyped
    <2> QED BY <1>6, <2>2, <2>3, <2>4 DEF Take
  <1>7. CASE Claim(e)
    <2> DEFINE r == executor[e].req
    <2>1. r \in Requests /\ At(e, "claim") /\ requests[r].status \in OpenStatus
      BY <1>7 DEF Claim, At, LocksHeld, OpenStatus
    <2>2. PICK to \in {"in_review", "failed"}, row0 \in Request :
              /\ Goes(e, Next1(e)) /\ requests' = [requests EXCEPT ![r] = Moved(row0, to)]
          \/ /\ ~Exhausted(r) /\ Goes(e, [executor[e] EXCEPT !.at = "run"])
             /\ requests' = [requests EXCEPT ![r] = Claimed(requests[r], e)]
      <3>1. Moved(requests[r], "approved") \in Request
        BY <2>1, MovedTyped DEF OpenStatus
      <3> QED BY <1>7, <2>1, <3>1, ZenonT(60) DEF Claim
    <2>3. CASE Goes(e, Next1(e)) /\ requests' = [requests EXCEPT ![r] = Moved(row0, to)]
      <3>1. Moved(row0, to) \in Request /\ Moved(row0, to).status \in OpenStatus
        BY MovedTyped DEF OpenStatus
      <3> QED BY <2>1, <2>3, <3>1, <1>1, NextTyped
    <2>4. CASE /\ ~Exhausted(r) /\ Goes(e, [executor[e] EXCEPT !.at = "run"])
               /\ requests' = [requests EXCEPT ![r] = Claimed(requests[r], e)]
      <3>1. /\ Claimed(requests[r], e) \in Request
            /\ Claimed(requests[r], e).status \in OpenStatus
        BY <2>1, <2>4, ClaimedTyped DEF OpenStatus, Exhausted
      <3> QED BY <2>1, <2>4, <3>1, <1>1, NextTyped
    <2> QED BY <2>2, <2>3, <2>4
  <1>8. CASE Start(e)
    <2> DEFINE r == executor[e].req
    <2>1. /\ r \in Requests /\ ~Locked(r) /\ requests' = requests
          /\ \/ Goes(e, Next1(e))
             \/ Owns(e) /\ Goes(e, [executor[e] EXCEPT !.at = "write"])
             \/ Goes(e, [executor[e] EXCEPT !.at = "fail"])
      BY <1>8 DEF Start, At
    <2>2. CASE Owns(e) /\ Goes(e, [executor[e] EXCEPT !.at = "write"])
      BY <2>1, <2>2, <1>2, NextTyped DEF Owns
    <2>3. CASE Goes(e, Next1(e)) \/ Goes(e, [executor[e] EXCEPT !.at = "fail"])
      BY <2>1, <2>3, <1>1, NextTyped
    <2> QED BY <2>1, <2>2, <2>3
  <1>9. CASE Write(e)
    <2> DEFINE r == executor[e].req
    <2>1. /\ r \in Requests /\ Goes(e, Next1(e)) /\ requests[r].status \in OpenStatus
          /\ requests' = [requests EXCEPT ![r] = Moved(requests[r], "completed")]
      BY <1>9 DEF Write, At, LocksHeld, Owns, Is, OpenStatus
    <2>2. /\ Moved(requests[r], "completed") \in Request
          /\ Moved(requests[r], "completed").status = "completed"
      BY <2>1, MovedTyped DEF Closed
    <2> QED BY <1>9, <2>1, <2>2, <1>1, NextTyped
  <1>10. CASE RecordFailure(e)
    <2> DEFINE r == executor[e].req
    <2>1. r \in Requests /\ ~Locked(r) /\ Goes(e, Next1(e))
      BY <1>10 DEF RecordFailure, At
    <2>2. CASE requests' = requests
      BY <2>1, <2>2, <1>1, NextTyped
    <2>3. CASE requests' # requests
      <3>1. PICK to \in {"failed", "approved"} :
              /\ requests[r].status \in OpenStatus
              /\ requests' = [requests EXCEPT ![r] = Moved(requests[r], to)]
        BY <1>10, <2>3 DEF RecordFailure, Owns, Is, OpenStatus
      <3>2. Moved(requests[r], to) \in Request /\ Moved(requests[r], to).status \in OpenStatus
        BY <2>1, MovedTyped DEF OpenStatus
      <3> QED BY <2>1, <3>1, <3>2, <1>1, NextTyped
    <2> QED BY <2>2, <2>3
  <1> QED BY <1>3, <1>4, <1>5, <1>6, <1>7, <1>8, <1>9, <1>10 DEF Executes, Works
-----------------------------------------------------------------------------
(* Types and locks. *)

\* A step keeps the locks exclusive, and what was read under them true.
LEMMA LocksNext ==
  ASSUME Typed, LocksHeld, [Next]_vars
  PROVE  LocksHeld'
  <1> USE BusyTyped
  <1>1. ASSUME executor' = executor,
               \A r \in Requests : Locked(r) => /\ requests'[r].status = requests[r].status
                                                /\ requests'[r].by = requests[r].by
        PROVE  LocksHeld'
    <2>1. \A e \in Executors : Holds(e) => executor[e].req \in Requests /\ Locked(executor[e].req)
      BY DEF Holds, At, Locked
    <2> QED BY <1>1, <2>1 DEF LocksHeld, Holds, At, Owns, Is
  <1>2. CASE Outside
    <2>1. executor' = executor
      BY <1>2, OutsideEffects
    <2>2. \A r \in Requests : Locked(r) => requests[r].status \in {"approved", "processing"}
      BY DEF Locked, LocksHeld, At, Owns, Is
    <2>3. \A r \in Requests : Locked(r) => /\ requests'[r].status = requests[r].status
                                           /\ requests'[r].by = requests[r].by
      <3>1. CASE requests' = requests
        BY <3>1
      <3>2. ASSUME NEW r \in Requests, NEW row \in Request,
                   requests' = [requests EXCEPT ![r] = row],
                   \/ ~Locked(r)
                   \/ row.status = requests[r].status /\ row.by = requests[r].by
            PROVE  \A s \in Requests : Locked(s) => /\ requests'[s].status = requests[s].status
                                                    /\ requests'[s].by = requests[s].by
        BY <3>2
      <3>3. \A r \in Requests : Is(r, "absent") => ~Locked(r)
        BY <2>2 DEF Is
      <3> QED BY <1>2, <3>1, <3>2, <3>3, OutsideEffects, RequestTyped
    <2> QED BY <1>1, <2>1, <2>3
  <1>3. ASSUME NEW e \in Executors, Executes(e)
        PROVE  LocksHeld'
    <2>1. /\ \A f \in Executors \ {e} : executor'[f] = executor[f]
          /\ Enters(e) \/ Leaves(e)
      BY <1>3, ExecutorEffects
    <2>2. \A f \in Executors : Holds(f) => executor[f].req \in Requests /\ Locked(executor[f].req)
      BY DEF Holds, At, Locked
    <2>3. CASE Enters(e)
      BY <2>1, <2>2, <2>3 DEF Enters, LocksHeld, Holds, At, Owns, Is
    <2>4. CASE Leaves(e)
      <3>1. ASSUME NEW f \in Executors \ {e}, Holds(f)
            PROVE  /\ requests'[executor[f].req] = requests[executor[f].req]
                   /\ executor'[f] = executor[f]
        <4>1. \A r \in Requests : executor[e].req = r /\ (At(e, "claim") \/ Write(e)) =>
                                  r # executor[f].req
          BY <3>1 DEF LocksHeld, Holds, Write
        <4> QED BY <2>1, <2>2, <2>4, <3>1, <4>1 DEF Leaves
      <3>2. ~Holds(e)'
        BY <2>4 DEF Leaves, Holds, At
      <3> QED BY <2>1, <3>1, <3>2 DEF LocksHeld, Holds, At, Owns, Is
    <2> QED BY <2>1, <2>3, <2>4
  <1>4. CASE UNCHANGED vars
    BY <1>1, <1>4 DEF vars
  <1> QED BY <1>2, <1>3, <1>4, Steps

\* The table of requests and the executors.
LEMMA TablesTyped ==
  ASSUME Typed, LocksHeld, [Next]_vars
  PROVE  /\ requests' \in [Requests -> Request]
         /\ executor' \in [Executors -> Executor]
         /\ BusyHasRequest'
  <1> USE BusyTyped
  <1>1. requests \in [Requests -> Request] /\ executor \in [Executors -> Executor]
        /\ BusyHasRequest
    BY DEF Typed, TypeOK, Executor
  <1>2. CASE Outside
    BY <1>1, <1>2, OutsideEffects, RequestTyped DEF BusyHasRequest
  <1>3. ASSUME NEW e \in Executors, Executes(e)
        PROVE  /\ requests' \in [Requests -> Request] /\ executor' \in [Executors -> Executor]
               /\ BusyHasRequest'
    BY <1>1, <1>3, ExecutorEffects DEF Enters, Leaves, BusyHasRequest
  <1>4. CASE UNCHANGED vars
    BY <1>1, <1>4 DEF vars, BusyHasRequest
  <1> QED BY <1>2, <1>3, <1>4, Steps

\* Clients, deliveries and the count of faults.
LEMMA PeopleTyped ==
  ASSUME Typed, [Next]_vars
  PROVE  /\ person' \in [Clients -> Person]
         /\ delivery' \in [Clients -> {"none", "pending", "processing", "sent", "cancelled"}]
         /\ sender' \in Clients \cup {None}
         /\ asking' \subseteq Clients
         /\ faults' \in 0..MaxFaults
  <1> DEFINE Good == /\ person' \in [Clients -> Person]
                     /\ delivery' \in [Clients -> {"none", "pending", "processing", "sent",
                                                   "cancelled"}]
                     /\ sender' \in Clients \cup {None}
                     /\ asking' \subseteq Clients
                     /\ faults' \in 0..MaxFaults
  <1> USE DEF Typed, TypeOK, deliveries
  <1>1. ASSUME NEW c \in Clients, Visits(c)
        PROVE  Good
    <2>1. /\ person[c] \in Person
          /\ \A C \in SUBSET Consents : [person[c] EXCEPT !.consents = C] \in Person
          /\ \A s \in {"none", "active", "revoked"} : [person[c] EXCEPT !.staff = s] \in Person
      BY DEF Person
    <2>2. CASE StartAsking(c) \/ AskFails(c)
      BY <2>2 DEF StartAsking, AskFails
    <2>3. CASE Ask(c)
      <3>1. person[c].consents \ {"marketing"} \in SUBSET Consents
        BY <2>1 DEF Person
      <3> QED BY <2>1, <2>3, <3>1 DEF Ask
    <2>4. ASSUME NEW consent \in Consents, Consent(c, consent)
          PROVE  Good
      <3>1. person[c].consents \cup {consent} \in SUBSET Consents
        BY <2>1 DEF Person
      <3> QED BY <2>1, <2>4, <3>1 DEF Consent
    <2>5. CASE AcceptInvitation(c) \/ RevokeMember(c)
      BY <2>1, <2>5 DEF AcceptInvitation, RevokeMember
    <2>6. CASE StoreDelivery(c) \/ Prepare(c)
      BY <2>6 DEF StoreDelivery, Prepare
    <2> QED BY <1>1, <2>2, <2>3, <2>4, <2>5, <2>6 DEF Visits
  <1>2. ASSUME NEW r \in Requests, Decisions(r) \/ LeaseEnds(r)
        PROVE  Good
    BY <1>2 DEF Decisions, RetryFailed, Decide, LeaseEnds
  <1>3. CASE RecordSent
    BY <1>3 DEF RecordSent
  <1>4. ASSUME NEW e \in Executors, Executes(e)
        PROVE  Good
    <2>1. CASE Write(e)
      <3> DEFINE c == executor[e].req[1]
      <3>1. c \in Clients
        BY <2>1, BusyTyped, RequestTyped DEF Write, At
      <3>2. Anonymized(c) \in Person
        BY <3>1 DEF Anonymized, Person
      <3>3. CancelledDelivery(c) \in {"none", "pending", "processing", "sent", "cancelled"}
        BY <3>1 DEF CancelledDelivery
      <3>4. /\ person' = [person EXCEPT ![c] = Anonymized(c)]
            /\ delivery' = [delivery EXCEPT ![c] = CancelledDelivery(c)]
            /\ UNCHANGED <<sender, asking, faults>>
        BY <2>1 DEF Write
      <3> HIDE DEF c
      <3> QED BY <3>1, <3>2, <3>3, <3>4
    <2>2. CASE WriteFails(e) \/ Crash(e)
      BY <2>2 DEF WriteFails, Crash
    <2>3. ASSUME NEW r \in Requests, Take(e, r) \/ ChooseRequest(e, r)
          PROVE  Good
      <3>1. UNCHANGED <<person, delivery, sender, asking, faults>>
        BY <2>3 DEF Take, ChooseRequest
      <3> QED BY <3>1
    <2>4. CASE ListRequests(e) \/ Claim(e) \/ Start(e) \/ RecordFailure(e) \/ ClaimFails(e)
      <3>1. UNCHANGED <<person, delivery, sender, asking, faults>>
        BY <2>4 DEF ListRequests, Claim, Start, RecordFailure, ClaimFails
      <3> QED BY <3>1
    <2> QED BY <1>4, <2>1, <2>2, <2>3, <2>4 DEF Executes, Works
  <1>5. CASE UNCHANGED vars
    BY <1>5 DEF vars
  <1> QED BY <1>1, <1>2, <1>3, <1>4, <1>5 DEF Next, Executes

\* Types, together with who holds which request and what he knows of it.
Sound == Typed /\ LocksHeld

\* Two executors are never in a transaction on one request, and the one that writes
\* still owns the claim (_run_claimed_anonymization).
THEOREM SoundAlways == Spec => []Sound
  <1>1. Init => Sound
    BY DEF Init, Sound, Typed, TypeOK, BusyHasRequest, LocksHeld, Absent, Request, Ready,
           Holds, At, Person, Requests
  <1>2. Sound /\ [Next]_vars => Sound'
    BY LocksNext, TablesTyped, PeopleTyped DEF Sound, Typed, TypeOK, Executor
  <1> QED BY <1>1, <1>2, PTL DEF Spec

\* Every state of a deletion is well typed, for any sets of clients and executors
\* (DataDeletionService, PrivacyDeletionRuntimeService).
THEOREM TypeCorrect == Spec => []TypeOK
  <1>1. Sound => TypeOK
    BY DEF Sound, Typed
  <1> QED BY <1>1, SoundAlways, PTL
-----------------------------------------------------------------------------
(* How a request moves. *)

\* A request is stored for a client who asks and has none open.
StoredFor(r, c) ==
  /\ r \in Of(c) /\ Is(r, "absent") /\ requests'[r].status = "requested"
  /\ c \in asking /\ OpenOf(c) = {}
  /\ \A s \in Requests \ {r} : requests'[s] = requests[s]

\* A request keeps its status, moves while it is open, is stored when the client has
\* none open, or is completed by the executor that writes.
LEMMA StatusMoves ==
  ASSUME Sound, [Next]_vars, NEW r \in Requests
  PROVE  \/ requests'[r].status = requests[r].status
         \/ /\ requests[r].status \in OpenStatus
            /\ requests'[r].status \in (OpenStatus \cup Closed) \ {"completed"}
         \/ \E c \in Clients : StoredFor(r, c)
         \/ /\ requests[r].status \in OpenStatus /\ requests'[r].status = "completed"
            /\ \E e \in Executors : Write(e) /\ executor[e].req = r
  <1> DEFINE Good == \/ requests'[r].status = requests[r].status
                     \/ /\ requests[r].status \in OpenStatus
                        /\ requests'[r].status \in (OpenStatus \cup Closed) \ {"completed"}
                     \/ \E c \in Clients : StoredFor(r, c)
                     \/ /\ requests[r].status \in OpenStatus /\ requests'[r].status = "completed"
                        /\ \E e \in Executors : Write(e) /\ executor[e].req = r
  <1> USE BusyTyped DEF Sound
  <1>1. CASE Outside
    <2>1. CASE requests' = requests
      BY <2>1
    <2>2. ASSUME NEW c \in Clients, NEW s \in Of(c), NEW row \in Request, Ask(c),
                 OpenOf(c) = {}, Is(s, "absent"), row.status = "requested",
                 requests' = [requests EXCEPT ![s] = row]
          PROVE  Good
      <3>1. s \in Requests /\ c \in asking
        BY <2>2, RequestTyped DEF Ask
      <3> QED BY <2>2, <3>1 DEF StoredFor
    <2>3. ASSUME NEW s \in Requests, NEW row \in Request,
                 requests' = [requests EXCEPT ![s] = row],
                 \/ row.status = requests[s].status
                 \/ /\ requests[s].status \in OpenStatus
                    /\ row.status \in (OpenStatus \cup Closed) \ {"completed"}
          PROVE  Good
      BY <2>3
    <2> QED BY <1>1, <2>1, <2>2, <2>3, OutsideEffects
  <1>2. ASSUME NEW e \in Executors, Executes(e)
        PROVE  Good
    <2>1. CASE requests' = requests
      BY <2>1
    <2>2. ASSUME NEW s \in Requests, NEW row \in Request,
                 requests[s].status \in OpenStatus, requests' = [requests EXCEPT ![s] = row],
                 \/ row.status \in OpenStatus
                 \/ row.status = "completed" /\ Write(e) /\ executor[e].req = s
          PROVE  Good
      BY <2>2 DEF OpenStatus
    <2> QED BY <1>2, <2>1, <2>2, ExecutorEffects DEF Enters, Leaves
  <1>3. CASE UNCHANGED vars
    BY <1>3 DEF vars
  <1> QED BY <1>1, <1>2, <1>3, Steps

\* A rejected or a completed request stays so, whoever still decides on it or executes
\* it from an old message, queue or claim (ensure_deletion_transition under the lock).
THEOREM ClosedStays == Spec => ClosedIsFinal
  <1>1. Sound /\ [Next]_vars => [\A r \in Requests : requests[r].status \in Closed =>
                                   requests'[r].status = requests[r].status]_vars
    <2> SUFFICES ASSUME Sound, [Next]_vars, NEW r \in Requests, requests[r].status \in Closed
                 PROVE  requests'[r].status = requests[r].status
      OBVIOUS
    <2> QED BY StatusMoves DEF StoredFor, Is, Closed, OpenStatus
  <1> QED BY <1>1, SoundAlways, PTL DEF Spec, ClosedIsFinal

\* A client has one open request: the lookup under the lock of the client is enough,
\* also for failed requests and for those that are being executed (request).
LEMMA OneOpenNext ==
  ASSUME Sound, OneOpenRequest, [Next]_vars
  PROVE  OneOpenRequest'
  <1> SUFFICES ASSUME NEW c \in Clients, NEW r \in Of(c), NEW s \in Of(c),
                      requests'[r].status \in OpenStatus, requests'[s].status \in OpenStatus
               PROVE  r = s
    BY RequestTyped DEF OneOpenRequest
  <1>1. r \in Requests /\ s \in Requests /\ r[1] = c /\ s[1] = c
    BY RequestTyped
  <1>2. \A t \in Of(c) : requests'[t].status \in OpenStatus =>
            requests[t].status \in OpenStatus \/ StoredFor(t, c)
    <2> SUFFICES ASSUME NEW t \in Of(c), requests'[t].status \in OpenStatus
                 PROVE  requests[t].status \in OpenStatus \/ StoredFor(t, c)
      OBVIOUS
    <2>1. t \in Requests /\ \A d \in Clients : t \in Of(d) => d = c
      BY RequestTyped
    <2> QED BY <2>1, StatusMoves DEF StoredFor, OpenStatus
  <1>3. CASE StoredFor(r, c) \/ StoredFor(s, c)
    BY <1>1, <1>2, <1>3 DEF StoredFor, OpenOf, Is, OpenStatus
  <1>4. CASE requests[r].status \in OpenStatus /\ requests[s].status \in OpenStatus
    BY <1>1, <1>4 DEF OneOpenRequest
  <1> QED BY <1>2, <1>3, <1>4

\* A client never has two requests that are still to be decided or executed (request).
THEOREM OneOpen == Spec => []OneOpenRequest
  <1>1. Init => OneOpenRequest
    BY DEF Init, OneOpenRequest, Absent, OpenStatus, Of, Requests
  <1> QED BY <1>1, OneOpenNext, SoundAlways, PTL DEF Spec
-----------------------------------------------------------------------------
(* How a client changes. *)

\* The client is anonymised by the executor that writes his request ...
WrittenBy(e, c) ==
  /\ Write(e) /\ executor[e].req[1] = c /\ c \notin asking /\ asking' = asking
  /\ person'[c] = Anonymized(c) /\ delivery'[c] = CancelledDelivery(c)
\* ... or stays who he is.
Stays(c) ==
  /\ person'[c].gone = person[c].gone
  /\ person'[c].consents \subseteq person[c].consents \/ ~person[c].gone
  /\ c \in asking' => c \in asking \/ ~person[c].gone
  /\ \/ delivery'[c] = delivery[c] \/ delivery'[c] \in {"pending", "cancelled"}
     \/ ~person[c].gone /\ delivery'[c] = "processing"
     \/ delivery[c] = "processing" /\ delivery'[c] = "sent"

\* How a client and his message may change in a step.
LEMMA PersonMoves ==
  ASSUME Sound, [Next]_vars, NEW c \in Clients
  PROVE  \/ \E e \in Executors : WrittenBy(e, c)
         \/ Stays(c) /\ (\A e \in Executors : Write(e) => executor[e].req[1] # c)
  <1> DEFINE Good == \/ \E e \in Executors : WrittenBy(e, c)
                     \/ Stays(c) /\ (\A e \in Executors : Write(e) => executor[e].req[1] # c)
  <1> USE DEF Sound, deliveries
  <1>1. /\ person \in [Clients -> Person] /\ person[c] \in Person
        /\ delivery \in [Clients -> {"none", "pending", "processing", "sent", "cancelled"}]
        /\ sender \in Clients \cup {None} /\ executor \in [Executors -> Executor]
    BY DEF Typed, TypeOK, Executor
  <1>2. ASSUME NEW e \in Executors, Write(e)
        PROVE  executor' # executor
    <2>1. Next1(e).at = "ready" /\ executor[e].at = "write" /\ Goes(e, Next1(e))
      BY <1>1, <1>2, NextTyped DEF Write, At
    <2> QED BY <1>1, <2>1, GoesTyped
  <1>3. ASSUME NEW e \in Executors, Write(e)
        PROVE  Good
    <2> DEFINE d == executor[e].req[1]
    <2>1. d \in Clients
      BY <1>3, BusyTyped, RequestTyped DEF Write, At
    <2>2. /\ person' = [person EXCEPT ![d] = Anonymized(d)]
          /\ delivery' = [delivery EXCEPT ![d] = CancelledDelivery(d)]
          /\ asking' = asking /\ d \notin asking
          /\ Goes(e, Next1(e)) /\ executor[e].at = "write"
      BY <1>3 DEF Write, At
    <2>3. CASE d = c
      BY <1>1, <1>3, <2>2, <2>3 DEF WrittenBy
    <2>4. CASE d # c
      <3>1. Stays(c)
        BY <1>1, <2>1, <2>2, <2>4 DEF Stays
      <3>2. ASSUME NEW f \in Executors, Write(f)
            PROVE  f = e
        <4>1. Next1(f).at = "ready" /\ executor[f].at = "write" /\ Goes(f, Next1(f))
          BY <1>1, <3>2, NextTyped DEF Write, At
        <4> QED BY <1>1, <2>2, <4>1, GoesTyped
      <3> QED BY <2>4, <3>1, <3>2
    <2> QED BY <2>3, <2>4
  <1>4. CASE \A e \in Executors : ~Write(e)
    <2> SUFFICES Stays(c)
      BY <1>4
    <2>1. ASSUME NEW d \in Clients, Visits(d)
          PROVE  Stays(c)
      <3>1. CASE StartAsking(d) \/ AskFails(d)
        BY <1>1, <3>1 DEF Stays, StartAsking, AskFails
      <3>2. CASE Ask(d)
        BY <1>1, <3>2 DEF Stays, Ask, Person
      <3>3. ASSUME NEW consent \in Consents, Consent(d, consent)
            PROVE  Stays(c)
        BY <1>1, <3>3 DEF Stays, Consent, Present, Person
      <3>4. CASE AcceptInvitation(d) \/ RevokeMember(d)
        BY <1>1, <3>4 DEF Stays, AcceptInvitation, RevokeMember, Person
      <3>5. CASE StoreDelivery(d) \/ Prepare(d)
        BY <1>1, <3>5 DEF Stays, StoreDelivery, Prepare, StillReachable
      <3> QED BY <2>1, <3>1, <3>2, <3>3, <3>4, <3>5 DEF Visits
    <2>2. CASE RecordSent
      BY <1>1, <2>2 DEF Stays, RecordSent
    <2>3. UNCHANGED <<person, delivery, asking>> => Stays(c)
      BY DEF Stays
    <2>4. ASSUME NEW r \in Requests, Decisions(r) \/ LeaseEnds(r)
          PROVE  Stays(c)
      BY <2>3, <2>4 DEF Decisions, RetryFailed, Decide, LeaseEnds
    <2>5. ASSUME NEW e \in Executors, Executes(e)
          PROVE  Stays(c)
      <3>1. ASSUME NEW r \in Requests, Take(e, r) \/ ChooseRequest(e, r)
            PROVE  Stays(c)
        BY <2>3, <3>1 DEF Take, ChooseRequest
      <3>2. CASE ListRequests(e) \/ Claim(e) \/ Start(e) \/ RecordFailure(e)
        BY <2>3, <3>2 DEF ListRequests, Claim, Start, RecordFailure
      <3>3. CASE ClaimFails(e) \/ WriteFails(e) \/ Crash(e)
        BY <2>3, <3>3 DEF ClaimFails, WriteFails, Crash
      <3> QED BY <1>4, <2>5, <3>1, <3>2, <3>3 DEF Executes, Works
    <2>6. CASE UNCHANGED vars
      BY <2>3, <2>6 DEF vars
    <2> QED BY <2>1, <2>2, <2>4, <2>5, <2>6 DEF Next, Executes
  <1> QED BY <1>3, <1>4
-----------------------------------------------------------------------------
(* What an anonymisation leaves. *)

\* Whoever is gone has no consent left and no message on its way.
Silent == \A c \in Clients : person[c].gone => person[c].consents = {} /\ delivery[c] # "processing"

\* A step keeps whoever is gone silent.
LEMMA SilentNext ==
  ASSUME Sound, Silent, [Next]_vars
  PROVE  Silent'
  <1> SUFFICES ASSUME NEW c \in Clients, person'[c].gone
               PROVE  person'[c].consents = {} /\ delivery'[c] # "processing"
    BY DEF Silent
  <1>1. CASE \E e \in Executors : WrittenBy(e, c)
    BY <1>1 DEF WrittenBy, Anonymized, CancelledDelivery
  <1>2. CASE Stays(c)
    BY <1>2 DEF Stays, Silent
  <1> QED BY <1>1, <1>2, PersonMoves

\* From the moment of an anonymisation the client has agreed to nothing, whatever he
\* agreed to between his request and its execution (revoke_active_consents).
THEOREM NoConsentRemains == Spec => []NoConsentLeft
  <1>1. Init => Silent
    BY DEF Init, Silent
  <1>2. Silent => NoConsentLeft
    BY DEF Silent, NoConsentLeft
  <1> QED BY <1>1, <1>2, SilentNext, SoundAlways, PTL DEF Spec

\* From that moment no message of his is prepared or recorded as sent, also not one
\* that was on its way or is queued later (anonymize_client_data, prepare_delivery).
THEOREM NothingIsSent == Spec => NothingSentAfterwards
  <1>1. Init => Silent
    BY DEF Init, Silent
  <1>2. Sound /\ Silent /\ [Next]_vars =>
           [\A c \in Clients : person[c].gone /\ delivery'[c] \in {"processing", "sent"} =>
              delivery'[c] = delivery[c]]_vars
    <2> SUFFICES ASSUME Sound, Silent, [Next]_vars, NEW c \in Clients,
                        person[c].gone, delivery'[c] \in {"processing", "sent"}
                 PROVE  delivery'[c] = delivery[c]
      OBVIOUS
    <2>1. CASE \E e \in Executors : WrittenBy(e, c)
      BY <2>1 DEF WrittenBy, CancelledDelivery
    <2>2. CASE Stays(c)
      BY <2>2 DEF Stays, Silent
    <2> QED BY <2>1, <2>2, PersonMoves
  <1> QED BY <1>1, <1>2, SilentNext, SoundAlways, PTL DEF Spec, NothingSentAfterwards

\* Who is gone is not asking any more, and was anonymised for the one request that was
\* open.
Agreed == /\ OneOpenRequest /\ AnonymizedOnRequest
          /\ \A c \in Clients : person[c].gone => c \notin asking

\* A step keeps what an anonymisation presupposes.
LEMMA AgreedNext ==
  ASSUME Sound, Agreed, [Next]_vars
  PROVE  Agreed'
  <1> USE RequestTyped
  <1>1. OneOpenRequest'
    BY OneOpenNext DEF Agreed
  <1>2. ASSUME NEW c \in Clients, person'[c].gone
        PROVE  c \notin asking'
    BY <1>2, PersonMoves DEF Agreed, WrittenBy, Stays
  <1>3. ASSUME NEW c \in Clients
        PROVE  /\ person'[c].gone <=> \E r \in Of(c) : requests'[r].status = "completed"
               /\ person'[c].gone => \A r \in Of(c) : requests'[r].status \notin OpenStatus
    <2>1. \A r \in Of(c) : Is(r, "completed") => requests'[r].status = "completed"
      BY StatusMoves DEF Is, StoredFor, OpenStatus
    <2>2. ASSUME NEW e \in Executors, WrittenBy(e, c)
          PROVE  /\ person'[c].gone
                 /\ \E r \in Of(c) : requests'[r].status = "completed"
                 /\ \A r \in Of(c) : requests'[r].status \notin OpenStatus
      <3> DEFINE r == executor[e].req
      <3>1. r \in Requests /\ r \in Of(c) /\ requests[r].status \in OpenStatus
        BY <2>2, BusyTyped DEF WrittenBy, Write, At, Sound, LocksHeld, Owns, Is, OpenStatus
      <3>2. requests' = [requests EXCEPT ![r] = Moved(requests[r], "completed")]
        BY <2>2 DEF WrittenBy, Write
      <3>3. Moved(requests[r], "completed").status = "completed"
        BY <3>1, BusyTyped, MovedTyped DEF Sound, Closed
      <3>4. \A s \in Of(c) : s # r => requests[s].status \notin OpenStatus
        BY <3>1 DEF Agreed, OneOpenRequest
      <3>5. requests \in [Requests -> Request]
        BY BusyTyped DEF Sound, Typed, TypeOK
      <3> HIDE DEF r
      <3>6. \A s \in Of(c) : requests'[s].status \notin OpenStatus
        BY <3>1, <3>2, <3>3, <3>4, <3>5 DEF OpenStatus
      <3>7. requests'[r].status = "completed"
        BY <3>1, <3>2, <3>3, <3>5
      <3> QED BY <2>2, <3>1, <3>6, <3>7 DEF WrittenBy, Anonymized
    <2>3. CASE Stays(c) /\ (\A e \in Executors : Write(e) => executor[e].req[1] # c)
      <3>1. \A r \in Of(c) : requests'[r].status = "completed" => Is(r, "completed")
        BY <2>3, StatusMoves DEF Is, StoredFor
      <3>2. ASSUME NEW r \in Of(c), person[c].gone
            PROVE  requests'[r].status \notin OpenStatus
        <4>1. requests[r].status \notin OpenStatus
          BY <3>2 DEF Agreed, AnonymizedOnRequest
        <4>2. \A d \in Clients : StoredFor(r, d) => d = c
          BY DEF StoredFor
        <4> QED BY <3>2, <4>1, <4>2, StatusMoves DEF Agreed, StoredFor, OpenStatus
      <3> QED BY <2>1, <2>3, <3>1, <3>2 DEF Stays, Agreed, AnonymizedOnRequest, Is
    <2> QED BY <2>2, <2>3, PersonMoves
  <1> QED BY <1>1, <1>2, <1>3 DEF Agreed, AnonymizedOnRequest, Is

\* Who is anonymised asked for it, was not refused, and has nothing open any more
\* (_run_claimed_anonymization).
THEOREM AnonymizedAsked == Spec => []AnonymizedOnRequest
  <1>1. Init => Agreed
    BY DEF Init, Agreed, OneOpenRequest, AnonymizedOnRequest, Absent, OpenStatus, Of, Requests, Is
  <1>2. Agreed => AnonymizedOnRequest
    BY DEF Agreed
  <1> QED BY <1>1, <1>2, AgreedNext, SoundAlways, PTL DEF Spec
=============================================================================
