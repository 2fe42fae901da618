-------------------------- MODULE BroadcastsProofs --------------------------
(***************************************************************************)
(* Proofs about module Broadcasts, for any number of workers, campaigns    *)
(* and clients: its types, that an ended campaign has no open recipient,   *)
(* ended as its recipients did and stays as it ended, that a worker which  *)
(* sends for an ended campaign has lost its row, and that who is recorded  *)
(* as sent got every part.                                                 *)
(*                                                                         *)
(* The argument is about locks: a worker in the middle of a transaction    *)
(* still owns the row it has locked (HeldIsOwned), and therefore what it   *)
(* has counted is still true when it writes it (CountHolds).               *)
(*                                                                         *)
(* The last section counts copies: what a recipient got of a part, who is  *)
(* sending it and how often his row may still be sent are together at most *)
(* one more than the faults (CopiesInv).                                   *)
(***************************************************************************)
EXTENDS Broadcasts, FiniteSetTheorems, TLAPS

USE BroadcastsAssumption

Worker == [at: {"ready", "send", "checkpoint", "record", "finish", "close"},
           queue: SUBSET Recipients, msg: Recipients \cup {None}, media: BOOLEAN,
           answer: Answers, verdict: Settled \cup {"none"},
           outcome: {"none", "completed", "partially_failed"}]
\* A worker that is not ready for the next recipient has one.
BusyHasRecipient == \A p \in Workers : worker[p].at # "ready" => worker[p].msg \in Recipients
\* A worker that ends a row knows how it ends.
EndHasVerdict == \A p \in Workers : worker[p].at \in {"finish", "close"} => worker[p].verdict \in Settled
Typed == TypeOK /\ BusyHasRecipient /\ EndHasVerdict
-----------------------------------------------------------------------------
(* The values the model is built from. *)

\* A row in any status is a row.
LEMMA RowInTyped == \A s \in {"absent"} \cup OpenStatus \cup Settled : RowIn(s) \in Row
  BY DEF RowIn, Row, OpenStatus, Waiting, Settled, Failures

\* A claimed row is a row.
LEMMA ClaimedTyped ==
  ASSUME NEW p \in Workers, NEW row \in Row
  PROVE  Claimed(p, row) \in Row
  <1>1. LeastOf(row.attempts + 1, MaxAttempts) \in 0..MaxAttempts
    BY DEF LeastOf, Row
  <1> QED BY <1>1 DEF Claimed, Row, OpenStatus

\* The parts of a recipient's key.
LEMMA KeyTyped == \A r \in Recipients : r[1] \in Broadcasts /\ r[2] \in Clients /\ r \in RowsOf(r[1])
  BY DEF Recipients, RowsOf

\* The rows of a campaign are recipients, and know their campaign.
LEMMA RowsOfTyped ==
  ASSUME NEW b \in Broadcasts
  PROVE  \A r : r \in RowsOf(b) <=> r \in Recipients /\ r[1] = b
  BY DEF Recipients, RowsOf

\* Nothing or one of the two outcomes.
LEMMA OutcomeTyped ==
  ASSUME NEW r, NEW verdict
  PROVE  Outcome(r, verdict) \in {"none", "completed", "partially_failed"}
  BY DEF Outcome

\* What keeps a message from being sent, and how an answer is recorded.
LEMMA VerdictTyped ==
  /\ \A r : Verdict(r) \in {"none", "skipped", "blocked", "unsubscribed"}
  /\ \A row, answer : Recorded(row, answer) \in {"sent", "blocked", "retry", "failed"}
  BY DEF Verdict, Recorded
-----------------------------------------------------------------------------
(* The types. *)

\* The rows.
LEMMA RowsTyped ==
  ASSUME Typed, Next
  PROVE  rows' \in [Recipients -> Row]
  <1> USE DEF Typed, TypeOK
  <1> USE RowInTyped
  <1>1. ASSUME NEW b \in Broadcasts, NEW segment, Launch(b, segment)
        PROVE  rows' \in [Recipients -> Row]
    <2>1. RowIn("pending") \in Row
      BY DEF OpenStatus, Waiting
    <2> QED BY <1>1, <2>1 DEF Launch
  <1>2. ASSUME NEW b \in Broadcasts, CommitCancel(b)
        PROVE  rows' \in [Recipients -> Row]
    <2>1. RowIn("skipped") \in Row
      BY DEF Settled
    <2> QED BY <1>2, <2>1 DEF CommitCancel
  <1>3. ASSUME NEW p \in Workers, ClaimBatch(p)
        PROVE  rows' \in [Recipients -> Row]
    <2>1. \A r \in Recipients : Claimed(p, rows[r]) \in Row
      BY ClaimedTyped
    <2> QED BY <1>3, <2>1 DEF ClaimBatch
  <1>4. ASSUME NEW p \in Workers, Close(p) \/ Finish(p)
        PROVE  rows' \in [Recipients -> Row]
    <2>1. worker[p].verdict \in Settled
      BY <1>4 DEF Close, Finish, At, EndHasVerdict
    <2>2. rows' = [rows EXCEPT ![worker[p].msg] = RowIn(worker[p].verdict)]
      BY <1>4 DEF Close, Finish, Ends
    <2>3. RowIn(worker[p].verdict) \in Row
      BY <2>1
    <2> QED BY <2>2, <2>3
  <1>5. ASSUME NEW p \in Workers, Checkpoint(p) \/ Record(p)
        PROVE  rows' \in [Recipients -> Row]
    <2> DEFINE r == worker[p].msg
               r1 == [rows[r] EXCEPT !.media = TRUE]
               r2 == [rows[r] EXCEPT !.status = "retry", !.due = FALSE, !.by = None,
                                     !.leased = FALSE]
    <2>1. \/ rows' = rows
          \/ rows' = [rows EXCEPT ![r] = r1]
          \/ rows' = [rows EXCEPT ![r] = r2]
      BY <1>5 DEF Checkpoint, Record
    <2>2. r \in Recipients
      BY <1>5 DEF Checkpoint, Record, At, BusyHasRecipient
    <2>3. rows[r] \in Row
      BY <2>2
    <2>4. r1 \in Row /\ r2 \in Row
      BY <2>3 DEF Row, OpenStatus, Waiting
    <2>5. /\ rows \in [Recipients -> Row]
          /\ \A x \in Row : [rows EXCEPT ![r] = x] \in [Recipients -> Row]
      OBVIOUS
    <2> HIDE DEF r1, r2, Typed, TypeOK
    <2> QED BY <2>1, <2>4, <2>5
  <1>6. ASSUME NEW r \in Recipients, BecomesDue(r) \/ LeaseEnds(r)
        PROVE  rows' \in [Recipients -> Row]
    <2> DEFINE r1 == [rows[r] EXCEPT !.due = TRUE]
               r2 == [rows[r] EXCEPT !.leased = FALSE]
    <2>1. rows' = [rows EXCEPT ![r] = r1] \/ rows' = [rows EXCEPT ![r] = r2]
      BY <1>6 DEF BecomesDue, LeaseEnds
    <2>2. rows[r] \in Row
      OBVIOUS
    <2>3. r1 \in Row /\ r2 \in Row
      BY <2>2 DEF Row
    <2>4. \A x \in Row : [rows EXCEPT ![r] = x] \in [Recipients -> Row]
      OBVIOUS
    <2> HIDE DEF r1, r2, Typed, TypeOK
    <2> QED BY <2>1, <2>3, <2>4
  <1>7. ASSUME NEW b \in Broadcasts,
               StartCancel(b) \/ FailCancel(b) \/ \E parts \in Formats : CreateDraft(b, parts)
        PROVE  UNCHANGED rows
    BY <1>7 DEF StartCancel, FailCancel, CreateDraft
  <1>8. ASSUME NEW c, ToggleSubscription(c) \/ ToggleFeature
        PROVE  UNCHANGED rows
    BY <1>8 DEF ToggleSubscription, ToggleFeature
  <1>9. ASSUME NEW p \in Workers,
               \/ Send(p) \/ SendNothing(p) \/ LockFails(p) \/ Crash(p)
               \/ \E r \in Recipients : Prepare(p, r)
        PROVE  UNCHANGED rows
    BY <1>9 DEF Send, SendNothing, LockFails, Crash, Prepare
  <1> QED
    BY <1>1, <1>2, <1>3, <1>4, <1>5, <1>6, <1>7, <1>8, <1>9 DEF Next, Requests, Works, Time

\* The campaigns.
LEMMA CampaignsTyped ==
  ASSUME Typed, Next
  PROVE  /\ broadcasts' \in [Broadcasts -> BroadcastStatus]
         /\ format' \in [Broadcasts -> Formats]
         /\ cancelling' \subseteq Broadcasts
  <1> USE DEF Typed, TypeOK
  <1> DEFINE Goal == /\ broadcasts' \in [Broadcasts -> BroadcastStatus]
                     /\ format' \in [Broadcasts -> Formats]
                     /\ cancelling' \subseteq Broadcasts
  <1>1. ASSUME NEW b \in Broadcasts, NEW parts \in Formats, CreateDraft(b, parts) PROVE Goal
    BY <1>1 DEF CreateDraft, BroadcastStatus
  <1>2. ASSUME NEW b \in Broadcasts, NEW segment, Launch(b, segment) PROVE Goal
    BY <1>2 DEF Launch, BroadcastStatus
  <1>3. ASSUME NEW b \in Broadcasts, StartCancel(b) \/ FailCancel(b) \/ CommitCancel(b) PROVE Goal
    BY <1>3 DEF StartCancel, FailCancel, CommitCancel, BroadcastStatus, Finished, campaigns
  <1>4. ASSUME NEW p \in Workers, ClaimBatch(p) PROVE Goal
    BY <1>4 DEF ClaimBatch, BroadcastStatus
  <1>5. ASSUME NEW p \in Workers, Close(p) \/ Finish(p) PROVE Goal
    <2> DEFINE b == worker[p].msg[1]
    <2>1. \/ UNCHANGED broadcasts
          \/ \E o \in {"completed", "partially_failed"} : broadcasts' = [broadcasts EXCEPT ![b] = o]
      <3>1. CASE Close(p)
        BY <3>1 DEF Close, Ends
      <3>2. CASE Finish(p)
        BY <3>2, OutcomeTyped DEF Finish, Ends
      <3> QED BY <1>5, <3>1, <3>2
    <2>2. UNCHANGED <<format, cancelling>>
      BY <1>5 DEF Close, Finish
    <2> QED BY <2>1, <2>2 DEF BroadcastStatus, Finished
  <1>6. ASSUME NEW p \in Workers,
               \/ Send(p) \/ SendNothing(p) \/ LockFails(p) \/ Crash(p) \/ Checkpoint(p)
               \/ Record(p) \/ \E r \in Recipients : Prepare(p, r)
        PROVE  UNCHANGED <<campaigns, cancelling>>
    BY <1>6 DEF Send, SendNothing, LockFails, Crash, Checkpoint, Record, Prepare
  <1>7. ASSUME NEW c, ToggleSubscription(c) \/ ToggleFeature
        PROVE  UNCHANGED <<campaigns, cancelling>>
    BY <1>7 DEF ToggleSubscription, ToggleFeature
  <1>8. ASSUME NEW r, BecomesDue(r) \/ LeaseEnds(r)
        PROVE  UNCHANGED <<campaigns, cancelling>>
    BY <1>8 DEF BecomesDue, LeaseEnds
  <1> QED
    BY <1>1, <1>2, <1>3, <1>4, <1>5, <1>6, <1>7, <1>8 DEF Next, Requests, Works, Time, campaigns

\* The clients, the feature, what was delivered and the faults.
LEMMA RestTyped ==
  ASSUME Typed, Next
  PROVE  /\ subscribed' \subseteq Clients /\ blocked' \subseteq Clients /\ feature' \in BOOLEAN
         /\ copies' \in [Recipients -> [Parts -> Nat]] /\ faults' \in 0..MaxFaults
  <1> USE DEF Typed, TypeOK, people
  <1> DEFINE Goal == /\ subscribed' \subseteq Clients /\ blocked' \subseteq Clients
                     /\ feature' \in BOOLEAN
                     /\ copies' \in [Recipients -> [Parts -> Nat]] /\ faults' \in 0..MaxFaults
  <1>1. ASSUME NEW b \in Broadcasts, StartCancel(b) PROVE Goal
    BY <1>1 DEF StartCancel
  <1>2. ASSUME ToggleFeature \/ \E c \in Clients : ToggleSubscription(c) PROVE Goal
    BY <1>2 DEF ToggleSubscription, ToggleFeature
  <1>3. ASSUME NEW p \in Workers, Send(p) PROVE Goal
    <2>1. worker[p].msg \in Recipients
      BY <1>3 DEF Send, At, BusyHasRecipient
    <2>2. NextPart(p) \in Parts
      BY DEF NextPart, Parts
    <2>3. \/ copies' = copies
          \/ copies' = [copies EXCEPT ![worker[p].msg][NextPart(p)] = @ + 1]
      BY <1>3 DEF Send
    <2>4. copies' \in [Recipients -> [Parts -> Nat]]
      BY <2>1, <2>2, <2>3
    <2>5. faults' = faults \/ (faults < MaxFaults /\ faults' = faults + 1)
      BY <1>3 DEF Send
    <2>6. UNCHANGED people
      BY <1>3 DEF Send
    <2> QED BY <2>4, <2>5, <2>6
  <1>4. ASSUME NEW p \in Workers, Finish(p) PROVE Goal
    <2>1. worker[p].msg[2] \in Clients
      BY <1>4, KeyTyped DEF Finish, At, BusyHasRecipient
    <2> QED BY <1>4, <2>1 DEF Finish
  <1>5. ASSUME NEW p \in Workers, Crash(p) PROVE Goal
    BY <1>5 DEF Crash
  <1>6. ASSUME NEW r \in Recipients, LeaseEnds(r) PROVE Goal
    BY <1>6 DEF LeaseEnds
  <1>7. ASSUME NEW r, BecomesDue(r) PROVE UNCHANGED <<people, copies, faults>>
    BY <1>7 DEF BecomesDue
  <1>8. ASSUME NEW b \in Broadcasts,
               \/ FailCancel(b) \/ CommitCancel(b) \/ \E parts \in Formats : CreateDraft(b, parts)
               \/ \E segment \in SUBSET Clients : Launch(b, segment)
        PROVE  UNCHANGED <<people, copies, faults>>
    BY <1>8 DEF FailCancel, CommitCancel, CreateDraft, Launch
  <1>9. ASSUME NEW p \in Workers,
               \/ ClaimBatch(p) \/ Close(p) \/ SendNothing(p) \/ LockFails(p) \/ Checkpoint(p)
               \/ Record(p) \/ \E r \in Recipients : Prepare(p, r)
        PROVE  UNCHANGED <<people, copies, faults>>
    BY <1>9 DEF ClaimBatch, Close, SendNothing, LockFails, Checkpoint, Record, Prepare
  <1> QED
    BY <1>1, <1>2, <1>3, <1>4, <1>5, <1>6, <1>7, <1>8, <1>9 DEF Next, Requests, Works, Time

\* The workers: one of them takes a step, and the others stay.
LEMMA WorkersTyped ==
  ASSUME Typed, Next
  PROVE  /\ worker' \in [Workers -> Worker]
         /\ BusyHasRecipient' /\ EndHasVerdict'
  <1> USE DEF Typed, TypeOK
  <1> DEFINE Fits(x) == /\ x \in Worker /\ (x.at # "ready" => x.msg \in Recipients)
                        /\ (x.at \in {"finish", "close"} => x.verdict \in Settled)
             Goal == /\ worker' \in [Workers -> Worker]
                     /\ BusyHasRecipient' /\ EndHasVerdict'
  <1>0. worker \in [Workers -> Worker] /\ \A p \in Workers : Fits(worker[p])
    BY DEF Worker, BusyHasRecipient, EndHasVerdict
  <1>1. ASSUME UNCHANGED worker PROVE Goal
    BY <1>0, <1>1 DEF BusyHasRecipient, EndHasVerdict
  <1>2. ASSUME NEW p \in Workers, NEW x, Fits(x), Goes(p, x) PROVE Goal
    BY <1>0, <1>2 DEF Goes, BusyHasRecipient, EndHasVerdict
  <1>3. ASSUME NEW p \in Workers, ClaimBatch(p) PROVE Goal
    <2>1. PICK batch \in Batches \ {{}} : Goes(p, [worker[p] EXCEPT !.queue = batch])
      BY <1>3 DEF ClaimBatch
    <2>2. batch \subseteq Recipients
      BY DEF Batches
    <2>3. Fits([worker[p] EXCEPT !.queue = batch])
      BY <1>0, <2>2, SMTT(30) DEF Worker
    <2> QED BY <1>2, <2>1, <2>3
  <1>4. ASSUME NEW p \in Workers, NEW r \in Recipients, Prepare(p, r) PROVE Goal
    <2> DEFINE rest == [worker[p] EXCEPT !.queue = @ \ {r}]
               send == [rest EXCEPT !.at = "send", !.msg = r, !.media = rows[r].media]
               close == [rest EXCEPT !.at = "close", !.msg = r, !.verdict = Verdict(r),
                                     !.outcome = Outcome(r, Verdict(r))]
    <2>1. \/ Goes(p, rest) \/ Goes(p, send)
          \/ Verdict(r) # "none" /\ Goes(p, close)
      BY <1>4 DEF Prepare
    <2>2. Fits(rest)
      BY <1>0 DEF Worker
    <2>3. Fits(send)
      <3>1. rows[r].media \in BOOLEAN
        BY DEF Row
      <3> QED BY <1>0, <3>1 DEF Worker
    <2>4. ASSUME Verdict(r) # "none" PROVE Fits(close)
      <3>1. Verdict(r) \in Settled
        BY <2>4, VerdictTyped DEF Settled, Failures
      <3>2. Outcome(r, Verdict(r)) \in {"none", "completed", "partially_failed"}
        BY OutcomeTyped
      <3> QED BY <1>0, <3>1, <3>2 DEF Worker
    <2> HIDE DEF rest, send, close, Fits
    <2> QED BY <1>2, <2>1, <2>2, <2>3, <2>4
  <1>5. ASSUME NEW p \in Workers, Ready(p) PROVE Goal
    <2>1. Fits([Idle EXCEPT !.queue = worker[p].queue])
      BY <1>0 DEF Worker, Idle, Answers
    <2> QED BY <1>2, <1>5, <2>1 DEF Ready
  <1>6. ASSUME NEW p \in Workers, Close(p) \/ Finish(p) PROVE Goal
    BY <1>5, <1>6 DEF Close, Finish
  <1>7. ASSUME NEW p \in Workers, Send(p) PROVE Goal
    <2> DEFINE x1 == [worker[p] EXCEPT !.at = "checkpoint"]
               x2(answer) == [worker[p] EXCEPT !.at = "record", !.answer = answer]
    <2>1. PICK answer \in Answers \ {"none"} : Goes(p, x1) \/ Goes(p, x2(answer))
      BY <1>7 DEF Send
    <2>2. worker[p].msg \in Recipients
      BY <1>7 DEF Send, At, BusyHasRecipient
    <2>3. Fits(x1) /\ Fits(x2(answer))
      BY <1>0, <2>2 DEF Worker
    <2> HIDE DEF x1, x2, Fits
    <2> QED BY <1>2, <2>1, <2>3
  <1>8. ASSUME NEW p \in Workers, SendNothing(p) PROVE Goal
    <2>1. worker[p].msg \in Recipients
      BY <1>8 DEF SendNothing, At, BusyHasRecipient
    <2>2. Fits([worker[p] EXCEPT !.at = "record", !.answer = "ok"])
      BY <1>0, <2>1, ZenonT(60) DEF Worker, Answers
    <2> QED BY <1>2, <1>8, <2>2 DEF SendNothing
  <1>9. ASSUME NEW p \in Workers, Checkpoint(p) PROVE Goal
    <2> DEFINE x1 == [worker[p] EXCEPT !.at = "send", !.media = TRUE]
               x2 == [worker[p] EXCEPT !.at = "record", !.answer = "retry"]
    <2>1. worker[p].msg \in Recipients
      BY <1>9 DEF Checkpoint, At, BusyHasRecipient
    <2>2. Fits(x1) /\ Fits(x2)
      BY <1>0, <2>1, ZenonT(60) DEF Worker, Answers
    <2>3. Goes(p, x1) \/ Goes(p, x2)
      BY <1>9 DEF Checkpoint
    <2> HIDE DEF x1, x2, Fits
    <2> QED BY <1>2, <2>2, <2>3
  <1>10. ASSUME NEW p \in Workers, Record(p) PROVE Goal
    <2> DEFINE s == Recorded(rows[worker[p].msg], worker[p].answer)
               x == [worker[p] EXCEPT !.at = "finish", !.verdict = s]
    <2>1. Ready(p) \/ (s # "retry" /\ Goes(p, x))
      BY <1>10 DEF Record
    <2>2. worker[p].msg \in Recipients
      BY <1>10 DEF Record, At, BusyHasRecipient
    <2>3. ASSUME s # "retry" PROVE Fits(x)
      <3>1. s \in Settled
        BY <2>3, VerdictTyped DEF Settled, Failures
      <3> QED BY <1>0, <2>2, <3>1 DEF Worker
    <2> HIDE DEF s, x, Fits
    <2> QED BY <1>2, <1>5, <2>1, <2>3
  <1>11. ASSUME NEW p \in Workers, LockFails(p) \/ Crash(p) PROVE Goal
    <2>1. Fits(Idle)
      BY DEF Worker, Idle, Answers
    <2>2. Goes(p, Idle)
      BY <1>11 DEF LockFails, Crash
    <2> QED BY <1>2, <2>1, <2>2
  <1>12. ASSUME Requests \/ Time PROVE UNCHANGED worker
    BY <1>12 DEF Requests, Time, CreateDraft, Launch, StartCancel, CommitCancel, FailCancel,
                 ToggleSubscription, ToggleFeature, BecomesDue, LeaseEnds
  <1> QED
    BY <1>1, <1>3, <1>4, <1>6, <1>7, <1>8, <1>9, <1>10, <1>11, <1>12 DEF Next, Works

\* Every step keeps the types.
LEMMA TypedStep == Typed /\ [Next]_vars => Typed'
  <1>1. CASE Typed /\ Next
    BY <1>1, RowsTyped, CampaignsTyped, RestTyped, WorkersTyped DEF Typed, TypeOK, Worker
  <1>2. CASE Typed /\ UNCHANGED vars
    BY <1>2 DEF Typed, TypeOK, BusyHasRecipient, EndHasVerdict, vars
  <1> QED BY <1>1, <1>2

LEMMA TypedInit == Init => Typed
  <1> SUFFICES ASSUME Init PROVE Typed
    OBVIOUS
  <1>1. RowIn("absent") \in Row
    BY RowInTyped
  <1>2. Idle \in Worker
    BY DEF Idle, Worker, Answers
  <1>3. {"text"} \in Formats
    BY DEF Formats
  <1> QED BY <1>1, <1>2, <1>3
          DEF Init, Typed, TypeOK, BusyHasRecipient, EndHasVerdict, BroadcastStatus, Worker, Idle

\* The state of the campaigns is well typed in every reachable state (all actions of
\* services/broadcast_service.py and broadcast_delivery_service.py).
THEOREM TypeCorrect == Spec => []TypeOK
  <1>1. Spec => []Typed
    BY TypedInit, TypedStep, PTL DEF Spec
  <1> QED BY <1>1, PTL DEF Typed
-----------------------------------------------------------------------------
(* Locks.  What a worker has locked it still owns, and what it has counted *)
(* still holds; so a campaign ends when, and as, its recipients have.      *)

HeldIsOwned ==
  \A p \in Workers : worker[p].at \in {"finish", "close"} => Owns(p, worker[p].msg)
DraftHasNoRows ==
  \A r \in Recipients : broadcasts[r[1]] \in {"absent", "draft"} => rows[r].status = "absent"
CountHolds ==
  \A p \in Workers : worker[p].at = "close" /\ worker[p].outcome # "none"
    => worker[p].outcome = Outcome(worker[p].msg, worker[p].verdict)
CancellingLives == \A b \in cancelling : broadcasts[b] \notin Finished
Locking == /\ HeldIsOwned /\ DraftHasNoRows /\ CountHolds /\ CancellingLives
           /\ EndedHasNoOpenRow /\ OutcomeIsTrue

\* What a step does to one row.
RowStep(r) ==
  \/ rows'[r].status = rows[r].status /\ rows'[r].by = rows[r].by
  \/ broadcasts[r[1]] = "draft" /\ broadcasts'[r[1]] = "scheduled"
  \/ /\ ~Locked(r) /\ Open(r) /\ rows'[r].status = "processing"
     /\ broadcasts[r[1]] \in {"scheduled", "sending"} /\ broadcasts'[r[1]] = "sending"
  \/ /\ ~Locked(r) /\ Open(r) /\ rows'[r].status = "skipped"
     /\ r[1] \in cancelling /\ broadcasts'[r[1]] = "cancelled"
  \/ ~Locked(r) /\ Open(r) /\ rows'[r].status \in OpenStatus /\ UNCHANGED broadcasts
  \/ \E p \in Workers : /\ Holds(p, r) /\ worker'[p].at = "ready"
                        /\ rows'[r].status = worker[p].verdict

LEMMA RowSteps ==
  ASSUME Typed, Next, NEW r \in Recipients
  PROVE  RowStep(r)
  <1> USE DEF Typed, TypeOK
  <1>1. ASSUME NEW b \in Broadcasts, NEW segment, Launch(b, segment) PROVE RowStep(r)
    BY <1>1 DEF Launch, RowStep, Recipients
  <1>2. ASSUME NEW b \in Broadcasts, CommitCancel(b) PROVE RowStep(r)
    <2>1. r \in OpenRows(b) => r[1] = b /\ Open(r)
      BY RowsOfTyped DEF OpenRows
    <2> QED BY <1>2, <2>1 DEF CommitCancel, CancelledRows, RowStep, RowIn
  <1>3. ASSUME NEW p \in Workers, ClaimBatch(p) PROVE RowStep(r)
    <2>1. PICK batch \in Batches \ {{}} :
            /\ rows' = [s \in Recipients |-> IF s \in batch THEN Claimed(p, rows[s]) ELSE rows[s]]
            /\ broadcasts' = [b \in Broadcasts |->
                    IF \E s \in batch : s[1] = b THEN "sending" ELSE broadcasts[b]]
      BY <1>3 DEF ClaimBatch
    <2>2. CASE r \in batch
      <3>1. Claimable(r)
        BY <2>2 DEF Batches
      <3>2. rows'[r].status = "processing"
        BY <2>1, <2>2, ZenonT(60) DEF Claimed, Row
      <3>3. broadcasts'[r[1]] = "sending"
        BY <2>1, <2>2, KeyTyped
      <3> QED BY <3>1, <3>2, <3>3 DEF RowStep, Claimable, Open, OpenStatus
    <2> QED BY <2>1, <2>2 DEF RowStep
  <1>4. ASSUME NEW p \in Workers, Close(p) \/ Finish(p) PROVE RowStep(r)
    <2>1. Holds(p, worker[p].msg) /\ worker'[p].at = "ready"
      BY <1>4 DEF Close, Finish, At, Holds, Ready, Goes, Idle
    <2>2. rows' = [rows EXCEPT ![worker[p].msg] = RowIn(worker[p].verdict)]
      BY <1>4 DEF Close, Finish, Ends
    <2> QED BY <2>1, <2>2 DEF RowStep, RowIn
  <1>5. ASSUME NEW p \in Workers, Checkpoint(p) \/ Record(p) PROVE RowStep(r)
    <2> DEFINE x == worker[p].msg
               r1 == [rows[x] EXCEPT !.media = TRUE]
               r2 == [rows[x] EXCEPT !.status = "retry", !.due = FALSE, !.by = None,
                                     !.leased = FALSE]
    <2>1. CASE rows' = rows
      BY <2>1 DEF RowStep
    <2>2. CASE rows' # rows
      <3>1. /\ ~Locked(x) /\ Owns(p, x) /\ UNCHANGED broadcasts
            /\ rows' = [rows EXCEPT ![x] = r1] \/ rows' = [rows EXCEPT ![x] = r2]
        BY <1>5, <2>2 DEF Checkpoint, Record, campaigns
      <3>2. x \in Recipients => r1.status = rows[x].status /\ r2.status = "retry"
        BY DEF Row
      <3> HIDE DEF r1, r2
      <3>3. rows'[r] = rows[r] \/ (r = x /\ rows'[r].status \in OpenStatus)
        BY <3>1, <3>2 DEF Owns, OpenStatus, Waiting
      <3> QED BY <3>1, <3>3 DEF RowStep, Owns, Open, OpenStatus
    <2> QED BY <2>1, <2>2
  <1>6. ASSUME NEW s \in Recipients, BecomesDue(s) \/ LeaseEnds(s) PROVE RowStep(r)
    <2> DEFINE r1 == [rows[s] EXCEPT !.due = TRUE]
               r2 == [rows[s] EXCEPT !.leased = FALSE]
    <2>1. rows' = [rows EXCEPT ![s] = r1] \/ rows' = [rows EXCEPT ![s] = r2]
      BY <1>6 DEF BecomesDue, LeaseEnds
    <2>2. rows[s] \in Row
      OBVIOUS
    <2>3. /\ r1.status = rows[s].status /\ r1.by = rows[s].by
          /\ r2.status = rows[s].status /\ r2.by = rows[s].by
      BY <2>2 DEF Row
    <2> HIDE DEF r1, r2
    <2> QED BY <2>1, <2>3 DEF RowStep
  <1>7. ASSUME UNCHANGED rows PROVE RowStep(r)
    BY <1>7 DEF RowStep
  <1>8. ASSUME NEW b \in Broadcasts,
               StartCancel(b) \/ FailCancel(b) \/ \E parts \in Formats : CreateDraft(b, parts)
        PROVE  UNCHANGED rows
    BY <1>8 DEF StartCancel, FailCancel, CreateDraft
  <1>9. ASSUME ToggleFeature \/ \E c \in Clients : ToggleSubscription(c) PROVE UNCHANGED rows
    BY <1>9 DEF ToggleSubscription, ToggleFeature
  <1>10. ASSUME NEW p \in Workers,
                \/ Send(p) \/ SendNothing(p) \/ LockFails(p) \/ Crash(p)
                \/ \E s \in Recipients : Prepare(p, s)
         PROVE  UNCHANGED rows
    BY <1>10 DEF Send, SendNothing, LockFails, Crash, Prepare
  <1> QED
    BY <1>1, <1>2, <1>3, <1>4, <1>5, <1>6, <1>7, <1>8, <1>9, <1>10
    DEF Next, Requests, Works, Time

\* What a step does to the status of one campaign.
BroadcastStep(b) ==
  \/ UNCHANGED broadcasts
  \/ broadcasts'[b] = broadcasts[b] /\ (b \in cancelling' => b \in cancelling)
  \/ broadcasts[b] = "absent" /\ broadcasts'[b] = "draft" /\ UNCHANGED <<rows, cancelling>>
  \/ broadcasts[b] = "draft" /\ broadcasts'[b] = "scheduled" /\ b \notin cancelling'
  \/ /\ broadcasts[b] \in {"scheduled", "sending"} /\ broadcasts'[b] = "sending"
     /\ b \notin cancelling'
  \/ /\ b \in cancelling /\ broadcasts'[b] = "cancelled" /\ b \notin cancelling'
     /\ \A r \in RowsOf(b) : ~Locked(r) \/ ~Open(r)
     /\ \A r \in RowsOf(b) : rows'[r].status \notin OpenStatus
  \/ \E p \in Workers :
       LET r == worker[p].msg IN
       /\ Holds(p, r) /\ r[1] = b /\ b \notin cancelling /\ b \notin cancelling'
       /\ rows' = [rows EXCEPT ![r] = RowIn(worker[p].verdict)]
       /\ broadcasts'[b] \in {"completed", "partially_failed"}
       /\ broadcasts'[b] = IF At(p, "close") THEN worker[p].outcome
                           ELSE Outcome(r, worker[p].verdict)

LEMMA BroadcastSteps ==
  ASSUME Typed, Next, NEW b \in Broadcasts
  PROVE  BroadcastStep(b)
  <1> USE DEF Typed, TypeOK
  <1>1. ASSUME NEW c \in Broadcasts, NEW parts, CreateDraft(c, parts) PROVE BroadcastStep(b)
    BY <1>1 DEF CreateDraft, BroadcastStep
  <1>2. ASSUME NEW c \in Broadcasts, NEW segment, Launch(c, segment) PROVE BroadcastStep(b)
    BY <1>2 DEF Launch, BroadcastStep
  <1>3. ASSUME NEW c \in Broadcasts, CommitCancel(c) PROVE BroadcastStep(b)
    <2>1. CASE c = b
      <3>1. ASSUME NEW r \in RowsOf(b)
            PROVE  (~Locked(r) \/ ~Open(r)) /\ rows'[r].status \notin OpenStatus
        <4>1. r \in Recipients
          BY <3>1, RowsOfTyped
        <4>2. CASE Open(r)
          BY <1>3, <2>1, <4>1, <4>2
          DEF CommitCancel, CancelledRows, OpenRows, RowIn, OpenStatus, Waiting
        <4>3. CASE ~Open(r)
          BY <1>3, <2>1, <4>1, <4>3 DEF CommitCancel, CancelledRows, OpenRows, Open
        <4> QED BY <4>2, <4>3
      <3> QED BY <1>3, <2>1, <3>1 DEF CommitCancel, BroadcastStep
    <2>2. CASE c # b
      <3>1. broadcasts'[b] = broadcasts[b]
        BY <1>3, <2>2 DEF CommitCancel
      <3> QED BY <1>3, <2>2, <3>1 DEF CommitCancel, BroadcastStep
    <2> QED BY <2>1, <2>2
  <1>4. ASSUME NEW p \in Workers, ClaimBatch(p) PROVE BroadcastStep(b)
    <2>1. PICK batch \in Batches \ {{}} :
            broadcasts' = [c \in Broadcasts |->
                    IF \E s \in batch : s[1] = c THEN "sending" ELSE broadcasts[c]]
      BY <1>4 DEF ClaimBatch
    <2>2. UNCHANGED cancelling
      BY <1>4 DEF ClaimBatch
    <2>3. CASE \E s \in batch : s[1] = b
      <3>1. PICK s \in batch : s[1] = b
        BY <2>3
      <3>2. Claimable(s)
        BY DEF Batches
      <3> QED BY <2>1, <2>2, <2>3, <3>1, <3>2 DEF BroadcastStep, Claimable
    <2> QED BY <2>1, <2>2, <2>3 DEF BroadcastStep
  <1>5. ASSUME NEW p \in Workers, Close(p) \/ Finish(p) PROVE BroadcastStep(b)
    <2> DEFINE r == worker[p].msg
               outcome == IF At(p, "close") THEN worker[p].outcome
                          ELSE Outcome(r, worker[p].verdict)
    <2>1. /\ Holds(p, r) /\ UNCHANGED cancelling
          /\ Ends(r, worker[p].verdict, outcome)
          /\ outcome # "none" => r[1] \notin cancelling
      BY <1>5 DEF Close, Finish, At, Holds
    <2>2. outcome \in {"none", "completed", "partially_failed"}
      BY OutcomeTyped
    <2>3. CASE outcome = "none" \/ r[1] # b
      BY <2>1, <2>3 DEF Ends, BroadcastStep
    <2>4. CASE outcome # "none" /\ r[1] = b
      <3>1. broadcasts'[b] = outcome /\ rows' = [rows EXCEPT ![r] = RowIn(worker[p].verdict)]
        BY <2>1, <2>4 DEF Ends
      <3> QED BY <2>1, <2>2, <2>4, <3>1 DEF BroadcastStep
    <2> QED BY <2>3, <2>4
  <1>6. ASSUME UNCHANGED broadcasts PROVE BroadcastStep(b)
    BY <1>6 DEF BroadcastStep
  <1>7. ASSUME NEW c \in Broadcasts, StartCancel(c) \/ FailCancel(c) PROVE UNCHANGED broadcasts
    BY <1>7 DEF StartCancel, FailCancel, campaigns
  <1>8. ASSUME ToggleFeature \/ \E c \in Clients : ToggleSubscription(c)
        PROVE  UNCHANGED broadcasts
    BY <1>8 DEF ToggleSubscription, ToggleFeature, campaigns
  <1>9. ASSUME NEW p \in Workers,
               \/ Send(p) \/ SendNothing(p) \/ LockFails(p) \/ Crash(p) \/ Checkpoint(p)
               \/ Record(p) \/ \E s \in Recipients : Prepare(p, s)
        PROVE  UNCHANGED broadcasts
    BY <1>9 DEF Send, SendNothing, LockFails, Crash, Checkpoint, Record, Prepare, campaigns
  <1>10. ASSUME NEW s, BecomesDue(s) \/ LeaseEnds(s) PROVE UNCHANGED broadcasts
    BY <1>10 DEF BecomesDue, LeaseEnds, campaigns
  <1> QED
    BY <1>1, <1>2, <1>3, <1>4, <1>5, <1>6, <1>7, <1>8, <1>9, <1>10
    DEF Next, Requests, Works, Time

\* How a worker comes to hold a row: it owned it, and nothing else changed.
LEMMA HoldSteps ==
  ASSUME Typed, Next, NEW p \in Workers, worker'[p].at \in {"finish", "close"}
  PROVE  \/ worker'[p] = worker[p]
         \/ /\ Owns(p, worker'[p].msg) /\ UNCHANGED <<broadcasts, rows, cancelling>>
            /\ worker'[p].at = "close" =>
                 worker'[p].outcome = Outcome(worker'[p].msg, worker'[p].verdict)
  <1> USE DEF Typed, TypeOK
  <1> DEFINE Goal ==
         \/ worker'[p] = worker[p]
         \/ /\ Owns(p, worker'[p].msg) /\ UNCHANGED <<broadcasts, rows, cancelling>>
            /\ worker'[p].at = "close" =>
                 worker'[p].outcome = Outcome(worker'[p].msg, worker'[p].verdict)
  <1>0. worker \in [Workers -> Worker] /\ worker[p] \in Worker
    BY DEF Worker
  <1>1. ASSUME NEW q \in Workers, NEW r \in Recipients, Prepare(q, r) PROVE Goal
    <2>1. CASE q = p
      <3>1. At(p, "ready")
        BY <1>1, <2>1 DEF Prepare
      <3> DEFINE rest == [worker[p] EXCEPT !.queue = @ \ {r}]
                 send == [rest EXCEPT !.at = "send", !.msg = r, !.media = rows[r].media]
                 close == [rest EXCEPT !.at = "close", !.msg = r, !.verdict = Verdict(r),
                                       !.outcome = Outcome(r, Verdict(r))]
      <3>2. /\ UNCHANGED <<broadcasts, rows, cancelling>>
            /\ Goes(p, rest) \/ Goes(p, send) \/ (Owns(p, r) /\ Goes(p, close))
        BY <1>1, <2>1 DEF Prepare, campaigns
      <3>3. rest.at = "ready" /\ send.at = "send"
        BY <1>0, <3>1 DEF At, Worker
      <3>4. /\ close.msg = r /\ close.verdict = Verdict(r)
            /\ close.outcome = Outcome(r, Verdict(r))
        BY <1>0 DEF Worker
      <3>5. worker'[p] = close /\ Owns(p, r)
        <4> HIDE DEF rest, send, close
        <4> QED BY <1>0, <3>2, <3>3 DEF Goes
      <3> HIDE DEF close
      <3> QED BY <3>2, <3>4, <3>5
    <2>2. CASE q # p
      BY <1>1, <2>2 DEF Prepare, Goes
    <2> QED BY <2>1, <2>2
  <1>2. ASSUME NEW q \in Workers, Record(q) PROVE Goal
    <2>1. CASE q = p
      <3> DEFINE x == [worker[p] EXCEPT !.at = "finish",
                          !.verdict = Recorded(rows[worker[p].msg], worker[p].answer)]
      <3>1. ~Ready(p)
        BY <1>0, <2>1 DEF Ready, Goes, Idle
      <3>2. /\ Owns(p, worker[p].msg) /\ UNCHANGED <<broadcasts, rows, cancelling>>
            /\ Goes(p, x)
        BY <1>2, <2>1, <3>1 DEF Record, campaigns
      <3>3. x.at = "finish" /\ x.msg = worker[p].msg
        BY <1>0 DEF Worker
      <3>4. worker'[p] = x
        BY <1>0, <3>2 DEF Goes
      <3> HIDE DEF x
      <3> QED BY <3>2, <3>3, <3>4
    <2>2. CASE q # p
      BY <1>2, <2>2 DEF Record, Ready, Goes
    <2> QED BY <2>1, <2>2
  <1>3. ASSUME NEW q \in Workers,
               \/ Close(q) \/ Finish(q) \/ Send(q) \/ SendNothing(q) \/ Checkpoint(q)
               \/ LockFails(q) \/ Crash(q)
        PROVE  worker'[p] = worker[p]
    <2>1. CASE q = p
      <3>1. CASE Close(p) \/ Finish(p) \/ LockFails(p) \/ Crash(p)
        <4>1. worker'[p].at = "ready"
          BY <1>0, <3>1 DEF Close, Finish, LockFails, Crash, Ready, Goes, Idle
        <4> QED BY <4>1
      <3>2. CASE Send(p) \/ SendNothing(p) \/ Checkpoint(p)
        <4> DEFINE sent == [worker[p] EXCEPT !.at = "checkpoint"]
                   stored == [worker[p] EXCEPT !.at = "send", !.media = TRUE]
                   done(a) == [worker[p] EXCEPT !.at = "record", !.answer = a]
        <4>1. Goes(p, sent) \/ Goes(p, stored) \/ \E a : Goes(p, done(a))
          BY <3>2 DEF Send, SendNothing, Checkpoint
        <4>2. /\ sent.at = "checkpoint" /\ stored.at = "send"
              /\ \A a : done(a).at = "record"
          BY <1>0 DEF Worker
        <4> HIDE DEF sent, stored, done
        <4>3. worker'[p].at \in {"checkpoint", "record", "send"}
          BY <1>0, <4>1, <4>2 DEF Goes
        <4> QED BY <4>3
      <3> QED BY <1>3, <2>1, <3>1, <3>2
    <2>2. CASE q # p
      BY <1>3, <2>2
      DEF Close, Finish, Send, SendNothing, Checkpoint, LockFails, Crash, Ready, Goes
    <2> QED BY <2>1, <2>2
  <1>4. ASSUME NEW q \in Workers, ClaimBatch(q) PROVE worker'[p] = worker[p]
    <2>1. PICK batch : Goes(q, [worker[q] EXCEPT !.queue = batch])
      BY <1>4 DEF ClaimBatch
    <2> QED BY <1>4, <2>1 DEF ClaimBatch, Goes, At
  <1>5. ASSUME Requests \/ Time PROVE UNCHANGED worker
    BY <1>5 DEF Requests, Time, CreateDraft, Launch, StartCancel, CommitCancel, FailCancel,
                ToggleSubscription, ToggleFeature, BecomesDue, LeaseEnds
  <1> QED BY <1>1, <1>2, <1>3, <1>4, <1>5 DEF Next, Works

\* Two workers do not own one row, and an owned row is open.
LEMMA OneOwner ==
  ASSUME NEW r, NEW p \in Workers, Owns(p, r)
  PROVE  Open(r) /\ \A q \in Workers : Owns(q, r) => q = p
  BY DEF Owns, Open, OpenStatus

\* What a worker has locked it still owns after any step.
LEMMA HeldIsOwnedStep ==
  ASSUME Typed, Locking, Next
  PROVE  HeldIsOwned'
  <1> SUFFICES ASSUME NEW p \in Workers, worker'[p].at \in {"finish", "close"}
               PROVE  Owns(p, worker[p].msg)'
    BY DEF HeldIsOwned
  <1> DEFINE r == worker'[p].msg
  <1>1. CASE UNCHANGED rows /\ Owns(p, r)
    BY <1>1 DEF Owns
  <1>2. CASE worker'[p] = worker[p]
    <2>1. Owns(p, r) /\ Holds(p, r) /\ r \in Recipients
      BY <1>2 DEF Locking, HeldIsOwned, Holds, Typed, BusyHasRecipient
    <2>2. RowStep(r)
      BY <2>1, RowSteps
    <2>3. Locked(r) /\ rows[r].status = "processing" /\ broadcasts[r[1]] # "draft"
      BY <2>1 DEF Locked, Owns, Locking, DraftHasNoRows
    <2>4. ASSUME NEW q \in Workers, Holds(q, r), worker'[q].at = "ready" PROVE FALSE
      <3>1. Owns(q, r)
        BY <2>4 DEF Locking, HeldIsOwned, Holds
      <3>2. q = p
        BY <3>1, <2>1, OneOwner
      <3> QED BY <3>2, <2>4
    <2>5. rows'[r].status = rows[r].status /\ rows'[r].by = rows[r].by
      BY <2>2, <2>3, <2>4 DEF RowStep
    <2> QED BY <2>1, <2>5 DEF Owns
  <1> QED BY <1>1, <1>2, HoldSteps

\* A worker that holds a row ends it, and it was open until then.
LEMMA HeldIsOpen ==
  ASSUME Typed, Locking, NEW p \in Workers, NEW r, Holds(p, r)
  PROVE  Open(r) /\ worker[p].verdict \in Settled /\ r \in Recipients
  BY OneOwner DEF Locking, HeldIsOwned, Holds, Typed, EndHasVerdict, BusyHasRecipient

\* A row that is not open stays as it is, unless its campaign is launched.
LEMMA ClosedRowStays ==
  ASSUME Typed, Locking, Next, NEW r \in Recipients, ~Open(r), broadcasts[r[1]] # "draft"
  PROVE  rows'[r].status = rows[r].status
  BY RowSteps, HeldIsOpen DEF RowStep

LEMMA DraftHasNoRowsStep ==
  ASSUME Typed, Locking, Next
  PROVE  DraftHasNoRows'
  <1> SUFFICES ASSUME NEW r \in Recipients, broadcasts'[r[1]] \in {"absent", "draft"}
               PROVE  rows'[r].status = "absent"
    BY DEF DraftHasNoRows
  <1>1. BroadcastStep(r[1])
    BY BroadcastSteps, KeyTyped
  <1>2. broadcasts[r[1]] \in {"absent", "draft"} /\ (broadcasts'[r[1]] = broadcasts[r[1]] \/ UNCHANGED rows)
    BY <1>1 DEF BroadcastStep
  <1>3. rows[r].status = "absent"
    BY <1>2 DEF Locking, DraftHasNoRows
  <1>4. RowStep(r)
    BY RowSteps
  <1> QED BY <1>2, <1>3, <1>4, HeldIsOpen DEF RowStep, Open, OpenStatus, Waiting

\* What was counted without a lock is still true: the counted rows are closed, and
\* no cancellation passes the row that the worker holds.
LEMMA CountHoldsStep ==
  ASSUME Typed, Locking, Next
  PROVE  CountHolds'
  <1> SUFFICES ASSUME NEW p \in Workers, worker'[p].at = "close", worker'[p].outcome # "none"
               PROVE  (worker[p].outcome = Outcome(worker[p].msg, worker[p].verdict))'
    BY DEF CountHolds
  <1> DEFINE r == worker'[p].msg
             v == worker'[p].verdict
  <1>1. CASE UNCHANGED <<rows, broadcasts>> /\ worker'[p].outcome = Outcome(r, v)
    BY <1>1 DEF Outcome, Open
  <1>2. CASE worker'[p] = worker[p]
    <2>1. /\ Holds(p, r) /\ worker[p].outcome = Outcome(r, v) /\ Outcome(r, v) # "none"
          /\ r \in Recipients
      BY <1>2 DEF Locking, CountHolds, Holds, Typed, BusyHasRecipient
    <2>2. \A s \in RowsOf(r[1]) \ {r} : ~Open(s)
      BY <2>1 DEF Outcome
    <2>3. Open(r) /\ Owns(p, r) /\ Locked(r)
      BY <2>1, HeldIsOpen DEF Locked, Locking, HeldIsOwned, Holds
    <2>4. broadcasts[r[1]] \notin {"absent", "draft"}
      BY <2>1, <2>3 DEF Locking, DraftHasNoRows, Open, OpenStatus, Waiting
    <2>5. \A s \in RowsOf(r[1]) \ {r} : rows'[s].status = rows[s].status
      <3> SUFFICES ASSUME NEW s \in RowsOf(r[1]) \ {r} PROVE rows'[s].status = rows[s].status
        OBVIOUS
      <3>1. s \in Recipients /\ s[1] = r[1]
        BY <2>1, KeyTyped, RowsOfTyped
      <3> QED BY <2>2, <2>4, <3>1, ClosedRowStays
    <2>6. broadcasts'[r[1]] # "cancelled"
      <3>1. broadcasts[r[1]] \notin Finished
        BY <2>1, <2>3, KeyTyped DEF Locking, EndedHasNoOpenRow, OpenRows
      <3>2. BroadcastStep(r[1]) /\ r \in RowsOf(r[1])
        BY <2>1, BroadcastSteps, KeyTyped
      <3> QED BY <2>3, <3>1, <3>2 DEF BroadcastStep, Finished
    <2> QED BY <1>2, <2>1, <2>2, <2>5, <2>6 DEF Outcome, Open
  <1> QED BY <1>1, <1>2, HoldSteps

\* Whoever ends a campaign has counted right, locked or not.
LEMMA EndingCounted ==
  ASSUME Typed, Locking, NEW p \in Workers, NEW r, Holds(p, r),
         NEW o \in {"completed", "partially_failed"},
         o = IF At(p, "close") THEN worker[p].outcome ELSE Outcome(r, worker[p].verdict)
  PROVE  o = Outcome(r, worker[p].verdict)
  BY DEF Locking, CountHolds, Holds, At

LEMMA EndedStep ==
  ASSUME Typed, Locking, Next
  PROVE  EndedHasNoOpenRow' /\ OutcomeIsTrue'
  <1> SUFFICES ASSUME NEW b \in Broadcasts, broadcasts'[b] \in Finished
               PROVE  /\ \A r \in RowsOf(b) : rows'[r].status \notin OpenStatus
                      /\ broadcasts'[b] \in {"completed", "partially_failed"} =>
                           (broadcasts'[b] = "completed"
                             <=> \A r \in RowsOf(b) : rows'[r].status \notin Failures)
    BY DEF EndedHasNoOpenRow, OutcomeIsTrue, OpenRows, Open, Finished
  <1> DEFINE Goal == /\ \A r \in RowsOf(b) : rows'[r].status \notin OpenStatus
                     /\ broadcasts'[b] \in {"completed", "partially_failed"} =>
                           (broadcasts'[b] = "completed"
                             <=> \A r \in RowsOf(b) : rows'[r].status \notin Failures)
  <1>1. CASE broadcasts'[b] = broadcasts[b]
    <2>1. ASSUME NEW r \in RowsOf(b) PROVE ~Open(r) /\ rows'[r].status = rows[r].status
      <3>1. r \in Recipients /\ r[1] = b /\ ~Open(r)
        BY <1>1, RowsOfTyped DEF Locking, EndedHasNoOpenRow, OpenRows
      <3>2. broadcasts[r[1]] # "draft"
        BY <1>1, <3>1 DEF Finished
      <3> QED BY <3>1, <3>2, ClosedRowStays
    <2> QED BY <1>1, <2>1 DEF Locking, OutcomeIsTrue, Open
  <1>2. CASE broadcasts'[b] = "cancelled" /\ \A r \in RowsOf(b) : rows'[r].status \notin OpenStatus
    BY <1>2
  <1>3. ASSUME NEW p \in Workers,
               Holds(p, worker[p].msg), worker[p].msg[1] = b,
               rows' = [rows EXCEPT ![worker[p].msg] = RowIn(worker[p].verdict)],
               broadcasts'[b] \in {"completed", "partially_failed"},
               broadcasts'[b] = IF At(p, "close") THEN worker[p].outcome
                                ELSE Outcome(worker[p].msg, worker[p].verdict)
        PROVE  Goal
    <2> DEFINE r == worker[p].msg
               v == worker[p].verdict
    <2>1. broadcasts'[b] = Outcome(r, v)
      BY <1>3, EndingCounted
    <2>2. r \in Recipients /\ v \in Settled
      BY <1>3, HeldIsOpen
    <2>3. /\ \A s \in RowsOf(b) \ {r} : ~Open(s)
          /\ broadcasts'[b] = "completed"
               <=> v \notin Failures /\ \A s \in RowsOf(b) \ {r} : rows[s].status \notin Failures
      BY <1>3, <2>1 DEF Outcome
    <2>4. /\ rows'[r].status = v
          /\ \A s \in RowsOf(b) \ {r} : rows'[s].status = rows[s].status
      BY <1>3, <2>2, RowsOfTyped DEF RowIn, Typed, TypeOK
    <2>5. v \notin OpenStatus /\ r \in RowsOf(b)
      BY <1>3, <2>2, KeyTyped DEF Settled, Failures, OpenStatus, Waiting
    <2> QED BY <2>3, <2>4, <2>5 DEF Open
  <1>4. BroadcastStep(b)
    BY BroadcastSteps
  <1> QED BY <1>1, <1>2, <1>3, <1>4 DEF BroadcastStep, Finished

LEMMA CancellingStep ==
  ASSUME Typed, Locking, Next
  PROVE  CancellingLives'
  <1> SUFFICES ASSUME NEW b \in cancelling' PROVE broadcasts'[b] \notin Finished
    BY DEF CancellingLives
  <1>1. b \in Broadcasts
    BY TypedStep DEF Typed, TypeOK
  <1>2. ASSUME b \notin cancelling PROVE broadcasts'[b] \notin Finished
    <2>1. PICK c \in Broadcasts : StartCancel(c)
      BY <1>2 DEF Next, Requests, Works, Time, CreateDraft, Launch, CommitCancel, FailCancel,
                  ToggleSubscription, ToggleFeature, BecomesDue, LeaseEnds, ClaimBatch, Prepare,
                  Close, Send, SendNothing, Checkpoint, Record, Finish, LockFails, Crash
    <2>2. c = b /\ CancelAccepts(b) /\ UNCHANGED broadcasts
      BY <1>2, <2>1 DEF StartCancel, campaigns
    <2> QED BY <2>2 DEF CancelAccepts
  <1>3. ASSUME b \in cancelling PROVE broadcasts'[b] \notin Finished
    <2>1. broadcasts[b] \notin Finished
      BY <1>3 DEF Locking, CancellingLives
    <2> QED BY <1>1, <2>1, BroadcastSteps DEF BroadcastStep, Finished
  <1> QED BY <1>2, <1>3

\* Every step keeps the locking discipline.
LEMMA LockingStep == Typed /\ Locking /\ [Next]_vars => Locking'
  <1>1. CASE Typed /\ Locking /\ Next
    BY <1>1, HeldIsOwnedStep, DraftHasNoRowsStep, CountHoldsStep, CancellingStep, EndedStep
    DEF Locking
  <1>2. CASE Typed /\ Locking /\ UNCHANGED vars
    BY <1>2 DEF vars, Locking, HeldIsOwned, DraftHasNoRows, CountHolds, CancellingLives,
                EndedHasNoOpenRow, OutcomeIsTrue, Owns, Outcome, OpenRows, Open
  <1> QED BY <1>1, <1>2

LEMMA LockingInit == Init => Locking
  <1> SUFFICES ASSUME Init PROVE Locking
    OBVIOUS
  <1>1. \A r \in Recipients : rows[r].status = "absent"
    BY DEF Init, RowIn
  <1>2. \A b \in Broadcasts : broadcasts[b] = "absent"
    BY DEF Init
  <1>3. \A p \in Workers : worker[p].at = "ready"
    BY DEF Init, Idle
  <1> QED BY <1>1, <1>2, <1>3
          DEF Init, Locking, HeldIsOwned, DraftHasNoRows, CountHolds, CancellingLives,
              EndedHasNoOpenRow, OutcomeIsTrue, Finished

LEMMA LockingHolds == Spec => [](Typed /\ Locking)
  <1>1. Init => Typed /\ Locking
    BY TypedInit, LockingInit
  <1>2. (Typed /\ Locking) /\ [Next]_vars => (Typed /\ Locking)'
    BY TypedStep, LockingStep
  <1> QED BY <1>1, <1>2, PTL DEF Spec

\* An ended campaign has no recipient that could still be claimed or ended, although
\* cancellations, claims and deliveries overlap (cancel_open_recipients, _finalize).
THEOREM NoOpenRowLeft == Spec => []EndedHasNoOpenRow
  <1>1. Locking => EndedHasNoOpenRow
    BY DEF Locking
  <1> QED BY <1>1, LockingHolds, PTL

\* A campaign ends as its recipients did, although a skipped delivery counts them
\* without the lock of the campaign (prepare_delivery, _finalize).
THEOREM OutcomeTrue == Spec => []OutcomeIsTrue
  <1>1. Locking => OutcomeIsTrue
    BY DEF Locking
  <1> QED BY <1>1, LockingHolds, PTL

\* Nobody writes over the end of a campaign, not even the worker that writes it
\* without having locked it (prepare_delivery).
THEOREM EndFinal == Spec => EndIsFinal
  <1>1. Typed /\ Locking /\ [Next]_vars =>
          [\A b \in Broadcasts : broadcasts[b] \in Finished => broadcasts'[b] = broadcasts[b]]_vars
    <2> SUFFICES ASSUME Typed, Locking, Next, NEW b \in Broadcasts, broadcasts[b] \in Finished
                 PROVE  broadcasts'[b] = broadcasts[b]
      BY DEF vars
    <2>1. \A r \in RowsOf(b) : ~Open(r)
      BY DEF Locking, EndedHasNoOpenRow, OpenRows
    <2>2. b \notin cancelling
      BY DEF Locking, CancellingLives
    <2>3. \A p \in Workers : Holds(p, worker[p].msg) => worker[p].msg[1] # b
      BY <2>1, HeldIsOpen, KeyTyped
    <2> QED BY <2>2, <2>3, BroadcastSteps DEF BroadcastStep, Finished
  <1> QED BY <1>1, LockingHolds, PTL DEF Spec, EndIsFinal

\* A worker that still sends for an ended campaign has lost its row: what it owns is
\* open, and an ended campaign has nothing open (prepare_delivery, cancel).
THEOREM LateSenderIsAlone == Spec => []LateSenderHasLostItsRow
  <1>1. Typed /\ Locking => LateSenderHasLostItsRow
    <2> SUFFICES ASSUME Typed, Locking, NEW p \in Workers, worker[p].msg # None,
                        broadcasts[worker[p].msg[1]] \in Finished, Owns(p, worker[p].msg)
                 PROVE  FALSE
      BY DEF LateSenderHasLostItsRow
    <2>1. worker[p].msg \in Recipients
      BY DEF Typed, TypeOK
    <2> QED BY <2>1, OneOwner, KeyTyped DEF Locking, EndedHasNoOpenRow, OpenRows
  <1> QED BY <1>1, LockingHolds, PTL
-----------------------------------------------------------------------------
(* Delivery.  What a worker knows to be sent was sent. *)

Arrived(c, r, part) == c[r][part] > 0
ArrivedAll(c, f, r) == \A part \in f[r[1]] : Arrived(c, r, part)
\* What a worker in state x has sent and is about to record.
Told(c, f, b, x) ==
  /\ x.at \in {"send", "record"} /\ x.media => Arrived(c, x.msg, "media")
  /\ x.at = "checkpoint" => Arrived(c, x.msg, "media")
  /\ x.at = "record" /\ x.answer = "ok" => ArrivedAll(c, f, x.msg)
  /\ x.at = "finish" /\ x.verdict = "sent" => ArrivedAll(c, f, x.msg)
  /\ x.at = "close" => x.verdict # "sent"
  /\ x.at # "ready" => b[x.msg[1]] # "absent"
Got(r, part) == Arrived(copies, r, part)
GotAll(r) == ArrivedAll(copies, format, r)
Knows(x) == Told(copies, format, broadcasts, x)
\* The same after the step.
GotNext(r, part) == Arrived(copies', r, part)
GotAllNext(r) == ArrivedAll(copies', format', r)
KnowsNext(x) == Told(copies', format', broadcasts', x)
StoredMediaArrived == \A r \in Recipients : rows[r].media => Got(r, "media")
WorkerKnows == \A p \in Workers : Knows(worker[p])
Delivery == StoredMediaArrived /\ WorkerKnows /\ SentMeansDelivered
USE DEF Knows, KnowsNext, Got, GotNext, GotAll, GotAllNext

\* What has arrived stays so.
LEMMA ArrivedStays ==
  ASSUME Typed, Next, NEW r \in Recipients, NEW part \in Parts, Got(r, part)
  PROVE  GotNext(r, part)
  <1>1. ASSUME NEW p \in Workers, Send(p) PROVE GotNext(r, part)
    <2>1. worker[p].msg \in Recipients /\ NextPart(p) \in Parts
      BY <1>1 DEF Send, At, Typed, BusyHasRecipient, NextPart, Parts
    <2>2. copies \in [Recipients -> [Parts -> Nat]]
      BY DEF Typed, TypeOK
    <2>3. copies' = copies \/ copies' = [copies EXCEPT ![worker[p].msg][NextPart(p)] = @ + 1]
      BY <1>1 DEF Send
    <2> QED BY <2>1, <2>2, <2>3 DEF Arrived
  <1>2. ASSUME UNCHANGED copies PROVE GotNext(r, part)
    BY <1>2 DEF Arrived
  <1>3. ASSUME Requests \/ Time PROVE UNCHANGED copies
    BY <1>3 DEF Requests, Time, CreateDraft, Launch, StartCancel, CommitCancel, FailCancel,
                ToggleSubscription, ToggleFeature, BecomesDue, LeaseEnds
  <1>4. ASSUME NEW p \in Workers,
               \/ ClaimBatch(p) \/ Close(p) \/ SendNothing(p) \/ Checkpoint(p) \/ Record(p)
               \/ Finish(p) \/ LockFails(p) \/ Crash(p) \/ \E s \in Recipients : Prepare(p, s)
        PROVE  UNCHANGED copies
    BY <1>4 DEF ClaimBatch, Close, SendNothing, Checkpoint, Record, Finish, LockFails, Crash, Prepare
  <1> QED BY <1>1, <1>2, <1>3, <1>4 DEF Next, Works

\* A campaign that has been drafted keeps its parts.
LEMMA FormatStays ==
  ASSUME Typed, Next, NEW b \in Broadcasts, broadcasts[b] # "absent"
  PROVE  format'[b] = format[b] /\ broadcasts'[b] # "absent"
  <1>1. format'[b] = format[b]
    BY DEF Typed, TypeOK, Next, Requests, Works, Time, CreateDraft, Launch, StartCancel,
           CommitCancel, FailCancel, ToggleSubscription, ToggleFeature, BecomesDue, LeaseEnds,
           ClaimBatch, Prepare, Close, Send, SendNothing, Checkpoint, Record, Finish, LockFails,
           Crash, campaigns
  <1> QED BY <1>1, BroadcastSteps DEF BroadcastStep

LEMMA GotAllStays ==
  ASSUME Typed, Next, NEW r \in Recipients, broadcasts[r[1]] # "absent", GotAll(r)
  PROVE  GotAllNext(r)
  <1>1. r[1] \in Broadcasts /\ format[r[1]] \subseteq Parts
    BY KeyTyped DEF Typed, TypeOK, Formats, Parts
  <1>2. format'[r[1]] = format[r[1]]
    BY <1>1, FormatStays
  <1> QED BY <1>1, <1>2, ArrivedStays DEF ArrivedAll

\* What a worker knows stays true.
LEMMA KnowsStays ==
  ASSUME Typed, Next, NEW x \in Worker, x.at # "ready" => x.msg \in Recipients, Knows(x)
  PROVE  KnowsNext(x)
  <1>1. CASE x.at = "ready"
    BY <1>1 DEF Told
  <1>2. CASE x.at # "ready"
    <2>1. x.msg \in Recipients /\ x.msg[1] \in Broadcasts /\ broadcasts[x.msg[1]] # "absent"
      BY <1>2, KeyTyped DEF Told
    <2>2. broadcasts'[x.msg[1]] # "absent"
      BY <2>1, FormatStays
    <2>3. Got(x.msg, "media") => GotNext(x.msg, "media")
      BY <2>1, ArrivedStays DEF Parts
    <2>4. GotAll(x.msg) => GotAllNext(x.msg)
      BY <2>1, GotAllStays
    <2> QED BY <2>1, <2>2, <2>3, <2>4 DEF Told
  <1> QED BY <1>1, <1>2

\* The parts that are not missing have arrived.
LEMMA NothingElseMissing ==
  ASSUME Typed, WorkerKnows, NEW p \in Workers, At(p, "send")
  PROVE  /\ worker[p].msg \in Recipients /\ format[worker[p].msg[1]] \subseteq Parts
         /\ Missing(p) \subseteq Parts
         /\ \A part \in format[worker[p].msg[1]] \ Missing(p) : Got(worker[p].msg, part)
         /\ broadcasts[worker[p].msg[1]] # "absent"
  <1>1. worker[p].msg \in Recipients /\ worker[p].msg[1] \in Broadcasts
    BY KeyTyped DEF At, Typed, BusyHasRecipient
  <1>2. format[worker[p].msg[1]] \subseteq Parts
    <2>1. format \in [Broadcasts -> Formats]
      BY DEF Typed, TypeOK
    <2>2. format[worker[p].msg[1]] \in Formats
      BY <1>1, <2>1
    <2> QED BY <2>2 DEF Formats, Parts
  <1>3. Knows(worker[p])
    BY DEF WorkerKnows
  <1> QED BY <1>1, <1>2, <1>3 DEF Told, Missing, At

\* Every step leaves every worker with what is true.
LEMMA WorkerKnowsStep ==
  ASSUME Typed, Locking, Delivery, Next
  PROVE  WorkerKnows'
  <1>0. worker \in [Workers -> Worker] /\ WorkerKnows
    BY DEF Typed, TypeOK, Worker, Delivery
  <1>1. ASSUME NEW p \in Workers, worker'[p] = worker[p] PROVE KnowsNext(worker[p])
    <2>1. Knows(worker[p]) /\ worker[p] \in Worker
      BY <1>0 DEF WorkerKnows
    <2>2. worker[p].at # "ready" => worker[p].msg \in Recipients
      BY DEF Typed, BusyHasRecipient
    <2>3. \A x \in Worker : (x.at # "ready" => x.msg \in Recipients) /\ Knows(x) => KnowsNext(x)
      BY KnowsStays
    <2> QED BY <1>1, <2>1, <2>2, <2>3 DEF Told, Arrived, ArrivedAll
  <1>2. ASSUME NEW p \in Workers, NEW x, Goes(p, x), KnowsNext(x) PROVE WorkerKnows'
    <2>1. worker'[p] = x
      BY <1>0, <1>2 DEF Goes
    <2>2. \A q \in Workers \ {p} : worker'[q] = worker[q]
      BY <1>0, <1>2 DEF Goes
    <2> SUFFICES ASSUME NEW q \in Workers PROVE KnowsNext(worker'[q])
      BY DEF WorkerKnows
    <2>3. CASE q = p
      BY <1>2, <2>1, <2>3 DEF Told, Arrived, ArrivedAll
    <2>4. CASE q # p
      BY <1>1, <2>2, <2>4
    <2> QED BY <2>3, <2>4
  <1>3. ASSUME UNCHANGED worker PROVE WorkerKnows'
    BY <1>1, <1>3 DEF WorkerKnows
  <1>4. ASSUME NEW x, x.at = "ready" PROVE KnowsNext(x)
    BY <1>4 DEF Told
  <1>5. ASSUME NEW p \in Workers, ClaimBatch(p) PROVE WorkerKnows'
    <2>1. PICK batch : Goes(p, [worker[p] EXCEPT !.queue = batch])
      BY <1>5 DEF ClaimBatch
    <2>2. [worker[p] EXCEPT !.queue = batch].at = "ready"
      BY <1>0, <1>5 DEF Worker, ClaimBatch, At
    <2> QED BY <1>2, <1>4, <2>1, <2>2
  <1>6. ASSUME NEW p \in Workers, NEW r \in Recipients, Prepare(p, r) PROVE WorkerKnows'
    <2> DEFINE rest == [worker[p] EXCEPT !.queue = @ \ {r}]
               send == [rest EXCEPT !.at = "send", !.msg = r, !.media = rows[r].media]
               close == [rest EXCEPT !.at = "close", !.msg = r, !.verdict = Verdict(r),
                                     !.outcome = Outcome(r, Verdict(r))]
    <2>1. \/ Goes(p, rest)
          \/ Owns(p, r) /\ (Goes(p, send) \/ Goes(p, close))
      BY <1>6 DEF Prepare
    <2>2. UNCHANGED <<broadcasts, copies, format>>
      BY <1>6 DEF Prepare, campaigns
    <2>3. rest \in Worker /\ rest.at = "ready"
      BY <1>0, <1>6 DEF Worker, Prepare, At
    <2>4. Owns(p, r) => broadcasts[r[1]] # "absent"
      BY DEF Owns, Locking, DraftHasNoRows
    <2>5. rows[r].media => Got(r, "media")
      BY DEF Delivery, StoredMediaArrived
    <2>6. send.at = "send" /\ send.msg = r /\ send.media = rows[r].media
      BY <2>3 DEF Worker
    <2>7. close.at = "close" /\ close.msg = r /\ close.verdict = Verdict(r)
      BY <2>3 DEF Worker
    <2>8. Verdict(r) # "sent"
      BY VerdictTyped
    <2> HIDE DEF rest, send, close
    <2>9. Owns(p, r) => KnowsNext(send)
      BY <2>2, <2>4, <2>5, <2>6 DEF Told, Arrived
    <2>10. Owns(p, r) => KnowsNext(close)
      BY <2>2, <2>4, <2>7, <2>8 DEF Told
    <2> QED BY <1>2, <1>4, <2>1, <2>3, <2>9, <2>10
  <1>7. ASSUME NEW p \in Workers, Ready(p) \/ LockFails(p) \/ Crash(p) PROVE WorkerKnows'
    <2>1. \/ Goes(p, [Idle EXCEPT !.queue = worker[p].queue])
          \/ Goes(p, Idle)
      BY <1>7 DEF Ready, LockFails, Crash
    <2>2. Idle.at = "ready" /\ [Idle EXCEPT !.queue = worker[p].queue].at = "ready"
      BY DEF Idle
    <2> QED BY <1>2, <1>4, <2>1, <2>2
  <1>8. ASSUME NEW p \in Workers, Close(p) \/ Finish(p) PROVE WorkerKnows'
    BY <1>7, <1>8 DEF Close, Finish
  <1>9. ASSUME NEW p \in Workers, Send(p) PROVE WorkerKnows'
    <2> DEFINE r == worker[p].msg
               x1 == [worker[p] EXCEPT !.at = "checkpoint"]
               x2(answer) == [worker[p] EXCEPT !.at = "record", !.answer = answer]
    <2>1. PICK answer \in Answers \ {"none"}, arrived \in BOOLEAN :
            /\ answer = "ok" => arrived
            /\ Goes(p, IF answer = "ok" /\ NextPart(p) = "media" THEN x1 ELSE x2(answer))
            /\ copies' = IF arrived THEN [copies EXCEPT ![r][NextPart(p)] = @ + 1] ELSE copies
      BY <1>9 DEF Send
    <2>2. /\ r \in Recipients /\ format[r[1]] \subseteq Parts /\ Missing(p) \subseteq Parts
          /\ \A part \in format[r[1]] \ Missing(p) : Got(r, part)
          /\ broadcasts[r[1]] # "absent"
      BY <1>0, <1>9, NothingElseMissing DEF Send
    <2>3. UNCHANGED <<broadcasts, format>>
      BY <1>9 DEF Send, campaigns
    <2>4. /\ x1.at = "checkpoint" /\ x1.msg = r
          /\ x2(answer).at = "record" /\ x2(answer).msg = r
          /\ x2(answer).media = worker[p].media /\ x2(answer).answer = answer
      BY <1>0 DEF Worker
    <2>5. worker[p].media => Got(r, "media")
      BY <1>0, <1>9 DEF WorkerKnows, Told, Send, At
    <2>6. \A part \in Parts : Got(r, part) => GotNext(r, part)
      BY <2>2, ArrivedStays
    <2>7. arrived => GotNext(r, NextPart(p))
      <3>1. copies \in [Recipients -> [Parts -> Nat]] /\ NextPart(p) \in Parts
        BY DEF Typed, TypeOK, NextPart, Parts
      <3>2. copies[r] \in [Parts -> Nat] /\ copies[r][NextPart(p)] \in Nat
        BY <2>2, <3>1
      <3>3. arrived => copies'[r][NextPart(p)] = copies[r][NextPart(p)] + 1
        BY <2>1, <2>2, <3>1, <3>2
      <3> QED BY <3>2, <3>3 DEF Arrived
    <2> HIDE DEF x1, x2, r
    <2>8. answer = "ok" /\ NextPart(p) = "media" => KnowsNext(x1)
      BY <2>1, <2>2, <2>3, <2>4, <2>7 DEF Told
    <2>9. answer = "ok" /\ NextPart(p) # "media" => \A part \in format[r[1]] : GotNext(r, part)
      <3>1. answer = "ok" /\ NextPart(p) # "media" => Missing(p) \subseteq {"text"}
        BY <2>2 DEF NextPart, Parts
      <3>2. NextPart(p) # "media" => NextPart(p) = "text"
        BY DEF NextPart
      <3> QED BY <2>1, <2>2, <2>6, <2>7, <3>1, <3>2
    <2>10. ~(answer = "ok" /\ NextPart(p) = "media") => KnowsNext(x2(answer))
      <3>1. answer = "ok" /\ NextPart(p) # "media" => GotAllNext(r)
        BY <2>3, <2>9 DEF ArrivedAll, r
      <3>2. worker[p].media => GotNext(r, "media")
        BY <2>5, <2>6 DEF Parts
      <3> QED BY <2>2, <2>3, <2>4, <3>1, <3>2 DEF Told
    <2> QED BY <1>2, <2>1, <2>8, <2>10
  <1>10. ASSUME NEW p \in Workers, SendNothing(p) PROVE WorkerKnows'
    <2> DEFINE r == worker[p].msg
               x == [worker[p] EXCEPT !.at = "record", !.answer = "ok"]
    <2>1. Goes(p, x) /\ UNCHANGED <<broadcasts, format, copies>> /\ Missing(p) = {}
      BY <1>10 DEF SendNothing, campaigns
    <2>2. /\ \A part \in format[r[1]] : Got(r, part)
          /\ broadcasts[r[1]] # "absent"
      BY <1>0, <1>10, <2>1, NothingElseMissing DEF SendNothing
    <2>3. worker[p].media => Got(r, "media")
      BY <1>0, <1>10 DEF WorkerKnows, Told, SendNothing, At
    <2>4. x.at = "record" /\ x.msg = r /\ x.media = worker[p].media
      BY <1>0 DEF Worker
    <2> HIDE DEF x
    <2>5. KnowsNext(x)
      BY <2>1, <2>2, <2>3, <2>4 DEF Told, Arrived, ArrivedAll
    <2> QED BY <1>2, <2>1, <2>5
  <1>11. ASSUME NEW p \in Workers, Checkpoint(p) PROVE WorkerKnows'
    <2> DEFINE r == worker[p].msg
               x1 == [worker[p] EXCEPT !.at = "send", !.media = TRUE]
               x2 == [worker[p] EXCEPT !.at = "record", !.answer = "retry"]
    <2>1. (Goes(p, x1) \/ Goes(p, x2)) /\ UNCHANGED <<broadcasts, format, copies>>
      BY <1>11 DEF Checkpoint, campaigns
    <2>2. Got(r, "media") /\ broadcasts[r[1]] # "absent"
      BY <1>0, <1>11 DEF WorkerKnows, Told, Checkpoint, At
    <2>3. /\ x1.at = "send" /\ x1.msg = r
          /\ x2.at = "record" /\ x2.msg = r /\ x2.answer = "retry"
      BY <1>0 DEF Worker
    <2> HIDE DEF x1, x2
    <2>4. KnowsNext(x1) /\ KnowsNext(x2)
      BY <2>1, <2>2, <2>3 DEF Told, Arrived
    <2> QED BY <1>2, <2>1, <2>4
  <1>12. ASSUME NEW p \in Workers, Record(p) PROVE WorkerKnows'
    <2> DEFINE r == worker[p].msg
               status == Recorded(rows[r], worker[p].answer)
               x == [worker[p] EXCEPT !.at = "finish", !.verdict = status]
    <2>1. (Ready(p) \/ Goes(p, x)) /\ UNCHANGED <<broadcasts, format, copies>>
      BY <1>12 DEF Record, campaigns
    <2>2. /\ worker[p].answer = "ok" => GotAll(r)
          /\ broadcasts[r[1]] # "absent"
      BY <1>0, <1>12 DEF WorkerKnows, Told, Record, At
    <2>3. status = "sent" => worker[p].answer = "ok"
      BY DEF Recorded
    <2>4. x.at = "finish" /\ x.msg = r /\ x.verdict = status
      BY <1>0 DEF Worker
    <2> HIDE DEF x, status
    <2>5. KnowsNext(x)
      BY <2>1, <2>2, <2>3, <2>4 DEF Told, Arrived, ArrivedAll
    <2> QED BY <1>2, <1>7, <2>1, <2>5
  <1>13. ASSUME Requests \/ Time PROVE UNCHANGED worker
    BY <1>13 DEF Requests, Time, CreateDraft, Launch, StartCancel, CommitCancel, FailCancel,
                 ToggleSubscription, ToggleFeature, BecomesDue, LeaseEnds
  <1> QED
    BY <1>3, <1>5, <1>6, <1>7, <1>8, <1>9, <1>10, <1>11, <1>12, <1>13 DEF Next, Works

\* What a step writes into a row has arrived.
LEMMA RowsKnowStep ==
  ASSUME Typed, Locking, Delivery, Next, NEW r \in Recipients
  PROVE  /\ rows'[r].media => Got(r, "media")
         /\ rows'[r].status = "sent" => GotAll(r) /\ broadcasts[r[1]] # "absent"
  <1> DEFINE Goal == /\ rows'[r].media => Got(r, "media")
                     /\ rows'[r].status = "sent" => GotAll(r) /\ broadcasts[r[1]] # "absent"
  <1>1. rows \in [Recipients -> Row] /\ rows[r] \in Row
    BY DEF Typed, TypeOK
  <1>2. /\ rows[r].media => Got(r, "media")
        /\ rows[r].status = "sent" => GotAll(r) /\ broadcasts[r[1]] # "absent"
    BY DEF Delivery, StoredMediaArrived, SentMeansDelivered, Arrived, ArrivedAll, Locking, DraftHasNoRows
  <1>3. ASSUME rows'[r] = rows[r] PROVE Goal
    BY <1>2, <1>3
  <1>4. ASSUME NEW s, s # "sent", rows'[r] = RowIn(s) PROVE Goal
    BY <1>4 DEF RowIn
  <1> HIDE DEF Goal
  <1>5. ASSUME NEW b \in Broadcasts,
               CommitCancel(b) \/ \E segment \in SUBSET Clients : Launch(b, segment)
        PROVE  Goal
    <2>1. \/ rows'[r] = rows[r] \/ rows'[r] = RowIn("pending") \/ rows'[r] = RowIn("skipped")
      BY <1>5 DEF CommitCancel, Launch
    <2> QED BY <1>3, <1>4, <2>1
  <1>6. ASSUME NEW p \in Workers, ClaimBatch(p) PROVE Goal
    <2>1. rows'[r] = rows[r] \/ rows'[r] = Claimed(p, rows[r])
      BY <1>6 DEF ClaimBatch
    <2>2. Claimed(p, rows[r]).media = rows[r].media /\ Claimed(p, rows[r]).status = "processing"
      BY <1>1 DEF Claimed, Row
    <2> QED BY <1>2, <2>1, <2>2 DEF Goal
  <1>7. ASSUME NEW p \in Workers, Close(p) \/ Finish(p) PROVE Goal
    <2>1. rows' = [rows EXCEPT ![worker[p].msg] = RowIn(worker[p].verdict)]
      BY <1>7 DEF Close, Finish, Ends
    <2>2. CASE r # worker[p].msg
      BY <1>1, <1>3, <2>1, <2>2
    <2>3. CASE r = worker[p].msg
      <3>1. rows'[r] = RowIn(worker[p].verdict)
        BY <1>1, <2>1, <2>3
      <3>2. Knows(worker[p])
        BY DEF Delivery, WorkerKnows
      <3>3. worker[p].verdict = "sent" => GotAll(r) /\ broadcasts[r[1]] # "absent"
        BY <1>7, <2>3, <3>2 DEF Told, Close, Finish, At
      <3> QED BY <3>1, <3>3 DEF Goal, RowIn
    <2> QED BY <2>2, <2>3
  <1>8. ASSUME NEW p \in Workers, Checkpoint(p) PROVE Goal
    <2> DEFINE m == worker[p].msg
               x == [rows[m] EXCEPT !.media = TRUE]
    <2>1. rows' = rows \/ rows' = [rows EXCEPT ![m] = x]
      BY <1>8 DEF Checkpoint
    <2>2. m \in Recipients /\ Got(m, "media")
      BY <1>8 DEF Checkpoint, At, Typed, BusyHasRecipient, Delivery, WorkerKnows, Told
    <2>3. x.status = rows[m].status
      BY <1>1, <2>2 DEF Row
    <2> HIDE DEF x
    <2> QED BY <1>1, <1>2, <2>1, <2>2, <2>3 DEF Goal
  <1>9. ASSUME NEW p \in Workers, Record(p) PROVE Goal
    <2> DEFINE m == worker[p].msg
               x == [rows[m] EXCEPT !.status = "retry", !.due = FALSE, !.by = None,
                                    !.leased = FALSE]
    <2>1. rows' = rows \/ rows' = [rows EXCEPT ![m] = x]
      BY <1>9 DEF Record
    <2>2. m \in Recipients
      BY <1>9 DEF Record, At, Typed, BusyHasRecipient
    <2>3. x.status = "retry" /\ x.media = rows[m].media
      BY <1>1, <2>2 DEF Row
    <2> HIDE DEF x
    <2> QED BY <1>1, <1>2, <2>1, <2>2, <2>3 DEF Goal
  <1>10. ASSUME NEW s \in Recipients, BecomesDue(s) \/ LeaseEnds(s) PROVE Goal
    <2> DEFINE x == [rows[s] EXCEPT !.due = TRUE]
               y == [rows[s] EXCEPT !.leased = FALSE]
    <2>1. rows' = [rows EXCEPT ![s] = x] \/ rows' = [rows EXCEPT ![s] = y]
      BY <1>10 DEF BecomesDue, LeaseEnds
    <2>2. /\ x.status = rows[s].status /\ x.media = rows[s].media
          /\ y.status = rows[s].status /\ y.media = rows[s].media
      BY <1>1 DEF Row
    <2> HIDE DEF x, y
    <2> QED BY <1>1, <1>2, <2>1, <2>2 DEF Goal
  <1>11. ASSUME UNCHANGED rows PROVE Goal
    BY <1>3, <1>11
  <1>12. ASSUME NEW b \in Broadcasts,
                StartCancel(b) \/ FailCancel(b) \/ \E parts \in Formats : CreateDraft(b, parts)
         PROVE  UNCHANGED rows
    BY <1>12 DEF StartCancel, FailCancel, CreateDraft
  <1>13. ASSUME ToggleFeature \/ \E c \in Clients : ToggleSubscription(c) PROVE UNCHANGED rows
    BY <1>13 DEF ToggleSubscription, ToggleFeature
  <1>14. ASSUME NEW p \in Workers,
                \/ Send(p) \/ SendNothing(p) \/ LockFails(p) \/ Crash(p)
                \/ \E s \in Recipients : Prepare(p, s)
         PROVE  UNCHANGED rows
    BY <1>14 DEF Send, SendNothing, LockFails, Crash, Prepare
  <1> QED
    BY <1>5, <1>6, <1>7, <1>8, <1>9, <1>10, <1>11, <1>12, <1>13, <1>14
    DEF Next, Requests, Works, Time, Goal

LEMMA DeliveryStep == Typed /\ Locking /\ Delivery /\ [Next]_vars => Delivery'
  <1>1. CASE Typed /\ Locking /\ Delivery /\ Next
    <2>1. StoredMediaArrived'
      BY <1>1, RowsKnowStep, ArrivedStays DEF StoredMediaArrived, Parts
    <2>2. \A r \in Recipients : rows'[r].status = "sent" => GotAllNext(r)
      BY <1>1, RowsKnowStep, GotAllStays
    <2>3. SentMeansDelivered'
      BY <2>2 DEF SentMeansDelivered, ArrivedAll, Arrived
    <2> QED BY <1>1, <2>1, <2>3, WorkerKnowsStep DEF Delivery
  <1>2. CASE Delivery /\ UNCHANGED vars
    BY <1>2 DEF vars, Delivery, StoredMediaArrived, WorkerKnows, SentMeansDelivered, Told, Arrived, ArrivedAll
  <1> QED BY <1>1, <1>2

\* Who is recorded as sent has got every part: a checkpoint is stored only for media
\* that arrived, and a delivery is recorded as sent only when nothing was missing
\* (mark_media_sent, mark_sent, send_delivery).
THEOREM SentDelivered == Spec => []SentMeansDelivered
  <1>1. Init => Delivery
    <2> SUFFICES ASSUME Init PROVE Delivery
      OBVIOUS
    <2>1. \A r \in Recipients : rows[r] = RowIn("absent")
      BY DEF Init
    <2>2. \A p \in Workers : worker[p].at = "ready"
      BY DEF Init, Idle
    <2> QED BY <2>1, <2>2
            DEF Delivery, StoredMediaArrived, WorkerKnows, Told, SentMeansDelivered, RowIn
  <1>2. Delivery => SentMeansDelivered
    BY DEF Delivery
  <1> QED BY <1>1, <1>2, DeliveryStep, LockingHolds, PTL DEF Spec
-----------------------------------------------------------------------------
(* Copies.  A part is counted with the workers that may still send it and  *)
(* with the sends its row still allows.                                    *)

\* A worker in state x that is going to send the part, unless it gives the row up.
Sending(x, r, part) ==
  /\ x.msg = r
  /\ \/ part = "media" /\ x.at = "send" /\ ~x.media
     \/ part = "text" /\ x.at \in {"send", "checkpoint"}
Senders(r, part) == {p \in Workers : Sending(worker[p], r, part)}

\* The row is owned by a worker that has still to prepare it, or that works at it.
Queued(r) == rows[r].by \in Workers /\ r \in worker[rows[r].by].queue
Held(r) ==
  Queued(r) \/ (rows[r].by \in Workers /\ ~At(rows[r].by, "ready") /\ worker[rows[r].by].msg = r)

\* A worker in state x sends, or ends the row.
Delivering(x) == x.at \in {"send", "checkpoint", "finish"} \/ (x.at = "record" /\ x.answer # "retry")

\* The row is settled, or leased to a worker that delivers it.
Spent(r) ==
  \/ rows[r].status \in Settled
  \/ /\ rows[r].status = "processing" /\ rows[r].leased /\ ~Queued(r)
     /\ rows[r].by \in Workers /\ worker[rows[r].by].msg = r /\ Delivering(worker[rows[r].by])

\* The row's owner will prepare it, and another worker may take it over before or
\* afterwards.
Twice(r) == rows[r].status = "processing" /\ ~rows[r].leased /\ Queued(r)

\* The media is stored as sent, and will be left out.
Stored(r, part) == part = "media" /\ rows[r].media /\ Open(r)

\* How often the row still lets somebody start to send the part, without another fault.
Chances(r, part) ==
  IF Spent(r) \/ Stored(r, part) THEN 0 ELSE IF Twice(r) THEN 2 ELSE 1

\* A cancellation under way has been counted as a fault, and may take the row from its
\* owner (LockFails).
Reserve(r) ==
  IF r[1] \in cancelling /\ rows[r].status = "processing" /\ Held(r) THEN 1 ELSE 0

Room(r, part) == Chances(r, part) + Reserve(r)
Balance(r, part) == copies[r][part] + Cardinality(Senders(r, part)) + Room(r, part)
Counted(r, part) == IsFiniteSet(Senders(r, part)) /\ Balance(r, part) <= 1 + faults

\* What a worker remembers as stored is stored, as long as the row is its own.
MediaStored ==
  \A p \in Workers : /\ worker[p].at \in {"send", "record"} /\ worker[p].media
                     /\ Owns(p, worker[p].msg)
                     => rows[worker[p].msg].media

CopiesInv == /\ Typed /\ Locking /\ MediaStored
             /\ \A r \in Recipients, part \in Parts : Counted(r, part)

\* The room of a row is a number, before a step and after it.
LEMMA RoomTyped ==
  ASSUME NEW r \in Recipients, NEW part \in Parts
  PROVE  /\ Chances(r, part) \in {0, 1, 2} /\ Chances(r, part)' \in {0, 1, 2}
         /\ Reserve(r) \in {0, 1} /\ Reserve(r)' \in {0, 1}
         /\ Room(r, part) \in Nat /\ Room(r, part)' \in Nat
  <1>1. Chances(r, part) \in {0, 1, 2} /\ Chances(r, part)' \in {0, 1, 2}
    BY DEF Chances
  <1>2. Reserve(r) \in {0, 1} /\ Reserve(r)' \in {0, 1}
    BY DEF Reserve
  <1> QED BY <1>1, <1>2 DEF Room

\* So are the other terms of the count.
LEMMA CountTyped ==
  ASSUME Typed, Typed', NEW r \in Recipients, NEW part \in Parts
  PROVE  /\ copies[r][part] \in Nat /\ copies'[r][part] \in Nat
         /\ faults \in Nat /\ faults' \in Nat
         /\ IsFiniteSet(Senders(r, part)) => Cardinality(Senders(r, part)) \in Nat
         /\ IsFiniteSet(Senders(r, part)') => Cardinality(Senders(r, part)') \in Nat
  <1>1. copies \in [Recipients -> [Parts -> Nat]] /\ copies' \in [Recipients -> [Parts -> Nat]]
    BY DEF Typed, TypeOK
  <1>2. copies[r] \in [Parts -> Nat] /\ copies'[r] \in [Parts -> Nat]
    BY <1>1
  <1>3. faults \in Nat /\ faults' \in Nat
    BY DEF Typed, TypeOK
  <1> QED BY <1>2, <1>3, FS_CardinalityType

\* A part that nobody starts or stops to send is counted as long as its room and the
\* faults move together.
LEMMA SameSendersCount ==
  ASSUME Typed, Typed', NEW r \in Recipients, NEW part \in Parts, Counted(r, part),
         copies'[r][part] = copies[r][part],
         Senders(r, part)' = Senders(r, part),
         Room(r, part)' + faults <= Room(r, part) + faults'
  PROVE  Counted(r, part)'
  BY CountTyped, RoomTyped DEF Counted, Balance

\* A part that a worker stops to send leaves one more for the room and the faults, and
\* one that it starts to send takes one from the room.
LEMMA LessSendersCount ==
  ASSUME Typed, Typed', NEW r \in Recipients, NEW part \in Parts, Counted(r, part),
         NEW p, p \in Senders(r, part), Senders(r, part)' = Senders(r, part) \ {p},
         copies'[r][part] + Room(r, part)' + faults
           <= copies[r][part] + Room(r, part) + faults' + 1
  PROVE  Counted(r, part)'
  <1>1. /\ IsFiniteSet(Senders(r, part)')
        /\ Cardinality(Senders(r, part)') = Cardinality(Senders(r, part)) - 1
    BY FS_RemoveElement DEF Counted
  <1> QED BY <1>1, CountTyped, RoomTyped DEF Counted, Balance

LEMMA MoreSendersCount ==
  ASSUME Typed, Typed', NEW r \in Recipients, NEW part \in Parts, Counted(r, part),
         NEW p, Senders(r, part)' = Senders(r, part) \cup {p}, UNCHANGED <<copies, faults>>,
         Room(r, part)' + 1 <= Room(r, part)
  PROVE  Counted(r, part)'
  <1>1. /\ IsFiniteSet(Senders(r, part)')
        /\ Cardinality(Senders(r, part)') <= Cardinality(Senders(r, part)) + 1
    <2>1. Cardinality(Senders(r, part)) \in Nat
      BY FS_CardinalityType DEF Counted
    <2>2. /\ IsFiniteSet(Senders(r, part) \cup {p})
          /\ \/ Cardinality(Senders(r, part) \cup {p}) = Cardinality(Senders(r, part))
             \/ Cardinality(Senders(r, part) \cup {p}) = Cardinality(Senders(r, part)) + 1
      BY FS_AddElement DEF Counted
    <2> QED BY <2>1, <2>2
  <1>2. /\ copies[r][part] \in Nat /\ copies'[r][part] = copies[r][part]
        /\ faults \in Nat /\ faults' = faults
        /\ Cardinality(Senders(r, part)) \in Nat /\ Cardinality(Senders(r, part)') \in Nat
        /\ Room(r, part) \in Nat /\ Room(r, part)' \in Nat
    BY <1>1, CountTyped, RoomTyped DEF Counted
  <1> QED BY <1>1, <1>2 DEF Counted, Balance

\* What a row allows depends on its status, its lease, its owner and the checkpoint, and
\* shrinks as a cancellation ends.
LEMMA SameRoom ==
  ASSUME NEW r \in Recipients, NEW part \in Parts,
         rows'[r].status = rows[r].status, rows'[r].leased = rows[r].leased,
         rows'[r].by = rows[r].by, rows'[r].media = rows[r].media,
         \A p \in Workers : p = rows[r].by => worker'[p] = worker[p],
         r[1] \in cancelling' => r[1] \in cancelling
  PROVE  Room(r, part)' <= Room(r, part)
  <1>1. Queued(r)' = Queued(r)
    BY DEF Queued
  <1>2. Held(r)' = Held(r)
    BY <1>1 DEF Held, At
  <1>3. Spent(r)' = Spent(r) /\ Twice(r)' = Twice(r)
    BY <1>1 DEF Spent, Twice, Delivering
  <1>4. Stored(r, part)' = Stored(r, part)
    BY DEF Stored, Open
  <1>5. Chances(r, part)' = Chances(r, part)
    BY <1>3, <1>4 DEF Chances
  <1>6. Reserve(r)' <= Reserve(r)
    BY <1>2 DEF Reserve
  <1> QED BY <1>5, <1>6, RoomTyped DEF Room

\* A settled row has no room, and one that nobody has claimed room for one.
LEMMA UnclaimedRoom ==
  ASSUME NEW r \in Recipients, NEW part \in Parts
  PROVE  /\ rows'[r].status \in Settled => Room(r, part)' = 0
         /\ rows[r].status = "absent" => Room(r, part) = 1
         /\ rows'[r].status \in {"absent"} \cup Waiting => Room(r, part)' <= 1
  <1>1. ASSUME rows'[r].status \in Settled PROVE Room(r, part)' = 0
    BY <1>1 DEF Room, Chances, Reserve, Spent, Settled, Failures
  <1>2. ASSUME rows[r].status = "absent" PROVE Room(r, part) = 1
    BY <1>2 DEF Room, Chances, Reserve, Spent, Twice, Stored, Open, OpenStatus, Waiting,
                Settled, Failures
  <1>3. ASSUME rows'[r].status \in {"absent"} \cup Waiting PROVE Room(r, part)' <= 1
    BY <1>3 DEF Room, Chances, Reserve, Twice, Waiting
  <1> QED BY <1>1, <1>2, <1>3
\* Only one worker moves.
Moves(p) == \A q \in Workers \ {p} : worker'[q] = worker[q]

LEMMA OneMoves ==
  ASSUME Typed, NEW p \in Workers, NEW x, Goes(p, x)
  PROVE  worker'[p] = x /\ Moves(p)
  <1>1. worker \in [Workers -> Worker]
    BY DEF Typed, TypeOK, Worker
  <1> QED BY <1>1 DEF Goes, Moves

\* A worker that does not own a row and leaves it alone does not add to its room.
LEMMA UnownedRoom ==
  ASSUME NEW r \in Recipients, NEW part \in Parts, NEW p \in Workers, Moves(p),
         rows'[r] = rows[r], ~Owns(p, r), r[1] \in cancelling' => r[1] \in cancelling
  PROVE  Room(r, part)' <= Room(r, part)
  <1>1. CASE rows[r].by # p
    BY <1>1, SameRoom DEF Moves
  <1>2. CASE rows[r].status # "processing"
    <2>1. Chances(r, part)' = Chances(r, part)
      BY <1>2 DEF Chances, Spent, Twice, Stored, Open
    <2>2. Reserve(r)' = 0
      BY <1>2 DEF Reserve
    <2> QED BY <2>1, <2>2, RoomTyped DEF Room
  <1> QED BY <1>1, <1>2 DEF Owns

\* Neither does one that works at another recipient and has this one still before it,
\* or does not have it at all.
LEMMA AsideRoom ==
  ASSUME NEW r \in Recipients, NEW part \in Parts, NEW p \in Workers, Moves(p),
         rows'[r] = rows[r], r[1] \in cancelling' => r[1] \in cancelling,
         r \in worker'[p].queue <=> r \in worker[p].queue,
         worker[p].at = "ready" \/ worker[p].msg # r,
         worker'[p].at = "ready" \/ worker'[p].msg # r
  PROVE  Room(r, part)' <= Room(r, part)
  <1>1. CASE rows[r].by # p
    BY <1>1, SameRoom DEF Moves
  <1>2. CASE rows[r].by = p
    <2>1. Queued(r)' = Queued(r) /\ Held(r)' = Held(r)
      BY <1>2 DEF Queued, Held, At
    <2>2. Spent(r)' = Spent(r) /\ Twice(r)' = Twice(r)
      BY <1>2, <2>1 DEF Spent, Twice, Delivering
    <2>3. Stored(r, part)' = Stored(r, part)
      BY DEF Stored, Open
    <2>4. Chances(r, part)' = Chances(r, part) /\ Reserve(r)' <= Reserve(r)
      BY <2>1, <2>2, <2>3 DEF Chances, Reserve
    <2> QED BY <2>4, RoomTyped DEF Room
  <1> QED BY <1>1, <1>2

\* A worker that goes on with a row does not add to its room, unless it has ended to
\* deliver it.
LEMMA WorkRoom ==
  ASSUME NEW r \in Recipients, NEW part \in Parts, NEW p \in Workers, Moves(p),
         rows'[r].status = rows[r].status, rows'[r].leased = rows[r].leased,
         rows'[r].by = rows[r].by, rows[r].media => rows'[r].media, UNCHANGED cancelling,
         worker'[p].queue = worker[p].queue,
         worker[p].msg = r, worker[p].at # "ready",
         worker'[p].msg = r, worker'[p].at # "ready"
  PROVE  /\ Room(r, part)' <= Room(r, part) + 1
         /\ Delivering(worker'[p]) => Room(r, part)' <= Room(r, part)
  <1>1. Queued(r)' = Queued(r) /\ Held(r)' = Held(r)
    BY DEF Queued, Held, At, Moves
  <1>2. Twice(r)' = Twice(r) /\ (Stored(r, part) => Stored(r, part)')
    BY <1>1 DEF Twice, Stored, Open
  <1>3. Reserve(r)' = Reserve(r)
    BY <1>1 DEF Reserve
  <1>4. Chances(r, part)' <= Chances(r, part) + 1
    <2>1. Twice(r) => ~Spent(r)
      BY DEF Twice, Spent, Settled, Failures
    <2> QED BY <1>2, <2>1 DEF Chances
  <1>5. ASSUME Delivering(worker'[p]) PROVE Chances(r, part)' <= Chances(r, part)
    <2>1. Spent(r) => Spent(r)'
      BY <1>1, <1>5 DEF Spent, Moves
    <2> QED BY <1>2, <2>1 DEF Chances
  <1> QED BY <1>3, <1>4, <1>5, RoomTyped DEF Room

\* The senders of a part change with the worker that moves.
LEMMA MovedSenders ==
  ASSUME NEW r \in Recipients, NEW part \in Parts, NEW p \in Workers, Moves(p)
  PROVE  /\ Sending(worker'[p], r, part) => Senders(r, part)' = Senders(r, part) \cup {p}
         /\ ~Sending(worker'[p], r, part) => Senders(r, part)' = Senders(r, part) \ {p}
  <1>1. \A q : q \in Senders(r, part) <=> q \in Workers /\ Sending(worker[q], r, part)
    BY DEF Senders
  <1>2. \A q : q \in Senders(r, part)' <=> q \in Workers /\ Sending(worker'[q], r, part)
    BY DEF Senders, Sending
  <1>3. \A q \in Workers : q # p => worker'[q] = worker[q]
    BY DEF Moves
  <1> QED BY <1>1, <1>2, <1>3

\* A worker's step at which nobody gets a copy and nobody starts to send.
LEMMA QuietCount ==
  ASSUME Typed, Typed', NEW r \in Recipients, NEW part \in Parts, Counted(r, part),
         NEW p \in Workers, Moves(p),
         Sending(worker'[p], r, part) => Sending(worker[p], r, part),
         copies'[r][part] = copies[r][part],
         Room(r, part)' + faults <= Room(r, part) + faults'
  PROVE  Counted(r, part)'
  <1>1. p \in Senders(r, part) <=> Sending(worker[p], r, part)
    BY DEF Senders
  <1>2. CASE p \in Senders(r, part) /\ ~Sending(worker'[p], r, part)
    <2>1. Senders(r, part)' = Senders(r, part) \ {p}
      BY <1>2, MovedSenders
    <2>2. /\ Room(r, part) \in Nat /\ Room(r, part)' \in Nat /\ copies[r][part] \in Nat
          /\ faults \in Nat /\ faults' \in Nat
      BY RoomTyped, CountTyped
    <2>3. copies'[r][part] + Room(r, part)' + faults
            <= copies[r][part] + Room(r, part) + faults' + 1
      BY <2>2
    <2> QED BY <1>2, <2>1, <2>3, LessSendersCount
  <1>3. CASE ~(p \in Senders(r, part) /\ ~Sending(worker'[p], r, part))
    <2>1. Senders(r, part)' = Senders(r, part)
      <3>1. CASE Sending(worker'[p], r, part)
        <4>1. p \in Senders(r, part) /\ Senders(r, part)' = Senders(r, part) \cup {p}
          BY <1>1, <3>1, MovedSenders
        <4> QED BY <4>1
      <3>2. CASE ~Sending(worker'[p], r, part)
        <4>1. p \notin Senders(r, part) /\ Senders(r, part)' = Senders(r, part) \ {p}
          BY <1>3, <3>2, MovedSenders
        <4> QED BY <4>1
      <3> QED BY <3>1, <3>2
    <2> QED BY <2>1, SameSendersCount
  <1> QED BY <1>2, <1>3
\* Where nobody works, a part is counted as long as its room and the faults move together.
LEMMA RestCount ==
  ASSUME Typed, Typed', NEW r \in Recipients, NEW part \in Parts, Counted(r, part),
         UNCHANGED <<worker, copies>>,
         Room(r, part)' + faults <= Room(r, part) + faults'
  PROVE  Counted(r, part)'
  <1>1. Senders(r, part)' = Senders(r, part)
    BY DEF Senders, Sending
  <1> QED BY <1>1, SameSendersCount

\* What an administrator does: the start of a cancellation is a fault, and gives back what
\* the cancellation may cost.
LEMMA RequestCount ==
  ASSUME Typed, Typed', Locking, NEW r \in Recipients, NEW part \in Parts, Counted(r, part),
         Requests
  PROVE  Counted(r, part)'
  <1>1. UNCHANGED <<worker, copies>>
    BY DEF Requests, CreateDraft, Launch, StartCancel, CommitCancel, FailCancel,
           ToggleSubscription, ToggleFeature
  <1>2. /\ Room(r, part) \in Nat /\ Room(r, part)' \in Nat /\ faults \in Nat
        /\ rows \in [Recipients -> Row]
    BY RoomTyped, CountTyped DEF Typed, TypeOK
  <1>3. Room(r, part)' + faults <= Room(r, part) + faults'
    <2>1. ASSUME NEW b \in Broadcasts, StartCancel(b)
          PROVE  Room(r, part)' + faults <= Room(r, part) + faults'
      <3>1. UNCHANGED <<rows, worker>> /\ faults' = faults + 1
        BY <2>1 DEF StartCancel
      <3>2. Chances(r, part)' = Chances(r, part)
        BY <3>1 DEF Chances, Spent, Twice, Stored, Open, Queued, Delivering
      <3> QED BY <1>2, <3>1, <3>2, RoomTyped DEF Room
    <2>2. ASSUME NEW b \in Broadcasts, NEW segment, Launch(b, segment)
          PROVE  Room(r, part)' <= Room(r, part)
      <3>1. cancelling' = cancelling
        BY <2>2 DEF Launch
      <3>2. CASE rows'[r] = rows[r]
        BY <1>1, <3>1, <3>2, SameRoom
      <3>3. CASE rows'[r] # rows[r]
        <4>1. rows'[r] = RowIn("pending") /\ r[1] = b /\ broadcasts[b] = "draft"
          BY <1>2, <2>2, <3>3 DEF Launch
        <4>2. rows'[r].status = "pending"
          BY <4>1 DEF RowIn
        <4>3. rows[r].status = "absent"
          BY <4>1 DEF Locking, DraftHasNoRows
        <4> QED BY <1>2, <4>2, <4>3, UnclaimedRoom DEF Waiting
      <3> QED BY <3>2, <3>3
    <2>3. ASSUME NEW b \in Broadcasts, CommitCancel(b)
          PROVE  Room(r, part)' <= Room(r, part)
      <3>1. cancelling' \subseteq cancelling
        BY <2>3 DEF CommitCancel
      <3>2. CASE rows'[r] = rows[r]
        BY <1>1, <3>1, <3>2, SameRoom
      <3>3. CASE rows'[r] # rows[r]
        <4>1. rows'[r] = RowIn("skipped")
          BY <1>2, <2>3, <3>3 DEF CommitCancel
        <4> QED BY <1>2, <4>1, UnclaimedRoom DEF RowIn, Settled
      <3> QED BY <3>2, <3>3
    <2>4. ASSUME NEW b \in Broadcasts, FailCancel(b) \/ \E parts \in Formats : CreateDraft(b, parts)
          PROVE  Room(r, part)' <= Room(r, part)
      <3>1. rows' = rows /\ cancelling' \subseteq cancelling
        BY <2>4 DEF FailCancel, CreateDraft
      <3> QED BY <1>1, <3>1, SameRoom
    <2>5. ASSUME ToggleFeature \/ \E c \in Clients : ToggleSubscription(c)
          PROVE  Room(r, part)' <= Room(r, part)
      <3>1. UNCHANGED <<rows, cancelling>>
        BY <2>5 DEF ToggleFeature, ToggleSubscription
      <3> QED BY <1>1, <3>1, SameRoom
    <2>6. (\E b \in Broadcasts : StartCancel(b)) \/ faults' = faults
      BY DEF Requests, CreateDraft, Launch, CommitCancel, FailCancel, ToggleSubscription,
             ToggleFeature
    <2>7. CASE \E b \in Broadcasts : StartCancel(b)
      BY <2>1, <2>7
    <2>8. CASE ~\E b \in Broadcasts : StartCancel(b)
      <3>1. Room(r, part)' <= Room(r, part)
        BY <2>2, <2>3, <2>4, <2>5, <2>8 DEF Requests
      <3> QED BY <1>2, <2>6, <2>8, <3>1
    <2> QED BY <2>7, <2>8
  <1> QED BY <1>1, <1>3, RestCount

\* Time: the end of a lease gives the row one chance more, at the price of a fault if the
\* owner still has it.
LEMMA TimeCount ==
  ASSUME Typed, Typed', NEW r \in Recipients, NEW part \in Parts, Counted(r, part), Time
  PROVE  Counted(r, part)'
  <1>1. UNCHANGED <<worker, copies, cancelling>>
    BY DEF Time, BecomesDue, LeaseEnds
  <1>2. /\ Room(r, part) \in Nat /\ Room(r, part)' \in Nat /\ faults \in Nat /\ faults' \in Nat
        /\ rows \in [Recipients -> Row] /\ rows[r] \in Row
    BY RoomTyped, CountTyped DEF Typed, TypeOK
  <1>3. ASSUME NEW m \in Recipients, BecomesDue(m)
        PROVE  Room(r, part)' + faults <= Room(r, part) + faults'
    <2>1. rows' = [rows EXCEPT ![m] = [rows[m] EXCEPT !.due = TRUE]] /\ faults' = faults
      BY <1>3 DEF BecomesDue
    <2>2. /\ rows'[r].status = rows[r].status /\ rows'[r].leased = rows[r].leased
          /\ rows'[r].by = rows[r].by /\ rows'[r].media = rows[r].media
      BY <1>2, <2>1 DEF Row
    <2>3. Room(r, part)' <= Room(r, part)
      BY <1>1, <2>2, SameRoom
    <2> QED BY <1>2, <2>1, <2>3
  <1>4. ASSUME NEW m \in Recipients, LeaseEnds(m)
        PROVE  Room(r, part)' + faults <= Room(r, part) + faults'
    <2>1. rows' = [rows EXCEPT ![m] = [rows[m] EXCEPT !.leased = FALSE]] /\ faults' >= faults
      BY <1>2, <1>4 DEF LeaseEnds
    <2>2. CASE m # r
      <3>1. rows'[r] = rows[r]
        BY <1>2, <2>1, <2>2
      <3>2. Room(r, part)' <= Room(r, part)
        BY <1>1, <3>1, SameRoom
      <3> QED BY <1>2, <2>1, <3>2
    <2>3. CASE m = r
      <3>1. /\ rows[r].status = "processing" /\ rows[r].leased
            /\ rows'[r].status = "processing" /\ ~rows'[r].leased /\ rows'[r].by = rows[r].by
            /\ rows'[r].media = rows[r].media
        BY <1>2, <1>4, <2>1, <2>3 DEF LeaseEnds, Row
      <3>2. Queued(r)' = Queued(r) /\ Held(r)' = Held(r)
        BY <1>1, <3>1 DEF Queued, Held, At
      <3>3. Reserve(r)' = Reserve(r) /\ Stored(r, part)' = Stored(r, part)
        BY <1>1, <3>1, <3>2 DEF Reserve, Stored, Open
      <3>4. ~Twice(r) /\ ~Spent(r)'
        BY <3>1 DEF Twice, Spent, Settled, Failures
      <3>5. CASE rows[r].by # None /\ HasIt(rows[r].by, r)
        <4>1. faults' = faults + 1
          BY <1>4, <2>3, <3>5 DEF LeaseEnds
        <4>2. Chances(r, part)' <= Chances(r, part) + 1
          <5>1. CASE Queued(r)
            <6>1. ~Spent(r)
              BY <3>1, <5>1 DEF Spent, Settled, Failures
            <6> QED BY <3>3, <3>4, <6>1 DEF Chances
          <5>2. CASE ~Queued(r)
            <6>1. ~Twice(r)'
              BY <3>2, <5>2 DEF Twice
            <6> QED BY <3>3, <6>1 DEF Chances
          <5> QED BY <5>1, <5>2
        <4> QED BY <1>2, <3>3, <4>1, <4>2, RoomTyped DEF Room
      <3>6. CASE ~(rows[r].by # None /\ HasIt(rows[r].by, r))
        <4>1. ~Queued(r) /\ ~Spent(r) /\ ~Twice(r)'
          BY <3>1, <3>2, <3>6 DEF Queued, Spent, Twice, HasIt, Settled, Failures
        <4>2. Chances(r, part)' <= Chances(r, part)
          BY <3>3, <4>1 DEF Chances
        <4> QED BY <1>2, <2>1, <3>3, <4>2, RoomTyped DEF Room
      <3> QED BY <3>5, <3>6
    <2> QED BY <2>2, <2>3
  <1> QED BY <1>1, <1>3, <1>4, RestCount DEF Time

\* A claim takes one of the chances of a row, and leaves its owner one.
LEMMA ClaimCount ==
  ASSUME Typed, Typed', NEW r \in Recipients, NEW part \in Parts, Counted(r, part),
         NEW p \in Workers, ClaimBatch(p)
  PROVE  Counted(r, part)'
  <1>1. PICK batch \in Batches :
          /\ rows' = [s \in Recipients |-> IF s \in batch THEN Claimed(p, rows[s]) ELSE rows[s]]
          /\ Goes(p, [worker[p] EXCEPT !.queue = batch])
    BY DEF ClaimBatch
  <1>2. /\ worker[p].at = "ready" /\ worker[p].queue = {}
        /\ UNCHANGED <<cancelling, copies, faults>>
    BY DEF ClaimBatch, At
  <1>3. /\ worker'[p] = [worker[p] EXCEPT !.queue = batch] /\ Moves(p)
        /\ worker[p] \in Worker /\ rows[r] \in Row
    BY <1>1, OneMoves DEF Typed, TypeOK, Worker
  <1>4. worker'[p].at = "ready" /\ worker'[p].queue = batch
    BY <1>2, <1>3 DEF Worker
  <1>5. Room(r, part)' <= Room(r, part)
    <2>1. CASE r \in batch
      <3>1. Claimable(r) /\ rows'[r] = Claimed(p, rows[r])
        BY <1>1, <2>1 DEF Batches
      <3>2. /\ ~Spent(r) /\ Open(r) /\ r[1] \notin cancelling'
        BY <1>2, <3>1 DEF Claimable, Spent, Open, OpenStatus, Waiting, Settled, Failures
      <3>3. rows'[r].leased /\ rows'[r].media = rows[r].media /\ rows'[r].status = "processing"
        BY <1>3, <3>1 DEF Claimed, Row
      <3>4. ~Twice(r)' /\ (Stored(r, part) => Stored(r, part)') /\ Reserve(r)' = 0
        BY <3>2, <3>3 DEF Twice, Stored, Open, OpenStatus, Reserve
      <3>5. Chances(r, part)' <= Chances(r, part)
        BY <3>2, <3>4 DEF Chances
      <3> QED BY <3>4, <3>5, RoomTyped DEF Room
    <2>2. CASE r \notin batch
      <3>1. rows'[r] = rows[r]
        BY <1>1, <2>2
      <3> QED BY <1>2, <1>3, <1>4, <2>2, <3>1, AsideRoom
    <2> QED BY <2>1, <2>2
  <1>6. ~Sending(worker'[p], r, part)
    BY <1>4 DEF Sending
  <1>7. /\ Room(r, part) \in Nat /\ Room(r, part)' \in Nat /\ faults \in Nat
    BY RoomTyped, CountTyped
  <1>8. Room(r, part)' + faults <= Room(r, part) + faults' /\ copies'[r][part] = copies[r][part]
    BY <1>2, <1>5, <1>7
  <1> QED BY <1>3, <1>6, <1>8, QuietCount
\* Preparing turns the owner's chance into a sender of each part that is not stored.
LEMMA PrepareCount ==
  ASSUME Typed, Typed', NEW r \in Recipients, NEW part \in Parts, Counted(r, part),
         NEW p \in Workers, NEW m \in Recipients, Prepare(p, m)
  PROVE  Counted(r, part)'
  <1> DEFINE rest == [worker[p] EXCEPT !.queue = @ \ {m}]
             send == [rest EXCEPT !.at = "send", !.msg = m, !.media = rows[m].media]
             close == [rest EXCEPT !.at = "close", !.msg = m, !.verdict = Verdict(m),
                                   !.outcome = Outcome(m, Verdict(m))]
  <1>1. /\ worker[p].at = "ready" /\ m \in worker[p].queue
        /\ UNCHANGED <<rows, cancelling, copies, faults>>
        /\ \/ ~Owns(p, m) /\ Goes(p, rest)
           \/ Owns(p, m) /\ (Goes(p, send) \/ Goes(p, close))
    BY DEF Prepare, At
  <1>2. worker[p] \in Worker
    BY DEF Typed, TypeOK, Worker
  <1>3. /\ Room(r, part) \in Nat /\ Room(r, part)' \in Nat /\ faults \in Nat
        /\ copies'[r][part] = copies[r][part]
    BY <1>1, RoomTyped, CountTyped
  <1>4. /\ rest.at = "ready" /\ rest.queue = worker[p].queue \ {m}
        /\ close.at = "close" /\ close.msg = m /\ close.queue = worker[p].queue \ {m}
    BY <1>1, <1>2 DEF Worker
  <1>5. /\ send.at = "send" /\ send.msg = m /\ send.media = rows[m].media
        /\ send.queue = worker[p].queue \ {m}
    BY <1>2 DEF Worker
  <1>6. Moves(p) /\ worker'[p] \in {rest, send, close}
    <2>1. Goes(p, rest) \/ Goes(p, send) \/ Goes(p, close)
      BY <1>1
    <2> HIDE DEF rest, send, close
    <2> QED BY <2>1, OneMoves
  <1>7. /\ ~Owns(p, m) => worker'[p] = rest
        /\ Owns(p, m) => worker'[p] \in {send, close}
    <2> HIDE DEF rest, send, close
    <2> QED BY <1>1, OneMoves
  <1> HIDE DEF rest, send, close
  <1>8. /\ worker'[p].queue = worker[p].queue \ {m}
        /\ worker'[p].at = "ready" \/ worker'[p].msg = m
    BY <1>4, <1>5, <1>6
  <1>9. CASE Room(r, part)' <= Room(r, part) /\ ~Sending(worker'[p], r, part)
    BY <1>1, <1>3, <1>6, <1>9, QuietCount
  <1>10. CASE r # m
    <2>1. Room(r, part)' <= Room(r, part)
      BY <1>1, <1>6, <1>8, <1>10, AsideRoom
    <2>2. ~Sending(worker'[p], r, part)
      BY <1>8, <1>10 DEF Sending
    <2> QED BY <1>9, <2>1, <2>2
  <1>11. CASE r = m /\ ~Owns(p, m)
    <2>1. Room(r, part)' <= Room(r, part)
      BY <1>1, <1>6, <1>11, UnownedRoom
    <2>2. ~Sending(worker'[p], r, part)
      BY <1>4, <1>7, <1>11 DEF Sending
    <2> QED BY <1>9, <2>1, <2>2
  <1>12. CASE r = m /\ Owns(p, m)
    <2>1. /\ rows[r].status = "processing" /\ rows[r].by = p /\ Queued(r) /\ ~Queued(r)'
          /\ rows'[r] = rows[r]
      BY <1>1, <1>8, <1>12 DEF Owns, Queued
    <2>2. /\ Stored(r, part)' = Stored(r, part) /\ Reserve(r)' <= Reserve(r)
          /\ ~Spent(r) /\ ~Twice(r)'
      BY <1>1, <2>1 DEF Stored, Open, Reserve, Held, Spent, Twice, Settled, Failures
    <2>3. Chances(r, part)' <= Chances(r, part)
      BY <2>2 DEF Chances
    <2>4. Room(r, part)' <= Room(r, part)
      BY <2>2, <2>3, RoomTyped DEF Room
    <2>5. CASE ~Sending(worker'[p], r, part)
      BY <1>9, <2>4, <2>5
    <2>6. CASE Sending(worker'[p], r, part)
      <3>1. worker'[p] = send
        BY <1>4, <1>7, <1>12, <2>6 DEF Sending
      <3>2. ~Stored(r, part)
        BY <1>5, <1>12, <2>6, <3>1 DEF Sending, Stored
      <3>3. Chances(r, part)' + 1 <= Chances(r, part)
        <4>1. CASE rows[r].leased
          <5>1. Spent(r)'
            BY <1>5, <1>12, <2>1, <3>1, <4>1 DEF Spent, Delivering
          <5> QED BY <2>2, <3>2, <5>1 DEF Chances
        <4>2. CASE ~rows[r].leased
          <5>1. Twice(r)
            BY <2>1, <4>2 DEF Twice
          <5> QED BY <2>2, <3>2, <5>1 DEF Chances
        <4> QED BY <4>1, <4>2
      <3>4. Room(r, part)' + 1 <= Room(r, part)
        BY <2>2, <3>3, RoomTyped DEF Room
      <3>5. Senders(r, part)' = Senders(r, part) \cup {p}
        BY <1>6, <2>6, MovedSenders
      <3> QED BY <1>1, <3>4, <3>5, MoreSendersCount
    <2> QED BY <2>5, <2>6
  <1> QED BY <1>10, <1>11, <1>12

\* Sending turns a sender into a copy; a lost answer, which gives the row its chance back
\* as well, is a fault.
LEMMA SendCount ==
  ASSUME Typed, Typed', MediaStored, NEW r \in Recipients, NEW part \in Parts,
         Counted(r, part), NEW p \in Workers, Send(p)
  PROVE  Counted(r, part)'
  <1> DEFINE m == worker[p].msg
             next == NextPart(p)
             waits == [worker[p] EXCEPT !.at = "checkpoint"]
             records(a) == [worker[p] EXCEPT !.at = "record", !.answer = a]
  <1>1. PICK answer \in Answers \ {"none"}, arrived \in BOOLEAN :
          /\ answer = "ok" => arrived
          /\ answer # "ok" /\ arrived => answer = "retry"
          /\ Goes(p, IF answer = "ok" /\ next = "media" THEN waits ELSE records(answer))
          /\ copies' = IF arrived THEN [copies EXCEPT ![m][next] = @ + 1] ELSE copies
          /\ faults' = IF arrived /\ answer # "ok" THEN faults + 1 ELSE faults
    BY DEF Send
  <1>2. /\ worker[p].at = "send" /\ m \in Recipients /\ UNCHANGED <<rows, cancelling>>
        /\ next \in Parts /\ (next = "media" => ~worker[p].media)
    BY DEF Send, At, Typed, BusyHasRecipient, NextPart, Missing, Parts
  <1>3. /\ worker[p] \in Worker /\ copies \in [Recipients -> [Parts -> Nat]]
        /\ copies[r] \in [Parts -> Nat]
    BY DEF Typed, TypeOK, Worker
  <1>4. /\ waits.at = "checkpoint" /\ waits.msg = m /\ waits.queue = worker[p].queue
        /\ waits.media = worker[p].media
        /\ records(answer).at = "record" /\ records(answer).msg = m
        /\ records(answer).queue = worker[p].queue /\ records(answer).answer = answer
    BY <1>3 DEF Worker
  <1>5. /\ worker'[p] = IF answer = "ok" /\ next = "media" THEN waits ELSE records(answer)
        /\ Moves(p)
    <2> HIDE DEF waits, records, next
    <2> QED BY <1>1, OneMoves
  <1> HIDE DEF waits, records, next
  <1>6. /\ worker'[p].msg = m /\ worker'[p].queue = worker[p].queue
        /\ worker'[p].at \in {"checkpoint", "record"}
        /\ worker'[p].at = "checkpoint" => answer = "ok" /\ next = "media"
        /\ worker'[p].at = "record" => worker'[p].answer = answer /\ ~(answer = "ok" /\ next = "media")
    BY <1>4, <1>5
  <1>7. /\ Room(r, part) \in Nat /\ Room(r, part)' \in Nat /\ faults \in Nat /\ faults' \in Nat
        /\ copies[r][part] \in Nat
    BY RoomTyped, CountTyped
  <1>8. CASE r # m
    <2>1. Room(r, part)' <= Room(r, part)
      BY <1>2, <1>5, <1>6, <1>8, AsideRoom
    <2>2. ~Sending(worker'[p], r, part)
      BY <1>6, <1>8 DEF Sending
    <2>3. copies'[r][part] = copies[r][part] /\ faults' >= faults
      BY <1>1, <1>2, <1>3, <1>7, <1>8
    <2>4. Room(r, part)' + faults <= Room(r, part) + faults'
      BY <1>7, <2>1, <2>3
    <2> QED BY <1>5, <2>2, <2>3, <2>4, QuietCount
  <1>9. CASE r = m
    <2>1. /\ copies'[r][part] = IF arrived /\ part = next THEN copies[r][part] + 1 ELSE copies[r][part]
          /\ faults' = IF arrived /\ answer # "ok" THEN faults + 1 ELSE faults
      BY <1>1, <1>2, <1>3, <1>9
    <2>2. /\ Room(r, part)' <= Room(r, part) + 1
          /\ answer # "retry" => Room(r, part)' <= Room(r, part)
      <3>1. answer # "retry" => Delivering(worker'[p])
        BY <1>6 DEF Delivering
      <3> QED BY <1>2, <1>5, <1>6, <1>9, <3>1, WorkRoom
    <2>3. CASE Sending(worker'[p], r, part)
      <3>1. /\ worker'[p].at = "checkpoint" /\ part = "text" /\ next = "media"
            /\ answer = "ok" /\ Sending(worker[p], r, part)
        BY <1>2, <1>6, <1>9, <2>3 DEF Sending
      <3>2. copies'[r][part] = copies[r][part] /\ faults' = faults
        BY <2>1, <3>1
      <3>3. Room(r, part)' + faults <= Room(r, part) + faults'
        BY <1>7, <2>2, <3>1, <3>2
      <3> QED BY <1>5, <3>1, <3>2, <3>3, QuietCount
    <2>4. CASE ~Sending(worker'[p], r, part) /\ Sending(worker[p], r, part)
      <3>1. p \in Senders(r, part) /\ Senders(r, part)' = Senders(r, part) \ {p}
        BY <1>5, <2>4, MovedSenders DEF Senders
      <3>2. copies'[r][part] + Room(r, part)' + faults
              <= copies[r][part] + Room(r, part) + faults' + 1
        BY <1>1, <1>7, <2>1, <2>2
      <3> QED BY <3>1, <3>2, LessSendersCount
    <2>5. CASE ~Sending(worker'[p], r, part) /\ ~Sending(worker[p], r, part)
      <3>1. part = "media" /\ worker[p].media /\ next # part
        BY <1>2, <1>9, <2>5 DEF Sending, Parts
      <3>2. Room(r, part)' <= Room(r, part)
        <4>1. CASE Owns(p, r)
          <5>1. rows[r].media /\ Open(r)
            BY <1>2, <1>9, <3>1, <4>1, OneOwner DEF MediaStored
          <5>2. Chances(r, part)' = 0
            BY <1>2, <3>1, <5>1 DEF Chances, Stored, Open
          <5>3. Reserve(r)' <= Reserve(r)
            <6>1. Held(r)
              BY <1>2, <1>9, <4>1 DEF Held, Owns, At
            <6> QED BY <1>2, <6>1 DEF Reserve
          <5> QED BY <5>2, <5>3, RoomTyped DEF Room
        <4>2. CASE ~Owns(p, r)
          BY <1>2, <1>5, <4>2, UnownedRoom
        <4> QED BY <4>1, <4>2
      <3>3. copies'[r][part] = copies[r][part] /\ faults' >= faults
        BY <1>7, <2>1, <3>1
      <3>4. Room(r, part)' + faults <= Room(r, part) + faults'
        BY <1>7, <3>2, <3>3
      <3> QED BY <1>5, <2>5, <3>3, <3>4, QuietCount
    <2> QED BY <2>3, <2>4, <2>5
  <1> QED BY <1>8, <1>9
\* A delivery with nothing left to send is only recorded.
LEMMA SendNothingCount ==
  ASSUME Typed, Typed', NEW r \in Recipients, NEW part \in Parts, Counted(r, part),
         NEW p \in Workers, SendNothing(p)
  PROVE  Counted(r, part)'
  <1>1. /\ worker[p].at = "send" /\ UNCHANGED <<rows, cancelling, copies, faults>>
        /\ Goes(p, [worker[p] EXCEPT !.at = "record", !.answer = "ok"])
    BY DEF SendNothing, At
  <1>2. worker[p] \in Worker
    BY DEF Typed, TypeOK, Worker
  <1>3. worker'[p] = [worker[p] EXCEPT !.at = "record", !.answer = "ok"] /\ Moves(p)
    BY <1>1, OneMoves
  <1>4. /\ worker'[p].at = "record" /\ worker'[p].answer = "ok"
        /\ worker'[p].msg = worker[p].msg /\ worker'[p].queue = worker[p].queue
    BY <1>2, <1>3 DEF Worker
  <1>5. Room(r, part)' <= Room(r, part)
    <2>1. CASE r # worker[p].msg
      BY <1>1, <1>3, <1>4, <2>1, AsideRoom
    <2>2. CASE r = worker[p].msg
      BY <1>1, <1>3, <1>4, <2>2, WorkRoom DEF Delivering
    <2> QED BY <2>1, <2>2
  <1>6. /\ ~Sending(worker'[p], r, part) /\ copies'[r][part] = copies[r][part]
        /\ Room(r, part) \in Nat /\ Room(r, part)' \in Nat /\ faults \in Nat
    BY <1>1, <1>4, RoomTyped, CountTyped DEF Sending
  <1>7. Room(r, part)' + faults <= Room(r, part) + faults'
    BY <1>1, <1>5, <1>6
  <1> QED BY <1>3, <1>6, <1>7, QuietCount

\* The checkpoint leaves no room for the media, and the sender of the text where it is;
\* a worker that has lost the row does not send the text.
LEMMA CheckpointCount ==
  ASSUME Typed, Typed', NEW r \in Recipients, NEW part \in Parts, Counted(r, part),
         NEW p \in Workers, Checkpoint(p)
  PROVE  Counted(r, part)'
  <1> DEFINE m == worker[p].msg
             sends == [worker[p] EXCEPT !.at = "send", !.media = TRUE]
             gives == [worker[p] EXCEPT !.at = "record", !.answer = "retry"]
  <1>1. /\ worker[p].at = "checkpoint" /\ m \in Recipients
        /\ UNCHANGED <<cancelling, copies, faults>>
        /\ rows' = IF Owns(p, m) THEN [rows EXCEPT ![m] = [rows[m] EXCEPT !.media = TRUE]] ELSE rows
        /\ Goes(p, IF Owns(p, m) THEN sends ELSE gives)
    BY DEF Checkpoint, At, Typed, BusyHasRecipient
  <1>2. worker[p] \in Worker /\ rows \in [Recipients -> Row] /\ rows[r] \in Row
    BY DEF Typed, TypeOK, Worker
  <1>3. /\ sends.at = "send" /\ sends.msg = m /\ sends.queue = worker[p].queue /\ sends.media
        /\ gives.at = "record" /\ gives.msg = m /\ gives.queue = worker[p].queue
    BY <1>2 DEF Worker
  <1>4. worker'[p] = (IF Owns(p, m) THEN sends ELSE gives) /\ Moves(p)
    <2> HIDE DEF sends, gives
    <2> QED BY <1>1, OneMoves
  <1> HIDE DEF sends, gives
  <1>5. /\ worker'[p].msg = m /\ worker'[p].queue = worker[p].queue
        /\ worker'[p].at # "ready" /\ worker'[p].at # "checkpoint"
        /\ worker'[p].at = "send" => worker'[p].media
        /\ Owns(p, m) => worker'[p].at = "send"
    BY <1>3, <1>4
  <1>6. Room(r, part)' <= Room(r, part)
    <2>1. CASE r # m
      <3>1. rows'[r] = rows[r]
        BY <1>1, <1>2, <2>1
      <3> QED BY <1>1, <1>4, <1>5, <2>1, <3>1, AsideRoom
    <2>2. CASE r = m /\ ~Owns(p, m)
      <3>1. rows'[r] = rows[r]
        BY <1>1, <2>2
      <3> QED BY <1>1, <1>4, <2>2, <3>1, UnownedRoom
    <2>3. CASE r = m /\ Owns(p, m)
      <3>1. rows'[r] = [rows[r] EXCEPT !.media = TRUE]
        BY <1>1, <1>2, <2>3
      <3>2. /\ rows'[r].status = rows[r].status /\ rows'[r].leased = rows[r].leased
            /\ rows'[r].by = rows[r].by /\ rows'[r].media
        BY <1>2, <3>1 DEF Row
      <3>3. Delivering(worker'[p])
        BY <1>5, <2>3 DEF Delivering
      <3> QED BY <1>1, <1>4, <1>5, <2>3, <3>2, <3>3, WorkRoom
    <2> QED BY <2>1, <2>2, <2>3
  <1>7. Sending(worker'[p], r, part) => Sending(worker[p], r, part)
    BY <1>1, <1>5 DEF Sending
  <1>8. /\ copies'[r][part] = copies[r][part]
        /\ Room(r, part) \in Nat /\ Room(r, part)' \in Nat /\ faults \in Nat
    BY <1>1, RoomTyped, CountTyped
  <1>9. Room(r, part)' + faults <= Room(r, part) + faults'
    BY <1>1, <1>6, <1>8
  <1> QED BY <1>4, <1>7, <1>8, <1>9, QuietCount

\* A worker that has ended its delivery is ready for the next recipient of its queue.
LEMMA ReadyMoves ==
  ASSUME Typed, NEW p \in Workers, Ready(p)
  PROVE  Moves(p) /\ worker'[p].at = "ready" /\ worker'[p].queue = worker[p].queue
  <1>1. worker'[p] = [Idle EXCEPT !.queue = worker[p].queue] /\ Moves(p)
    BY OneMoves DEF Ready
  <1> QED BY <1>1 DEF Idle

\* Recording leaves the row the room it had, or goes on to end it.
LEMMA RecordCount ==
  ASSUME Typed, Typed', NEW r \in Recipients, NEW part \in Parts, Counted(r, part),
         NEW p \in Workers, Record(p)
  PROVE  Counted(r, part)'
  <1> DEFINE m == worker[p].msg
             status == Recorded(rows[m], worker[p].answer)
             retry == [rows[m] EXCEPT !.status = "retry", !.due = FALSE, !.by = None,
                                      !.leased = FALSE]
             ends == [worker[p] EXCEPT !.at = "finish", !.verdict = status]
  <1>1. /\ worker[p].at = "record" /\ m \in Recipients /\ UNCHANGED <<cancelling, copies, faults>>
        /\ \/ ~Owns(p, m) /\ Ready(p) /\ rows' = rows
           \/ Owns(p, m) /\ status = "retry" /\ Ready(p) /\ rows' = [rows EXCEPT ![m] = retry]
           \/ Owns(p, m) /\ rows' = rows /\ Goes(p, ends)
    BY DEF Record, At, Typed, BusyHasRecipient
  <1>2. worker[p] \in Worker /\ rows \in [Recipients -> Row] /\ rows[r] \in Row
    BY DEF Typed, TypeOK, Worker
  <1>3. /\ Room(r, part) \in Nat /\ Room(r, part)' \in Nat /\ faults \in Nat
        /\ copies'[r][part] = copies[r][part]
    BY <1>1, RoomTyped, CountTyped
  <1>4. ASSUME Moves(p), Room(r, part)' <= Room(r, part), worker'[p].at \in {"ready", "finish"}
        PROVE  Counted(r, part)'
    <2>1. Room(r, part)' + faults <= Room(r, part) + faults' /\ ~Sending(worker'[p], r, part)
      BY <1>1, <1>3, <1>4 DEF Sending
    <2> QED BY <1>3, <1>4, <2>1, QuietCount
  <1>5. CASE ~Owns(p, m) /\ Ready(p) /\ rows' = rows
    <2>1. Room(r, part)' <= Room(r, part)
      <3>1. CASE r = m
        BY <1>1, <1>5, <3>1, ReadyMoves, UnownedRoom
      <3>2. CASE r # m
        BY <1>1, <1>5, <3>2, ReadyMoves, AsideRoom
      <3> QED BY <3>1, <3>2
    <2> QED BY <1>4, <1>5, <2>1, ReadyMoves
  <1>6. CASE Owns(p, m) /\ status = "retry" /\ Ready(p) /\ rows' = [rows EXCEPT ![m] = retry]
    <2>1. Room(r, part)' <= Room(r, part)
      <3>1. CASE r = m
        <4>1. worker[p].answer = "retry"
          BY <1>6 DEF Recorded
        <4>2. ~Spent(r)
          BY <1>1, <1>6, <3>1, <4>1 DEF Spent, Owns, Delivering, Settled, Failures
        <4>3. rows'[r].status = "retry" /\ rows'[r].media = rows[r].media
          BY <1>2, <1>6, <3>1 DEF Row
        <4>4. ~Twice(r)' /\ Reserve(r)' = 0
          BY <4>3 DEF Twice, Reserve
        <4>5. Stored(r, part) => Stored(r, part)'
          BY <4>3 DEF Stored, Open, OpenStatus, Waiting
        <4>6. Chances(r, part)' <= Chances(r, part)
          BY <4>2, <4>4, <4>5 DEF Chances
        <4> QED BY <4>4, <4>6, RoomTyped DEF Room
      <3>2. CASE r # m
        <4>1. rows'[r] = rows[r]
          BY <1>2, <1>6, <3>2
        <4> QED BY <1>1, <1>6, <3>2, <4>1, ReadyMoves, AsideRoom
      <3> QED BY <3>1, <3>2
    <2> QED BY <1>4, <1>6, <2>1, ReadyMoves
  <1>7. CASE Owns(p, m) /\ rows' = rows /\ Goes(p, ends)
    <2>1. /\ ends.at = "finish" /\ ends.msg = m /\ ends.queue = worker[p].queue
      BY <1>2 DEF Worker
    <2>2. worker'[p] = ends /\ Moves(p)
      <3> HIDE DEF ends
      <3> QED BY <1>7, OneMoves
    <2> HIDE DEF ends
    <2>3. Room(r, part)' <= Room(r, part)
      <3>1. CASE r = m
        BY <1>1, <1>7, <2>1, <2>2, <3>1, WorkRoom DEF Delivering
      <3>2. CASE r # m
        BY <1>1, <1>7, <2>1, <2>2, <3>2, AsideRoom
      <3> QED BY <3>1, <3>2
    <2> QED BY <1>4, <2>1, <2>2, <2>3
  <1> QED BY <1>1, <1>5, <1>6, <1>7

\* The end of a row leaves no room.
LEMMA EndCount ==
  ASSUME Typed, Typed', NEW r \in Recipients, NEW part \in Parts, Counted(r, part),
         NEW p \in Workers, Close(p) \/ Finish(p)
  PROVE  Counted(r, part)'
  <1> DEFINE m == worker[p].msg
  <1>1. /\ worker[p].at \in {"close", "finish"} /\ UNCHANGED <<cancelling, copies, faults>>
        /\ rows' = [rows EXCEPT ![m] = RowIn(worker[p].verdict)] /\ Ready(p)
    BY DEF Close, Finish, At, Ends
  <1>2. m \in Recipients /\ worker[p].verdict \in Settled /\ rows \in [Recipients -> Row]
    BY <1>1 DEF Typed, TypeOK, BusyHasRecipient, EndHasVerdict
  <1>3. Moves(p) /\ worker'[p].at = "ready" /\ worker'[p].queue = worker[p].queue
    BY <1>1, ReadyMoves
  <1>4. /\ Room(r, part) \in Nat /\ Room(r, part)' \in Nat /\ faults \in Nat
        /\ copies'[r][part] = copies[r][part]
    BY <1>1, RoomTyped, CountTyped
  <1>5. Room(r, part)' <= Room(r, part)
    <2>1. CASE r = m
      <3>1. rows'[r].status \in Settled
        BY <1>1, <1>2, <2>1 DEF RowIn
      <3> QED BY <1>4, <3>1, UnclaimedRoom
    <2>2. CASE r # m
      <3>1. rows'[r] = rows[r]
        BY <1>1, <1>2, <2>2
      <3> QED BY <1>1, <1>3, <2>2, <3>1, AsideRoom
    <2> QED BY <2>1, <2>2
  <1>6. Room(r, part)' + faults <= Room(r, part) + faults' /\ ~Sending(worker'[p], r, part)
    BY <1>1, <1>3, <1>4, <1>5 DEF Sending
  <1> QED BY <1>3, <1>4, <1>6, QuietCount

\* A worker that stops leaves its rows one chance more.
LEMMA IdleRoom ==
  ASSUME NEW r \in Recipients, NEW part \in Parts, NEW p \in Workers, Moves(p),
         worker'[p] = Idle, rows'[r] = rows[r], UNCHANGED cancelling
  PROVE  /\ Room(r, part)' <= Room(r, part) + 1
         /\ ~Delivering(worker[p]) \/ worker[p].msg # r => Room(r, part)' <= Room(r, part)
         /\ Reserve(r) = 1 /\ rows[r].by = p => Room(r, part)' <= Room(r, part)
  <1>1. CASE rows[r].by # p
    <2>1. Room(r, part)' <= Room(r, part)
      BY <1>1, SameRoom DEF Moves
    <2> QED BY <1>1, <2>1, RoomTyped
  <1>2. CASE rows[r].by = p
    <2>1. ~Queued(r)' /\ ~Held(r)' /\ ~Twice(r)'
      BY <1>2 DEF Queued, Held, At, Twice, Idle
    <2>2. Stored(r, part)' = Stored(r, part)
      BY DEF Stored, Open
    <2>3. Chances(r, part)' <= Chances(r, part) + 1 /\ Reserve(r)' = 0
      BY <2>1, <2>2 DEF Chances, Reserve
    <2>4. ASSUME ~Delivering(worker[p]) \/ worker[p].msg # r
          PROVE  Chances(r, part)' <= Chances(r, part)
      <3>1. Spent(r) => Spent(r)'
        BY <1>2, <2>4 DEF Spent
      <3> QED BY <2>1, <2>2, <3>1 DEF Chances
    <2> QED BY <2>3, <2>4, RoomTyped DEF Room
  <1> QED BY <1>1, <1>2

\* A crash leaves the worker's rows to others, at the price of a fault.
LEMMA CrashCount ==
  ASSUME Typed, Typed', NEW r \in Recipients, NEW part \in Parts, Counted(r, part),
         NEW p \in Workers, Crash(p)
  PROVE  Counted(r, part)'
  <1>1. worker'[p] = Idle /\ Moves(p) /\ faults' = faults + 1 /\ UNCHANGED <<rows, cancelling, copies>>
    BY OneMoves DEF Crash
  <1>2. Room(r, part)' <= Room(r, part) + 1
    BY <1>1, IdleRoom
  <1>3. /\ Room(r, part) \in Nat /\ Room(r, part)' \in Nat /\ faults \in Nat
        /\ copies'[r][part] = copies[r][part] /\ ~Sending(worker'[p], r, part)
    BY <1>1, RoomTyped, CountTyped DEF Sending, Idle
  <1>4. Room(r, part)' + faults <= Room(r, part) + faults'
    BY <1>1, <1>2, <1>3
  <1> QED BY <1>1, <1>3, <1>4, QuietCount

\* A lost deadlock takes the row that was to end from its owner, and that the cancellation
\* it was lost to has paid for.
LEMMA LockFailsCount ==
  ASSUME Typed, Typed', Locking, NEW r \in Recipients, NEW part \in Parts, Counted(r, part),
         NEW p \in Workers, LockFails(p)
  PROVE  Counted(r, part)'
  <1>1. /\ worker'[p] = Idle /\ Moves(p) /\ UNCHANGED <<rows, cancelling, copies, faults>>
        /\ worker[p].at \in {"finish", "close"} /\ worker[p].msg[1] \in cancelling
    BY OneMoves DEF LockFails, At
  <1>2. Room(r, part)' <= Room(r, part)
    <2>1. CASE worker[p].msg # r
      BY <1>1, <2>1, IdleRoom
    <2>2. CASE worker[p].msg = r
      <3>1. Owns(p, r)
        BY <1>1, <2>2 DEF Locking, HeldIsOwned
      <3>2. Reserve(r) = 1 /\ rows[r].by = p
        BY <1>1, <2>2, <3>1 DEF Reserve, Held, Owns, At
      <3> QED BY <1>1, <3>2, IdleRoom
    <2> QED BY <2>1, <2>2
  <1>3. /\ Room(r, part) \in Nat /\ Room(r, part)' \in Nat /\ faults \in Nat
        /\ copies'[r][part] = copies[r][part] /\ ~Sending(worker'[p], r, part)
    BY <1>1, RoomTyped, CountTyped DEF Sending, Idle
  <1>4. Room(r, part)' + faults <= Room(r, part) + faults'
    BY <1>1, <1>2, <1>3
  <1> QED BY <1>1, <1>3, <1>4, QuietCount
\* An owned row was owned before and keeps its checkpoint, unless it has just been claimed.
LEMMA MediaKept ==
  ASSUME Typed, Next, NEW p \in Workers, NEW r \in Recipients, Owns(p, r)'
  PROVE  \/ Owns(p, r) /\ (rows[r].media => rows'[r].media)
         \/ worker'[p].at = "ready"
  <1>1. rows \in [Recipients -> Row] /\ rows[r] \in Row
    BY DEF Typed, TypeOK
  <1>2. rows'[r].status = "processing" /\ rows'[r].by = p
    BY DEF Owns
  <1>3. CASE rows'[r] = rows[r]
    BY <1>3 DEF Owns
  <1>4. CASE rows'[r] # rows[r]
    <2>1. ASSUME NEW b \in Broadcasts, NEW segment, Launch(b, segment) \/ CommitCancel(b) PROVE FALSE
      <3>1. rows'[r] \in {RowIn("pending"), RowIn("skipped")}
        BY <1>1, <1>4, <2>1 DEF Launch, CommitCancel
      <3> QED BY <1>2, <3>1 DEF RowIn
    <2>2. ASSUME NEW q \in Workers, ClaimBatch(q) PROVE worker'[p].at = "ready"
      <3>1. PICK batch \in Batches :
              /\ rows' = [s \in Recipients |-> IF s \in batch THEN Claimed(q, rows[s]) ELSE rows[s]]
              /\ Goes(q, [worker[q] EXCEPT !.queue = batch])
        BY <2>2 DEF ClaimBatch
      <3>2. rows'[r] = Claimed(q, rows[r])
        BY <1>4, <3>1
      <3>3. q = p
        BY <1>1, <1>2, <3>2 DEF Claimed, Row
      <3>4. worker[p].at = "ready" /\ worker[p] \in Worker
        BY <2>2, <3>3 DEF ClaimBatch, At, Typed, TypeOK, Worker
      <3>5. worker'[p] = [worker[p] EXCEPT !.queue = batch]
        BY <3>1, <3>3, OneMoves
      <3> QED BY <3>4, <3>5 DEF Worker
    <2>3. ASSUME NEW q \in Workers, Close(q) \/ Finish(q) PROVE FALSE
      <3>1. /\ rows' = [rows EXCEPT ![worker[q].msg] = RowIn(worker[q].verdict)]
            /\ worker[q].verdict \in Settled
        BY <2>3 DEF Close, Finish, Ends, At, Typed, EndHasVerdict
      <3>2. rows'[r] = RowIn(worker[q].verdict)
        BY <1>1, <1>4, <3>1
      <3> QED BY <1>2, <3>1, <3>2 DEF RowIn, Settled, Failures
    <2>4. ASSUME NEW q \in Workers, Checkpoint(q) PROVE Owns(p, r) /\ rows'[r].media
      <3>1. rows' = [rows EXCEPT ![worker[q].msg] = [rows[worker[q].msg] EXCEPT !.media = TRUE]]
        BY <1>4, <2>4 DEF Checkpoint
      <3>2. rows'[r] = [rows[r] EXCEPT !.media = TRUE]
        BY <1>1, <1>4, <3>1
      <3> QED BY <1>1, <1>2, <3>2 DEF Owns, Row
    <2>5. ASSUME NEW q \in Workers, Record(q) PROVE FALSE
      <3>1. rows' = [rows EXCEPT ![worker[q].msg] =
                       [rows[worker[q].msg] EXCEPT !.status = "retry", !.due = FALSE,
                                                   !.by = None, !.leased = FALSE]]
        BY <1>4, <2>5 DEF Record
      <3>2. rows'[r] = [rows[r] EXCEPT !.status = "retry", !.due = FALSE, !.by = None,
                                       !.leased = FALSE]
        BY <1>1, <1>4, <3>1
      <3> QED BY <1>1, <1>2, <3>2 DEF Row
    <2>6. ASSUME NEW m \in Recipients, BecomesDue(m) \/ LeaseEnds(m)
          PROVE  Owns(p, r) /\ (rows[r].media => rows'[r].media)
      <3>1. \/ rows' = [rows EXCEPT ![m] = [rows[m] EXCEPT !.due = TRUE]]
            \/ rows' = [rows EXCEPT ![m] = [rows[m] EXCEPT !.leased = FALSE]]
        BY <2>6 DEF BecomesDue, LeaseEnds
      <3>2. \/ rows'[r] = [rows[r] EXCEPT !.due = TRUE]
            \/ rows'[r] = [rows[r] EXCEPT !.leased = FALSE]
        BY <1>1, <1>4, <3>1
      <3> QED BY <1>1, <1>2, <3>2 DEF Owns, Row
    <2>7. ASSUME NEW b \in Broadcasts,
                 StartCancel(b) \/ FailCancel(b) \/ \E parts \in Formats : CreateDraft(b, parts)
          PROVE  FALSE
      BY <1>4, <2>7 DEF StartCancel, FailCancel, CreateDraft
    <2>8. ASSUME ToggleFeature \/ \E c \in Clients : ToggleSubscription(c) PROVE FALSE
      BY <1>4, <2>8 DEF ToggleFeature, ToggleSubscription
    <2>9. ASSUME NEW q \in Workers,
                 \/ Send(q) \/ SendNothing(q) \/ LockFails(q) \/ Crash(q)
                 \/ \E m \in Recipients : Prepare(q, m)
          PROVE  FALSE
      BY <1>4, <2>9 DEF Send, SendNothing, LockFails, Crash, Prepare
    <2> QED
      BY <2>1, <2>2, <2>3, <2>4, <2>5, <2>6, <2>7, <2>8, <2>9 DEF Next, Requests, Works, Time
  <1> QED BY <1>3, <1>4

\* A worker that comes to remember the media as stored has read it from its row, or stored
\* it there.
LEMMA MediaSteps ==
  ASSUME Typed, Next, NEW p \in Workers,
         worker'[p].at \in {"send", "record"}, worker'[p].media
  PROVE  \/ /\ worker[p].at \in {"send", "record"} /\ worker[p].media
            /\ worker'[p].msg = worker[p].msg
         \/ rows'[worker'[p].msg].media
         \/ ~Owns(p, worker[p].msg)'
  <1> DEFINE Goal == \/ /\ worker[p].at \in {"send", "record"} /\ worker[p].media
                        /\ worker'[p].msg = worker[p].msg
                     \/ rows'[worker'[p].msg].media
                     \/ ~Owns(p, worker[p].msg)'
  <1>1. worker[p] \in Worker
    BY DEF Typed, TypeOK, Worker
  <1>2. CASE worker'[p] = worker[p]
    BY <1>2
  <1>3. ASSUME NEW q \in Workers, NEW x, Goes(q, x), worker'[p] # worker[p]
        PROVE  q = p /\ worker'[p] = x
    BY <1>3, OneMoves DEF Moves
  <1>4. CASE worker'[p] # worker[p]
    <2>1. ASSUME NEW q \in Workers, NEW m \in Recipients, Prepare(q, m) PROVE Goal
      <3> DEFINE rest == [worker[q] EXCEPT !.queue = @ \ {m}]
                 send == [rest EXCEPT !.at = "send", !.msg = m, !.media = rows[m].media]
                 close == [rest EXCEPT !.at = "close", !.msg = m, !.verdict = Verdict(m),
                                       !.outcome = Outcome(m, Verdict(m))]
      <3>1. Goes(q, rest) \/ Goes(q, send) \/ Goes(q, close)
        BY <2>1 DEF Prepare
      <3>2. q = p /\ worker'[p] \in {rest, send, close}
        <4> HIDE DEF rest, send, close
        <4> QED BY <1>3, <1>4, <3>1
      <3>3. worker[p].at = "ready" /\ rows' = rows
        BY <2>1, <3>2 DEF Prepare, At
      <3>4. rest.at = "ready" /\ close.at = "close"
        BY <1>1, <3>2, <3>3 DEF Worker
      <3>5. send.msg = m /\ send.media = rows[m].media
        BY <1>1, <3>2 DEF Worker
      <3>6. worker'[p] = send
        <4> HIDE DEF rest, send, close
        <4> QED BY <3>2, <3>4
      <3> HIDE DEF send
      <3> QED BY <3>3, <3>5, <3>6
    <2>2. ASSUME NEW q \in Workers, Ready(q) PROVE FALSE
      BY <1>3, <1>4, <2>2, ReadyMoves DEF Moves
    <2>3. ASSUME NEW q \in Workers, LockFails(q) \/ Crash(q) PROVE FALSE
      <3>1. worker'[p] = Idle
        BY <1>3, <1>4, <2>3 DEF LockFails, Crash
      <3> QED BY <3>1 DEF Idle
    <2>4. ASSUME NEW q \in Workers, Send(q) \/ SendNothing(q) PROVE Goal
      <3> DEFINE waits == [worker[q] EXCEPT !.at = "checkpoint"]
                 records(a) == [worker[q] EXCEPT !.at = "record", !.answer = a]
      <3>1. worker[q].at = "send" /\ (Goes(q, waits) \/ \E a : Goes(q, records(a)))
        BY <2>4 DEF Send, SendNothing, At
      <3>2. q = p /\ (worker'[p] = waits \/ \E a : worker'[p] = records(a))
        <4> HIDE DEF waits, records
        <4> QED BY <1>3, <1>4, <3>1
      <3>3. /\ waits.at = "checkpoint"
            /\ \A a : records(a).msg = worker[p].msg /\ records(a).media = worker[p].media
        BY <1>1, <3>2 DEF Worker
      <3> HIDE DEF waits, records
      <3> QED BY <3>1, <3>2, <3>3
    <2>5. ASSUME NEW q \in Workers, Checkpoint(q) PROVE Goal
      <3> DEFINE m == worker[q].msg
                 sends == [worker[q] EXCEPT !.at = "send", !.media = TRUE]
                 gives == [worker[q] EXCEPT !.at = "record", !.answer = "retry"]
      <3>1. /\ rows' = IF Owns(q, m) THEN [rows EXCEPT ![m] = [rows[m] EXCEPT !.media = TRUE]]
                       ELSE rows
            /\ Goes(q, IF Owns(q, m) THEN sends ELSE gives)
            /\ m \in Recipients /\ rows \in [Recipients -> Row] /\ rows[m] \in Row
        BY <2>5 DEF Checkpoint, At, Typed, TypeOK, BusyHasRecipient
      <3>2. q = p /\ worker'[p] = IF Owns(p, m) THEN sends ELSE gives
        <4> HIDE DEF sends, gives
        <4> QED BY <1>3, <1>4, <3>1
      <3>3. sends.msg = m /\ gives.msg = m
        BY <1>1, <3>2 DEF Worker
      <3>4. worker'[p].msg = m
        <4> HIDE DEF sends, gives
        <4> QED BY <3>2, <3>3
      <3>5. CASE Owns(p, m)
        <4>1. rows'[m] = [rows[m] EXCEPT !.media = TRUE]
          BY <3>1, <3>2, <3>5
        <4>2. rows'[m].media
          BY <3>1, <4>1 DEF Row
        <4> QED BY <3>4, <4>2
      <3>6. CASE ~Owns(p, m)
        BY <3>1, <3>2, <3>4, <3>6 DEF Owns
      <3> QED BY <3>5, <3>6
    <2>6. ASSUME NEW q \in Workers, Record(q) PROVE FALSE
      <3> DEFINE ends == [worker[q] EXCEPT !.at = "finish",
                            !.verdict = Recorded(rows[worker[q].msg], worker[q].answer)]
      <3>1. Goes(q, ends)
        BY <2>2, <2>6 DEF Record
      <3>2. q = p /\ worker'[p] = ends
        <4> HIDE DEF ends
        <4> QED BY <1>3, <1>4, <3>1
      <3> QED BY <1>1, <3>2 DEF Worker
    <2>7. ASSUME NEW q \in Workers, ClaimBatch(q) PROVE FALSE
      <3>1. PICK batch : Goes(q, [worker[q] EXCEPT !.queue = batch])
        BY <2>7 DEF ClaimBatch
      <3>2. q = p /\ worker'[p] = [worker[p] EXCEPT !.queue = batch]
        BY <1>3, <1>4, <3>1
      <3>3. worker[p].at = "ready"
        BY <2>7, <3>2 DEF ClaimBatch, At
      <3> QED BY <1>1, <3>2, <3>3 DEF Worker
    <2>8. ASSUME Requests \/ Time PROVE FALSE
      BY <1>4, <2>8
      DEF Requests, Time, CreateDraft, Launch, StartCancel, CommitCancel, FailCancel,
          ToggleSubscription, ToggleFeature, BecomesDue, LeaseEnds
    <2> QED
      BY <2>1, <2>2, <2>3, <2>4, <2>5, <2>6, <2>7, <2>8 DEF Next, Works, Close, Finish
  <1> QED BY <1>2, <1>4

LEMMA MediaStoredStep ==
  ASSUME Typed, Typed', MediaStored, Next
  PROVE  MediaStored'
  <1> SUFFICES ASSUME NEW p \in Workers, NEW r \in Recipients, worker'[p].msg = r,
                      worker'[p].at \in {"send", "record"}, worker'[p].media, Owns(p, r)'
               PROVE  rows'[r].media
    BY DEF MediaStored, Owns, Typed, BusyHasRecipient
  <1>1. Owns(p, r) /\ (rows[r].media => rows'[r].media)
    BY MediaKept
  <1>2. \/ /\ worker[p].at \in {"send", "record"} /\ worker[p].media
           /\ worker'[p].msg = worker[p].msg
        \/ rows'[r].media
    BY MediaSteps DEF Owns
  <1> QED BY <1>1, <1>2 DEF MediaStored

LEMMA CopiesStep == CopiesInv /\ Typed' /\ Locking' /\ [Next]_vars => CopiesInv'
  <1>1. CASE CopiesInv /\ Typed' /\ Locking' /\ UNCHANGED vars
    BY <1>1
    DEF vars, CopiesInv, MediaStored, Owns, Counted, Balance, Senders, Sending, Room, Chances,
        Reserve, Spent, Twice, Stored, Queued, Held, Delivering, Open, At
  <1>2. CASE CopiesInv /\ Typed' /\ Locking' /\ Next
    <2>1. MediaStored'
      BY <1>2, MediaStoredStep DEF CopiesInv
    <2>2. ASSUME NEW r \in Recipients, NEW part \in Parts PROVE Counted(r, part)'
      <3>1. Typed /\ Typed' /\ Locking /\ MediaStored /\ Counted(r, part)
        BY <1>2 DEF CopiesInv
      <3>2. CASE Requests \/ Time
        BY <3>1, <3>2, RequestCount, TimeCount
      <3>3. ASSUME NEW p \in Workers, Works(p) PROVE Counted(r, part)'
        BY <3>1, <3>3, ClaimCount, PrepareCount, SendCount, SendNothingCount, CheckpointCount,
           RecordCount, EndCount DEF Works
      <3>4. ASSUME NEW p \in Workers, LockFails(p) \/ Crash(p) PROVE Counted(r, part)'
        BY <3>1, <3>4, LockFailsCount, CrashCount
      <3> QED BY <1>2, <3>2, <3>3, <3>4 DEF Next
    <2> QED BY <1>2, <2>1, <2>2 DEF CopiesInv
  <1> QED BY <1>1, <1>2

LEMMA CopiesInit == Init => CopiesInv
  <1> SUFFICES ASSUME Init PROVE CopiesInv
    OBVIOUS
  <1>1. Typed /\ Locking
    BY TypedInit, LockingInit
  <1>2. \A p \in Workers : worker[p] = Idle /\ worker[p].at = "ready"
    BY DEF Init, Idle
  <1>3. MediaStored
    BY <1>2 DEF MediaStored
  <1>4. ASSUME NEW r \in Recipients, NEW part \in Parts PROVE Counted(r, part)
    <2>1. Senders(r, part) = {}
      BY <1>2 DEF Senders, Sending
    <2>2. rows[r].status = "absent" /\ copies[r][part] = 0 /\ faults = 0
      BY DEF Init, RowIn
    <2>3. Room(r, part) = 1
      BY <2>2, UnclaimedRoom
    <2>4. IsFiniteSet(Senders(r, part)) /\ Cardinality(Senders(r, part)) = 0
      BY <2>1, FS_EmptySet
    <2> QED BY <2>2, <2>3, <2>4 DEF Counted, Balance
  <1> QED BY <1>1, <1>3, <1>4 DEF CopiesInv

\* A part of a campaign's message reaches its recipient a second time only at the price of
\* a fault, however many workers race for the row and however often it is retried; and a
\* retry of the text does not repeat the media (claim_due, _claimed, mark_media_sent,
\* cancel_open_recipients).
THEOREM ExtraCopyCosts == Spec => []ExtraCopyNeedsFault
  <1>1. CopiesInv => ExtraCopyNeedsFault
    <2> SUFFICES ASSUME CopiesInv, NEW r \in Recipients, NEW part \in Parts
                 PROVE  copies[r][part] <= 1 + faults
      BY DEF ExtraCopyNeedsFault
    <2>1. Typed /\ Counted(r, part)
      BY DEF CopiesInv
    <2>2. copies \in [Recipients -> [Parts -> Nat]] /\ faults \in Nat
      BY <2>1 DEF Typed, TypeOK
    <2>3. copies[r] \in [Parts -> Nat] /\ copies[r][part] \in Nat
      BY <2>2
    <2>4. Cardinality(Senders(r, part)) \in Nat /\ Room(r, part) \in Nat
      BY <2>1, FS_CardinalityType, RoomTyped DEF Counted
    <2> QED BY <2>1, <2>2, <2>3, <2>4 DEF Counted, Balance
  <1>2. Spec => []CopiesInv
    BY CopiesInit, CopiesStep, LockingHolds, PTL DEF Spec
  <1> QED BY <1>1, <1>2, PTL
=============================================================================
