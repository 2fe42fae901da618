--------------------------- MODULE RefundsProofs ---------------------------
(***************************************************************************)
(* Proofs about module Refunds, for any number of payments, administrators *)
(* and webhook requests: its types, that the books say what was paid back, *)
(* and that payment, refund and visit agree.                               *)
(*                                                                         *)
(* The argument is about the rows of one payment (RowsSound, RowsMove) and *)
(* about what a session or a request knows of them while it is on its way  *)
(* (AdminKnows, ListenerKnows).  No step of another one takes that away    *)
(* (Later).                                                                *)
(***************************************************************************)
EXTENDS Refunds, TLAPS

USE RefundsAssumption
-----------------------------------------------------------------------------
(* The rows of one payment: p, its refund r, its visit v, its events i, and *)
(* the refund m at the provider.                                           *)

RowsTyped(p, r, v, i, m) ==
    /\ p \in PaymentRow /\ r \in RefundRow /\ v \in VisitStatus
    /\ i \in [Events -> EventStatus] /\ m \in RemoteStatus

\* BooksAreTrue and StatusesAgree of one payment, and what the provider's side must be
\* for that: a refund that ended without success was not made, and never will be.
RowsAgree(p, r, v, i, m) ==
    /\ p.refunded = IF r.status = "succeeded" THEN 1 ELSE 0
    /\ p.provider # "manual" /\ r.status = "succeeded" => m = "succeeded"
    /\ m = "succeeded" => r.status \in {"pending", "succeeded"}
    /\ i["refund"] = "processed" => r.status = "succeeded"
    /\ p.status = "refund_pending" <=> r.status = "pending"
    /\ p.status = "refunded" <=> r.status = "succeeded"
    /\ r.status = "pending" => v \in {"refund_pending", "ended"}
    /\ r.status = "succeeded" => v \in {"refunded", "ended"}
    /\ p.provider = "manual" => m = "none"
    /\ r.status = "failed" => m = "refused"
    /\ r.status = "cancelled" => m = "cancelled"
    /\ m # "none" => r.status # "absent"

RowsSound(p, r, v, i, m) == RowsTyped(p, r, v, i, m) /\ RowsAgree(p, r, v, i, m)

\* A refund is requested.
Opened(p, r, v, p2, r2, v2) ==
    /\ r.status = "absent" /\ p.status = "succeeded"
    /\ p2 = [p EXCEPT !.status = "refund_pending"]
    /\ r2 = [r EXCEPT !.status = "pending"] /\ v2 = "refund_pending"
\* A success is written, of the refund as it is, or as a manual confirmation read it.
Succeeded(p, r, m, p2, r2, v2) ==
    \E s \in RefundRow :
        /\ SuccessAccepted(p, s)
        /\ \/ s = r /\ m = "succeeded"
           \/ s.status # "succeeded" /\ p.provider = "manual"
        /\ p2 = Paid(p, s) /\ r2 = [status |-> "succeeded", known |-> TRUE] /\ v2 = "refunded"
\* A failure is written.
Failed(p, r, m, p2, r2) ==
    /\ r.status = "pending" /\ p2 = Restored(p)
    /\ \E s \in {"failed", "cancelled"}, k \in BOOLEAN :
        /\ r2 = [status |-> s, known |-> k]
        /\ m = IF s = "failed" THEN "refused" ELSE "cancelled"
\* The provider takes a refund, or settles it.
Settled(p, r, m, m2) ==
    /\ p.provider # "manual" /\ r.status # "absent"
    /\ \/ m = "none"
       \/ m = "pending" /\ m2 \in {"succeeded", "cancelled"}
       \/ m2 = m

\* What a step does to the rows of one payment.
RowsMove(p, r, v, i, m, p2, r2, v2, i2, m2) ==
    \/ Opened(p, r, v, p2, r2, v2) /\ i2 = i /\ m2 = m
    \/ /\ Succeeded(p, r, m, p2, r2, v2) /\ m2 = m
       /\ i2 = i \/ i2 = [i EXCEPT !["refund"] = "processed"]
    \/ Failed(p, r, m, p2, r2) /\ v2 = v /\ i2 = i /\ m2 = m
    \/ /\ r.status = "pending" /\ r2 = [r EXCEPT !.known = TRUE]
       /\ p2 = p /\ v2 = v /\ i2 = i /\ m2 = m
    \/ Settled(p, r, m, m2) /\ p2 = p /\ r2 = r /\ v2 = v /\ i2 = i
    \/ v2 = "ended" /\ p2 = p /\ r2 = r /\ i2 = i /\ m2 = m
    \/ /\ \E e \in Events, s \in EventStatus :
            (e = "refund" => s # "processed") /\ i2 = [i EXCEPT ![e] = s]
       /\ p2 = p /\ r2 = r /\ v2 = v /\ m2 = m

\* What no step takes away: a refund that is in the table, an answer of the provider
\* that is final.
Later(p, r, m, p2, r2, m2) ==
    /\ p2.provider = p.provider
    /\ r.status # "absent" => r2.status # "absent"
    /\ m \in {"refused", "succeeded", "cancelled"} => m2 = m
    /\ m = "pending" => m2 \in {"pending", "succeeded", "cancelled"}

\* Rows that move stay typed.
LEMMA MoveTyped ==
  ASSUME NEW p, NEW r, NEW v, NEW i, NEW m, NEW p2, NEW r2, NEW v2, NEW i2, NEW m2 \in RemoteStatus,
         RowsSound(p, r, v, i, m), RowsMove(p, r, v, i, m, p2, r2, v2, i2, m2)
  PROVE  RowsTyped(p2, r2, v2, i2, m2)
  <1> USE DEF RowsSound, RowsTyped, PaymentRow, RefundRow
  <1>1. CASE Opened(p, r, v, p2, r2, v2) /\ i2 = i /\ m2 = m
    BY <1>1 DEF Opened, RefundStatus, VisitStatus
  <1>2. CASE /\ Succeeded(p, r, m, p2, r2, v2) /\ m2 = m
             /\ i2 = i \/ i2 = [i EXCEPT !["refund"] = "processed"]
    <2>1. PICK s \in RefundRow : SuccessAccepted(p, s) /\ p2 = Paid(p, s)
      BY <1>2 DEF Succeeded
    <2>2. p2 \in PaymentRow
      <3>1. CASE s.status = "succeeded"
        BY <2>1, <3>1 DEF Paid
      <3>2. CASE s.status # "succeeded"
        <4>1. p.refunded + 1 \in 0..1
          BY <2>1, <3>2 DEF SuccessAccepted, WithinPayment
        <4>2. p2 = [p EXCEPT !.status = "refunded", !.refunded = p.refunded + 1]
          BY <2>1, <3>2 DEF Paid
        <4> QED BY <4>1, <4>2
      <3> QED BY <3>1, <3>2
    <2>3. r2 \in RefundRow /\ v2 \in VisitStatus
      BY <1>2 DEF Succeeded, RefundStatus, VisitStatus
    <2>4. i2 \in [Events -> EventStatus]
      BY <1>2 DEF Events, EventStatus
    <2> QED BY <2>2, <2>3, <2>4
  <1>3. CASE Failed(p, r, m, p2, r2) /\ v2 = v /\ i2 = i /\ m2 = m
    BY <1>3 DEF Failed, Restored, RefundStatus
  <1>4. CASE /\ r.status = "pending" /\ r2 = [r EXCEPT !.known = TRUE]
             /\ p2 = p /\ v2 = v /\ i2 = i /\ m2 = m
    BY <1>4
  <1>5. CASE Settled(p, r, m, m2) /\ p2 = p /\ r2 = r /\ v2 = v /\ i2 = i
    BY <1>5
  <1>6. CASE v2 = "ended" /\ p2 = p /\ r2 = r /\ i2 = i /\ m2 = m
    BY <1>6 DEF VisitStatus
  <1>7. CASE /\ \E e \in Events, s \in EventStatus :
                  (e = "refund" => s # "processed") /\ i2 = [i EXCEPT ![e] = s]
             /\ p2 = p /\ r2 = r /\ v2 = v /\ m2 = m
    BY <1>7
  <1> QED BY <1>1, <1>2, <1>3, <1>4, <1>5, <1>6, <1>7 DEF RowsMove

\* Rows that move agree, and nothing final is taken away.
LEMMA MoveAgrees ==
  ASSUME NEW p, NEW r, NEW v, NEW i, NEW m, NEW p2, NEW r2, NEW v2, NEW i2, NEW m2 \in RemoteStatus,
         RowsSound(p, r, v, i, m), RowsMove(p, r, v, i, m, p2, r2, v2, i2, m2)
  PROVE  RowsAgree(p2, r2, v2, i2, m2) /\ Later(p, r, m, p2, r2, m2)
  <1> USE DEF RowsSound, RowsTyped, RowsAgree, Later, PaymentRow, RefundRow
  <1>1. CASE Opened(p, r, v, p2, r2, v2) /\ i2 = i /\ m2 = m
    BY <1>1 DEF Opened
  <1>2. CASE /\ Succeeded(p, r, m, p2, r2, v2) /\ m2 = m
             /\ i2 = i \/ i2 = [i EXCEPT !["refund"] = "processed"]
    BY <1>2 DEF Succeeded, SuccessAccepted, WithinPayment, Paid, RefundMay, Events
  <1>3. CASE Failed(p, r, m, p2, r2) /\ v2 = v /\ i2 = i /\ m2 = m
    BY <1>3 DEF Failed, Restored
  <1>4. CASE /\ r.status = "pending" /\ r2 = [r EXCEPT !.known = TRUE]
             /\ p2 = p /\ v2 = v /\ i2 = i /\ m2 = m
    BY <1>4
  <1>5. CASE Settled(p, r, m, m2) /\ p2 = p /\ r2 = r /\ v2 = v /\ i2 = i
    BY <1>5 DEF Settled, RefundStatus
  <1>6. CASE v2 = "ended" /\ p2 = p /\ r2 = r /\ i2 = i /\ m2 = m
    BY <1>6
  <1>7. CASE /\ \E e \in Events, s \in EventStatus :
                  (e = "refund" => s # "processed") /\ i2 = [i EXCEPT ![e] = s]
             /\ p2 = p /\ r2 = r /\ v2 = v /\ m2 = m
    BY <1>7 DEF Events
  <1> QED BY <1>1, <1>2, <1>3, <1>4, <1>5, <1>6, <1>7 DEF RowsMove
-----------------------------------------------------------------------------
(* The tables, and what sessions and requests know of them. *)

TablesSound ==
    /\ payment \in [Payments -> PaymentRow] /\ refund \in [Payments -> RefundRow]
    /\ visit \in [Payments -> VisitStatus] /\ inbox \in [Payments -> [Events -> EventStatus]]
    /\ remote \in [Payments -> RemoteStatus]
    /\ \A x \in Payments : RowsAgree(payment[x], refund[x], visit[x], inbox[x], remote[x])

\* An answer that was not lost is the provider's, or was before a refund was made.
AnswerIsTrue(x, answer) ==
    \/ answer = "lost"
    \/ Manual(x) /\ answer = "pending"
    \/ /\ ~Manual(x)
       /\ \/ answer \in {"refused", "succeeded", "cancelled"} /\ remote[x] = answer
          \/ answer = "pending" /\ remote[x] \in {"pending", "succeeded", "cancelled"}

AdminKnows(s) ==
    /\ s.at # "idle" => s.x \in Payments
    /\ s.at \in {"prepare", "call", "answered"} => refund[s.x].status # "absent"
    /\ s.at = "answered" => AnswerIsTrue(s.x, s.answer)
    /\ s.at = "confirm" => Manual(s.x)
ListenerKnows(q) ==
    q.at # "idle" => /\ q.x \in Payments /\ ~Manual(q.x)
                     /\ q.event = "refund" => remote[q.x] = "succeeded"

Sound ==
    /\ TablesSound
    /\ admin \in [Admins -> Session] /\ \A a \in Admins : AdminKnows(admin[a])
    /\ listener \in [Listeners -> Request] /\ \A l \in Listeners : ListenerKnows(listener[l])
    /\ ending \subseteq Payments /\ faults \in 0..MaxFaults

\* The rows of one payment change, and no others.
Changes(x) ==
    /\ payment' = [payment EXCEPT ![x] = payment'[x]]
    /\ refund' = [refund EXCEPT ![x] = refund'[x]]
    /\ visit' = [visit EXCEPT ![x] = visit'[x]]
    /\ inbox' = [inbox EXCEPT ![x] = inbox'[x]]
    /\ remote' = [remote EXCEPT ![x] = remote'[x]] /\ remote'[x] \in RemoteStatus
    /\ RowsMove(payment[x], refund[x], visit[x], inbox[x], remote[x],
                payment'[x], refund'[x], visit'[x], inbox'[x], remote'[x])
TablesStep ==
    \/ UNCHANGED <<payment, refund, visit, inbox, remote>>
    \/ \E x \in Payments : Changes(x)
NothingLost ==
    \A x \in Payments :
        Later(payment[x], refund[x], remote[x], payment'[x], refund'[x], remote'[x])

\* The initial states are sound.
LEMMA SoundInit == Init => Sound
  <1> SUFFICES ASSUME Init PROVE Sound
    OBVIOUS
  <1>1. TablesSound
    BY DEF Init, TablesSound, RowsAgree, PaymentRow, NoRefund, RefundRow, RefundStatus, VisitStatus,
           Events, EventStatus, RemoteStatus, Manual
  <1>2. admin \in [Admins -> Session] /\ \A a \in Admins : AdminKnows(admin[a])
    BY DEF Init, AdminKnows, Idle, Session, NoRefund, RefundRow, RefundStatus, RemoteStatus
  <1>3. listener \in [Listeners -> Request] /\ \A l \in Listeners : ListenerKnows(listener[l])
    BY DEF Init, ListenerKnows, Waiting, Request, Events
  <1> QED BY <1>1, <1>2, <1>3 DEF Sound, Init

\* The tables stay sound, and what was final in them stays.
LEMMA TablesKeep ==
  ASSUME TablesSound, TablesStep
  PROVE  TablesSound' /\ NothingLost
  <1>1. CASE UNCHANGED <<payment, refund, visit, inbox, remote>>
    BY <1>1 DEF TablesSound, NothingLost, Later
  <1>2. CASE \E x \in Payments : Changes(x)
    <2>1. PICK x \in Payments : Changes(x)
      BY <1>2
    <2>2. RowsSound(payment[x], refund[x], visit[x], inbox[x], remote[x])
      BY DEF TablesSound, RowsSound, RowsTyped
    <2>3. RowsTyped(payment'[x], refund'[x], visit'[x], inbox'[x], remote'[x])
      BY <2>1, <2>2, MoveTyped DEF Changes
    <2>4. /\ RowsAgree(payment'[x], refund'[x], visit'[x], inbox'[x], remote'[x])
          /\ Later(payment[x], refund[x], remote[x], payment'[x], refund'[x], remote'[x])
      BY <2>1, <2>2, MoveAgrees DEF Changes
    <2>5. \A y \in Payments \ {x} :
            /\ payment'[y] = payment[y] /\ refund'[y] = refund[y] /\ visit'[y] = visit[y]
            /\ inbox'[y] = inbox[y] /\ remote'[y] = remote[y]
      BY <2>1 DEF Changes, TablesSound
    <2>6. /\ payment' \in [Payments -> PaymentRow] /\ refund' \in [Payments -> RefundRow]
          /\ visit' \in [Payments -> VisitStatus]
          /\ inbox' \in [Payments -> [Events -> EventStatus]]
          /\ remote' \in [Payments -> RemoteStatus]
      BY <2>1, <2>3 DEF Changes, TablesSound, RowsTyped
    <2>7. \A y \in Payments : RowsAgree(payment'[y], refund'[y], visit'[y], inbox'[y], remote'[y])
      BY <2>4, <2>5 DEF TablesSound
    <2>8. NothingLost
      BY <2>4, <2>5 DEF NothingLost, Later
    <2> QED BY <2>6, <2>7, <2>8 DEF TablesSound
  <1> QED BY <1>1, <1>2 DEF TablesStep

\* What a session knows, it knows after any step.
LEMMA AdminStillKnows ==
  ASSUME NothingLost, NEW s, AdminKnows(s)
  PROVE  AdminKnows(s)'
  <1>1. s.at # "idle" => /\ s.x \in Payments
                         /\ Later(payment[s.x], refund[s.x], remote[s.x],
                                  payment'[s.x], refund'[s.x], remote'[s.x])
    BY DEF AdminKnows, NothingLost
  <1> QED BY <1>1 DEF AdminKnows, AnswerIsTrue, Manual, Later

\* And what a webhook request knows.
LEMMA ListenerStillKnows ==
  ASSUME NothingLost, NEW q, ListenerKnows(q)
  PROVE  ListenerKnows(q)'
  BY DEF NothingLost, Later, ListenerKnows, Manual
-----------------------------------------------------------------------------
(* The steps of the administrators. *)

\* A session goes on, and knows what it must know there.
AdminGoes(a) == \E s \in Session : Goes(a, s) /\ (AdminKnows(s) \/ AdminKnows(s)')

\* A session that has done all it could is idle.
LEMMA IdleTyped == Idle \in Session /\ AdminKnows(Idle)
  BY DEF Session, Idle, AdminKnows, NoRefund, RefundRow, RefundStatus, RemoteStatus

\* request_remaining_refund.
LEMMA AskEffect ==
  ASSUME Sound, NEW a \in Admins, NEW x \in Payments, AskRefund(a, x)
  PROVE  TablesStep /\ AdminGoes(a)
  <1>1. TablesStep
    BY DEF AskRefund, TablesStep, books
  <1> DEFINE e == [Idle EXCEPT !.at = "ensure", !.x = x]
  <1>2. e \in Session /\ e.at = "ensure" /\ e.x = x
    BY IdleTyped DEF Session
  <1>3. PICK s \in Session : Goes(a, s) /\ s.at = "ensure" /\ s.x = x
    BY <1>2 DEF AskRefund
  <1> QED BY <1>1, <1>3 DEF AdminGoes, AdminKnows

\* _ensure_refund.
LEMMA EnsureEffect ==
  ASSUME Sound, NEW a \in Admins, EnsureRefund(a)
  PROVE  TablesStep /\ AdminGoes(a)
  <1>1. PICK x \in Payments : x = admin[a].x /\ admin[a] \in Session
    BY DEF Sound, AdminKnows, EnsureRefund, At
  <1> DEFINE e == [admin[a] EXCEPT !.at = "prepare"]
  <1>2. e \in Session /\ e.at = "prepare" /\ e.x = x
    BY <1>1 DEF Session
  <1>3. PICK s \in Session : s = e /\ s.at = "prepare" /\ s.x = x
    BY <1>2
  <1>4. CASE refund[x].status # "absent" /\ UNCHANGED books /\ Goes(a, s)
    <2>1. AdminKnows(s)
      BY <1>1, <1>3, <1>4 DEF AdminKnows
    <2> QED BY <1>3, <1>4, <2>1 DEF EnsureRefund, TablesStep, AdminGoes, books
  <1>5. CASE UNCHANGED books /\ Goes(a, Idle)
    BY <1>1, <1>5, IdleTyped DEF EnsureRefund, TablesStep, AdminGoes, books
  <1>6. CASE /\ refund[x].status = "absent" /\ Refundable(x) /\ Goes(a, s)
             /\ refund' = [refund EXCEPT ![x].status = "pending"]
             /\ payment' = [payment EXCEPT ![x].status = "refund_pending"]
             /\ visit' = [visit EXCEPT ![x] = "refund_pending"]
    <2>1. /\ payment'[x] = [payment[x] EXCEPT !.status = "refund_pending"]
          /\ refund'[x] = [refund[x] EXCEPT !.status = "pending"]
          /\ visit'[x] = "refund_pending"
      BY <1>1, <1>6 DEF Sound, TablesSound
    <2>2. Opened(payment[x], refund[x], visit[x], payment'[x], refund'[x], visit'[x])
      BY <1>6, <2>1 DEF Opened, Refundable
    <2>3. Changes(x)
      BY <1>1, <1>6, <2>1, <2>2 DEF Changes, RowsMove, EnsureRefund, Sound, TablesSound
    <2>4. refund'[x].status = "pending"
      BY <1>1, <2>1 DEF Sound, TablesSound, RefundRow
    <2>5. AdminKnows(s)'
      BY <1>1, <1>3, <2>4 DEF AdminKnows
    <2> QED BY <1>1, <1>3, <1>6, <2>3, <2>5 DEF TablesStep, AdminGoes
  <1> QED BY <1>1, <1>3, <1>4, <1>5, <1>6 DEF EnsureRefund

\* _prepare_pending_refund.
LEMMA PrepareEffect ==
  ASSUME Sound, NEW a \in Admins, PrepareRefund(a)
  PROVE  TablesStep /\ AdminGoes(a)
  <1>1. /\ admin[a].x \in Payments /\ admin[a] \in Session
        /\ refund[admin[a].x].status # "absent"
    BY DEF Sound, AdminKnows, PrepareRefund, At
  <1> DEFINE e == [admin[a] EXCEPT !.at = "call"]
  <1>2. e \in Session /\ e.at = "call" /\ e.x = admin[a].x
    BY <1>1 DEF Session
  <1>3. PICK s \in Session : s = e /\ s.at = "call" /\ s.x = admin[a].x
    BY <1>2
  <1>4. AdminKnows(s)
    BY <1>1, <1>3 DEF AdminKnows
  <1>5. TablesStep
    BY DEF PrepareRefund, TablesStep, books
  <1> QED BY <1>1, <1>3, <1>4, <1>5, IdleTyped DEF PrepareRefund, AdminGoes

\* submit_refund.
LEMMA SubmitEffect ==
  ASSUME Sound, NEW a \in Admins, SubmitRefund(a)
  PROVE  TablesStep /\ AdminGoes(a)
  <1>1. PICK x \in Payments : /\ x = admin[a].x /\ admin[a] \in Session
                              /\ refund[x].status # "absent"
    BY DEF Sound, AdminKnows, SubmitRefund, At
  <1>2. /\ Manual(x) => remote[x] = "none"
        /\ remote[x] \in RemoteStatus
    BY <1>1 DEF Sound, TablesSound, RowsAgree, Manual
  <1>3. Manual(x)' = Manual(x) /\ refund' = refund
    BY DEF SubmitRefund, books, Manual
  <1>4. ASSUME NEW m \in RemoteStatus, remote' = [remote EXCEPT ![x] = m],
               ~Manual(x), remote[x] = "none" \/ m = remote[x]
        PROVE  TablesStep
    <2>1. remote'[x] = m
      BY <1>1, <1>4 DEF Sound, TablesSound
    <2>2. Settled(payment[x], refund[x], remote[x], m)
      BY <1>1, <1>4 DEF Settled, Manual
    <2>3. RowsMove(payment[x], refund[x], visit[x], inbox[x], remote[x],
                   payment'[x], refund'[x], visit'[x], inbox'[x], remote'[x])
      BY <2>1, <2>2 DEF RowsMove, SubmitRefund, books
    <2>4. Changes(x)
      BY <1>4, <2>1, <2>3 DEF Changes, SubmitRefund, books, Sound, TablesSound
    <2> QED BY <1>1, <2>4 DEF TablesStep
  <1>5. ASSUME NEW m \in Answers(x), remote' = [remote EXCEPT ![x] = m],
               Goes(a, [admin[a] EXCEPT !.at = "answered",
                                        !.answer = IF Manual(x) THEN "pending" ELSE m])
        PROVE  TablesStep /\ AdminGoes(a)
    <2>1. m \in RemoteStatus /\ remote'[x] = m
      BY <1>1, <1>2, <1>5 DEF Answers, RemoteStatus, Sound, TablesSound
    <2> DEFINE e == [admin[a] EXCEPT !.at = "answered",
                                     !.answer = IF Manual(x) THEN "pending" ELSE m]
    <2>2. /\ e \in Session /\ e.at = "answered" /\ e.x = x
          /\ e.answer = IF Manual(x) THEN "pending" ELSE m
      BY <1>1, <2>1 DEF RemoteStatus, Session
    <2>3. PICK s \in Session : /\ Goes(a, s) /\ s.at = "answered" /\ s.x = x
                               /\ s.answer = IF Manual(x) THEN "pending" ELSE m
      BY <1>5, <2>2
    <2>4. AnswerIsTrue(x, s.answer)'
      BY <1>2, <1>3, <1>5, <2>1, <2>3 DEF AnswerIsTrue, Answers, RemoteStatus
    <2>5. AdminKnows(s)'
      BY <1>1, <1>3, <2>3, <2>4 DEF AdminKnows
    <2>6. CASE Manual(x)
      <3>1. remote' = remote
        BY <1>1, <1>2, <1>5, <2>6 DEF Answers, Sound, TablesSound
      <3> QED BY <2>3, <2>5, <3>1 DEF TablesStep, SubmitRefund, books, AdminGoes
    <2>7. CASE ~Manual(x)
      BY <1>4, <1>5, <2>1, <2>3, <2>5, <2>7 DEF Answers, AdminGoes
    <2> QED BY <2>6, <2>7
  <1>6. ASSUME ~Manual(x), NEW m \in Answers(x) \cup {remote[x]}, remote' = [remote EXCEPT ![x] = m],
               Goes(a, [admin[a] EXCEPT !.at = "answered", !.answer = "lost"])
        PROVE  TablesStep /\ AdminGoes(a)
    <2>1. m \in RemoteStatus /\ (remote[x] = "none" \/ m = remote[x])
      BY <1>2, <1>6 DEF Answers, RemoteStatus
    <2> DEFINE e == [admin[a] EXCEPT !.at = "answered", !.answer = "lost"]
    <2>2. e \in Session /\ e.at = "answered" /\ e.x = x /\ e.answer = "lost"
      BY <1>1 DEF Session
    <2>3. PICK s \in Session : /\ Goes(a, s) /\ s.at = "answered" /\ s.x = x
                               /\ s.answer = "lost"
      BY <1>6, <2>2
    <2>4. AdminKnows(s)
      BY <1>1, <2>3 DEF AdminKnows, AnswerIsTrue
    <2> QED BY <1>4, <1>6, <2>1, <2>3, <2>4 DEF AdminGoes
  <1> QED BY <1>1, <1>5, <1>6 DEF SubmitRefund

\* A success that is written moves the rows of its payment.
LEMMA SuccessMoves ==
  ASSUME TablesSound, NEW x \in Payments, NEW row \in RefundRow,
         SuccessAccepted(payment[x], row), WriteSuccess(x, row), remote' = remote,
         \/ row = refund[x] /\ remote[x] = "succeeded"
         \/ row.status # "succeeded" /\ Manual(x),
         \/ inbox' = inbox
         \/ inbox' = [inbox EXCEPT ![x] = [inbox[x] EXCEPT !["refund"] = "processed"]]
  PROVE  Changes(x)
  <1>1. /\ payment'[x] = Paid(payment[x], row) /\ visit'[x] = "refunded"
        /\ refund'[x] = [status |-> "succeeded", known |-> TRUE]
        /\ inbox'[x] = inbox[x] \/ inbox'[x] = [inbox[x] EXCEPT !["refund"] = "processed"]
    BY DEF WriteSuccess, TablesSound
  <1>2. Succeeded(payment[x], refund[x], remote[x], payment'[x], refund'[x], visit'[x])
    BY <1>1 DEF Succeeded, Manual
  <1>3. /\ payment' = [payment EXCEPT ![x] = payment'[x]]
        /\ refund' = [refund EXCEPT ![x] = refund'[x]]
        /\ visit' = [visit EXCEPT ![x] = visit'[x]]
    BY <1>1 DEF WriteSuccess, TablesSound
  <1>4. inbox' = [inbox EXCEPT ![x] = inbox'[x]] /\ remote' = [remote EXCEPT ![x] = remote'[x]]
    BY <1>1 DEF TablesSound
  <1> QED BY <1>1, <1>2, <1>3, <1>4 DEF Changes, RowsMove, TablesSound

\* So does a failure.
LEMMA FailureMoves ==
  ASSUME TablesSound, NEW x \in Payments, NEW s \in {"failed", "cancelled"}, NEW k \in BOOLEAN,
         refund[x].status = "pending", WriteFailure(x, s, k), UNCHANGED <<remote, inbox>>,
         remote[x] = IF s = "failed" THEN "refused" ELSE "cancelled"
  PROVE  Changes(x)
  <1>1. /\ payment'[x] = Restored(payment[x]) /\ visit'[x] = visit[x]
        /\ refund'[x] = [status |-> s, known |-> k]
    BY DEF WriteFailure, TablesSound
  <1>2. Failed(payment[x], refund[x], remote[x], payment'[x], refund'[x])
    BY <1>1 DEF Failed
  <1>3. /\ payment' = [payment EXCEPT ![x] = payment'[x]]
        /\ refund' = [refund EXCEPT ![x] = refund'[x]]
        /\ visit' = [visit EXCEPT ![x] = visit'[x]]
        /\ inbox' = [inbox EXCEPT ![x] = inbox'[x]]
        /\ remote' = [remote EXCEPT ![x] = remote'[x]]
    BY <1>1 DEF WriteFailure, TablesSound
  <1> QED BY <1>1, <1>2, <1>3 DEF Changes, RowsMove, TablesSound

\* _apply_refund_result and _apply_refund_failure.
LEMMA AnswerEffect ==
  ASSUME Sound, NEW a \in Admins, ApplyAnswer(a)
  PROVE  TablesStep /\ AdminGoes(a)
  <1>1. PICK x \in Payments : x = admin[a].x /\ AnswerIsTrue(x, admin[a].answer)
    BY DEF Sound, AdminKnows, ApplyAnswer, At
  <1>2. Goes(a, Idle) /\ UNCHANGED <<inbox, remote>>
    BY DEF ApplyAnswer
  <1>3. AdminGoes(a)
    BY <1>2, IdleTyped DEF AdminGoes
  <1>4. TablesSound
    BY DEF Sound
  <1>5. refund[x] \in RefundRow /\ (Manual(x) => remote[x] = "none")
    BY <1>4 DEF TablesSound, RowsAgree, Manual
  <1>6. CASE UNCHANGED books
    BY <1>2, <1>3, <1>6 DEF TablesStep, books
  <1>7. CASE /\ Unanswered(refund[x]) /\ refund' = [refund EXCEPT ![x].known = TRUE]
             /\ UNCHANGED <<payment, visit>>
    <2>1. refund'[x] = [refund[x] EXCEPT !.known = TRUE]
      BY <1>7 DEF Sound, TablesSound
    <2>2. Changes(x)
      BY <1>2, <1>7, <2>1 DEF Changes, RowsMove, Unanswered, Sound, TablesSound
    <2> QED BY <1>3, <2>2 DEF TablesStep
  <1>8. CASE /\ admin[a].answer = "succeeded" /\ SuccessAccepted(payment[x], refund[x])
             /\ WriteSuccess(x, refund[x])
    <2>1. remote[x] = "succeeded"
      BY <1>1, <1>8 DEF AnswerIsTrue
    <2>2. Changes(x)
      BY <1>2, <1>4, <1>5, <1>8, <2>1, SuccessMoves
    <2> QED BY <1>3, <2>2 DEF TablesStep
  <1>9. CASE /\ Unanswered(refund[x]) /\ admin[a].answer = "cancelled"
             /\ WriteFailure(x, "cancelled", TRUE)
    <2>1. remote[x] = "cancelled"
      BY <1>1, <1>9 DEF AnswerIsTrue
    <2>2. Changes(x)
      BY <1>2, <1>4, <1>9, <2>1, FailureMoves DEF Unanswered
    <2> QED BY <1>3, <2>2 DEF TablesStep
  <1>10. CASE /\ Unanswered(refund[x]) /\ admin[a].answer = "refused"
             /\ \E known \in BOOLEAN : WriteFailure(x, "failed", known)
    <2>1. remote[x] = "refused"
      BY <1>1, <1>10 DEF AnswerIsTrue
    <2>2. Changes(x)
      BY <1>2, <1>4, <1>10, <2>1, FailureMoves DEF Unanswered
    <2> QED BY <1>3, <2>2 DEF TablesStep
  <1> QED BY <1>1, <1>6, <1>7, <1>8, <1>9, <1>10 DEF ApplyAnswer

\* approve_manual_refund reads the refund.
LEMMA StartConfirmEffect ==
  ASSUME Sound, NEW a \in Admins, NEW x \in Payments, StartConfirm(a, x)
  PROVE  TablesStep /\ AdminGoes(a)
  <1>1. TablesStep
    BY DEF StartConfirm, TablesStep, books
  <1> DEFINE e == [Idle EXCEPT !.at = "confirm", !.x = x, !.seen = refund[x]]
  <1>2. e \in Session /\ e.at = "confirm" /\ e.x = x
    BY IdleTyped DEF Session, Sound, TablesSound
  <1>3. PICK s \in Session : Goes(a, s) /\ s.at = "confirm" /\ s.x = x
    BY <1>2 DEF StartConfirm
  <1>4. AdminKnows(s)
    BY <1>3 DEF AdminKnows, StartConfirm
  <1> QED BY <1>1, <1>3, <1>4 DEF AdminGoes

\* approve_manual_refund decides on what it read.
LEMMA ConfirmEffect ==
  ASSUME Sound, NEW a \in Admins, ConfirmRefund(a)
  PROVE  TablesStep /\ AdminGoes(a)
  <1>1. PICK x \in Payments : x = admin[a].x /\ Manual(x) /\ admin[a] \in Session
    BY DEF Sound, AdminKnows, ConfirmRefund, At
  <1>2. PICK row \in RefundRow : row = admin[a].seen
    BY <1>1 DEF Session
  <1>3. Goes(a, Idle) /\ UNCHANGED <<inbox, remote>>
    BY DEF ConfirmRefund
  <1>4. AdminGoes(a)
    BY <1>3, IdleTyped DEF AdminGoes
  <1>5. CASE UNCHANGED books
    BY <1>3, <1>4, <1>5 DEF TablesStep, books
  <1>6. CASE row.status # "succeeded" /\ SuccessAccepted(payment[x], row) /\ WriteSuccess(x, row)
    <2>1. Changes(x)
      BY <1>1, <1>3, <1>6, SuccessMoves DEF Sound
    <2> QED BY <1>4, <2>1 DEF TablesStep
  <1> QED BY <1>1, <1>2, <1>5, <1>6 DEF ConfirmRefund

\* The process of an administrator's request dies.
LEMMA CrashEffect ==
  ASSUME NEW a \in Admins, AdminCrash(a)
  PROVE  TablesStep /\ AdminGoes(a)
  BY IdleTyped DEF AdminCrash, TablesStep, AdminGoes, books
-----------------------------------------------------------------------------
(* The steps of the webhook requests. *)

\* A request goes on, and knows what it must know there.
ListenerGoes(l) == \E q \in Request : Turns(l, q) /\ ListenerKnows(q)

\* A request that has done all it could is waiting for another one.
LEMMA WaitingTyped == Waiting \in Request /\ ListenerKnows(Waiting)
  BY DEF Waiting, Request, Events, ListenerKnows

\* An event of the inbox is marked, the event of a refund but not as processed.
LEMMA EventMoves ==
  ASSUME TablesSound, NEW x \in Payments, NEW e \in Events, NEW status \in EventStatus,
         Marked(x, e, status), e = "refund" => status # "processed",
         UNCHANGED <<books, remote>>
  PROVE  TablesStep
  <1>1. inbox'[x] = [inbox[x] EXCEPT ![e] = status]
    BY DEF Marked, TablesSound
  <1>2. inbox' = [inbox EXCEPT ![x] = inbox'[x]]
    BY <1>1 DEF Marked, TablesSound
  <1>3. Changes(x)
    BY <1>1, <1>2 DEF Changes, RowsMove, TablesSound, books
  <1> QED BY <1>3 DEF TablesStep

\* The first transaction of process_untrusted_notification.
LEMMA DeliverEffect ==
  ASSUME Sound, NEW l \in Listeners, NEW x \in Payments, NEW e \in Events, Deliver(l, x, e)
  PROVE  TablesStep /\ (UNCHANGED listener \/ ListenerGoes(l))
  <1> DEFINE q == [at |-> "fetch", x |-> x, event |-> e]
  <1>1. q \in Request /\ ListenerKnows(q)
    BY DEF Request, ListenerKnows, Deliver
  <1>2. CASE UNCHANGED <<inbox, listener>>
    BY <1>2 DEF Deliver, TablesStep, books
  <1>3. CASE Marked(x, e, "pending") /\ (UNCHANGED listener \/ Turns(l, q))
    <2>1. TablesStep
      BY <1>3, EventMoves DEF Deliver, Sound, EventStatus
    <2> QED BY <1>1, <1>3, <2>1 DEF ListenerGoes
  <1> QED BY <1>2, <1>3 DEF Deliver

\* fetch_authoritative_payment and fetch_authoritative_refund.
LEMMA FetchEffect ==
  ASSUME Sound, NEW l \in Listeners, Fetch(l)
  PROVE  TablesStep /\ ListenerGoes(l)
  <1>1. PICK q \in Request : q = listener[l] /\ q.at = "fetch" /\ ListenerKnows(q)
    BY DEF Sound, Fetch
  <1> DEFINE n == [q EXCEPT !.at = "apply"]
  <1>2. n \in Request /\ n.at = "apply" /\ n.x = q.x /\ n.event = q.event
    BY DEF Request
  <1>3. ListenerKnows(n)
    BY <1>1, <1>2 DEF ListenerKnows
  <1>4. CASE Turns(l, n) /\ UNCHANGED inbox
    BY <1>2, <1>3, <1>4 DEF Fetch, TablesStep, ListenerGoes, books
  <1>5. CASE Turns(l, Waiting) /\ (UNCHANGED inbox \/ Marked(q.x, q.event, "failed"))
    <2>1. q.x \in Payments /\ q.event \in Events
      BY <1>1 DEF ListenerKnows, Request
    <2>2. TablesStep
      <3>1. CASE UNCHANGED inbox
        BY <3>1 DEF Fetch, TablesStep, books
      <3>2. CASE Marked(q.x, q.event, "failed")
        BY <2>1, <3>2, EventMoves DEF Fetch, Sound, EventStatus
      <3> QED BY <1>5, <3>1, <3>2
    <2> QED BY <1>5, <2>2, WaitingTyped DEF ListenerGoes
  <1> QED BY <1>1, <1>4, <1>5 DEF Fetch

\* _apply_payment_result.
LEMMA PaymentEventEffect ==
  ASSUME Sound, NEW l \in Listeners, ApplyPaymentEvent(l)
  PROVE  TablesStep /\ ListenerGoes(l)
  <1>1. PICK x \in Payments : x = listener[l].x
    BY DEF Sound, ListenerKnows, ApplyPaymentEvent
  <1>2. ListenerGoes(l)
    BY WaitingTyped DEF ApplyPaymentEvent, ListenerGoes
  <1>3. CASE UNCHANGED <<payment, inbox>>
    BY <1>2, <1>3 DEF ApplyPaymentEvent, TablesStep
  <1>4. CASE /\ payment' = [payment EXCEPT ![x].status = StatusAfterEvent(payment[x])]
             /\ Marked(x, "payment", "processed")
    <2>1. payment' = payment
      BY <1>4 DEF StatusAfterEvent, Sound, TablesSound, PaymentRow
    <2>2. TablesStep
      BY <1>4, <2>1, EventMoves DEF ApplyPaymentEvent, Sound, Events, EventStatus, books
    <2> QED BY <1>2, <2>2
  <1> QED BY <1>1, <1>3, <1>4 DEF ApplyPaymentEvent

\* _apply_refund_result of the webhook.
LEMMA RefundEventEffect ==
  ASSUME Sound, NEW l \in Listeners, ApplyRefundEvent(l)
  PROVE  TablesStep /\ ListenerGoes(l)
  <1>1. PICK x \in Payments : x = listener[l].x /\ remote[x] = "succeeded"
    BY DEF Sound, ListenerKnows, ApplyRefundEvent
  <1>2. ListenerGoes(l)
    BY WaitingTyped DEF ApplyRefundEvent, ListenerGoes
  <1>3. TablesSound /\ remote' = remote /\ refund[x] \in RefundRow
    BY DEF ApplyRefundEvent, Sound, TablesSound
  <1>4. CASE UNCHANGED books /\ (UNCHANGED inbox \/ Marked(x, "refund", "failed"))
    <2>1. CASE UNCHANGED inbox
      BY <1>2, <1>3, <1>4, <2>1 DEF TablesStep, books
    <2>2. CASE Marked(x, "refund", "failed")
      BY <1>2, <1>3, <1>4, <2>2, EventMoves DEF Events, EventStatus
    <2> QED BY <1>4, <2>1, <2>2
  <1>5. CASE /\ SuccessAccepted(payment[x], refund[x]) /\ WriteSuccess(x, refund[x])
             /\ Marked(x, "refund", "processed")
    <2>1. inbox' = [inbox EXCEPT ![x] = [inbox[x] EXCEPT !["refund"] = "processed"]]
      BY <1>5 DEF Marked
    <2>2. Changes(x)
      BY <1>1, <1>3, <1>5, <2>1, SuccessMoves
    <2> QED BY <1>2, <2>2 DEF TablesStep
  <1> QED BY <1>1, <1>4, <1>5 DEF ApplyRefundEvent

\* A webhook request is given up.
LEMMA AbandonEffect ==
  ASSUME NEW l \in Listeners, Abandon(l)
  PROVE  TablesStep /\ ListenerGoes(l)
  BY WaitingTyped DEF Abandon, TablesStep, ListenerGoes, books
-----------------------------------------------------------------------------
(* The provider, and the handlers that end a visit. *)

\* The provider settles a refund.
LEMMA SettleEffect ==
  ASSUME TablesSound, NEW x \in Payments, Settle(x)
  PROVE  TablesStep
  <1>1. PICK s \in {"succeeded", "cancelled"} : remote' = [remote EXCEPT ![x] = s]
    BY DEF Settle
  <1>2. remote'[x] = s /\ s \in RemoteStatus
    BY <1>1 DEF TablesSound, RemoteStatus
  <1>3. Settled(payment[x], refund[x], remote[x], s)
    BY DEF Settled, Settle, TablesSound, RowsAgree
  <1>4. Changes(x)
    BY <1>1, <1>2, <1>3 DEF Changes, RowsMove, Settle, books, TablesSound
  <1> QED BY <1>4 DEF TablesStep

\* A handler ends a visit it has read as confirmed.
LEMMA EndingEffect ==
  ASSUME TablesSound, NEW x \in Payments, CommitEnding(x)
  PROVE  TablesStep
  <1>1. visit'[x] = "ended" /\ visit' = [visit EXCEPT ![x] = visit'[x]]
    BY DEF CommitEnding, TablesSound
  <1>2. Changes(x)
    BY <1>1 DEF Changes, RowsMove, CommitEnding, TablesSound
  <1> QED BY <1>2 DEF TablesStep
-----------------------------------------------------------------------------
(* All steps together. *)

\* A fault is counted, up to the bound.
LEMMA FaultBound == ASSUME faults \in 0..MaxFaults, Fault \/ UNCHANGED faults
                    PROVE  faults' \in 0..MaxFaults
  BY DEF Fault

\* A step of an administrator leaves the webhook requests and the ending visits alone.
LEMMA AdminFrame ==
  ASSUME Sound, NEW a \in Admins,
         \/ AdminSteps(a) \/ AdminCrash(a)
         \/ \E x \in Payments : AskRefund(a, x) \/ StartConfirm(a, x)
  PROVE  UNCHANGED <<listener, ending>> /\ faults' \in 0..MaxFaults
  <1>1. CASE EnsureRefund(a) \/ PrepareRefund(a) \/ ApplyAnswer(a) \/ ConfirmRefund(a)
    BY <1>1 DEF EnsureRefund, PrepareRefund, ApplyAnswer, ConfirmRefund, Sound
  <1>2. CASE SubmitRefund(a) \/ AdminCrash(a)
    BY <1>2, FaultBound DEF SubmitRefund, AdminCrash, Sound
  <1>3. CASE \E x \in Payments : AskRefund(a, x) \/ StartConfirm(a, x)
    BY <1>3 DEF AskRefund, StartConfirm, Sound
  <1> QED BY <1>1, <1>2, <1>3 DEF AdminSteps

\* A step of a webhook request leaves the administrators and the ending visits alone.
LEMMA ListenerFrame ==
  ASSUME Sound, NEW l \in Listeners,
         \/ ListenerSteps(l) \/ Abandon(l)
         \/ \E x \in Payments, e \in Events : Deliver(l, x, e)
  PROVE  UNCHANGED <<admin, ending>> /\ faults' \in 0..MaxFaults
  <1>1. CASE ApplyPaymentEvent(l) \/ ApplyRefundEvent(l)
    BY <1>1 DEF ApplyPaymentEvent, ApplyRefundEvent, Sound
  <1>2. CASE Fetch(l) \/ Abandon(l)
    BY <1>2, FaultBound DEF Fetch, Abandon, Sound
  <1>3. CASE \E x \in Payments, e \in Events : Deliver(l, x, e)
    BY <1>3 DEF Deliver, Sound
  <1> QED BY <1>1, <1>2, <1>3 DEF ListenerSteps

\* What a sound state has, the properties say.
LEMMA SoundSays == Sound => TypeOK /\ BooksAreTrue /\ StatusesAgree
  <1> SUFFICES ASSUME Sound PROVE TypeOK /\ BooksAreTrue /\ StatusesAgree
    OBVIOUS
  <1>1. TypeOK
    BY DEF Sound, TablesSound, TypeOK
  <1>2. BooksAreTrue
    BY DEF Sound, TablesSound, RowsAgree, BooksAreTrue, Manual
  <1>3. StatusesAgree
    BY DEF Sound, TablesSound, RowsAgree, StatusesAgree
  <1> QED BY <1>1, <1>2, <1>3

\* What the sessions and requests that did not step know, they still know.
LEMMA OthersStillKnow ==
  ASSUME Sound, NothingLost
  PROVE  /\ \A a \in Admins : admin'[a] = admin[a] => AdminKnows(admin[a])'
         /\ \A l \in Listeners : listener'[l] = listener[l] => ListenerKnows(listener[l])'
  <1>1. ASSUME NEW a \in Admins, admin'[a] = admin[a]
        PROVE  AdminKnows(admin[a])'
    <2>1. PICK s : s = admin[a] /\ s = admin'[a] /\ AdminKnows(s)
      BY <1>1 DEF Sound
    <2>2. AdminKnows(s)'
      BY <2>1, AdminStillKnows
    <2> QED BY <2>1, <2>2 DEF AdminKnows, AnswerIsTrue, Manual
  <1>2. ASSUME NEW l \in Listeners, listener'[l] = listener[l]
        PROVE  ListenerKnows(listener[l])'
    <2>1. PICK q : q = listener[l] /\ q = listener'[l] /\ ListenerKnows(q)
      BY <1>2 DEF Sound
    <2>2. ListenerKnows(q)'
      BY <2>1, ListenerStillKnows
    <2> QED BY <2>1, <2>2 DEF ListenerKnows, Manual
  <1> QED BY <1>1, <1>2

\* A step of an administrator keeps the state sound.
LEMMA AdminKeepsSound ==
  ASSUME Sound, NEW a \in Admins,
         \/ AdminSteps(a) \/ AdminCrash(a)
         \/ \E x \in Payments : AskRefund(a, x) \/ StartConfirm(a, x)
  PROVE  Sound'
  <1>1. TablesStep /\ AdminGoes(a)
    BY AskEffect, EnsureEffect, PrepareEffect, SubmitEffect, AnswerEffect, StartConfirmEffect,
       ConfirmEffect, CrashEffect DEF AdminSteps
  <1>2. TablesSound' /\ NothingLost
    BY <1>1, TablesKeep DEF Sound
  <1>3. UNCHANGED <<listener, ending>> /\ faults' \in 0..MaxFaults
    BY AdminFrame
  <1>4. PICK s \in Session : Goes(a, s) /\ AdminKnows(s)'
    BY <1>1, <1>2, AdminStillKnows DEF AdminGoes
  <1>5. admin' \in [Admins -> Session] /\ admin'[a] = s
    BY <1>4 DEF Goes, Sound
  <1>6. ASSUME NEW b \in Admins PROVE AdminKnows(admin[b])'
    <2>1. CASE b = a
      BY <1>4, <1>5, <2>1 DEF AdminKnows, AnswerIsTrue, Manual
    <2>2. CASE b # a
      BY <1>2, <1>4, <2>2, OthersStillKnow DEF Goes, Sound
    <2> QED BY <2>1, <2>2
  <1>7. \A l \in Listeners : ListenerKnows(listener[l])'
    BY <1>2, <1>3, OthersStillKnow
  <1> QED BY <1>2, <1>3, <1>5, <1>6, <1>7 DEF Sound

\* So does a step of a webhook request.
LEMMA ListenerKeepsSound ==
  ASSUME Sound, NEW l \in Listeners,
         \/ ListenerSteps(l) \/ Abandon(l)
         \/ \E x \in Payments, e \in Events : Deliver(l, x, e)
  PROVE  Sound'
  <1>1. TablesStep /\ (UNCHANGED listener \/ ListenerGoes(l))
    BY DeliverEffect, FetchEffect, PaymentEventEffect, RefundEventEffect, AbandonEffect
       DEF ListenerSteps
  <1>2. TablesSound' /\ NothingLost
    BY <1>1, TablesKeep DEF Sound
  <1>3. UNCHANGED <<admin, ending>> /\ faults' \in 0..MaxFaults
    BY ListenerFrame
  <1>4. listener' \in [Listeners -> Request] /\ \A k \in Listeners : ListenerKnows(listener[k])'
    <2>1. CASE UNCHANGED listener
      BY <1>2, <2>1, OthersStillKnow DEF Sound
    <2>2. CASE ListenerGoes(l)
      <3>1. PICK q \in Request : Turns(l, q) /\ ListenerKnows(q)'
        BY <1>2, <2>2, ListenerStillKnows DEF ListenerGoes
      <3>2. listener' \in [Listeners -> Request] /\ listener'[l] = q
        BY <3>1 DEF Turns, Sound
      <3>3. ASSUME NEW k \in Listeners PROVE ListenerKnows(listener[k])'
        <4>1. CASE k = l
          BY <3>1, <3>2, <4>1 DEF ListenerKnows, Manual
        <4>2. CASE k # l
          BY <1>2, <3>1, <4>2, OthersStillKnow DEF Turns, Sound
        <4> QED BY <4>1, <4>2
      <3> QED BY <3>2, <3>3
    <2> QED BY <1>1, <2>1, <2>2
  <1>5. \A a \in Admins : AdminKnows(admin[a])'
    BY <1>2, <1>3, OthersStillKnow
  <1> QED BY <1>2, <1>3, <1>4, <1>5 DEF Sound

\* And a step of the provider, or of a handler that ends a visit.
LEMMA OthersKeepSound ==
  ASSUME Sound, NEW x \in Payments, Settle(x) \/ StartEnding(x) \/ CommitEnding(x)
  PROVE  Sound'
  <1>1. TablesStep
    BY SettleEffect, EndingEffect DEF Sound, StartEnding, TablesStep, books
  <1>2. TablesSound' /\ NothingLost
    BY <1>1, TablesKeep DEF Sound
  <1>3. UNCHANGED <<admin, listener, faults>> /\ ending' \subseteq Payments
    BY DEF Settle, StartEnding, CommitEnding, Sound
  <1>4. /\ \A a \in Admins : AdminKnows(admin[a])'
        /\ \A l \in Listeners : ListenerKnows(listener[l])'
    BY <1>2, <1>3, OthersStillKnow
  <1> QED BY <1>2, <1>3, <1>4 DEF Sound

\* Every step keeps the state sound.
LEMMA SoundNext == Sound /\ [Next]_vars => Sound'
  <1>1. ASSUME Sound, Next PROVE Sound'
    BY <1>1, AdminKeepsSound, ListenerKeepsSound, OthersKeepSound DEF Next
  <1>2. ASSUME Sound, UNCHANGED vars PROVE Sound'
    <2>1. TablesSound' /\ NothingLost
      BY <1>2, TablesKeep DEF Sound, TablesStep, vars
    <2> QED BY <1>2, <2>1, OthersStillKnow DEF Sound, vars
  <1> QED BY <1>1, <1>2

\* The state is sound in every behaviour.
LEMMA SoundAlways == Spec => []Sound
  BY SoundInit, SoundNext, PTL DEF Spec
-----------------------------------------------------------------------------
\* The tables, the sessions of the administrators and the webhook requests hold what
\* their columns and stages allow.
THEOREM TypeCorrect == Spec => []TypeOK
  BY SoundAlways, SoundSays, PTL

\* What the books say was paid back was paid back, once, and no refund that was made is
\* written off: for any number of administrators and webhook requests.
THEOREM BooksTrue == Spec => []BooksAreTrue
  BY SoundAlways, SoundSays, PTL

\* Payment, visit and refund tell one story, whatever old, repeated or late events and
\* answers arrive.
THEOREM StatusesAgreeAlways == Spec => []StatusesAgree
  BY SoundAlways, SoundSays, PTL
=============================================================================
