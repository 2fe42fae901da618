--------------------------- MODULE MessagesProofs ---------------------------
(***************************************************************************)
(* Proofs about module Messages, for any number of workers, visits,        *)
(* entries and faults: its types, that a message recorded as sent reached  *)
(* its recipient, that a worker that sends the reminder of a visit that is *)
(* over has lost its row, and that a booked entry had been offered its     *)
(* window.  Each is inductive next to the types; the second needs to know  *)
(* what a worker that is about to record "ok" has done.                    *)
(***************************************************************************)
EXTENDS Messages, TLAPS

USE MessagesAssumption

Worker == [at: {"ready", "send", "record"}, queue: SUBSET Messages,
           msg: Messages \cup {None}, answer: Answers]
\* A worker that sends or records has a message.
BusyHasMessage == \A p \in Workers : worker[p].at # "ready" => worker[p].msg \in Messages
Typed == TypeOK /\ BusyHasMessage
Opening == [on: BOOLEAN, visit: Visits \cup {None}, seen: SUBSET Entries, fresh: SUBSET Entries]

-----------------------------------------------------------------------------
(* The values the model is built from. *)

\* A row in any status is a row.
LEMMA RowInTyped == \A s \in {"absent"} \cup Unsent \cup Settled : RowIn(s) \in Row
  BY DEF RowIn, Row, Unsent, Settled

\* A new row, due at once or later, is a row.
LEMMA NewRowTyped == NewRow \in Row /\ DueRow \in Row
  <1>1. NewRow \in Row
    BY RowInTyped DEF NewRow, Unsent
  <1> QED BY <1>1 DEF DueRow, Row

\* cancel_unsent leaves rows.
LEMMA CancelUnsentTyped ==
  ASSUME rows \in [Messages -> Row], NEW K
  PROVE  CancelUnsent(K) \in [Messages -> Row]
  <1>1. RowIn("cancelled") \in Row
    BY RowInTyped DEF Settled
  <1> QED BY <1>1 DEF CancelUnsent

\* A reminder, a review request and an offer are messages.
LEMMA KeysTyped ==
  /\ \A a \in Visits : Reminder(a) \in Messages /\ Review(a) \in Messages
  /\ \A e \in Entries, w \in Windows : Offer(e, w) \in Messages
  BY DEF Messages, Jobs, Reminders, Reviews, Offers

\* Everybody who is written to is a client.
LEMMA RecipientTyped == \A k \in Messages : Recipient(k) \in Clients
  <1> SUFFICES ASSUME NEW k \in Messages PROVE Recipient(k) \in Clients
    OBVIOUS
  <1>1. CASE k \in Reminders \cup Reviews
    <2>1. PICK a \in Visits : k = <<"reminder", a>> \/ k = <<"review", a>>
      BY <1>1 DEF Reminders, Reviews, Reminder, Review
    <2>2. k[1] # "offer" /\ k[2] = a
      BY <2>1
    <2> QED BY <2>2 DEF Recipient
  <1>2. CASE k \in Offers
    <2>1. PICK e \in Entries, w \in Windows : k = <<"offer", e, w>>
      BY <1>2 DEF Offers, Offer
    <2>2. k[1] = "offer" /\ k[2] = e
      BY <2>1
    <2> QED BY <2>2 DEF Recipient
  <1> QED BY <1>1, <1>2 DEF Messages, Jobs

\* What becomes of a sent row is a row.
LEMMA OutcomeTyped ==
  ASSUME NEW row \in Row, NEW answer \in Answers
  PROVE  Outcome(row, answer) \in Row
  <1>1. RowIn("sent") \in Row /\ RowIn("failed") \in Row
    BY RowInTyped DEF Settled
  <1>2. [NewRow EXCEPT !.attempts = row.attempts] \in Row
    BY NewRowTyped DEF Row
  <1>3. Retried(row) \in Row
    BY <1>1, <1>2 DEF Retried
  <1> QED BY <1>1, <1>3 DEF Outcome

\* A rebuilt row is a row.
LEMMA RebuiltTyped ==
  ASSUME NEW read \in Row, NEW now \in Row
  PROVE  Unwanted(read, now) \in Row /\ Wanted(read, now) \in Row
  <1>1. [now EXCEPT !.status = "cancelled", !.by = Merge(read.by, @, None)] \in Row
    BY DEF Merge, Row, Settled
  <1>2. Unwanted(read, now) \in Row
    BY <1>1 DEF Unwanted
  <1> DEFINE new == [status |-> Merge(read.status, now.status, "pending"),
          attempts |-> Merge(read.attempts, now.attempts, 0), due |-> FALSE,
          by |-> Merge(read.by, now.by, None), leased |-> now.leased]
  <1>3. /\ Merge(read.status, now.status, "pending") \in {"absent"} \cup Unsent \cup Settled
        /\ Merge(read.attempts, now.attempts, 0) \in 0..MaxAttempts
        /\ Merge(read.by, now.by, None) \in Workers \cup {None}
        /\ now.leased \in BOOLEAN
    BY DEF Merge, Row, Unsent
  <1>4. new \in Row
    BY <1>3 DEF Row
  <1>5. Wanted(read, now) \in Row
    BY <1>4, NewRowTyped DEF Wanted
  <1> QED BY <1>2, <1>5

\* A batch is made of rows it may claim.
LEMMA BatchTyped ==
  ASSUME NEW K, K \subseteq Messages, NEW batch \in Batches(K)
  PROVE  batch \subseteq Messages
  BY DEF Batches

\* A claim leaves rows.
LEMMA ClaimedTyped ==
  ASSUME rows \in [Messages -> Row], NEW p \in Workers, NEW batch
  PROVE  Claimed(p, batch) \in [Messages -> Row]
  <1> SUFFICES ASSUME NEW k \in Messages
               PROVE  [rows[k] EXCEPT !.status = "processing", !.by = p, !.leased = TRUE,
                         !.attempts = LeastOf(@ + 1, MaxAttempts)] \in Row
    BY DEF Claimed
  <1>1. rows[k] \in Row /\ rows[k].attempts \in 0..MaxAttempts
    BY DEF Row
  <1>2. LeastOf(rows[k].attempts + 1, MaxAttempts) \in 0..MaxAttempts
    BY <1>1 DEF LeastOf
  <1> QED BY <1>1, <1>2 DEF Row, Unsent
-----------------------------------------------------------------------------
(* The types, action by action. *)

\* The rows, apart from everything else.
LEMMA RowsTyped ==
  ASSUME TypeOK, Next
  PROVE  rows' \in [Messages -> Row]
  <1> USE DEF TypeOK
  <1>1. ASSUME NEW a \in Visits, NEW ahead \in BOOLEAN, BookVisit(a, ahead)
        PROVE  rows' \in [Messages -> Row]
    <2> DEFINE silenced == CancelUnsent(UNION {OffersOf(e) : e \in Fulfilled(a)})
    <2>1. silenced \in [Messages -> Row]
      BY CancelUnsentTyped
    <2>2. [silenced EXCEPT ![Reminder(a)] = NewRow] \in [Messages -> Row]
      BY <2>1, NewRowTyped
    <2>3. rows' = silenced \/ rows' = [silenced EXCEPT ![Reminder(a)] = NewRow]
      BY <1>1 DEF BookVisit
    <2> QED BY <2>1, <2>2, <2>3
  <1>2. ASSUME NEW a \in Visits, NEW status, CloseVisit(a, status)
        PROVE  rows' \in [Messages -> Row]
    <2> DEFINE silenced == CancelUnsent({Reminder(a), Review(a)})
    <2>1. silenced \in [Messages -> Row]
      BY CancelUnsentTyped
    <2>2. [silenced EXCEPT ![Review(a)] = NewRow] \in [Messages -> Row]
      BY <2>1, NewRowTyped
    <2>3. rows' = silenced \/ rows' = [silenced EXCEPT ![Review(a)] = NewRow]
      BY <1>2 DEF CloseVisit
    <2> QED BY <2>1, <2>2, <2>3
  <1>3. ASSUME NEW w \in Windows, CommitOpening(w)
        PROVE  rows' \in [Messages -> Row]
    <2> DEFINE a == opening[w].visit
               silenced == IF a # None THEN CancelUnsent({Reminder(a), Review(a)}) ELSE rows
    <2>1. silenced \in [Messages -> Row]
      BY CancelUnsentTyped
    <2>2. rows' = [k \in Messages |-> IF k \in NewOffers(w) THEN DueRow ELSE silenced[k]]
      BY <1>3 DEF CommitOpening
    <2> QED BY <2>1, <2>2, NewRowTyped
  <1>4. ASSUME NEW ahead \in SUBSET Visits, CommitRebuild(ahead)
        PROVE  rows' \in [Messages -> Row]
    <2>1. ASSUME NEW k \in Jobs
          PROVE  /\ Unwanted(rebuild.rows[k], rows[k]) \in Row
                 /\ Wanted(rebuild.rows[k], rows[k]) \in Row
      <3>1. rebuild.rows[k] \in Row /\ rows[k] \in Row
        BY <2>1 DEF Messages
      <3> QED BY <3>1, RebuiltTyped
    <2>2. rows' = [k \in Messages |->
            IF k \notin Jobs \/ k[2] \notin rebuild.seen THEN rows[k]
            ELSE IF k[1] = "reminder" /\ k[2] \in ahead THEN Wanted(rebuild.rows[k], rows[k])
            ELSE Unwanted(rebuild.rows[k], rows[k])]
      BY <1>4 DEF CommitRebuild
    <2> QED BY <2>1, <2>2
  <1>5. ASSUME NEW e \in Entries, LeaveList(e)
        PROVE  rows' \in [Messages -> Row]
    BY <1>5, CancelUnsentTyped DEF LeaveList
  <1>6. ASSUME NEW kind \in Kinds, SwitchOff(kind)
        PROVE  rows' \in [Messages -> Row]
    BY <1>6, CancelUnsentTyped DEF SwitchOff
  <1>7. ASSUME NEW p \in Workers, ClaimBatch(p)
        PROVE  rows' \in [Messages -> Row]
    BY <1>7, ClaimedTyped DEF ClaimBatch
  <1>8. ASSUME NEW p \in Workers, NEW k \in Messages, Prepare(p, k)
        PROVE  rows' \in [Messages -> Row]
    <2>1. RowIn("failed") \in Row /\ RowIn("cancelled") \in Row
      BY RowInTyped DEF Settled
    <2>2. \/ rows' = rows
          \/ rows' = [rows EXCEPT ![k] = RowIn("failed")]
          \/ rows' = [rows EXCEPT ![k] = RowIn("cancelled")]
      BY <1>8 DEF Prepare
    <2> QED BY <2>1, <2>2
  <1>9. ASSUME NEW p \in Workers, Record(p)
        PROVE  rows' \in [Messages -> Row]
    <2> DEFINE k == worker[p].msg
    <2>1. rows' = rows \/ rows' = [rows EXCEPT ![k] = Outcome(@, worker[p].answer)]
      BY <1>9 DEF Record
    <2>2. ASSUME NEW m \in Messages PROVE Outcome(rows[m], worker[p].answer) \in Row
      <3>1. rows[m] \in Row
        OBVIOUS
      <3>2. worker[p].answer \in Answers
        OBVIOUS
      <3> QED BY <3>1, <3>2, OutcomeTyped
    <2> QED BY <2>1, <2>2
  <1>10. ASSUME NEW k \in Messages, BecomesDue(k) \/ LeaseEnds(k)
         PROVE  rows' \in [Messages -> Row]
    <2> DEFINE r1 == [rows[k] EXCEPT !.due = TRUE]
               r2 == [rows[k] EXCEPT !.leased = FALSE]
    <2>1. rows' = [rows EXCEPT ![k] = r1] \/ rows' = [rows EXCEPT ![k] = r2]
      BY <1>10 DEF BecomesDue, LeaseEnds
    <2>2. rows[k] \in Row
      OBVIOUS
    <2>3. r1 \in Row /\ r2 \in Row
      BY <2>2 DEF Row
    <2> HIDE DEF r1, r2
    <2> QED BY <2>1, <2>3
  <1>11. ASSUME UNCHANGED rows PROVE rows' \in [Messages -> Row]
    BY <1>11
  <1>12. ASSUME NEW p \in Workers, Send(p) \/ Crash(p) PROVE UNCHANGED rows
    BY <1>12 DEF Send, Crash
  <1>13. ASSUME NEW a \in Visits, CancelVisit(a) PROVE UNCHANGED rows
    BY <1>13 DEF CancelVisit, StartOpening
  <1>14. ASSUME NEW w \in Windows, OpenWindow(w) \/ WindowStarts(w) PROVE UNCHANGED rows
    BY <1>14 DEF OpenWindow, StartOpening, WindowStarts
  <1>15. ASSUME NEW e \in Entries, JoinList(e) \/ EntryAges(e) PROVE UNCHANGED rows
    BY <1>15 DEF JoinList, EntryAges
  <1>16. ASSUME StartRebuild PROVE UNCHANGED rows
    BY <1>16 DEF StartRebuild
  <1> QED
    BY <1>1, <1>2, <1>3, <1>4, <1>5, <1>6, <1>7, <1>8, <1>9, <1>10, <1>11, <1>12, <1>13,
       <1>14, <1>15, <1>16
    DEF Next, Bookings, Commits, Requests, Works, Time

\* The calendar: visits, windows and what has started.
LEMMA CalendarTyped ==
  ASSUME TypeOK, Next
  PROVE  /\ visits' \in [Visits -> VisitStatus] /\ windows' \in [Windows -> WindowStatus]
         /\ past' \subseteq Windows
  <1> USE DEF TypeOK, VisitStatus, WindowStatus
  <1>1. ASSUME NEW a \in Visits, NEW ahead, BookVisit(a, ahead)
        PROVE  visits' \in [Visits -> VisitStatus] /\ windows' \in [Windows -> WindowStatus]
               /\ past' = past
    BY <1>1 DEF BookVisit
  <1>2. ASSUME NEW a \in Visits, NEW status \in {"completed", "ended"}, CloseVisit(a, status)
        PROVE  visits' \in [Visits -> VisitStatus] /\ windows' \in [Windows -> WindowStatus]
               /\ past' = past
    BY <1>2 DEF CloseVisit
  <1>3. ASSUME NEW w \in Windows, CommitOpening(w)
        PROVE  visits' \in [Visits -> VisitStatus] /\ windows' \in [Windows -> WindowStatus]
               /\ past' = past
    BY <1>3 DEF CommitOpening
  <1>4. ASSUME NEW w \in Windows, WindowStarts(w)
        PROVE  UNCHANGED <<visits, windows>> /\ past' = past \cup {w}
    BY <1>4 DEF WindowStarts
  <1>5. ASSUME NEW p \in Workers, Works(p) \/ Crash(p) PROVE UNCHANGED calendar
    BY <1>5 DEF Works, ClaimBatch, Prepare, Send, Record, Crash
  <1>6. ASSUME NEW a \in Visits, CancelVisit(a) PROVE UNCHANGED calendar
    BY <1>6 DEF CancelVisit, StartOpening
  <1>7. ASSUME Requests PROVE UNCHANGED calendar
    BY <1>7 DEF Requests, OpenWindow, StartOpening, JoinList, LeaveList, SwitchOff, StartRebuild
  <1>8. ASSUME NEW ahead, CommitRebuild(ahead) PROVE UNCHANGED calendar
    BY <1>8 DEF CommitRebuild
  <1>9. ASSUME NEW k, BecomesDue(k) \/ LeaseEnds(k) PROVE UNCHANGED calendar
    BY <1>9 DEF BecomesDue, LeaseEnds
  <1>10. ASSUME NEW e, EntryAges(e) PROVE UNCHANGED calendar
    BY <1>10 DEF EntryAges
  <1> QED
    BY <1>1, <1>2, <1>3, <1>4, <1>5, <1>6, <1>7, <1>8, <1>9, <1>10
    DEF Next, Bookings, Commits, Time, calendar

\* The waiting list, the blocked clients and the features.
LEMMA ListTyped ==
  ASSUME TypeOK, BusyHasMessage, Next
  PROVE  /\ entries' \in [Entries -> Entry]
         /\ blocked' \subseteq Clients /\ features' \subseteq Kinds
  <1> USE DEF TypeOK
  <1>1. ASSUME NEW a \in Visits, NEW ahead, BookVisit(a, ahead)
        PROVE  entries' \in [Entries -> Entry] /\ UNCHANGED <<blocked, features>>
    <2>1. \A e \in Entries : [entries[e] EXCEPT !.status = "booked"] \in Entry
      BY SMTT(30) DEF Entry
    <2> QED BY <1>1, <2>1 DEF BookVisit
  <1>2. ASSUME NEW w \in Windows, CommitOpening(w)
        PROVE  entries' \in [Entries -> Entry] /\ UNCHANGED <<blocked, features>>
    <2>1. ASSUME NEW e \in Entries
          PROVE  [entries[e] EXCEPT !.cooling = TRUE,
                    !.status = IF e \in opening[w].fresh THEN "matched" ELSE @] \in Entry
      <3>1. entries[e] \in Entry
        OBVIOUS
      <3> QED BY <3>1 DEF Entry, LiveEntry
    <2> QED BY <1>2, <2>1 DEF CommitOpening
  <1>3. ASSUME NEW e \in Entries, JoinList(e) \/ LeaveList(e) \/ EntryAges(e)
        PROVE  entries' \in [Entries -> Entry] /\ UNCHANGED <<blocked, features>>
    <2> DEFINE r1 == [entries[e] EXCEPT !.status = "active"]
               r2 == [entries[e] EXCEPT !.status = "cancelled"]
               r3 == [entries[e] EXCEPT !.cooling = FALSE]
               r4 == [entries[e] EXCEPT !.expired = TRUE]
    <2>2. \/ entries' = [entries EXCEPT ![e] = r1]
          \/ entries' = [entries EXCEPT ![e] = r2]
          \/ entries' = [entries EXCEPT ![e] = r3]
          \/ entries' = [entries EXCEPT ![e] = r4]
      BY <1>3 DEF JoinList, LeaveList, EntryAges
    <2>3. entries[e] \in Entry
      OBVIOUS
    <2>4. r1 \in Entry /\ r2 \in Entry /\ r3 \in Entry /\ r4 \in Entry
      BY <2>3 DEF Entry, LiveEntry
    <2>5. UNCHANGED <<blocked, features>>
      BY <1>3 DEF JoinList, LeaveList, EntryAges
    <2>6. \A x \in Entry : [entries EXCEPT ![e] = x] \in [Entries -> Entry]
      OBVIOUS
    <2> HIDE DEF r1, r2, r3, r4, TypeOK
    <2> QED BY <2>2, <2>4, <2>5, <2>6
  <1>4. ASSUME NEW kind, SwitchOff(kind)
        PROVE  UNCHANGED <<entries, blocked>> /\ features' \subseteq features
    BY <1>4 DEF SwitchOff
  <1>5. ASSUME NEW p \in Workers, Record(p)
        PROVE  UNCHANGED <<entries, features>> /\ blocked' \subseteq Clients
    <2>1. worker[p].msg \in Messages => Recipient(worker[p].msg) \in Clients
      BY RecipientTyped
    <2>2. worker[p].msg \in Messages
      BY <1>5 DEF Record, At, BusyHasMessage
    <2> QED BY <1>5, <2>1, <2>2 DEF Record
  <1>6. ASSUME NEW p \in Workers,
               ClaimBatch(p) \/ Send(p) \/ Crash(p) \/ \E k \in Messages : Prepare(p, k)
        PROVE  UNCHANGED <<entries, blocked, features>>
    BY <1>6 DEF ClaimBatch, Send, Crash, Prepare
  <1>7. ASSUME NEW a \in Visits, CancelVisit(a) \/ \E s \in {"completed", "ended"} : CloseVisit(a, s)
        PROVE  UNCHANGED <<entries, blocked, features>>
    BY <1>7 DEF CancelVisit, StartOpening, CloseVisit
  <1>8. ASSUME NEW w \in Windows, OpenWindow(w) \/ WindowStarts(w)
        PROVE  UNCHANGED <<entries, blocked, features>>
    BY <1>8 DEF OpenWindow, StartOpening, WindowStarts
  <1>9. ASSUME NEW ahead, StartRebuild \/ CommitRebuild(ahead)
        PROVE  UNCHANGED <<entries, blocked, features>>
    BY <1>9 DEF StartRebuild, CommitRebuild
  <1>10. ASSUME NEW k, BecomesDue(k) \/ LeaseEnds(k)
         PROVE  UNCHANGED <<entries, blocked, features>>
    BY <1>10 DEF BecomesDue, LeaseEnds
  <1> QED
    BY <1>1, <1>2, <1>3, <1>4, <1>5, <1>6, <1>7, <1>8, <1>9, <1>10
    DEF Next, Bookings, Commits, Requests, Works, Time

\* Workers, openings, the rebuild, and the counters.
LEMMA RestTyped ==
  ASSUME Typed, Next
  PROVE  /\ worker' \in [Workers -> Worker] /\ BusyHasMessage'
         /\ opening' \in [Windows -> Opening]
         /\ rebuild' \in [on: BOOLEAN, seen: SUBSET Visits, rows: [Jobs -> Row]]
         /\ copies' \in [Messages -> Nat] /\ faults' \in 0..MaxFaults
  <1> USE DEF Typed, TypeOK, Worker, Opening
  <1> DEFINE WorkersKept == UNCHANGED worker
             WorkersTyped == worker' \in [Workers -> Worker] /\ BusyHasMessage'
  <1>0. ASSUME UNCHANGED worker PROVE WorkersTyped
    BY <1>0 DEF BusyHasMessage
  <1>1. ASSUME NEW p \in Workers, ClaimBatch(p)
        PROVE  WorkersTyped /\ UNCHANGED <<opening, rebuild, copies, faults>>
    <2>1. PICK jobs \in Batches(Jobs), offers \in Batches(Offers) :
            worker' = [worker EXCEPT ![p] = [worker[p] EXCEPT !.queue = jobs \cup offers]]
      BY <1>1 DEF ClaimBatch, Goes
    <2>2. jobs \cup offers \subseteq Messages
      BY BatchTyped DEF Messages
    <2>3. [worker[p] EXCEPT !.queue = jobs \cup offers] \in Worker
      <3>1. worker[p] \in Worker
        OBVIOUS
      <3> QED BY <2>2, <3>1
    <2>4. worker[p].at = "ready"
      BY <1>1 DEF ClaimBatch, At
    <2>5. UNCHANGED <<opening, rebuild, copies, faults>>
      BY <1>1 DEF ClaimBatch
    <2> QED BY <2>1, <2>3, <2>4, <2>5 DEF BusyHasMessage
  <1>2. ASSUME NEW p \in Workers, NEW k \in Messages, Prepare(p, k)
        PROVE  WorkersTyped /\ UNCHANGED <<opening, rebuild, copies, faults>>
    <2> DEFINE r1 == [worker[p] EXCEPT !.at = "send", !.msg = k, !.queue = @ \ {k}]
               r2 == [worker[p] EXCEPT !.queue = @ \ {k}]
    <2>1. worker' = [worker EXCEPT ![p] = r1] \/ worker' = [worker EXCEPT ![p] = r2]
      BY <1>2 DEF Prepare, Goes
    <2>2. worker[p] \in Worker
      OBVIOUS
    <2>3. r1 \in Worker /\ r1.msg = k /\ r2 \in Worker /\ r2.at = worker[p].at
      BY <2>2
    <2>4. worker[p].at = "ready"
      BY <1>2 DEF Prepare, At
    <2>5. UNCHANGED <<opening, rebuild, copies, faults>>
      BY <1>2 DEF Prepare
    <2> HIDE DEF r1, r2
    <2>6. CASE worker' = [worker EXCEPT ![p] = r1]
      BY <2>3, <2>5, <2>6 DEF BusyHasMessage
    <2>7. CASE worker' = [worker EXCEPT ![p] = r2]
      BY <2>3, <2>4, <2>5, <2>7 DEF BusyHasMessage
    <2> QED BY <2>1, <2>6, <2>7
  <1>3. ASSUME NEW p \in Workers, Send(p)
        PROVE  WorkersTyped /\ copies' \in [Messages -> Nat] /\ faults' \in 0..MaxFaults
               /\ UNCHANGED <<opening, rebuild>>
    <2>1. PICK answer \in Answers \ {"none"}, arrived \in BOOLEAN :
            /\ worker' = [worker EXCEPT ![p] = [worker[p] EXCEPT !.at = "record", !.answer = answer]]
            /\ answer # "ok" /\ arrived => faults < MaxFaults
            /\ copies' = IF arrived THEN [copies EXCEPT ![worker[p].msg] = @ + 1] ELSE copies
            /\ faults' = IF arrived /\ answer # "ok" THEN faults + 1 ELSE faults
      BY <1>3 DEF Send, Goes
    <2>2. worker[p] \in Worker
      OBVIOUS
    <2>3. [worker[p] EXCEPT !.at = "record", !.answer = answer] \in Worker
      BY <2>2
    <2>4. worker[p].msg \in Messages
      BY <1>3 DEF Send, At, BusyHasMessage
    <2>5. copies' = copies \/ copies' = [copies EXCEPT ![worker[p].msg] = @ + 1]
      BY <2>1
    <2>6. faults' = faults \/ (faults < MaxFaults /\ faults' = faults + 1)
      BY <2>1
    <2>7. UNCHANGED <<opening, rebuild>>
      BY <1>3 DEF Send
    <2>8. WorkersTyped
      BY <2>1, <2>3, <2>4 DEF BusyHasMessage
    <2>9. copies' \in [Messages -> Nat]
      BY <2>4, <2>5
    <2>10. faults' \in 0..MaxFaults
      BY <2>6
    <2> QED BY <2>7, <2>8, <2>9, <2>10
  <1>4. ASSUME NEW p \in Workers, Record(p)
        PROVE  WorkersTyped /\ UNCHANGED <<opening, rebuild, copies, faults>>
    <2> DEFINE r == [worker[p] EXCEPT !.at = "ready", !.msg = None, !.answer = "none"]
    <2>1. worker' = [worker EXCEPT ![p] = r]
      BY <1>4 DEF Record, Goes
    <2>2. worker[p] \in Worker
      OBVIOUS
    <2>3. r \in Worker /\ r.at = "ready"
      BY <2>2 DEF Answers
    <2>4. UNCHANGED <<opening, rebuild, copies, faults>>
      BY <1>4 DEF Record
    <2> HIDE DEF r
    <2> QED BY <2>1, <2>3, <2>4 DEF BusyHasMessage
  <1>5. ASSUME NEW p \in Workers, Crash(p)
        PROVE  WorkersTyped /\ faults' \in 0..MaxFaults /\ UNCHANGED <<opening, rebuild, copies>>
    <2>1. worker' = [worker EXCEPT ![p] = Idle] /\ faults < MaxFaults /\ faults' = faults + 1
      BY <1>5 DEF Crash, Goes
    <2>2. Idle \in Worker /\ Idle.at = "ready"
      BY DEF Idle, Answers
    <2>3. UNCHANGED <<opening, rebuild, copies>>
      BY <1>5 DEF Crash
    <2>4. faults' \in 0..MaxFaults
      BY <2>1
    <2> QED BY <2>1, <2>2, <2>3, <2>4 DEF BusyHasMessage
  <1>6. ASSUME NEW w \in Windows, NEW a \in Visits \cup {None}, StartOpening(w, a)
        PROVE  opening' \in [Windows -> Opening] /\ UNCHANGED <<worker, rebuild, copies, faults>>
    <2>1. MatchingEntries(w) \subseteq Entries
      BY DEF MatchingEntries
    <2> QED BY <1>6, <2>1 DEF StartOpening, sending
  <1>7. ASSUME NEW w \in Windows, CommitOpening(w)
        PROVE  opening' \in [Windows -> Opening] /\ UNCHANGED <<worker, rebuild, copies, faults>>
    BY <1>7 DEF CommitOpening, NoOpening, sending
  <1>8. ASSUME StartRebuild
        PROVE  /\ rebuild' \in [on: BOOLEAN, seen: SUBSET Visits, rows: [Jobs -> Row]]
               /\ faults' \in 0..MaxFaults /\ UNCHANGED <<worker, opening, copies>>
    <2>1. [k \in Jobs |-> rows[k]] \in [Jobs -> Row]
      BY DEF Messages
    <2>2. faults' \in 0..MaxFaults /\ UNCHANGED <<worker, opening, copies>>
      BY <1>8 DEF StartRebuild, sending
    <2>3. rebuild' = [on |-> TRUE, rows |-> [k \in Jobs |-> rows[k]],
             seen |-> {a \in Visits : visits[a] = "active" /\ VisitWindow[a] \notin past}]
      BY <1>8 DEF StartRebuild
    <2> QED BY <2>1, <2>2, <2>3
  <1>9. ASSUME NEW ahead, CommitRebuild(ahead)
        PROVE  /\ rebuild' \in [on: BOOLEAN, seen: SUBSET Visits, rows: [Jobs -> Row]]
               /\ UNCHANGED <<worker, opening, copies, faults>>
    BY <1>9, RowInTyped DEF CommitRebuild, NoRebuild, sending
  <1>10. ASSUME NEW k \in Messages, LeaseEnds(k)
         PROVE  faults' \in 0..MaxFaults /\ UNCHANGED <<worker, opening, rebuild, copies>>
    BY <1>10 DEF LeaseEnds, sending
  <1>11. ASSUME NEW a \in Visits, NEW x, BookVisit(a, x) \/ CloseVisit(a, x)
         PROVE  UNCHANGED <<worker, opening, rebuild, copies, faults>>
    BY <1>11 DEF BookVisit, CloseVisit, sending
  <1>12. ASSUME NEW e, JoinList(e) \/ LeaveList(e) \/ SwitchOff(e) \/ EntryAges(e)
                        \/ BecomesDue(e) \/ WindowStarts(e)
         PROVE  UNCHANGED <<worker, opening, rebuild, copies, faults>>
    BY <1>12 DEF JoinList, LeaveList, SwitchOff, EntryAges, BecomesDue, WindowStarts, sending
  <1>13. ASSUME NEW a \in Visits, CancelVisit(a) PROVE StartOpening(VisitWindow[a], a)
    BY <1>13 DEF CancelVisit
  <1>14. ASSUME NEW w \in Windows, OpenWindow(w) PROVE StartOpening(w, None)
    BY <1>14 DEF OpenWindow
  <1>20. \A a \in Visits : VisitWindow[a] \in Windows
    OBVIOUS
  <1> DEFINE Goal == /\ WorkersTyped
                     /\ opening' \in [Windows -> Opening]
                     /\ rebuild' \in [on: BOOLEAN, seen: SUBSET Visits, rows: [Jobs -> Row]]
                     /\ copies' \in [Messages -> Nat] /\ faults' \in 0..MaxFaults
  <1>21. CASE Bookings
    <2>1. CASE \E a \in Visits : CancelVisit(a)
      BY <2>1, <1>0, <1>6, <1>13, <1>20
    <2>2. CASE \E a \in Visits, x \in BOOLEAN \cup {"completed", "ended"} :
                   BookVisit(a, x) \/ CloseVisit(a, x)
      BY <2>2, <1>0, <1>11
    <2> QED BY <1>21, <2>1, <2>2 DEF Bookings
  <1>22. CASE Commits
    BY <1>22, <1>0, <1>7, <1>9 DEF Commits
  <1>23. CASE Requests
    BY <1>23, <1>0, <1>6, <1>8, <1>12, <1>14 DEF Requests
  <1>24. CASE Time
    BY <1>24, <1>0, <1>10, <1>12 DEF Time
  <1>25. CASE \E p \in Workers : Works(p) \/ Crash(p)
    BY <1>25, <1>1, <1>2, <1>3, <1>4, <1>5 DEF Works
  <1> QED BY <1>21, <1>22, <1>23, <1>24, <1>25 DEF Next

\* Every step keeps the types.
LEMMA TypedStep == Typed /\ [Next]_vars => Typed'
  <1> SUFFICES ASSUME Typed, [Next]_vars PROVE Typed'
    OBVIOUS
  <1>1. CASE Next
    <2>1. TypeOK /\ BusyHasMessage
      BY DEF Typed
    <2>2. rows' \in [Messages -> Row]
      BY <1>1, <2>1, RowsTyped
    <2> QED
      BY <1>1, <2>1, <2>2, CalendarTyped, ListTyped, RestTyped DEF Typed, TypeOK, Worker, Opening
  <1>2. CASE UNCHANGED vars
    BY <1>2 DEF vars, Typed, TypeOK, BusyHasMessage
  <1> QED BY <1>1, <1>2

LEMMA TypedInit == Init => Typed
  <1> SUFFICES ASSUME Init PROVE Typed
    OBVIOUS
  <1>1. RowIn("absent") \in Row
    BY RowInTyped
  <1>2. Idle \in Worker /\ Idle.at = "ready" /\ NoOpening \in Opening
    BY DEF Idle, Worker, Answers, NoOpening, Opening
  <1>3. NoRebuild \in [on: BOOLEAN, seen: SUBSET Visits, rows: [Jobs -> Row]]
    BY <1>1 DEF NoRebuild
  <1>4. [status |-> "absent", cooling |-> FALSE, expired |-> FALSE] \in Entry
    BY DEF Entry
  <1>5. 0 \in 0..MaxFaults
    OBVIOUS
  <1> HIDE DEF NoRebuild, NoOpening, Idle
  <1> QED
    BY <1>1, <1>2, <1>3, <1>4, <1>5
    DEF Init, Typed, TypeOK, BusyHasMessage, VisitStatus, WindowStatus, Worker, Opening

LEMMA TypedHolds == Spec => []Typed
  BY TypedInit, TypedStep, PTL DEF Spec

\* The types hold in every state (notification_jobs, waitlist_notifications and
\* the worker's loop).
THEOREM TypeCorrect == Spec => []TypeOK
  <1>1. Typed => TypeOK
    BY DEF Typed
  <1> QED BY <1>1, TypedHolds, PTL
-----------------------------------------------------------------------------
(* What one step does to one row. *)

OkRecorded(k) ==
  \E p \in Workers : At(p, "record") /\ worker[p].msg = k /\ worker[p].answer = "ok"
RowStep(k) ==
  /\ rows[k].status # "absent" => rows'[k].status # "absent"
  /\ rows'[k].status = "sent" => rows[k].status = "sent" \/ OkRecorded(k)
  /\ \A p \in Workers : Owns(p, k)' => Owns(p, k) \/ ClaimBatch(p)

\* cancel_unsent stores no new row, marks none as sent and takes none over.
LEMMA CancelStep ==
  ASSUME NEW K, NEW k \in Messages, NEW row,
         row = CancelUnsent(K)[k] \/ row = NewRow \/ row = DueRow \/ row = rows[k]
  PROVE  /\ rows[k].status # "absent" => row.status # "absent"
         /\ row.status = "sent" => rows[k].status = "sent"
         /\ row.status = "processing" => row = rows[k]
         /\ k \in K => CancelUnsent(K)[k].status # "processing"
  BY DEF CancelUnsent, RowIn, NewRow, DueRow, Unsent

\* No action does anything else to a row.
LEMMA RowSteps ==
  ASSUME Typed, Next, NEW k \in Messages
  PROVE  RowStep(k)
  <1> USE DEF Owns
  <1>1. ASSUME NEW K, \/ rows'[k] = CancelUnsent(K)[k] \/ rows'[k] = NewRow
                     \/ rows'[k] = DueRow \/ rows'[k] = rows[k]
        PROVE  RowStep(k)
    BY <1>1, CancelStep DEF RowStep
  <1>2. ASSUME UNCHANGED rows PROVE RowStep(k)
    BY <1>2 DEF RowStep
  <1>3. CASE \E a \in Visits, ahead \in BOOLEAN : BookVisit(a, ahead)
    <2>1. PICK a \in Visits, ahead \in BOOLEAN : BookVisit(a, ahead)
      BY <1>3
    <2> DEFINE K == UNION {OffersOf(e) : e \in Fulfilled(a)}
    <2>2. CancelUnsent(K) \in [Messages -> Row] /\ Reminder(a) \in Messages
      BY CancelUnsentTyped, KeysTyped DEF Typed, TypeOK
    <2>3. rows' = CancelUnsent(K) \/ rows' = [CancelUnsent(K) EXCEPT ![Reminder(a)] = NewRow]
      BY <2>1 DEF BookVisit
    <2>4. rows'[k] = CancelUnsent(K)[k] \/ rows'[k] = NewRow
      BY <2>2, <2>3
    <2> QED BY <2>4, <1>1
  <1>4. CASE \E a \in Visits, status \in {"completed", "ended"} : CloseVisit(a, status)
    <2>1. PICK a \in Visits, status \in {"completed", "ended"} : CloseVisit(a, status)
      BY <1>4
    <2> DEFINE K == {Reminder(a), Review(a)}
    <2>2. CancelUnsent(K) \in [Messages -> Row] /\ Review(a) \in Messages
      BY CancelUnsentTyped, KeysTyped DEF Typed, TypeOK
    <2>3. rows' = CancelUnsent(K) \/ rows' = [CancelUnsent(K) EXCEPT ![Review(a)] = NewRow]
      BY <2>1 DEF CloseVisit
    <2>4. rows'[k] = CancelUnsent(K)[k] \/ rows'[k] = NewRow
      BY <2>2, <2>3
    <2> QED BY <2>4, <1>1
  <1>5. CASE \E w \in Windows : CommitOpening(w)
    <2>1. PICK w \in Windows : CommitOpening(w)
      BY <1>5
    <2> DEFINE K == {Reminder(opening[w].visit), Review(opening[w].visit)}
    <2>2. \/ rows'[k] = CancelUnsent(K)[k] \/ rows'[k] = DueRow \/ rows'[k] = rows[k]
      BY <2>1 DEF CommitOpening
    <2> QED BY <2>2, <1>1
  <1>6. CASE \E ahead \in SUBSET Visits : CommitRebuild(ahead)
    <2>1. PICK ahead \in SUBSET Visits : CommitRebuild(ahead)
      BY <1>6
    <2>2. \/ rows'[k] = rows[k]
          \/ \E read \in Row : rows'[k] = Wanted(read, rows[k])
          \/ \E read \in Row : rows'[k] = Unwanted(read, rows[k])
      BY <2>1 DEF CommitRebuild, Typed, TypeOK
    <2>3. rows[k] \in Row
      BY DEF Typed, TypeOK
    <2>4. ASSUME NEW read \in Row, rows'[k] = Wanted(read, rows[k])
          PROVE  RowStep(k)
      <3>1. CASE rows'[k] = NewRow \/ rows'[k] = rows[k]
        BY <3>1, <1>1
      <3>2. CASE rows'[k] = [status |-> Merge(read.status, rows[k].status, "pending"),
                  attempts |-> Merge(read.attempts, rows[k].attempts, 0), due |-> FALSE,
                  by |-> Merge(read.by, rows[k].by, None), leased |-> rows[k].leased]
        <4>1. /\ rows'[k].status = "pending" \/ rows'[k].status = rows[k].status
              /\ rows'[k].by = None \/ rows'[k].by = rows[k].by
          BY <3>2 DEF Merge
        <4> QED BY <4>1 DEF RowStep
      <3> QED BY <2>4, <3>1, <3>2 DEF Wanted
    <2>5. ASSUME NEW read \in Row, rows'[k] = Unwanted(read, rows[k])
          PROVE  RowStep(k)
      <3>1. \/ rows'[k] = rows[k]
            \/ rows'[k] = [rows[k] EXCEPT !.status = "cancelled", !.by = Merge(read.by, @, None)]
        BY <2>5 DEF Unwanted
      <3>2. rows'[k] = rows[k] \/ rows'[k].status = "cancelled"
        BY <2>3, <3>1 DEF Row
      <3> QED BY <3>2 DEF RowStep
    <2> QED BY <2>2, <2>4, <2>5, <1>1
  <1>7. CASE Requests
    <2>1. CASE \E e \in Entries : LeaveList(e)
      BY <2>1, <1>1 DEF LeaveList
    <2>2. CASE \E kind \in Kinds : SwitchOff(kind)
      BY <2>2, <1>1, <1>2 DEF SwitchOff
    <2>3. CASE ~(\E e \in Entries : LeaveList(e)) /\ ~(\E kind \in Kinds : SwitchOff(kind))
      BY <1>7, <2>3, <1>2 DEF Requests, OpenWindow, StartOpening, JoinList, StartRebuild
    <2> QED BY <2>1, <2>2, <2>3
  <1>8. CASE Time
    <2>1. CASE \E m \in Messages : BecomesDue(m) \/ LeaseEnds(m)
      <3>1. PICK m \in Messages : BecomesDue(m) \/ LeaseEnds(m)
        BY <2>1
      <3>2. \/ rows' = [rows EXCEPT ![m] = [rows[m] EXCEPT !.due = TRUE]]
            \/ rows' = [rows EXCEPT ![m] = [rows[m] EXCEPT !.leased = FALSE]]
        BY <3>1 DEF BecomesDue, LeaseEnds
      <3>3. rows[k] \in Row /\ rows[m] \in Row /\ rows \in [Messages -> Row]
        BY DEF Typed, TypeOK
      <3>4. rows'[k].status = rows[k].status /\ rows'[k].by = rows[k].by
        BY <3>2, <3>3 DEF Row
      <3> QED BY <3>4 DEF RowStep
    <2>2. CASE \E w \in Windows : WindowStarts(w)
      BY <2>2, <1>2 DEF WindowStarts
    <2>3. CASE \E e \in Entries : EntryAges(e)
      BY <2>3, <1>2 DEF EntryAges
    <2> QED BY <1>8, <2>1, <2>2, <2>3 DEF Time
  <1>9. CASE \E p \in Workers : ClaimBatch(p)
    <2>1. PICK p \in Workers : ClaimBatch(p)
      BY <1>9
    <2>2. PICK batch : rows' = Claimed(p, batch)
      BY <2>1 DEF ClaimBatch
    <2>3. rows[k] \in Row
      BY DEF Typed, TypeOK
    <2>4. rows'[k] = rows[k] \/ (rows'[k].status = "processing" /\ rows'[k].by = p)
      BY <2>2, <2>3 DEF Claimed, Row
    <2> QED BY <2>1, <2>4 DEF RowStep
  <1>10. CASE \E p \in Workers, m \in Messages : Prepare(p, m)
    <2>1. PICK p \in Workers, m \in Messages : Prepare(p, m)
      BY <1>10
    <2>2. \/ rows' = rows
          \/ rows' = [rows EXCEPT ![m] = RowIn("failed")]
          \/ rows' = [rows EXCEPT ![m] = RowIn("cancelled")]
      BY <2>1 DEF Prepare
    <2>3. rows \in [Messages -> Row]
      BY DEF Typed, TypeOK
    <2>4. rows'[k] = rows[k] \/ rows'[k] = RowIn("failed") \/ rows'[k] = RowIn("cancelled")
      BY <2>2, <2>3
    <2> QED BY <2>4 DEF RowStep, RowIn
  <1>11. CASE \E p \in Workers : Record(p)
    <2>1. PICK p \in Workers : Record(p)
      BY <1>11
    <2> DEFINE m == worker[p].msg
    <2>2. rows' = rows \/ rows' = [rows EXCEPT ![m] = Outcome(rows[m], worker[p].answer)]
      BY <2>1 DEF Record
    <2>3. rows \in [Messages -> Row]
      BY DEF Typed, TypeOK
    <2>4. \/ rows'[k] = rows[k]
          \/ k = m /\ rows'[k] = Outcome(rows[m], worker[p].answer)
      BY <2>2, <2>3
    <2>5. CASE k = m /\ rows'[k] = Outcome(rows[m], worker[p].answer)
      <3>1. /\ rows'[k].status \in {"sent", "failed", "pending"}
            /\ rows'[k].status = "sent" => worker[p].answer = "ok"
        BY <2>5 DEF Outcome, Retried, RowIn, NewRow
      <3>2. At(p, "record")
        BY <2>1 DEF Record
      <3> QED BY <3>1, <3>2, <2>5 DEF RowStep, OkRecorded
    <2> QED BY <2>4, <2>5, <1>1
  <1>12. CASE \E p \in Workers : Send(p) \/ Crash(p)
    BY <1>12, <1>2 DEF Send, Crash
  <1>13. CASE \E a \in Visits : CancelVisit(a)
    BY <1>13, <1>2 DEF CancelVisit, StartOpening
  <1> QED
    BY <1>3, <1>4, <1>5, <1>6, <1>7, <1>8, <1>9, <1>10, <1>11, <1>12, <1>13
    DEF Next, Bookings, Commits, Works
-----------------------------------------------------------------------------
(* Sent means delivered. *)

\* What a worker is about to record as sent has been delivered.
OkMeansDelivered ==
  \A p \in Workers :
    At(p, "record") /\ worker[p].answer = "ok" => copies[worker[p].msg] > 0
SentInv == SentMeansDelivered /\ OkMeansDelivered

\* No copy is taken back.
LEMMA CopiesGrow ==
  ASSUME Typed, Next, NEW k \in Messages, copies[k] > 0
  PROVE  copies'[k] > 0
  <1>1. copies \in [Messages -> Nat] /\ copies' \in [Messages -> Nat]
    BY RestTyped DEF Typed, TypeOK
  <1>2. CASE \E p \in Workers : Send(p)
    <2>1. PICK p \in Workers : Send(p)
      BY <1>2
    <2>2. copies' = copies \/ copies' = [copies EXCEPT ![worker[p].msg] = @ + 1]
      BY <2>1 DEF Send
    <2> QED BY <1>1, <2>2
  <1>3. CASE ~ \E p \in Workers : Send(p)
    <2>1. UNCHANGED copies
      <3>1. CASE Bookings
        BY <3>1 DEF Bookings, BookVisit, CloseVisit, CancelVisit, StartOpening, sending
      <3>2. CASE Commits
        BY <3>2 DEF Commits, CommitOpening, CommitRebuild, sending
      <3>3. CASE Requests
        BY <3>3 DEF Requests, OpenWindow, StartOpening, JoinList, LeaveList, SwitchOff,
                    StartRebuild, sending
      <3>4. CASE Time
        BY <3>4 DEF Time, BecomesDue, LeaseEnds, WindowStarts, EntryAges, sending
      <3>5. CASE \E p \in Workers : Works(p) \/ Crash(p)
        BY <3>5, <1>3 DEF Works, ClaimBatch, Prepare, Record, Crash
      <3> QED BY <3>1, <3>2, <3>3, <3>4, <3>5 DEF Next
    <2> QED BY <2>1
  <1> QED BY <1>2, <1>3

\* Who works changes only in the worker's own steps.
LEMMA WorkerSteps ==
  ASSUME Next, ~ \E p \in Workers : Works(p) \/ Crash(p)
  PROVE  UNCHANGED worker
  <1>1. CASE Bookings
    BY <1>1 DEF Bookings, BookVisit, CloseVisit, CancelVisit, StartOpening, sending
  <1>2. CASE Commits
    BY <1>2 DEF Commits, CommitOpening, CommitRebuild, sending
  <1>3. CASE Requests
    BY <1>3 DEF Requests, OpenWindow, StartOpening, JoinList, LeaveList, SwitchOff,
                StartRebuild, sending
  <1>4. CASE Time
    BY <1>4 DEF Time, BecomesDue, LeaseEnds, WindowStarts, EntryAges, sending
  <1> QED BY <1>1, <1>2, <1>3, <1>4 DEF Next

\* What a step does to a worker that it changes: the worker is ready again, or
\* has prepared a message, or has sent it.
LEMMA WorkerStep ==
  ASSUME Typed, Next, NEW p \in Workers, worker'[p] # worker[p]
  PROVE  \/ worker'[p].at = "ready"
         \/ /\ worker'[p].at = "send" /\ Prepare(p, worker'[p].msg)
            /\ StillMeant(worker'[p].msg)
         \/ /\ worker'[p].at = "record" /\ worker[p].at = "send"
            /\ worker'[p].msg = worker[p].msg
            /\ worker'[p].answer = "ok" => copies'[worker'[p].msg] > 0
            /\ UNCHANGED <<rows, visits>>
  <1> DEFINE Goal == \/ worker'[p].at = "ready"
         \/ /\ worker'[p].at = "send" /\ Prepare(p, worker'[p].msg)
            /\ StillMeant(worker'[p].msg)
         \/ /\ worker'[p].at = "record" /\ worker[p].at = "send"
            /\ worker'[p].msg = worker[p].msg
            /\ worker'[p].answer = "ok" => copies'[worker'[p].msg] > 0
            /\ UNCHANGED <<rows, visits>>
  <1>1. worker \in [Workers -> Worker] /\ copies \in [Messages -> Nat]
    BY DEF Typed, TypeOK, Worker
  <1>2. worker[p] \in Worker
    BY <1>1
  <1>3. PICK q \in Workers : Works(q) \/ Crash(q)
    BY WorkerSteps
  <1>4. \A r : worker' = [worker EXCEPT ![q] = r] => q = p /\ worker'[p] = r
    BY <1>1
  <1>5. CASE ClaimBatch(q)
    <2>1. PICK S : worker' = [worker EXCEPT ![q] = [worker[q] EXCEPT !.queue = S]]
      BY <1>5 DEF ClaimBatch, Goes
    <2>2. q = p /\ worker'[p] = [worker[p] EXCEPT !.queue = S]
      BY <1>4, <2>1
    <2>3. worker[p].at = "ready"
      BY <1>5, <2>2 DEF ClaimBatch, At
    <2>4. worker'[p].at = "ready"
      BY <1>2, <2>2, <2>3 DEF Worker
    <2> QED BY <2>4
  <1>6. CASE Record(q)
    <2>1. worker' = [worker EXCEPT ![q] =
                      [worker[q] EXCEPT !.at = "ready", !.msg = None, !.answer = "none"]]
      BY <1>6 DEF Record, Goes
    <2>2. q = p /\ worker'[p] = [worker[p] EXCEPT !.at = "ready", !.msg = None, !.answer = "none"]
      BY <1>4, <2>1
    <2>3. worker'[p].at = "ready"
      BY <1>2, <2>2 DEF Worker
    <2> QED BY <2>3
  <1>7. CASE Crash(q)
    <2>1. worker' = [worker EXCEPT ![q] = Idle]
      BY <1>7 DEF Crash, Goes
    <2>2. worker'[p] = Idle
      BY <1>4, <2>1
    <2> QED BY <2>2 DEF Idle
  <1>8. CASE \E k \in Messages : Prepare(q, k)
    <2>1. PICK k \in Messages : Prepare(q, k)
      BY <1>8
    <2> DEFINE r1 == [worker[q] EXCEPT !.at = "send", !.msg = k, !.queue = @ \ {k}]
               r2 == [worker[q] EXCEPT !.queue = @ \ {k}]
    <2>2. worker[q].at = "ready"
      BY <2>1 DEF Prepare, At
    <2>3. \/ worker' = [worker EXCEPT ![q] = r1] /\ StillMeant(k)
          \/ worker' = [worker EXCEPT ![q] = r2]
      BY <2>1 DEF Prepare, Goes
    <2>4. CASE worker' = [worker EXCEPT ![q] = r1] /\ StillMeant(k)
      <3>1. q = p /\ worker'[p] = r1
        BY <1>4, <2>4
      <3>2. worker'[p].at = "send" /\ worker'[p].msg = k
        BY <1>2, <3>1 DEF Worker
      <3> QED BY <2>1, <2>4, <3>1, <3>2
    <2>5. CASE worker' = [worker EXCEPT ![q] = r2]
      <3>1. q = p /\ worker'[p] = r2
        BY <1>4, <2>5
      <3>2. worker'[p].at = "ready"
        BY <1>2, <2>2, <3>1 DEF Worker
      <3> QED BY <3>2
    <2> QED BY <2>3, <2>4, <2>5
  <1>9. CASE Send(q)
    <2>1. PICK answer \in Answers \ {"none"}, arrived \in BOOLEAN :
            /\ answer = "ok" => arrived
            /\ worker' = [worker EXCEPT ![q] = [worker[q] EXCEPT !.at = "record", !.answer = answer]]
            /\ copies' = IF arrived THEN [copies EXCEPT ![worker[q].msg] = @ + 1] ELSE copies
      BY <1>9 DEF Send, Goes
    <2>2. q = p /\ worker'[p] = [worker[p] EXCEPT !.at = "record", !.answer = answer]
      BY <1>4, <2>1
    <2>3. /\ worker'[p].at = "record" /\ worker'[p].answer = answer
          /\ worker'[p].msg = worker[p].msg
      BY <1>2, <2>2 DEF Worker
    <2>4. worker[p].at = "send" /\ worker[p].msg \in Messages /\ UNCHANGED <<rows, visits>>
      BY <1>9, <2>2 DEF Send, At, Typed, BusyHasMessage, calendar
    <2>5. ASSUME answer = "ok" PROVE copies'[worker[p].msg] > 0
      <3>1. copies' = [copies EXCEPT ![worker[p].msg] = @ + 1]
        BY <2>1, <2>2, <2>5, Zenon
      <3> QED BY <1>1, <2>4, <3>1
    <2> QED BY <2>3, <2>4, <2>5
  <1> QED BY <1>3, <1>5, <1>6, <1>7, <1>8, <1>9 DEF Works

LEMMA SentStep == Typed /\ SentInv /\ [Next]_vars => SentInv'
  <1> SUFFICES ASSUME Typed, SentInv, [Next]_vars PROVE SentInv'
    OBVIOUS
  <1>1. CASE UNCHANGED vars
    BY <1>1 DEF vars, SentInv, SentMeansDelivered, OkMeansDelivered, At
  <1>2. CASE Next
    <2>1. ASSUME NEW k \in Messages, rows'[k].status = "sent" PROVE copies'[k] > 0
      <3>1. rows[k].status = "sent" \/ OkRecorded(k)
        BY <1>2, <2>1, RowSteps DEF RowStep
      <3>2. copies[k] > 0
        BY <3>1 DEF SentInv, SentMeansDelivered, OkMeansDelivered, OkRecorded
      <3> QED BY <1>2, <3>2, CopiesGrow
    <2>2. ASSUME NEW p \in Workers, worker'[p].at = "record", worker'[p].answer = "ok"
          PROVE  copies'[worker'[p].msg] > 0
      <3>1. CASE worker'[p] = worker[p]
        <4>1. At(p, "record") /\ worker[p].answer = "ok"
          BY <2>2, <3>1 DEF At
        <4>2. worker[p].msg \in Messages /\ copies[worker[p].msg] > 0
          BY <4>1 DEF At, SentInv, OkMeansDelivered, Typed, BusyHasMessage
        <4> QED BY <1>2, <3>1, <4>2, CopiesGrow
      <3>2. CASE worker'[p] # worker[p]
        BY <1>2, <2>2, <3>2, WorkerStep
      <3> QED BY <3>1, <3>2
    <2> QED BY <2>1, <2>2 DEF SentInv, SentMeansDelivered, OkMeansDelivered, At
  <1> QED BY <1>1, <1>2

\* What is recorded as sent reached its recipient, whoever claimed the row and
\* whatever claims were lost on the way (mark_sent).
THEOREM SentDelivered == Spec => []SentMeansDelivered
  <1>1. Init => SentInv
    <2>1. RowIn("absent").status = "absent" /\ Idle.at = "ready"
      BY DEF RowIn, Idle
    <2> HIDE DEF RowIn, Idle
    <2> QED BY <2>1 DEF Init, SentInv, SentMeansDelivered, OkMeansDelivered, At
  <1>2. SentInv => SentMeansDelivered
    BY DEF SentInv
  <1> QED BY <1>1, <1>2, TypedHolds, SentStep, PTL DEF Spec
-----------------------------------------------------------------------------
(* The late sender. *)

Over == {"completed", "ended"}

\* A visit ends in one of two transactions, and both silence its reminder.
LEMMA EndSilences ==
  ASSUME Typed, Next, NEW a \in Visits, visits'[a] \in Over, visits[a] \notin Over
  PROVE  rows'[Reminder(a)].status # "processing"
  <1> DEFINE k == Reminder(a)
             K == {Reminder(a), Review(a)}
  <1>1. k \in Messages /\ Review(a) \in Messages /\ Review(a) # k
        /\ \A e \in Entries, w \in Windows : k # Offer(e, w)
    BY KeysTyped DEF Reminder, Review, Offer
  <1>2. visits \in [Visits -> VisitStatus] /\ rows \in [Messages -> Row]
    BY DEF Typed, TypeOK
  <1>3. CancelUnsent(K)[k].status # "processing" /\ CancelUnsent(K) \in [Messages -> Row]
    BY <1>1, <1>2, CancelStep, CancelUnsentTyped
  <1>4. CASE \E b \in Visits, ahead \in BOOLEAN : BookVisit(b, ahead)
    <2>1. PICK b \in Visits : visits' = [visits EXCEPT ![b] = "active"]
      BY <1>4 DEF BookVisit
    <2> QED BY <1>2, <2>1 DEF Over
  <1>5. CASE \E b \in Visits, s \in {"completed", "ended"} : CloseVisit(b, s)
    <2>1. PICK b \in Visits, s \in {"completed", "ended"} : CloseVisit(b, s)
      BY <1>5
    <2>2. b = a
      BY <1>2, <2>1 DEF CloseVisit
    <2>3. rows' = CancelUnsent(K) \/ rows' = [CancelUnsent(K) EXCEPT ![Review(a)] = NewRow]
      BY <2>1, <2>2 DEF CloseVisit
    <2>4. rows'[k] = CancelUnsent(K)[k]
      BY <1>1, <1>3, <2>3
    <2> QED BY <1>3, <2>4
  <1>6. CASE \E w \in Windows : CommitOpening(w)
    <2>1. PICK w \in Windows : CommitOpening(w)
      BY <1>6
    <2>2. opening[w].visit # None
      BY <2>1 DEF CommitOpening
    <2>3. opening[w].visit = a
      BY <1>2, <2>1, <2>2 DEF CommitOpening
    <2>4. k \notin NewOffers(w)
      BY <1>1, <2>1 DEF NewOffers, Typed, TypeOK
    <2>5. rows'[k] = CancelUnsent(K)[k]
      BY <1>1, <2>1, <2>2, <2>3, <2>4 DEF CommitOpening
    <2> QED BY <1>3, <2>5
  <1>7. CASE \/ \E b \in Visits : CancelVisit(b)
             \/ \E ahead \in SUBSET Visits : CommitRebuild(ahead)
    BY <1>7 DEF CancelVisit, StartOpening, CommitRebuild, calendar
  <1>8. CASE Requests
    BY <1>8 DEF Requests, OpenWindow, StartOpening, JoinList, LeaveList, SwitchOff,
                StartRebuild, calendar
  <1>9. CASE Time
    BY <1>9 DEF Time, BecomesDue, LeaseEnds, WindowStarts, EntryAges, calendar
  <1>10. CASE \E p \in Workers : Works(p) \/ Crash(p)
    BY <1>10 DEF Works, ClaimBatch, Prepare, Send, Record, Crash, calendar
  <1> QED BY <1>4, <1>5, <1>6, <1>7, <1>8, <1>9, <1>10 DEF Next, Bookings, Commits

LEMMA LateSenderStep ==
  Typed /\ LateSenderHasLostItsRow /\ [Next]_vars => LateSenderHasLostItsRow'
  <1> SUFFICES ASSUME Typed, LateSenderHasLostItsRow, [Next]_vars,
                      NEW p \in Workers, NEW a \in Visits,
                      worker'[p].at # "ready", worker'[p].msg = Reminder(a), visits'[a] \in Over,
                      Owns(p, Reminder(a))'
               PROVE  FALSE
    BY DEF LateSenderHasLostItsRow, Over
  <1> DEFINE k == Reminder(a)
  <1>1. CASE UNCHANGED vars
    BY <1>1 DEF vars, LateSenderHasLostItsRow, Over, Owns
  <1>2. CASE Next
    <2>1. k \in Messages /\ k[1] = "reminder" /\ k[2] = a
      BY KeysTyped DEF Reminder
    <2>2. visits[a] \in Over
      BY <1>2, EndSilences DEF Owns
    <2>3. CASE worker'[p] = worker[p]
      <3>1. ~Owns(p, k)
        BY <2>2, <2>3 DEF LateSenderHasLostItsRow, Over
      <3>2. ClaimBatch(p)
        BY <1>2, <2>1, <3>1, RowSteps DEF RowStep
      <3> QED BY <2>3, <3>2 DEF ClaimBatch, At
    <2>4. CASE worker'[p] # worker[p]
      <3>1. CASE StillMeant(worker'[p].msg)
        BY <2>1, <2>2, <3>1 DEF StillMeant, Over
      <3>2. CASE /\ worker[p].at = "send" /\ worker[p].msg = k /\ UNCHANGED rows
        BY <2>2, <3>2 DEF LateSenderHasLostItsRow, Owns, Over
      <3> QED BY <1>2, <2>4, <3>1, <3>2, WorkerStep
    <2> QED BY <2>3, <2>4
  <1> QED BY <1>1, <1>2

\* A worker that still sends the reminder of a visit that is over does not own
\* its row any more, so the message is neither retried nor recorded
\* (prepare_delivery, cancel_unsent, _rebuild_future_reminders).
THEOREM LateSenderIsAlone == Spec => []LateSenderHasLostItsRow
  <1>1. Init => LateSenderHasLostItsRow
    <2>1. Idle.at = "ready"
      BY DEF Idle
    <2> HIDE DEF Idle
    <2> QED BY <2>1 DEF Init, LateSenderHasLostItsRow
  <1> QED BY <1>1, TypedHolds, LateSenderStep, PTL DEF Spec
-----------------------------------------------------------------------------
(* A booked entry was offered its window. *)

LEMMA BookedEntryStep ==
  Typed /\ BookedEntryWasOffered /\ [Next]_vars => BookedEntryWasOffered'
  <1> SUFFICES ASSUME Typed, BookedEntryWasOffered, [Next]_vars,
                      NEW e \in Entries, entries'[e].status = "booked"
               PROVE  \E a \in Visits :
                        /\ VisitClient[a] = EntryClient[e] /\ visits'[a] # "absent"
                        /\ rows'[Offer(e, VisitWindow[a])].status # "absent"
    BY DEF BookedEntryWasOffered
  <1>1. CASE UNCHANGED vars
    BY <1>1 DEF vars, BookedEntryWasOffered
  <1>2. CASE Next
    <2>1. \A b \in Visits : Offer(e, VisitWindow[b]) \in Messages
      BY KeysTyped
    <2>2. \A b \in Visits : rows[Offer(e, VisitWindow[b])].status # "absent"
                => rows'[Offer(e, VisitWindow[b])].status # "absent"
      BY <1>2, <2>1, RowSteps DEF RowStep
    <2>3. visits \in [Visits -> VisitStatus] /\ entries \in [Entries -> Entry]
      BY DEF Typed, TypeOK
    <2>4. CASE \E b \in Visits, ahead \in BOOLEAN : BookVisit(b, ahead)
      <3>1. PICK b \in Visits, ahead \in BOOLEAN : BookVisit(b, ahead)
        BY <2>4
      <3>2. visits' = [visits EXCEPT ![b] = "active"]
        BY <3>1 DEF BookVisit
      <3>3. CASE e \in Fulfilled(b)
        BY <2>2, <2>3, <3>2, <3>3 DEF Fulfilled
      <3>4. CASE e \notin Fulfilled(b)
        <4>1. entries[e].status = "booked"
          BY <3>1, <3>4 DEF BookVisit
        <4>2. PICK a \in Visits :
                /\ VisitClient[a] = EntryClient[e] /\ visits[a] # "absent"
                /\ rows[Offer(e, VisitWindow[a])].status # "absent"
          BY <4>1 DEF BookedEntryWasOffered
        <4>3. visits'[a] # "absent"
          BY <2>3, <3>2, <4>2
        <4> QED BY <2>2, <4>2, <4>3
      <3> QED BY <3>3, <3>4
    <2>5. CASE ~ \E b \in Visits, ahead \in BOOLEAN : BookVisit(b, ahead)
      <3>1. entries[e].status = "booked" /\ \A b \in Visits : visits[b] # "absent" => visits'[b] # "absent"
        <4>1. CASE \E b \in Visits, s \in {"completed", "ended"} : CloseVisit(b, s)
          BY <2>3, <4>1 DEF CloseVisit
        <4>2. CASE \E w \in Windows : CommitOpening(w)
          <5>1. PICK w \in Windows : CommitOpening(w)
            BY <4>2
          <5>2. /\ \/ visits' = visits
                   \/ visits' = [visits EXCEPT ![opening[w].visit] = "ended"]
                /\ \/ entries'[e] = entries[e]
                   \/ entries'[e] = [entries[e] EXCEPT !.cooling = TRUE,
                            !.status = IF e \in opening[w].fresh THEN "matched" ELSE @]
            BY <5>1 DEF CommitOpening
          <5>3. entries[e] \in Entry
            BY <2>3
          <5>4. entries[e].status = "booked"
            BY <5>2, <5>3 DEF Entry
          <5> QED BY <2>3, <5>2, <5>4
        <4>3. CASE \/ \E b \in Visits : CancelVisit(b)
                   \/ \E ahead \in SUBSET Visits : CommitRebuild(ahead)
          BY <4>3 DEF CancelVisit, StartOpening, CommitRebuild, calendar
        <4>4. CASE \E x \in Entries : JoinList(x) \/ LeaveList(x) \/ EntryAges(x)
          <5>1. PICK x \in Entries : JoinList(x) \/ LeaveList(x) \/ EntryAges(x)
            BY <4>4
          <5>2. UNCHANGED visits
            BY <5>1 DEF JoinList, LeaveList, EntryAges, calendar
          <5>3. \/ entries' = [entries EXCEPT ![x] = [entries[x] EXCEPT !.status = "active"]]
                \/ entries' = [entries EXCEPT ![x] = [entries[x] EXCEPT !.status = "cancelled"]]
                \/ entries' = [entries EXCEPT ![x] = [entries[x] EXCEPT !.cooling = FALSE]]
                \/ entries' = [entries EXCEPT ![x] = [entries[x] EXCEPT !.expired = TRUE]]
            BY <5>1 DEF JoinList, LeaveList, EntryAges
          <5>4. entries[e] \in Entry /\ entries[x] \in Entry
            BY <2>3
          <5>5. entries[e].status = "booked"
            BY <2>3, <5>3, <5>4 DEF Entry
          <5> QED BY <5>2, <5>5
        <4>5. CASE Requests /\ ~ \E x \in Entries : JoinList(x) \/ LeaveList(x)
          BY <4>5 DEF Requests, OpenWindow, StartOpening, SwitchOff, StartRebuild, calendar
        <4>6. CASE Time /\ ~ \E x \in Entries : EntryAges(x)
          BY <4>6 DEF Time, BecomesDue, LeaseEnds, WindowStarts, calendar
        <4>7. CASE \E p \in Workers : Works(p) \/ Crash(p)
          BY <4>7 DEF Works, ClaimBatch, Prepare, Send, Record, Crash, calendar
        <4> QED BY <1>2, <2>5, <4>1, <4>2, <4>3, <4>4, <4>5, <4>6, <4>7
            DEF Next, Bookings, Commits
      <3>2. PICK a \in Visits :
              /\ VisitClient[a] = EntryClient[e] /\ visits[a] # "absent"
              /\ rows[Offer(e, VisitWindow[a])].status # "absent"
        BY <3>1 DEF BookedEntryWasOffered
      <3> QED BY <2>2, <3>1, <3>2
    <2> QED BY <2>4, <2>5
  <1> QED BY <1>1, <1>2

\* An entry is closed as booked only by a booking of its own client for a window
\* that it had been offered (mark_booked_for_window).
THEOREM BookedEntriesWereOffered == Spec => []BookedEntryWasOffered
  <1>1. Init => BookedEntryWasOffered
    BY DEF Init, BookedEntryWasOffered
  <1> QED BY <1>1, TypedHolds, BookedEntryStep, PTL DEF Spec
=============================================================================
