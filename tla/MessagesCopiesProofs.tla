------------------------ MODULE MessagesCopiesProofs ------------------------
(***************************************************************************)
(* Proofs about module Messages: a recorded delivery is final but for a    *)
(* rebuild that read the row before, and a second copy of a message costs  *)
(* a fault.  Both rest on when a row is stored for the first time; the     *)
(* second counts, for every message, the copies that arrived, the workers  *)
(* that are sending it and the sends its row still allows: no step raises  *)
(* the sum without a fault, whoever claims, loses or retries the row.      *)
(***************************************************************************)
EXTENDS MessagesProofs, FiniteSetTheorems

USE MessagesAssumption

-----------------------------------------------------------------------------
(* When a row is stored for the first time. *)

\* A visit that is not booked has no reminder, one that is not over no request for
\* a review, and a rebuild under way has read nothing else.
Unwritten ==
  \A a \in Visits :
    /\ visits[a] = "absent" =>
         rows[Reminder(a)].status = "absent" /\ a \notin rebuild.seen
    /\ visits[a] \in {"absent", "active"} =>
         rows[Review(a)].status = "absent" /\ rebuild.rows[Review(a)].status = "absent"

Keeps(k) == rows'[k] = rows[k]
Silences(k) == rows[k].status \in Unsent /\ rows'[k].status = "cancelled"
Stores(k) ==
  /\ rows[k].status = "absent" /\ rows'[k].status = "pending"
  /\ \/ k \in Offers
     \/ \E a \in Visits : k = Reminder(a) /\ visits'[a] = "active"
     \/ \E a \in Visits : k = Review(a) /\ visits'[a] = "completed"

\* A reminder, a review request and an offer are told apart, and so are their visits.
LEMMA KeysDiffer ==
  /\ \A a, b \in Visits : /\ Reminder(a) # Review(b)
                          /\ Reminder(a) = Reminder(b) => a = b
                          /\ Review(a) = Review(b) => a = b
  /\ \A a \in Visits : Reminder(a) \notin Offers /\ Review(a) \notin Offers
  /\ \A k \in Offers : k \notin Jobs
  BY DEF Reminder, Review, Offer, Offers, Jobs, Reminders, Reviews

\* cancel_unsent silences the rows it is given.
LEMMA CancelKeepsOrSilences ==
  ASSUME NEW K, NEW k \in Messages
  PROVE  \/ CancelUnsent(K)[k] = rows[k]
         \/ rows[k].status \in Unsent /\ CancelUnsent(K)[k].status = "cancelled"
  BY DEF CancelUnsent, RowIn

\* A request, or the commit of an opening, keeps a row, silences it, or stores it
\* for the first time.
LEMMA RequestRows ==
  ASSUME Typed, Unwritten, NEW k \in Messages,
         Bookings \/ Requests \/ \E w \in Windows : CommitOpening(w)
  PROVE  Keeps(k) \/ Silences(k) \/ Stores(k)
  <1>1. ASSUME NEW K, rows'[k] = CancelUnsent(K)[k] PROVE Keeps(k) \/ Silences(k)
    BY <1>1, CancelKeepsOrSilences DEF Keeps, Silences
  <1>2. visits \in [Visits -> VisitStatus] /\ rows \in [Messages -> Row]
    BY DEF Typed, TypeOK
  <1>3. CASE \E a \in Visits, ahead \in BOOLEAN : BookVisit(a, ahead)
    <2>1. PICK a \in Visits, ahead \in BOOLEAN : BookVisit(a, ahead)
      BY <1>3
    <2> DEFINE K == UNION {OffersOf(e) : e \in Fulfilled(a)}
    <2>2. CancelUnsent(K) \in [Messages -> Row]
      BY <1>2, CancelUnsentTyped
    <2>3. rows' = CancelUnsent(K) \/ rows' = [CancelUnsent(K) EXCEPT ![Reminder(a)] = NewRow]
      BY <2>1 DEF BookVisit
    <2>4. rows'[k] = CancelUnsent(K)[k] \/ (k = Reminder(a) /\ rows'[k] = NewRow)
      BY <2>2, <2>3
    <2>5. visits[a] = "absent" /\ visits'[a] = "active"
      BY <1>2, <2>1 DEF BookVisit
    <2>6. CASE k = Reminder(a) /\ rows'[k] = NewRow
      BY <2>5, <2>6 DEF Unwritten, Stores, NewRow, RowIn
    <2> QED BY <1>1, <2>4, <2>6
  <1>4. CASE \E a \in Visits, status \in {"completed", "ended"} : CloseVisit(a, status)
    <2>1. PICK a \in Visits, status \in {"completed", "ended"} : CloseVisit(a, status)
      BY <1>4
    <2> DEFINE K == {Reminder(a), Review(a)}
    <2>2. CancelUnsent(K) \in [Messages -> Row]
      BY <1>2, CancelUnsentTyped
    <2>3. \/ rows' = CancelUnsent(K)
          \/ status = "completed" /\ rows' = [CancelUnsent(K) EXCEPT ![Review(a)] = NewRow]
      BY <2>1 DEF CloseVisit
    <2>4. \/ rows'[k] = CancelUnsent(K)[k]
          \/ k = Review(a) /\ rows'[k] = NewRow /\ status = "completed"
      BY <2>2, <2>3
    <2>5. visits[a] = "active" /\ visits'[a] = status
      BY <1>2, <2>1 DEF CloseVisit
    <2>6. CASE k = Review(a) /\ rows'[k] = NewRow /\ status = "completed"
      BY <2>5, <2>6 DEF Unwritten, Stores, NewRow, RowIn
    <2> QED BY <1>1, <2>4, <2>6
  <1>5. CASE \E w \in Windows : CommitOpening(w)
    <2>1. PICK w \in Windows : CommitOpening(w)
      BY <1>5
    <2>2. \/ rows'[k] = CancelUnsent({Reminder(opening[w].visit), Review(opening[w].visit)})[k]
          \/ rows'[k] = rows[k]
          \/ k \in NewOffers(w) /\ rows'[k] = DueRow
      BY <2>1 DEF CommitOpening
    <2>3. CASE k \in NewOffers(w) /\ rows'[k] = DueRow
      <3>1. k \in Offers /\ rows[k].status = "absent"
        BY <2>1, <2>3 DEF NewOffers, Offers, Typed, TypeOK
      <3> QED BY <2>3, <3>1 DEF Stores, DueRow, NewRow, RowIn
    <2> QED BY <1>1, <2>2, <2>3 DEF Keeps
  <1>6. CASE \E e \in Entries : LeaveList(e)
    BY <1>1, <1>6 DEF LeaveList
  <1>7. CASE \E kind \in Kinds : SwitchOff(kind)
    BY <1>1, <1>7 DEF SwitchOff, Keeps
  <1>8. CASE \/ \E a \in Visits : CancelVisit(a)
             \/ \E w \in Windows : OpenWindow(w)
             \/ \E e \in Entries : JoinList(e)
             \/ StartRebuild
    BY <1>8 DEF CancelVisit, OpenWindow, StartOpening, JoinList, StartRebuild, Keeps
  <1> QED BY <1>3, <1>4, <1>5, <1>6, <1>7, <1>8 DEF Bookings, Requests

\* A rebuild rewrites only the jobs of the visits it read: a reminder that is wanted,
\* and any job that is not.
LEMMA RebuildRows ==
  ASSUME NEW k \in Messages, NEW ahead, CommitRebuild(ahead)
  PROVE  \/ Keeps(k)
         \/ /\ k \in Jobs /\ k[2] \in rebuild.seen
            /\ \/ rows'[k] = Unwanted(rebuild.rows[k], rows[k])
               \/ k[1] = "reminder" /\ rows'[k] = Wanted(rebuild.rows[k], rows[k])
  BY DEF CommitRebuild, Keeps

\* Time changes the status of no row.
LEMMA TimeRows ==
  ASSUME Typed, Time, NEW k \in Messages
  PROVE  rows'[k].status = rows[k].status
  <1>1. rows \in [Messages -> Row]
    BY DEF Typed, TypeOK
  <1>2. CASE \E m \in Messages : BecomesDue(m) \/ LeaseEnds(m)
    <2>1. PICK m \in Messages : \/ rows' = [rows EXCEPT ![m] = [rows[m] EXCEPT !.due = TRUE]]
                                \/ rows' = [rows EXCEPT ![m] = [rows[m] EXCEPT !.leased = FALSE]]
      BY <1>2 DEF BecomesDue, LeaseEnds
    <2>2. rows[m] \in Row
      BY <1>1
    <2> QED BY <1>1, <2>1, <2>2 DEF Row
  <1>3. CASE (\E w \in Windows : WindowStarts(w)) \/ \E e \in Entries : EntryAges(e)
    BY <1>3 DEF WindowStarts, EntryAges
  <1> QED BY <1>2, <1>3 DEF Time

\* A worker claims rows that are unsent, and otherwise writes rows it owns.
LEMMA WorkerRows ==
  ASSUME Typed, NEW p \in Workers, Works(p) \/ Crash(p), NEW k \in Messages
  PROVE  Keeps(k) \/ (rows[k].status \in Unsent /\ rows'[k].status # "absent")
  <1>1. rows \in [Messages -> Row] /\ worker[p].answer \in Answers
    BY DEF Typed, TypeOK
  <1>2. CASE ClaimBatch(p)
    <2>1. PICK jobs \in Batches(Jobs), offers \in Batches(Offers) :
             rows' = Claimed(p, jobs \cup offers)
      BY <1>2 DEF ClaimBatch
    <2>2. k \in jobs \cup offers => rows[k].status \in Unsent
      BY DEF Batches, Claimable, Unsent
    <2>3. k \in jobs \cup offers => rows'[k].status = "processing"
      BY <1>1, <2>1 DEF Claimed, Row
    <2>4. k \notin jobs \cup offers => Keeps(k)
      BY <2>1 DEF Claimed, Keeps
    <2> QED BY <2>2, <2>3, <2>4
  <1>3. CASE \E m \in Messages : Prepare(p, m)
    <2>1. PICK m \in Messages : Prepare(p, m)
      BY <1>3
    <2>2. \/ rows' = rows
          \/ /\ Owns(p, m)
             /\ \/ rows' = [rows EXCEPT ![m] = RowIn("failed")]
                \/ rows' = [rows EXCEPT ![m] = RowIn("cancelled")]
      BY <2>1 DEF Prepare
    <2> QED BY <1>1, <2>2 DEF Owns, Unsent, RowIn, Keeps
  <1>4. CASE Record(p)
    <2> DEFINE m == worker[p].msg
    <2>1. \/ rows' = rows
          \/ Owns(p, m) /\ rows' = [rows EXCEPT ![m] = Outcome(rows[m], worker[p].answer)]
      BY <1>4 DEF Record
    <2>2. Outcome(rows[m], worker[p].answer).status # "absent"
      BY DEF Outcome, Retried, RowIn, NewRow
    <2> HIDE DEF m
    <2> QED BY <1>1, <2>1, <2>2 DEF Owns, Unsent, Keeps
  <1>5. CASE Send(p) \/ Crash(p)
    BY <1>5 DEF Send, Crash, Keeps
  <1> QED BY <1>2, <1>3, <1>4, <1>5 DEF Works

\* Visits and the rebuild go forward, too.
LEMMA VisitsGo ==
  ASSUME Typed, Next, NEW a \in Visits
  PROVE  /\ visits'[a] = "absent" => visits[a] = "absent"
         /\ visits'[a] \in {"absent", "active"} => visits[a] \in {"absent", "active"}
         /\ \/ rebuild' = rebuild
            \/ rebuild' = NoRebuild
            \/ /\ StartRebuild /\ rebuild'.rows[Review(a)] = rows[Review(a)]
               /\ a \in rebuild'.seen => visits[a] = "active"
  <1>1. visits \in [Visits -> VisitStatus] /\ Review(a) \in Jobs
    BY DEF Typed, TypeOK, Jobs, Reviews
  <1>2. CASE StartRebuild
    BY <1>1, <1>2 DEF StartRebuild, calendar
  <1>3. CASE \E ahead \in SUBSET Visits : CommitRebuild(ahead)
    BY <1>3 DEF CommitRebuild, calendar
  <1>4. CASE \E b \in Visits, ahead \in BOOLEAN : BookVisit(b, ahead)
    BY <1>1, <1>4 DEF BookVisit
  <1>5. CASE \E b \in Visits, s \in {"completed", "ended"} : CloseVisit(b, s)
    BY <1>1, <1>5 DEF CloseVisit
  <1>6. CASE \E w \in Windows : CommitOpening(w)
    <2>1. PICK w \in Windows : CommitOpening(w)
      BY <1>6
    <2>2. /\ visits' = visits \/ visits' = [visits EXCEPT ![opening[w].visit] = "ended"]
          /\ rebuild' = rebuild
      BY <2>1 DEF CommitOpening
    <2> QED BY <1>1, <2>2
  <1>7. CASE \E b \in Visits : CancelVisit(b)
    BY <1>7 DEF CancelVisit, StartOpening, calendar
  <1>8. CASE Requests /\ ~StartRebuild
    BY <1>8 DEF Requests, OpenWindow, StartOpening, JoinList, LeaveList, SwitchOff, calendar
  <1>9. CASE Time
    BY <1>9 DEF Time, BecomesDue, LeaseEnds, WindowStarts, EntryAges, calendar
  <1>10. CASE \E p \in Workers : Works(p) \/ Crash(p)
    BY <1>10 DEF Works, ClaimBatch, Prepare, Send, Record, Crash, calendar
  <1> QED
    BY <1>2, <1>3, <1>4, <1>5, <1>6, <1>7, <1>8, <1>9, <1>10 DEF Next, Bookings, Commits

\* A row that was absent and is not any more was stored by a request, or by a rebuild.
LEMMA FirstStored ==
  ASSUME Typed, Unwritten, Next, NEW k \in Messages,
         rows[k].status = "absent", rows'[k].status # "absent"
  PROVE  \/ Stores(k)
         \/ /\ k \in Jobs /\ k[2] \in rebuild.seen
            /\ k[1] = "reminder" \/ rebuild.rows[k].status # "absent"
  <1>1. CASE Bookings \/ Requests \/ \E w \in Windows : CommitOpening(w)
    BY <1>1, RequestRows DEF Keeps, Silences, Unsent
  <1>2. CASE \E ahead \in SUBSET Visits : CommitRebuild(ahead)
    BY <1>2, RebuildRows DEF Keeps, Unwanted, Unsent
  <1>3. CASE Time
    BY <1>3, TimeRows
  <1>4. CASE \E p \in Workers : Works(p) \/ Crash(p)
    BY <1>4, WorkerRows DEF Keeps, Unsent
  <1> QED BY <1>1, <1>2, <1>3, <1>4 DEF Next, Commits

LEMMA UnwrittenStep == Typed /\ Unwritten /\ [Next]_vars => Unwritten'
  <1> SUFFICES ASSUME Typed, Unwritten, Next, NEW a \in Visits
               PROVE  /\ visits'[a] = "absent" =>
                           rows'[Reminder(a)].status = "absent" /\ a \notin rebuild'.seen
                      /\ visits'[a] \in {"absent", "active"} =>
                           /\ rows'[Review(a)].status = "absent"
                           /\ rebuild'.rows[Review(a)].status = "absent"
    BY DEF Unwritten, vars
  <1>1. Reminder(a) \in Messages /\ Review(a) \in Messages /\ Review(a) \in Jobs
    BY KeysTyped DEF Jobs, Reviews
  <1>2. Review(a)[1] # "reminder" /\ Reminder(a)[2] = a
    BY DEF Review, Reminder
  <1>3. NoRebuild.seen = {} /\ NoRebuild.rows[Review(a)].status = "absent"
    BY <1>1 DEF NoRebuild, RowIn
  <1>4. ASSUME visits'[a] = "absent"
        PROVE  rows'[Reminder(a)].status = "absent" /\ a \notin rebuild'.seen
    <2>1. visits[a] = "absent" /\ rows[Reminder(a)].status = "absent" /\ a \notin rebuild.seen
      BY <1>4, VisitsGo DEF Unwritten
    <2>2. ~Stores(Reminder(a))
      BY <1>4, KeysDiffer DEF Stores
    <2>3. rows'[Reminder(a)].status = "absent"
      BY <1>1, <1>2, <2>1, <2>2, FirstStored
    <2> QED BY <1>3, <2>1, <2>3, VisitsGo
  <1>5. ASSUME visits'[a] \in {"absent", "active"}
        PROVE  /\ rows'[Review(a)].status = "absent"
               /\ rebuild'.rows[Review(a)].status = "absent"
    <2>1. rows[Review(a)].status = "absent" /\ rebuild.rows[Review(a)].status = "absent"
      BY <1>5, VisitsGo DEF Unwritten
    <2>2. ~Stores(Review(a))
      BY <1>5, KeysDiffer DEF Stores
    <2>3. rows'[Review(a)].status = "absent"
      BY <1>1, <1>2, <2>1, <2>2, FirstStored
    <2> QED BY <1>3, <2>1, <2>3, VisitsGo
  <1> QED BY <1>4, <1>5

LEMMA UnwrittenInit == Init => Unwritten
  <1>1. ASSUME NEW a \in Visits
        PROVE  Reminder(a) \in Messages /\ Review(a) \in Messages /\ Review(a) \in Jobs
    BY KeysTyped DEF Jobs, Reviews
  <1> QED BY <1>1 DEF Init, Unwritten, NoRebuild, RowIn

LEMMA UnwrittenHolds == Spec => [](Typed /\ Unwritten)
  BY UnwrittenInit, UnwrittenStep, TypedHolds, PTL DEF Spec
-----------------------------------------------------------------------------
(* Sent is final. *)

\* A recorded delivery is forgotten only by a rebuild that read the row before it was
\* recorded: no claim, retry, silencing or later event of the visit touches it
\* (mark_sent, cancel_unsent, _rebuild_future_reminders).
THEOREM SentFinal == Spec => SentIsFinal
  <1> DEFINE Final == \A k \in Messages : rows[k].status = "sent" /\ rows'[k].status # "sent" =>
                         rebuild.on /\ k \in Jobs /\ rebuild.rows[k].status # "sent"
  <1>1. ASSUME Typed, Unwritten, [Next]_vars PROVE [Final]_vars
    <2> SUFFICES ASSUME Next, NEW k \in Messages,
                        rows[k].status = "sent", rows'[k].status # "sent"
                 PROVE  rebuild.on /\ k \in Jobs /\ rebuild.rows[k].status # "sent"
      BY <1>1
    <2>1. CASE Bookings \/ Requests \/ \E w \in Windows : CommitOpening(w)
      BY <1>1, <2>1, RequestRows DEF Keeps, Silences, Stores, Unsent
    <2>2. CASE \E ahead \in SUBSET Visits : CommitRebuild(ahead)
      <3>1. PICK ahead \in SUBSET Visits : CommitRebuild(ahead)
        BY <2>2
      <3>2. k \in Jobs /\ \/ rows'[k] = Unwanted(rebuild.rows[k], rows[k])
                          \/ rows'[k] = Wanted(rebuild.rows[k], rows[k])
        BY <3>1, RebuildRows DEF Keeps
      <3> QED BY <3>1, <3>2 DEF CommitRebuild, Unwanted, Wanted, Unsent
    <2>3. CASE Time
      BY <1>1, <2>3, TimeRows
    <2>4. CASE \E p \in Workers : Works(p) \/ Crash(p)
      BY <1>1, <2>4, WorkerRows DEF Keeps, Unsent
    <2> QED BY <2>1, <2>2, <2>3, <2>4 DEF Next, Commits
  <1> QED BY <1>1, UnwrittenHolds, PTL DEF Spec, SentIsFinal
-----------------------------------------------------------------------------
(* The copies of a message, counted with those that may still be sent.     *)

\* The workers that are about to send a message.
Senders(k) == {p \in Workers : At(p, "send") /\ worker[p].msg = k}

\* The row is owned by a worker that has still to prepare it.
Queued(k) == rows[k].by \in Workers /\ k \in worker[rows[k].by].queue

\* The row is settled, or leased to a worker that sends it, or has an answer for it
\* that ends it.
Spent(k) ==
  \/ rows[k].status \in Settled
  \/ /\ rows[k].status = "processing" /\ rows[k].leased /\ ~Queued(k)
     /\ rows[k].by \in Workers /\ worker[rows[k].by].msg = k
     /\ \/ At(rows[k].by, "send")
        \/ At(rows[k].by, "record") /\ worker[rows[k].by].answer # "retry"

\* The row's owner will prepare it, and another worker may take it over before or
\* afterwards.
Twice(k) == rows[k].status = "processing" /\ ~rows[k].leased /\ Queued(k)

\* How often the row still lets somebody start to send it, without another fault.
Chances(k) == IF Spent(k) THEN 0 ELSE IF Twice(k) THEN 2 ELSE 1

\* A rebuild under way has been counted as a fault, and may give a row its chance back.
Debt == IF rebuild.on THEN 1 ELSE 0

Counted(k) ==
  /\ IsFiniteSet(Senders(k))
  /\ copies[k] + Cardinality(Senders(k)) + Chances(k) + Debt <= 1 + faults

CopiesInv == Typed /\ Unwritten /\ \A k \in Messages : Counted(k)

\* The terms of the count are numbers, before a step and after it.
LEMMA CountTyped ==
  ASSUME Typed, Typed', NEW k \in Messages
  PROVE  /\ copies[k] \in Nat /\ faults \in Nat /\ faults' \in Nat
         /\ Debt \in {0, 1} /\ Debt' \in {0, 1}
         /\ Chances(k) \in {0, 1, 2} /\ Chances(k)' \in {0, 1, 2}
         /\ IsFiniteSet(Senders(k)) => Cardinality(Senders(k)) \in Nat
  <1>1. copies[k] \in Nat /\ faults \in Nat /\ faults' \in Nat
    BY DEF Typed, TypeOK
  <1>2. Debt \in {0, 1} /\ Debt' \in {0, 1}
    BY DEF Debt
  <1>3. Chances(k) \in {0, 1, 2} /\ Chances(k)' \in {0, 1, 2}
    BY DEF Chances
  <1> QED BY <1>1, <1>2, <1>3, FS_CardinalityType

\* What a row allows depends on its status, its lease and its owner.
LEMMA SameChances ==
  ASSUME NEW k \in Messages, rows'[k].status = rows[k].status,
         rows'[k].leased = rows[k].leased, rows'[k].by = rows[k].by,
         \A p \in Workers : p = rows[k].by => worker'[p] = worker[p]
  PROVE  Chances(k)' = Chances(k)
  <1>1. Queued(k)' = Queued(k)
    BY DEF Queued
  <1>2. Spent(k)' = Spent(k) /\ Twice(k)' = Twice(k)
    BY <1>1 DEF Spent, Twice, At
  <1> QED BY <1>2 DEF Chances

\* A settled row allows nothing more, and one that nobody has claimed one send.
LEMMA UnclaimedChances ==
  ASSUME NEW k \in Messages
  PROVE  /\ rows[k].status \in Settled => Chances(k) = 0
         /\ rows[k].status \in {"absent", "pending"} => Chances(k) = 1
         /\ rows'[k].status \in Settled => Chances(k)' = 0
         /\ rows'[k].status \in {"absent", "pending"} => Chances(k)' = 1
  BY DEF Chances, Spent, Twice, Settled

\* A message that nobody starts or stops to send has the same senders.
LEMMA SameSenders ==
  ASSUME NEW k,
         \A p \in Workers : worker'[p].at = "send" /\ worker'[p].msg = k
                              <=> worker[p].at = "send" /\ worker[p].msg = k
  PROVE  Senders(k)' = Senders(k)
  BY DEF Senders, At

\* Where nobody works, a message is counted as long as its chances and the faults
\* move together.
LEMMA CountStays ==
  ASSUME Typed, Typed', NEW k \in Messages, Counted(k), UNCHANGED <<worker, copies>>,
         Chances(k)' + Debt' + faults <= Chances(k) + Debt + faults'
  PROVE  Counted(k)'
  <1>1. Senders(k)' = Senders(k)
    BY SameSenders
  <1>2. /\ Chances(k) \in {0, 1, 2} /\ Chances(k)' \in {0, 1, 2}
        /\ Debt \in {0, 1} /\ Debt' \in {0, 1} /\ faults \in Nat /\ faults' \in Nat
    BY CountTyped
  <1>3. copies[k] \in Nat /\ Cardinality(Senders(k)) \in Nat
    BY CountTyped DEF Counted
  <1> QED BY <1>1, <1>2, <1>3 DEF Counted

\* Requests, and the commit of an opening.
LEMMA RequestCount ==
  ASSUME Typed, Typed', Unwritten, NEW k \in Messages, Counted(k),
         Bookings \/ Requests \/ \E w \in Windows : CommitOpening(w)
  PROVE  Counted(k)'
  <1>1. UNCHANGED <<worker, copies>>
    BY DEF Bookings, BookVisit, CloseVisit, CancelVisit, StartOpening, Requests, OpenWindow,
           JoinList, LeaveList, SwitchOff, StartRebuild, CommitOpening, sending
  <1>2. Chances(k)' <= Chances(k)
    <2>1. Chances(k) \in {0, 1, 2}
      BY CountTyped
    <2>2. CASE Keeps(k)
      BY <1>1, <2>1, <2>2, SameChances DEF Keeps
    <2>3. CASE Silences(k)
      BY <2>1, <2>3, UnclaimedChances DEF Silences, Settled
    <2>4. CASE Stores(k)
      BY <2>4, UnclaimedChances DEF Stores
    <2> QED BY <2>2, <2>3, <2>4, RequestRows
  <1>3. Debt' + faults = Debt + faults'
    <2>1. faults \in Nat
      BY DEF Typed, TypeOK
    <2>2. CASE StartRebuild
      BY <2>1, <2>2 DEF StartRebuild, Debt
    <2>3. CASE ~StartRebuild
      BY <2>3 DEF Bookings, BookVisit, CloseVisit, CancelVisit, StartOpening, Requests,
                  OpenWindow, JoinList, LeaveList, SwitchOff, CommitOpening, Debt
    <2> QED BY <2>2, <2>3
  <1>4. /\ Chances(k) \in {0, 1, 2} /\ Chances(k)' \in {0, 1, 2}
        /\ Debt \in {0, 1} /\ Debt' \in {0, 1} /\ faults \in Nat /\ faults' \in Nat
    BY CountTyped
  <1>5. Chances(k)' + Debt' + faults <= Chances(k) + Debt + faults'
    BY <1>2, <1>3, <1>4
  <1> QED BY <1>1, <1>5, CountStays

\* The commit of a rebuild pays its debt with at most one chance.
LEMMA RebuildCount ==
  ASSUME Typed, Typed', NEW k \in Messages, Counted(k),
         \E ahead \in SUBSET Visits : CommitRebuild(ahead)
  PROVE  Counted(k)'
  <1>1. PICK ahead \in SUBSET Visits : CommitRebuild(ahead)
    OBVIOUS
  <1>2. UNCHANGED <<worker, copies, faults>> /\ Debt = 1 /\ Debt' = 0
    BY <1>1 DEF CommitRebuild, sending, Debt, NoRebuild
  <1>3. Chances(k) \in {0, 1, 2} /\ Chances(k)' \in {0, 1, 2} /\ faults \in Nat
    BY CountTyped
  <1>4. Chances(k)' <= Chances(k) + 1
    <2>1. CASE Keeps(k)
      BY <1>2, <1>3, <2>1, SameChances DEF Keeps
    <2>2. CASE rows'[k].status \in {"absent", "pending"} \cup Settled
      BY <1>3, <2>2, UnclaimedChances
    <2>3. CASE rows'[k].status = "processing" /\ ~Keeps(k)
      <3>1. PICK read \in Row : rows'[k] = Unwanted(read, rows[k]) \/ rows'[k] = Wanted(read, rows[k])
        BY <1>1, <2>3, RebuildRows DEF Typed, TypeOK
      <3>2. rows[k] \in Row
        BY DEF Typed, TypeOK
      <3>3. rows'[k] # Unwanted(read, rows[k])
        BY <2>3, <3>2 DEF Unwanted, Row, Keeps
      <3>4. /\ rows[k].status = "processing" /\ rows'[k].leased = rows[k].leased
            /\ rows'[k].by \in {None, rows[k].by}
        BY <2>3, <3>1, <3>3 DEF Wanted, Merge, Keeps, NewRow, RowIn
      <3>5. CASE rows'[k].by = rows[k].by
        BY <1>2, <1>3, <2>3, <3>4, <3>5, SameChances
      <3>6. CASE rows'[k].by = None
        BY <1>3, <3>6 DEF Chances, Twice, Queued
      <3> QED BY <3>4, <3>5, <3>6
    <2>4. rows'[k].status \in {"absent"} \cup Unsent \cup Settled
      BY DEF Typed, TypeOK, Row
    <2> QED BY <2>1, <2>2, <2>3, <2>4 DEF Unsent
  <1>5. Chances(k)' + Debt' + faults <= Chances(k) + Debt + faults'
    BY <1>2, <1>3, <1>4
  <1> QED BY <1>2, <1>5, CountStays

\* Time: the end of a lease gives the row one chance more, at the price of a fault if
\* the owner still has it.
LEMMA TimeCount ==
  ASSUME Typed, Typed', NEW k \in Messages, Counted(k), Time
  PROVE  Counted(k)'
  <1>1. UNCHANGED <<worker, copies>> /\ Debt' = Debt
    BY DEF Time, BecomesDue, LeaseEnds, WindowStarts, EntryAges, sending, Debt
  <1>2. rows \in [Messages -> Row] /\ rows[k] \in Row
    BY DEF Typed, TypeOK
  <1>3. Chances(k)' + faults <= Chances(k) + faults'
    <2>1. /\ Chances(k) \in {0, 1, 2} /\ Chances(k)' \in {0, 1, 2}
          /\ faults \in Nat /\ faults' \in Nat
      BY CountTyped
    <2>2. CASE \E m \in Messages : BecomesDue(m)
      <3>1. PICK m \in Messages : BecomesDue(m)
        BY <2>2
      <3>2. rows' = [rows EXCEPT ![m] = [rows[m] EXCEPT !.due = TRUE]] /\ faults' = faults
        BY <3>1 DEF BecomesDue
      <3>3. /\ rows'[k].status = rows[k].status /\ rows'[k].leased = rows[k].leased
            /\ rows'[k].by = rows[k].by
        BY <1>2, <3>2 DEF Row
      <3> QED BY <1>1, <2>1, <3>2, <3>3, SameChances
    <2>3. CASE \E m \in Messages : LeaseEnds(m)
      <3>1. PICK m \in Messages : LeaseEnds(m)
        BY <2>3
      <3>2. rows' = [rows EXCEPT ![m] = [rows[m] EXCEPT !.leased = FALSE]]
        BY <3>1 DEF LeaseEnds
      <3>3. faults' >= faults
        BY <2>1, <3>1 DEF LeaseEnds
      <3>4. CASE m # k
        <4>1. rows'[k] = rows[k]
          BY <1>2, <3>2, <3>4
        <4>2. Chances(k)' = Chances(k)
          BY <1>1, <4>1, SameChances
        <4> QED BY <2>1, <3>3, <4>2
      <3>5. CASE m = k
        <4>1. /\ rows[k].status = "processing" /\ rows[k].leased
              /\ rows'[k].status = "processing" /\ ~rows'[k].leased /\ rows'[k].by = rows[k].by
          BY <1>2, <3>1, <3>2, <3>5 DEF LeaseEnds, Row
        <4>2. Queued(k)' = Queued(k)
          BY <1>1, <4>1 DEF Queued
        <4>3. CASE rows[k].by # None /\ HasIt(rows[k].by, k)
          <5>1. faults' = faults + 1
            BY <3>1, <3>5, <4>3 DEF LeaseEnds
          <5>2. Chances(k)' <= Chances(k) + 1
            BY <2>1, <4>1, <4>2 DEF Chances, Spent, Twice, Settled
          <5> QED BY <2>1, <5>1, <5>2
        <4>4. CASE ~(rows[k].by # None /\ HasIt(rows[k].by, k))
          <5>1. ~Queued(k) /\ ~Spent(k) /\ ~Twice(k) /\ ~Queued(k)'
            BY <4>1, <4>2, <4>4 DEF Queued, Spent, Twice, HasIt, Settled
          <5>2. Chances(k) = 1 /\ Chances(k)' <= 1
            BY <5>1 DEF Chances, Twice
          <5> QED BY <2>1, <3>3, <5>2
        <4> QED BY <4>3, <4>4
      <3> QED BY <3>4, <3>5
    <2>4. CASE (\E w \in Windows : WindowStarts(w)) \/ \E e \in Entries : EntryAges(e)
      <3>1. rows' = rows /\ faults' = faults
        BY <2>4 DEF WindowStarts, EntryAges
      <3>2. Chances(k)' = Chances(k)
        BY <1>1, <3>1, SameChances
      <3> QED BY <2>1, <3>1, <3>2
    <2> QED BY <2>2, <2>3, <2>4 DEF Time
  <1>4. /\ Chances(k) \in {0, 1, 2} /\ Chances(k)' \in {0, 1, 2}
        /\ Debt \in {0, 1} /\ faults \in Nat /\ faults' \in Nat
    BY CountTyped
  <1>5. Chances(k)' + Debt' + faults <= Chances(k) + Debt + faults'
    BY <1>1, <1>3, <1>4
  <1> QED BY <1>1, <1>5, CountStays

\* Only one worker moves.
Moves(p) == \A q \in Workers \ {p} : worker'[q] = worker[q]

LEMMA OneMoves ==
  ASSUME Typed, NEW p \in Workers, NEW r, Goes(p, r)
  PROVE  worker'[p] = r /\ Moves(p)
  <1>1. worker \in [Workers -> Worker]
    BY DEF Typed, TypeOK, Worker
  <1> QED BY <1>1 DEF Goes, Moves

\* A worker that sends something else, before the step and after it, leaves the
\* senders of a message as they are.
LEMMA AsideSenders ==
  ASSUME NEW k, NEW p \in Workers, Moves(p),
         worker[p].at # "send" \/ worker[p].msg # k,
         worker'[p].at # "send" \/ worker'[p].msg # k
  PROVE  Senders(k)' = Senders(k)
  <1>1. \A q \in Workers : q # p => worker'[q] = worker[q]
    BY DEF Moves
  <1> QED BY <1>1, SameSenders

\* A worker that does not own a row and leaves it alone changes nothing about it.
LEMMA UnownedChances ==
  ASSUME NEW k \in Messages, NEW p \in Workers, Moves(p), rows'[k] = rows[k], ~Owns(p, k)
  PROVE  Chances(k)' = Chances(k)
  <1>1. CASE rows[k].by # p
    BY <1>1, SameChances DEF Moves
  <1>2. CASE rows[k].status # "processing"
    BY <1>2 DEF Chances, Spent, Twice
  <1> QED BY <1>1, <1>2 DEF Owns

\* Neither does one that works at another message and has this one still before it,
\* or does not have it at all.
LEMMA AsideChances ==
  ASSUME NEW k \in Messages, NEW p \in Workers, Moves(p), rows'[k] = rows[k],
         k \in worker'[p].queue <=> k \in worker[p].queue,
         worker[p].at = "ready" \/ worker[p].msg # k,
         worker'[p].at = "ready" \/ worker'[p].msg # k
  PROVE  Chances(k)' = Chances(k)
  <1>1. CASE rows[k].by # p
    BY <1>1, SameChances DEF Moves
  <1>2. CASE rows[k].by = p
    <2>1. Queued(k)' = Queued(k)
      BY <1>2 DEF Queued
    <2>2. Spent(k)' = Spent(k) /\ Twice(k)' = Twice(k)
      BY <1>2, <2>1 DEF Spent, Twice, At
    <2> QED BY <2>2 DEF Chances
  <1> QED BY <1>1, <1>2

\* What a worker's step has to show for one message.
Balance(k) == Cardinality(Senders(k)) + copies[k] + Chances(k)

LEMMA WorkerBalance ==
  ASSUME Typed, Typed', NEW k \in Messages, Counted(k), UNCHANGED rebuild,
         IsFiniteSet(Senders(k)'), Balance(k)' + faults <= Balance(k) + faults'
  PROVE  Counted(k)'
  <1>1. /\ Chances(k) \in {0, 1, 2} /\ Chances(k)' \in {0, 1, 2} /\ Debt \in {0, 1}
        /\ faults \in Nat /\ faults' \in Nat /\ copies[k] \in Nat
        /\ Cardinality(Senders(k)) \in Nat
    BY CountTyped DEF Counted
  <1>2. copies'[k] \in Nat /\ Debt' = Debt
    BY DEF Typed, TypeOK, Debt
  <1>3. Cardinality(Senders(k)') \in Nat
    BY FS_CardinalityType
  <1> QED BY <1>1, <1>2, <1>3 DEF Counted, Balance

\* A claim takes one of the chances of a row, and leaves its owner one.
LEMMA ClaimCount ==
  ASSUME Typed, Typed', NEW k \in Messages, Counted(k), NEW p \in Workers, ClaimBatch(p)
  PROVE  Counted(k)'
  <1>1. PICK jobs \in Batches(Jobs), offers \in Batches(Offers) :
          /\ rows' = Claimed(p, jobs \cup offers)
          /\ Goes(p, [worker[p] EXCEPT !.queue = jobs \cup offers])
    BY DEF ClaimBatch
  <1>2. /\ worker[p].at = "ready" /\ worker[p].queue = {}
        /\ UNCHANGED <<copies, rebuild, faults>>
    BY DEF ClaimBatch, At
  <1>3. /\ worker'[p] = [worker[p] EXCEPT !.queue = jobs \cup offers] /\ Moves(p)
        /\ worker[p] \in Worker /\ rows[k] \in Row
    BY <1>1, OneMoves DEF Typed, TypeOK, Worker
  <1>4. /\ worker'[p].at = "ready" /\ worker'[p].queue = jobs \cup offers
        /\ worker'[p].answer = worker[p].answer
    BY <1>2, <1>3 DEF Worker
  <1>5. Senders(k)' = Senders(k)
    BY <1>2, <1>3, <1>4, AsideSenders
  <1>6. Chances(k)' <= Chances(k)
    <2>1. Chances(k) \in {0, 1, 2} /\ Chances(k)' \in {0, 1, 2}
      BY CountTyped
    <2>2. CASE k \in jobs \cup offers
      <3>1. Claimable(k)
        BY <2>2 DEF Batches
      <3>2. ~Spent(k)
        BY <3>1 DEF Claimable, Spent, Settled
      <3>3. rows'[k].leased /\ rows'[k].by = p
        BY <1>1, <1>3, <2>2 DEF Claimed, Row
      <3>4. ~Twice(k)'
        BY <3>3 DEF Twice
      <3> QED BY <3>2, <3>4 DEF Chances
    <2>3. CASE k \notin jobs \cup offers
      <3>1. rows'[k] = rows[k]
        BY <1>1, <2>3 DEF Claimed
      <3>2. Chances(k)' = Chances(k)
        BY <1>2, <1>3, <1>4, <2>3, <3>1, AsideChances
      <3> QED BY <2>1, <3>2
    <2> QED BY <2>2, <2>3
  <1>7. /\ Chances(k) \in {0, 1, 2} /\ Chances(k)' \in {0, 1, 2} /\ faults \in Nat
        /\ copies[k] \in Nat /\ Cardinality(Senders(k)) \in Nat
    BY CountTyped DEF Counted
  <1>8. Balance(k)' + faults <= Balance(k) + faults'
    BY <1>2, <1>5, <1>6, <1>7 DEF Balance
  <1> QED BY <1>2, <1>3, <1>4, <1>5, <1>8, WorkerBalance DEF Counted

\* Preparing turns the owner's chance into a sender.
LEMMA PrepareCount ==
  ASSUME Typed, Typed', NEW k \in Messages, Counted(k),
         NEW p \in Workers, NEW m \in Messages, Prepare(p, m)
  PROVE  Counted(k)'
  <1>1. /\ worker[p].at = "ready" /\ m \in worker[p].queue
        /\ UNCHANGED <<copies, rebuild, faults>>
    BY DEF Prepare, At
  <1>2. worker[p] \in Worker /\ rows \in [Messages -> Row]
    BY DEF Typed, TypeOK, Worker
  <1>3. /\ Chances(k) \in {0, 1, 2} /\ Chances(k)' \in {0, 1, 2} /\ faults \in Nat
        /\ copies[k] \in Nat /\ Cardinality(Senders(k)) \in Nat /\ IsFiniteSet(Senders(k))
    BY CountTyped DEF Counted
  <1>4. CASE /\ Owns(p, m) /\ rows' = rows
             /\ Goes(p, [worker[p] EXCEPT !.at = "send", !.msg = m, !.queue = @ \ {m}])
    <2>1. /\ worker'[p].at = "send" /\ worker'[p].msg = m
          /\ worker'[p].queue = worker[p].queue \ {m} /\ Moves(p)
      <3>1. /\ worker'[p] = [worker[p] EXCEPT !.at = "send", !.msg = m, !.queue = @ \ {m}]
            /\ Moves(p)
        BY <1>4, OneMoves
      <3> QED BY <1>1, <1>2, <3>1 DEF Worker
    <2>2. CASE k # m
      <3>1. Senders(k)' = Senders(k)
        BY <1>1, <2>1, <2>2, AsideSenders
      <3>2. Chances(k)' = Chances(k)
        BY <1>1, <1>4, <2>1, <2>2, AsideChances
      <3>3. Balance(k)' + faults <= Balance(k) + faults'
        BY <1>1, <1>3, <3>1, <3>2 DEF Balance
      <3> QED BY <1>1, <1>3, <2>1, <3>1, <3>3, WorkerBalance
    <2>3. CASE k = m
      <3>1. Senders(k)' = Senders(k) \cup {p} /\ p \notin Senders(k)
        BY <1>1, <2>1, <2>3 DEF Senders, At, Moves
      <3>2. IsFiniteSet(Senders(k)') /\ Cardinality(Senders(k)') = Cardinality(Senders(k)) + 1
        BY <1>3, <3>1, FS_AddElement
      <3>3. /\ Queued(k) /\ ~Queued(k)' /\ rows[k].by = p /\ rows[k].status = "processing"
            /\ rows'[k] = rows[k]
        BY <1>1, <1>4, <2>1, <2>3 DEF Queued, Owns
      <3>4. CASE rows[k].leased
        <4>1. ~Spent(k) /\ Spent(k)'
          BY <2>1, <2>3, <3>3, <3>4 DEF Spent, At, Settled
        <4>2. Chances(k)' + 1 <= Chances(k)
          BY <4>1 DEF Chances
        <4>3. Balance(k)' + faults <= Balance(k) + faults'
          BY <1>1, <1>3, <3>2, <4>2 DEF Balance
        <4> QED BY <1>1, <2>1, <3>2, <4>3, WorkerBalance
      <3>5. CASE ~rows[k].leased
        <4>1. ~Spent(k) /\ Twice(k) /\ ~Twice(k)'
          BY <3>3, <3>5 DEF Spent, Twice, Settled
        <4>2. Chances(k)' + 1 <= Chances(k)
          BY <4>1 DEF Chances
        <4>3. Balance(k)' + faults <= Balance(k) + faults'
          BY <1>1, <1>3, <3>2, <4>2 DEF Balance
        <4> QED BY <1>1, <2>1, <3>2, <4>3, WorkerBalance
      <3> QED BY <3>4, <3>5
    <2> QED BY <2>2, <2>3
  <1>5. CASE /\ Goes(p, [worker[p] EXCEPT !.queue = @ \ {m}])
             /\ \/ ~Owns(p, m) /\ rows' = rows
                \/ Owns(p, m) /\ \E s \in {"failed", "cancelled"} :
                                    rows' = [rows EXCEPT ![m] = RowIn(s)]
    <2>1. /\ worker'[p].at = "ready" /\ worker'[p].answer = worker[p].answer
          /\ worker'[p].queue = worker[p].queue \ {m} /\ Moves(p)
      BY <1>1, <1>2, <1>5, OneMoves DEF Worker
    <2>2. Senders(k)' = Senders(k)
      BY <1>1, <2>1, AsideSenders
    <2>3. Chances(k)' <= Chances(k)
      <3>1. CASE k # m
        <4>1. rows'[k] = rows[k]
          BY <1>2, <1>5, <3>1
        <4>2. Chances(k)' = Chances(k)
          BY <1>1, <2>1, <3>1, <4>1, AsideChances
        <4> QED BY <1>3, <4>2
      <3>2. CASE k = m /\ ~Owns(p, m) /\ rows' = rows
        <4>1. Chances(k)' = Chances(k)
          BY <2>1, <3>2, UnownedChances
        <4> QED BY <1>3, <4>1
      <3>3. CASE k = m /\ \E s \in {"failed", "cancelled"} : rows' = [rows EXCEPT ![m] = RowIn(s)]
        <4>1. rows'[k].status \in Settled
          BY <1>2, <3>3 DEF RowIn, Settled
        <4> QED BY <1>3, <4>1, UnclaimedChances
      <3> QED BY <1>5, <3>1, <3>2, <3>3
    <2>4. Balance(k)' + faults <= Balance(k) + faults'
      BY <1>1, <1>3, <2>2, <2>3 DEF Balance
    <2> QED BY <1>1, <1>3, <2>1, <2>2, <2>4, WorkerBalance
  <1>6. \/ /\ Owns(p, m) /\ rows' = rows
           /\ Goes(p, [worker[p] EXCEPT !.at = "send", !.msg = m, !.queue = @ \ {m}])
        \/ /\ Goes(p, [worker[p] EXCEPT !.queue = @ \ {m}])
           /\ \/ ~Owns(p, m) /\ rows' = rows
              \/ Owns(p, m) /\ \E s \in {"failed", "cancelled"} :
                                  rows' = [rows EXCEPT ![m] = RowIn(s)]
    BY DEF Prepare
  <1> QED BY <1>4, <1>5, <1>6

\* Sending turns a sender into a copy; a lost answer, which gives the row its chance
\* back as well, is a fault.
LEMMA SendCount ==
  ASSUME Typed, Typed', NEW k \in Messages, Counted(k), NEW p \in Workers, Send(p)
  PROVE  Counted(k)'
  <1>1. PICK answer \in Answers \ {"none"}, arrived \in BOOLEAN :
          /\ answer = "ok" => arrived
          /\ answer # "ok" /\ arrived => answer = "retry"
          /\ Goes(p, [worker[p] EXCEPT !.at = "record", !.answer = answer])
          /\ copies' = IF arrived THEN [copies EXCEPT ![worker[p].msg] = @ + 1] ELSE copies
          /\ faults' = IF arrived /\ answer # "ok" THEN faults + 1 ELSE faults
    BY DEF Send
  <1>2. worker[p].at = "send" /\ worker[p].msg \in Messages /\ UNCHANGED <<rows, rebuild>>
    BY DEF Send, At, Typed, BusyHasMessage
  <1>3. worker'[p] = [worker[p] EXCEPT !.at = "record", !.answer = answer] /\ Moves(p)
    BY <1>1, OneMoves
  <1>4. worker[p] \in Worker /\ copies \in [Messages -> Nat]
    BY DEF Typed, TypeOK, Worker
  <1>5. /\ worker'[p].at = "record" /\ worker'[p].answer = answer
        /\ worker'[p].msg = worker[p].msg /\ worker'[p].queue = worker[p].queue
    BY <1>3, <1>4 DEF Worker
  <1>6. /\ Chances(k) \in {0, 1, 2} /\ Chances(k)' \in {0, 1, 2}
        /\ faults \in Nat /\ faults' \in Nat
        /\ copies[k] \in Nat /\ Cardinality(Senders(k)) \in Nat /\ IsFiniteSet(Senders(k))
    BY CountTyped DEF Counted
  <1>7. CASE k # worker[p].msg
    <2>1. Senders(k)' = Senders(k)
      BY <1>3, <1>5, <1>7, AsideSenders
    <2>2. Chances(k)' = Chances(k)
      BY <1>2, <1>3, <1>5, <1>7, AsideChances
    <2>3. copies'[k] = copies[k] /\ faults' >= faults
      BY <1>1, <1>4, <1>6, <1>7
    <2>4. Balance(k)' + faults <= Balance(k) + faults'
      BY <1>6, <2>1, <2>2, <2>3 DEF Balance
    <2> QED BY <1>2, <1>3, <1>5, <1>6, <2>1, <2>4, WorkerBalance
  <1>8. CASE k = worker[p].msg
    <2>1. Senders(k)' = Senders(k) \ {p} /\ p \in Senders(k)
      <3>1. p \in Senders(k)
        BY <1>2, <1>8 DEF Senders, At
      <3>2. Senders(k)' = Senders(k) \ {p}
        BY <1>3, <1>5 DEF Senders, At, Moves
      <3> QED BY <3>1, <3>2
    <2>2. IsFiniteSet(Senders(k)') /\ Cardinality(Senders(k)') = Cardinality(Senders(k)) - 1
      BY <1>6, <2>1, FS_RemoveElement
    <2>3. Chances(k)' <= Chances(k) \/ (answer = "retry" /\ Chances(k)' <= Chances(k) + 1)
      <3>1. CASE rows[k].by # p
        <4>1. Chances(k)' = Chances(k)
          BY <1>2, <1>3, <3>1, UnownedChances DEF Owns
        <4> QED BY <1>6, <4>1
      <3>2. CASE rows[k].by = p
        <4>1. Queued(k)' = Queued(k) /\ Twice(k)' = Twice(k)
          BY <1>2, <1>5, <3>2 DEF Queued, Twice
        <4>2. CASE answer # "retry"
          <5>1. Spent(k) => Spent(k)'
            BY <1>2, <1>5, <3>2, <4>1, <4>2 DEF Spent, At
          <5> QED BY <4>1, <5>1 DEF Chances
        <4>3. CASE answer = "retry"
          <5>1. Twice(k) => ~Spent(k)
            BY DEF Twice, Spent, Settled
          <5>2. Chances(k)' <= Chances(k) + 1
            BY <4>1, <5>1 DEF Chances
          <5> QED BY <4>3, <5>2
        <4> QED BY <4>2, <4>3
      <3> QED BY <3>1, <3>2
    <2>4. CASE arrived
      <3>1. copies'[k] = copies[k] + 1
        BY <1>1, <1>2, <1>4, <1>8, <2>4, Zenon
      <3>2. Chances(k)' + faults <= Chances(k) + faults'
        BY <1>1, <1>6, <2>3, <2>4
      <3>3. Balance(k)' + faults <= Balance(k) + faults'
        BY <1>6, <2>2, <3>1, <3>2 DEF Balance
      <3> QED BY <1>2, <1>3, <1>5, <2>2, <3>3, WorkerBalance
    <2>5. CASE ~arrived
      <3>1. copies'[k] = copies[k] /\ faults' = faults
        BY <1>1, <2>5
      <3>2. Balance(k)' + faults <= Balance(k) + faults'
        BY <1>6, <2>2, <2>3, <3>1 DEF Balance
      <3> QED BY <1>2, <1>3, <1>5, <2>2, <3>2, WorkerBalance
    <2> QED BY <2>4, <2>5
  <1> QED BY <1>7, <1>8

\* Recording settles the row, or leaves it the chance it had.
LEMMA RecordCount ==
  ASSUME Typed, Typed', NEW k \in Messages, Counted(k), NEW p \in Workers, Record(p)
  PROVE  Counted(k)'
  <1> DEFINE m == worker[p].msg
  <1>1. /\ worker[p].at = "record" /\ UNCHANGED <<copies, rebuild, faults>>
        /\ worker[p] \in Worker /\ rows \in [Messages -> Row]
    BY DEF Record, At, Typed, TypeOK, Worker
  <1>2. /\ worker'[p] = [worker[p] EXCEPT !.at = "ready", !.msg = None, !.answer = "none"]
        /\ Moves(p)
    BY OneMoves DEF Record
  <1>3. /\ worker'[p].at = "ready" /\ worker'[p].answer = "none"
        /\ worker'[p].queue = worker[p].queue
    BY <1>1, <1>2 DEF Worker
  <1>4. \/ ~Owns(p, m) /\ rows' = rows
        \/ Owns(p, m) /\ rows' = [rows EXCEPT ![m] = Outcome(rows[m], worker[p].answer)]
    BY DEF Record
  <1>5. Senders(k)' = Senders(k)
    BY <1>1, <1>2, <1>3, AsideSenders
  <1>6. /\ Chances(k) \in {0, 1, 2} /\ Chances(k)' \in {0, 1, 2} /\ faults \in Nat
        /\ copies[k] \in Nat /\ Cardinality(Senders(k)) \in Nat /\ IsFiniteSet(Senders(k))
    BY CountTyped DEF Counted
  <1>7. Chances(k)' <= Chances(k)
    <2>1. CASE k # m
      <3>1. rows'[k] = rows[k]
        BY <1>1, <1>4, <2>1
      <3>2. Chances(k)' = Chances(k)
        BY <1>2, <1>3, <2>1, <3>1, AsideChances
      <3> QED BY <1>6, <3>2
    <2>2. CASE k = m /\ ~Owns(p, m) /\ rows' = rows
      <3>1. Chances(k)' = Chances(k)
        BY <1>2, <2>2, UnownedChances
      <3> QED BY <1>6, <3>1
    <2>3. CASE k = m /\ Owns(p, m) /\ rows'[k] = Outcome(rows[k], worker[p].answer)
      <3>1. CASE worker[p].answer # "retry"
        <4>1. rows'[k].status \in Settled
          BY <2>3, <3>1 DEF Outcome, RowIn, Settled
        <4> QED BY <1>6, <4>1, UnclaimedChances
      <3>2. CASE worker[p].answer = "retry"
        <4>1. rows'[k].status \in {"pending"} \cup Settled
          BY <2>3, <3>2 DEF Outcome, Retried, RowIn, NewRow, Settled
        <4>2. ~Spent(k)
          BY <1>1, <2>3, <3>2 DEF Spent, Owns, Settled, At
        <4>3. Chances(k) >= 1
          BY <4>2 DEF Chances
        <4> QED BY <1>6, <4>1, <4>3, UnclaimedChances
      <3> QED BY <3>1, <3>2
    <2> QED BY <1>1, <1>4, <2>1, <2>2, <2>3
  <1>8. Balance(k)' + faults <= Balance(k) + faults'
    BY <1>1, <1>5, <1>6, <1>7 DEF Balance
  <1> QED BY <1>1, <1>2, <1>3, <1>5, <1>6, <1>8, WorkerBalance

\* A crash leaves its rows to others, at the price of a fault.
LEMMA CrashCount ==
  ASSUME Typed, Typed', NEW k \in Messages, Counted(k), NEW p \in Workers, Crash(p)
  PROVE  Counted(k)'
  <1>1. worker'[p] = Idle /\ Moves(p)
    BY OneMoves DEF Crash
  <1>2. faults' = faults + 1 /\ UNCHANGED <<rows, copies, rebuild>>
    BY DEF Crash
  <1>3. worker'[p].at = "ready" /\ worker'[p].answer = "none" /\ worker'[p].queue = {}
    BY <1>1 DEF Idle
  <1>4. /\ Chances(k) \in {0, 1, 2} /\ Chances(k)' \in {0, 1, 2} /\ faults \in Nat
        /\ copies[k] \in Nat /\ Cardinality(Senders(k)) \in Nat /\ IsFiniteSet(Senders(k))
    BY CountTyped DEF Counted
  <1>5. Senders(k)' = Senders(k) \ {p}
    BY <1>1, <1>3 DEF Senders, At, Moves
  <1>6. IsFiniteSet(Senders(k)') /\ Cardinality(Senders(k)') <= Cardinality(Senders(k))
    <2>1. /\ IsFiniteSet(Senders(k) \ {p})
          /\ Cardinality(Senders(k) \ {p}) =
               IF p \in Senders(k) THEN Cardinality(Senders(k)) - 1 ELSE Cardinality(Senders(k))
      BY <1>4, FS_RemoveElement
    <2> QED BY <1>4, <1>5, <2>1
  <1>7. Chances(k)' <= Chances(k) + 1
    <2>1. CASE rows[k].by # p
      <3>1. Chances(k)' = Chances(k)
        BY <1>1, <1>2, <2>1, UnownedChances DEF Owns
      <3> QED BY <1>4, <3>1
    <2>2. CASE rows[k].by = p
      <3>1. ~Twice(k)'
        BY <1>2, <1>3, <2>2 DEF Twice, Queued
      <3> QED BY <1>4, <3>1 DEF Chances
    <2> QED BY <2>1, <2>2
  <1>8. Cardinality(Senders(k)') \in Nat
    BY <1>6, FS_CardinalityType
  <1>9. Balance(k)' + faults <= Balance(k) + faults'
    BY <1>2, <1>4, <1>6, <1>7, <1>8 DEF Balance
  <1> QED BY <1>1, <1>2, <1>3, <1>6, <1>9, WorkerBalance

LEMMA CopiesStep == CopiesInv /\ Typed' /\ Unwritten' /\ [Next]_vars => CopiesInv'
  <1> SUFFICES ASSUME CopiesInv, Typed', Unwritten', [Next]_vars, NEW k \in Messages
               PROVE  Counted(k)'
    BY DEF CopiesInv
  <1>1. Typed /\ Unwritten /\ Counted(k)
    BY DEF CopiesInv
  <1>2. CASE UNCHANGED vars
    <2>1. Chances(k)' = Chances(k) /\ Senders(k)' = Senders(k)
      BY <1>2, SameChances, SameSenders DEF vars
    <2> QED BY <1>1, <1>2, <2>1 DEF vars, Counted, Debt
  <1>3. CASE Bookings \/ Commits \/ Requests
    BY <1>1, <1>3, RequestCount, RebuildCount DEF Commits
  <1>4. CASE Time
    BY <1>1, <1>4, TimeCount
  <1>5. CASE \E p \in Workers : Works(p) \/ Crash(p)
    BY <1>1, <1>5, ClaimCount, PrepareCount, SendCount, RecordCount, CrashCount DEF Works
  <1> QED BY <1>2, <1>3, <1>4, <1>5 DEF Next

LEMMA CopiesInit == Init => CopiesInv
  <1> SUFFICES ASSUME Init, NEW k \in Messages PROVE Counted(k)
    BY TypedInit, UnwrittenInit DEF CopiesInv
  <1>1. Senders(k) = {}
    <2>1. \A p \in Workers : worker[p].at = "ready"
      BY DEF Init, Idle
    <2> QED BY <2>1 DEF Senders, At
  <1>2. rows[k].status = "absent" /\ copies[k] = 0 /\ faults = 0 /\ Debt = 0
    BY DEF Init, RowIn, Debt, NoRebuild
  <1>3. Chances(k) = 1
    BY <1>2 DEF Chances, Spent, Twice, Settled
  <1>4. IsFiniteSet(Senders(k)) /\ Cardinality(Senders(k)) = 0
    BY <1>1, FS_EmptySet
  <1> QED BY <1>2, <1>3, <1>4 DEF Counted

\* A recipient gets a second copy of a message only at the price of a fault, however
\* many workers race for its row, and however often it is retried, silenced, offered
\* again or rebuilt (claim_due, _claimed, enqueue_match, _rebuild_future_reminders).
THEOREM ExtraCopyCosts == Spec => []ExtraCopyNeedsFault
  <1>1. CopiesInv => ExtraCopyNeedsFault
    <2> SUFFICES ASSUME CopiesInv, NEW k \in Messages PROVE copies[k] <= 1 + faults
      BY DEF ExtraCopyNeedsFault
    <2>1. Typed /\ Counted(k)
      BY DEF CopiesInv
    <2>2. /\ copies[k] \in Nat /\ faults \in Nat /\ Debt \in {0, 1} /\ Chances(k) \in {0, 1, 2}
      BY <2>1 DEF Typed, TypeOK, Debt, Chances
    <2>3. Cardinality(Senders(k)) \in Nat
      BY <2>1, FS_CardinalityType DEF Counted
    <2> QED BY <2>1, <2>2, <2>3 DEF Counted
  <1>2. Spec => []CopiesInv
    BY CopiesInit, CopiesStep, UnwrittenHolds, PTL DEF Spec
  <1> QED BY <1>1, <1>2, PTL
=============================================================================
