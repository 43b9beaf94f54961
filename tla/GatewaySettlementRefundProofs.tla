-------------------- MODULE GatewaySettlementRefundProofs -------------------
(***************************************************************************)
(* More theorems about the settlement engine: what an answered settle      *)
(* means, what a refund does to the books and tells the ACL, and that no   *)
(* event is lost while no request vanishes.  They come after the           *)
(* refinement because the last of them uses what it says of publishing.    *)
(***************************************************************************)
EXTENDS GatewaySettlementRefinement

-----------------------------------------------------------------------------
(* What a step leaves alone, variable by variable.                         *)

\* A step moves one request at most.
LEMMA EngineJobFrame ==
    ASSUME TypeOK, [EngineNext]_vars, NEW v \in Worker
    PROVE  \/ job'[v] = job[v]
           \/ \E t \in Txn : SettleRead(v, t) \/ RefundRead(v, t)
           \/ Proceeds(v) \/ Reply(v)
<1>1. CASE \E w \in Worker, t \in Txn : SettleRead(w, t) \/ RefundRead(w, t)
  <2>1. PICK w \in Worker, t \in Txn : SettleRead(w, t) \/ RefundRead(w, t)
    BY <1>1
  <2>2. v # w => job'[v] = job[v]
    BY <2>1 DEF TypeOK, SettleRead, RefundRead, Enter, Finish, Goto
  <2>3. QED
    BY <2>1, <2>2
<1>2. CASE \E w \in Worker : PostBooked(w) \/ PostReused(w) \/ PostRejected(w)
  BY <1>2 DEF TypeOK, Proceeds, PostBooked, PostReused, PostRejected, Acknowledge, Goto
<1>3. CASE \E w \in Worker : MarkFeeFailed(w) \/ Publish(w) \/ Reply(w)
  BY <1>3 DEF TypeOK, Proceeds, MarkFeeFailed, Publish, Reply, Finish, Goto
<1>4. CASE \E w \in Worker : TransitionToSettled(w) \/ TransitionToRefunded(w)
  BY <1>4 DEF TypeOK, Proceeds, TransitionToSettled, TransitionToRefunded, Finish, Goto
<1>5. CASE UNCHANGED job
  BY <1>5
<1>6. QED
  BY <1>1, <1>2, <1>3, <1>4, <1>5 DEF EngineNext, WorkerStep, Proceeds, LinkPaymentEntry, vars

LEMMA JobFrame ==
    ASSUME TypeOK, [Next]_vars, NEW v \in Worker
    PROVE  \/ job'[v] = job[v]
           \/ \E t \in Txn : SettleRead(v, t) \/ RefundRead(v, t)
           \/ Proceeds(v) \/ Reply(v) \/ Abandon(v)
<1>1. CASE \E w \in Worker : Abandon(w)
  BY <1>1 DEF TypeOK, Abandon, Goto
<1>2. CASE [EngineNext]_vars
  BY <1>2, EngineJobFrame
<1>3. QED
  BY <1>1, <1>2 DEF Next

\* Journals are only ever appended, one envelope of a request at its post.
LEMMA LedgerFrame ==
    ASSUME TypeOK, [Next]_vars, NEW t \in Txn
    PROVE  \/ ledger'[t] = ledger[t]
           \/ \E w \in Worker :
                 PostBooked(w) /\ job[w].txn = t /\ ledger'[t] = Append(ledger[t], job[w].env)
<1>1. CASE \E w \in Worker : PostBooked(w)
  BY <1>1 DEF TypeOK, PostBooked
<1>2. CASE UNCHANGED ledger
  BY <1>2
<1>3. QED
  BY <1>1, <1>2
  DEF Next, EngineNext, WorkerStep, Proceeds, SettleRead, RefundRead, PostReused, PostRejected,
      MarkFeeFailed, TransitionToSettled, TransitionToRefunded, Publish, Reply, Abandon,
      LinkPaymentEntry, vars

\* So are the published events, one of a request at its publish.
LEMMA StreamFrame ==
    ASSUME TypeOK, [Next]_vars, NEW t \in Txn
    PROVE  \/ published'[t] = published[t]
           \/ \E w \in Worker :
                 Publish(w) /\ job[w].txn = t /\ published'[t] = Append(published[t], job[w].event)
<1>1. CASE \E w \in Worker : Publish(w)
  BY <1>1 DEF TypeOK, Publish
<1>2. CASE UNCHANGED published
  BY <1>2
<1>3. QED
  BY <1>1, <1>2
  DEF Next, EngineNext, WorkerStep, Proceeds, SettleRead, RefundRead, PostBooked, PostReused,
      PostRejected, MarkFeeFailed, TransitionToSettled, TransitionToRefunded, Reply, Abandon,
      LinkPaymentEntry, vars

\* No request deletes a row, and the link to a PaymentEntry, once there, stays.
LEMMA LinkFrame ==
    ASSUME TypeOK, [Next]_vars, NEW t \in Txn
    PROVE  /\ rows'[t].deleted = rows[t].deleted
           /\ rows'[t].gross_amount = rows[t].gross_amount
           /\ \/ rows'[t].payment_entry_id = rows[t].payment_entry_id
              \/ rows[t].payment_entry_id = None
<1>1. rows \in [Txn -> Row] /\ rows[t] \in Row
  BY DEF TypeOK
<1>2. CASE \E w \in Worker : MarkFeeFailed(w)
  <2>1. PICK w \in Worker : \/ rows' = [rows EXCEPT ![job[w].txn].posting_state = "failed"]
                            \/ rows' = rows
    BY <1>2 DEF MarkFeeFailed
  <2>2. QED
    BY <1>1, <2>1 DEF Row
<1>3. CASE \E u \in Txn, e \in PaymentEntry : LinkPaymentEntry(u, e)
  <2>1. PICK u \in Txn, e \in PaymentEntry :
              /\ rows[u].payment_entry_id = None
              /\ rows' = [rows EXCEPT ![u].payment_entry_id = e]
    BY <1>3 DEF LinkPaymentEntry
  <2>2. QED
    BY <1>1, <2>1 DEF Row
<1>4. CASE \E w \in Worker : TransitionToSettled(w)
  <2>1. PICK w \in Worker :
            \/ rows' = rows
            \/ rows' = [rows EXCEPT
                  ![job[w].txn].status = "settled",
                  ![job[w].txn].fee_post_id = job[w].ack,
                  ![job[w].txn].posting_state = IF job[w].ack > 0 THEN "posted" ELSE "pending"]
    BY <1>4 DEF TransitionToSettled
  <2>2. QED
    BY <1>1, <2>1 DEF Row
<1>5. CASE \E w \in Worker : TransitionToRefunded(w)
  <2>1. PICK w \in Worker : \/ rows' = rows
                            \/ rows' = [rows EXCEPT ![job[w].txn].status = "refunded"]
    BY <1>5 DEF TransitionToRefunded
  <2>2. QED
    BY <1>1, <2>1 DEF Row
<1>6. CASE rows' = rows
  BY <1>6
<1>7. QED
  BY <1>2, <1>3, <1>4, <1>5, <1>6
  DEF Next, EngineNext, WorkerStep, Proceeds, SettleRead, RefundRead, PostBooked,
      PostReused, PostRejected, Publish, Reply, Abandon, vars

-----------------------------------------------------------------------------
(* The answer.                                                             *)

\* The engine itself neither deletes a row nor lets it fail.
NeverFailed(t) == rows[t].status # "failed"

\* A request works on a row it found, and nothing deletes the row.
FoundLive(w) == job[w].pc \in {"post", "transition"} => ~rows[job[w].txn].deleted

\* A refund works on a row it found settled.
RefundStarted(w) ==
    job[w].pc \in {"post", "transition"} /\ job[w].op = "refund" =>
        rows[job[w].txn].status \in Terminal

AnswerIsTrue(w) ==
    job[w].pc = "done" /\ job[w].outcome \in {"settled", "already_settled"} =>
        rows[job[w].txn].status \in Terminal

\* AcknowledgedMeansSettled is not inductive: the loser of the race answers
\* "already_settled" because its UPDATE found no open row, which says that the
\* row settled only as long as nothing else takes a row out of the open states.
AckInv ==
    /\ \A t \in Txn : NeverFailed(t)
    /\ \A w \in Worker : FoundLive(w) /\ RefundStarted(w) /\ AnswerIsTrue(w)

\* A settled row is never open again.
LEMMA SettledStays ==
    ASSUME TypeOK, [Next]_vars
    PROVE  \A t \in Txn : rows[t].status \in Terminal => rows'[t].status \in Terminal
  BY RowFrame DEF Terminal

\* A request between its read and its answer is about a row.
LEMMA JobRow ==
    ASSUME TypeOK, NEW w \in Worker, job[w] # Idle
    PROVE  job[w].txn \in Txn /\ job[w].op \in Op
  BY DEF TypeOK, Job, Posting, Marking, Moving, Publishing, Done

LEMMA InitAck == Init => AckInv
<1> SUFFICES ASSUME Init PROVE AckInv
  OBVIOUS
<1>1. \A t \in Txn : NeverFailed(t)
  BY NewRowAssumption DEF Init, NeverFailed, OpenStatus
<1>2. \A w \in Worker : FoundLive(w) /\ RefundStarted(w) /\ AnswerIsTrue(w)
  BY DEF Init, Idle, FoundLive, RefundStarted, AnswerIsTrue
<1>3. QED
  BY <1>1, <1>2 DEF AckInv

LEMMA WorkStays ==
    ASSUME TypeOK, AckInv, [Next]_vars, NEW w \in Worker
    PROVE  FoundLive(w)' /\ RefundStarted(w)'
<1> SUFFICES ASSUME job'[w].pc \in {"post", "transition"}
             PROVE  /\ ~rows'[job'[w].txn].deleted
                    /\ job'[w].op = "refund" => rows'[job'[w].txn].status \in Terminal
  BY DEF FoundLive, RefundStarted
<1>1. CASE /\ job[w].pc \in {"post", "transition"} /\ job'[w].op = job[w].op
           /\ job'[w].txn = job[w].txn
  <2>1. /\ ~rows[job[w].txn].deleted
        /\ job[w].op = "refund" => rows[job[w].txn].status \in Terminal
    BY <1>1 DEF AckInv, FoundLive, RefundStarted
  <2>2. job[w].txn \in Txn
    BY <1>1, JobRow DEF Idle
  <2>3. QED
    BY <1>1, <2>1, <2>2, SettledStays, LinkFrame
<1>2. CASE job'[w] = job[w]
  BY <1>1, <1>2
<1>3. CASE \E t \in Txn : SettleRead(w, t) \/ RefundRead(w, t)
  <2>1. PICK t \in Txn : SettleRead(w, t) \/ RefundRead(w, t)
    BY <1>3
  <2>2. /\ job'[w].txn = t /\ ~rows[t].deleted /\ rows' = rows
        /\ job'[w].op = "refund" => rows[t].status = "settled"
    BY <2>1 DEF TypeOK, SettleRead, RefundRead, Enter, Finish, Goto
  <2>3. QED
    BY <2>2 DEF Terminal
<1>4. CASE PostBooked(w) \/ PostReused(w)
  BY <1>1, <1>4 DEF TypeOK, PostBooked, PostReused, Acknowledge, Goto
<1>5. CASE PostRejected(w) \/ MarkFeeFailed(w) \/ Publish(w) \/ Reply(w) \/ Abandon(w)
  BY <1>5 DEF TypeOK, PostRejected, MarkFeeFailed, Publish, Reply, Abandon, Finish, Goto, Idle
<1>6. CASE TransitionToSettled(w) \/ TransitionToRefunded(w)
  BY <1>6 DEF TypeOK, TransitionToSettled, TransitionToRefunded, Finish, Goto
<1>7. QED
  BY <1>2, <1>3, <1>4, <1>5, <1>6, JobFrame DEF Proceeds

LEMMA AnswerStays ==
    ASSUME TypeOK, SeamInv, AckInv, [Next]_vars, NEW w \in Worker
    PROVE  AnswerIsTrue(w)'
<1> SUFFICES ASSUME job'[w].pc = "done", job'[w].outcome \in {"settled", "already_settled"}
             PROVE  rows'[job'[w].txn].status \in Terminal
  BY DEF AnswerIsTrue
<1>1. CASE job'[w] = job[w]
  <2>1. job[w].txn \in Txn /\ rows[job[w].txn].status \in Terminal
    BY <1>1, JobRow DEF AckInv, AnswerIsTrue, Idle
  <2>2. QED
    BY <1>1, <2>1, SettledStays
<1>2. CASE \E t \in Txn : SettleRead(w, t) \/ RefundRead(w, t)
  BY <1>2 DEF TypeOK, SettleRead, RefundRead, Enter, Finish, Goto, Terminal
<1>3. CASE TransitionToSettled(w)
  <2>1. job[w].txn \in Txn /\ rows' = rows /\ job'[w].txn = job[w].txn /\ ~MaySettle(job[w].txn)
    BY <1>3, JobRow DEF TypeOK, TransitionToSettled, Finish, Goto, Idle
  <2>2. rows[job[w].txn] \in Row /\ NeverFailed(job[w].txn) /\ ~rows[job[w].txn].deleted
    BY <1>3, <2>1 DEF TypeOK, AckInv, FoundLive, TransitionToSettled
  <2>3. QED
    BY <2>1, <2>2 DEF NeverFailed, MaySettle, Row
<1>4. CASE TransitionToRefunded(w)
  <2>1. job[w].txn \in Txn /\ rows' = rows /\ job'[w].txn = job[w].txn
    BY <1>4, JobRow DEF TypeOK, TransitionToRefunded, Finish, Goto, Idle
  <2>2. rows[job[w].txn].status \in Terminal
    BY <1>4 DEF AckInv, RefundStarted, TransitionToRefunded
  <2>3. QED
    BY <2>1, <2>2
<1>5. CASE Publish(w)
  <2>1. PICK t \in Txn, ev \in Event : job[w].txn = t /\ job[w].event = ev
    BY <1>5, JobAt DEF TypeOK, Publish, Publishing
  <2>2. rows' = rows /\ job'[w].txn = t /\ AboutToPublish(w, t, ev.kind) /\ ev.kind \in Kind
    BY <1>5, <2>1 DEF TypeOK, Publish, Finish, Goto, AboutToPublish, Event, Kind
  <2>3. Reached(t, ev.kind)
    BY <2>2 DEF SeamInv
  <2>4. QED
    BY <2>2, <2>3 DEF Reached, Terminal
<1>6. CASE MarkFeeFailed(w)
  BY <1>6 DEF TypeOK, MarkFeeFailed, Finish, Goto
<1>7. CASE PostBooked(w) \/ PostReused(w) \/ PostRejected(w) \/ Reply(w) \/ Abandon(w)
  BY <1>7 DEF TypeOK, PostBooked, PostReused, PostRejected, Reply, Abandon, Acknowledge, Goto, Idle
<1>8. QED
  BY <1>1, <1>2, <1>3, <1>4, <1>5, <1>6, <1>7, JobFrame DEF Proceeds

LEMMA StepAck == TypeOK /\ SeamInv /\ AckInv /\ [Next]_vars => AckInv'
<1> SUFFICES ASSUME TypeOK, SeamInv, AckInv, [Next]_vars PROVE AckInv'
  OBVIOUS
<1>1. \A t \in Txn : NeverFailed(t)'
  BY RowFrame DEF AckInv, NeverFailed
<1>2. QED
  BY <1>1, WorkStays, AnswerStays DEF AckInv

LEMMA AckInvariant == Spec => []AckInv
<1>1. Spec => [](TypeOK /\ SeamInv)
  BY TypeCorrect, InitSeam, StepSeam, PTL DEF Spec
<1>2. QED
  BY <1>1, InitAck, StepAck, PTL DEF Spec

LEMMA AnswersAck == AckInv => AcknowledgedMeansSettled
  BY DEF AckInv, AnswerIsTrue, AcknowledgedMeansSettled

\* A caller who was told that a settle or a refund is done, or was done before,
\* may stop asking: the row has settled, also when another request won the race.
THEOREM AnswersAreTrue == Spec => []AcknowledgedMeansSettled
  BY AnswersAck, AckInvariant, PTL

-----------------------------------------------------------------------------
(* The PaymentEntry a refund names.                                        *)

Names(x, t) == x.payment_entry_id \in {None, rows[t].payment_entry_id}

SnapshotNames(w) ==
    job[w].pc \in {"post", "transition"} => Names(job[w].src, job[w].txn)

EventNames(w) == job[w].pc = "publish" => Names(job[w].event, job[w].txn)

\* RefundNamesLinkedEntry speaks of published events; they are made from the
\* snapshot of a refund, which is older than the row.
EntryInv ==
    /\ \A w \in Worker : SnapshotNames(w) /\ EventNames(w)
    /\ RefundNamesLinkedEntry

\* What was named stays named.
LEMMA NamesStay ==
    ASSUME TypeOK, [Next]_vars, NEW t \in Txn, NEW x, Names(x, t)
    PROVE  x.payment_entry_id \in {None, rows'[t].payment_entry_id}
  BY LinkFrame DEF Names

LEMMA InitEntry == Init => EntryInv
  BY DEF Init, EntryInv, SnapshotNames, EventNames, Idle, RefundNamesLinkedEntry

LEMMA SnapshotStays ==
    ASSUME TypeOK, EntryInv, [Next]_vars, NEW w \in Worker
    PROVE  SnapshotNames(w)'
<1> SUFFICES ASSUME job'[w].pc \in {"post", "transition"}
             PROVE  job'[w].src.payment_entry_id \in {None, rows'[job'[w].txn].payment_entry_id}
  BY DEF SnapshotNames, Names
<1>1. CASE /\ job[w].pc \in {"post", "transition"}
           /\ job'[w].txn = job[w].txn /\ job'[w].src = job[w].src
  <2>1. job[w].txn \in Txn
    BY <1>1, JobRow DEF Idle
  <2>2. Names(job[w].src, job[w].txn)
    BY <1>1 DEF EntryInv, SnapshotNames
  <2>3. QED
    BY <1>1, <2>1, <2>2, NamesStay
<1>2. CASE \E t \in Txn : SettleRead(w, t) \/ RefundRead(w, t)
  <2>1. PICK t \in Txn : SettleRead(w, t) \/ RefundRead(w, t)
    BY <1>2
  <2>2. job'[w].txn = t /\ job'[w].src = rows[t]
    BY <2>1 DEF TypeOK, SettleRead, RefundRead, Enter, Finish, Goto
  <2>3. QED
    BY <2>2, NamesStay DEF Names
<1>3. CASE PostBooked(w) \/ PostReused(w)
  BY <1>1, <1>3 DEF TypeOK, PostBooked, PostReused, Acknowledge, Goto
<1>4. CASE PostRejected(w) \/ MarkFeeFailed(w) \/ Publish(w) \/ Reply(w) \/ Abandon(w)
  BY <1>4 DEF TypeOK, PostRejected, MarkFeeFailed, Publish, Reply, Abandon, Finish, Goto, Idle
<1>5. CASE TransitionToSettled(w) \/ TransitionToRefunded(w)
  BY <1>5 DEF TypeOK, TransitionToSettled, TransitionToRefunded, Finish, Goto
<1>6. CASE job'[w] = job[w]
  BY <1>1, <1>6
<1>7. QED
  BY <1>2, <1>3, <1>4, <1>5, <1>6, JobFrame DEF Proceeds

LEMMA EventStays ==
    ASSUME TypeOK, EntryInv, [Next]_vars, NEW w \in Worker
    PROVE  EventNames(w)'
<1> SUFFICES ASSUME job'[w].pc = "publish"
             PROVE  job'[w].event.payment_entry_id \in {None, rows'[job'[w].txn].payment_entry_id}
  BY DEF EventNames, Names
<1>1. CASE job'[w] = job[w]
  <2>1. job[w].txn \in Txn /\ Names(job[w].event, job[w].txn)
    BY <1>1, JobRow DEF Idle, EntryInv, EventNames
  <2>2. QED
    BY <1>1, <2>1, NamesStay
<1>2. CASE TransitionToSettled(w)
  BY <1>2 DEF TypeOK, TransitionToSettled, Finish, Goto, SettledEvent
<1>3. CASE TransitionToRefunded(w)
  <2>1. /\ job'[w].txn = job[w].txn
        /\ job'[w].event.payment_entry_id = job[w].src.payment_entry_id
    BY <1>3 DEF TypeOK, TransitionToRefunded, Finish, Goto, RefundedEvent
  <2>2. job[w].txn \in Txn /\ Names(job[w].src, job[w].txn)
    BY <1>3, JobRow DEF TransitionToRefunded, Idle, EntryInv, SnapshotNames
  <2>3. QED
    BY <2>1, <2>2, NamesStay
<1>4. CASE \E t \in Txn : SettleRead(w, t) \/ RefundRead(w, t)
  BY <1>4 DEF TypeOK, SettleRead, RefundRead, Enter, Finish, Goto
<1>5. CASE \/ PostBooked(w) \/ PostReused(w) \/ PostRejected(w) \/ MarkFeeFailed(w)
           \/ Publish(w) \/ Reply(w) \/ Abandon(w)
  BY <1>5 DEF TypeOK, PostBooked, PostReused, PostRejected, MarkFeeFailed, Publish, Reply,
              Abandon, Acknowledge, Finish, Goto, Idle
<1>6. QED
  BY <1>1, <1>2, <1>3, <1>4, <1>5, JobFrame DEF Proceeds

LEMMA StepEntry == TypeOK /\ EntryInv /\ [Next]_vars => EntryInv'
<1> SUFFICES ASSUME TypeOK, EntryInv, [Next]_vars PROVE EntryInv'
  OBVIOUS
<1>1. ASSUME NEW t \in Txn, NEW i \in 1 .. Len(published'[t])
      PROVE  published'[t][i].payment_entry_id \in {None, rows'[t].payment_entry_id}
  <2>1. published[t] \in Seq(Event)
    BY DEF TypeOK
  <2>2. \A j \in 1 .. Len(published[t]) : Names(published[t][j], t)
    BY DEF EntryInv, RefundNamesLinkedEntry, Names
  <2>3. CASE published'[t] = published[t]
    BY <1>1, <2>2, <2>3, NamesStay
  <2>4. CASE \E w \in Worker : Publish(w) /\ job[w].txn = t
                               /\ published'[t] = Append(published[t], job[w].event)
    <3>1. PICK w \in Worker : Publish(w) /\ job[w].txn = t
                              /\ published'[t] = Append(published[t], job[w].event)
      BY <2>4
    <3>2. job[w].event \in Event /\ Names(job[w].event, t)
      BY <3>1, JobAt DEF TypeOK, Publish, Publishing, EntryInv, EventNames
    <3>3. \/ i \in 1 .. Len(published[t]) /\ published'[t][i] = published[t][i]
          \/ published'[t][i] = job[w].event
      BY <1>1, <2>1, <3>1, <3>2, Appended
    <3>4. QED
      BY <2>2, <3>2, <3>3, NamesStay
  <2>5. QED
    BY <2>3, <2>4, StreamFrame
<1>2. RefundNamesLinkedEntry'
  BY <1>1 DEF RefundNamesLinkedEntry
<1>3. QED
  BY <1>2, SnapshotStays, EventStays DEF EntryInv

\* What moves neither a request, a link nor an event spoils no name.
LEMMA LinksKeepEntry ==
    ASSUME TypeOK, EntryInv, job' = job, published' = published,
           \A t \in Txn : rows'[t].payment_entry_id = rows[t].payment_entry_id
    PROVE  EntryInv'
<1>1. ASSUME NEW w \in Worker PROVE SnapshotNames(w)' /\ EventNames(w)'
  <2>1. CASE job[w] = Idle
    BY <2>1 DEF Idle, SnapshotNames, EventNames
  <2>2. CASE job[w] # Idle
    <3>1. PICK t \in Txn : job[w].txn = t
      BY <2>2, JobRow
    <3>2. SnapshotNames(w) /\ EventNames(w) /\ job'[w] = job[w]
      BY DEF EntryInv
    <3>3. QED
      BY <3>1, <3>2 DEF SnapshotNames, EventNames, Names
  <2>3. QED
    BY <2>1, <2>2
<1>2. RefundNamesLinkedEntry'
  BY DEF EntryInv, RefundNamesLinkedEntry
<1>3. QED
  BY <1>1, <1>2 DEF EntryInv

\* Whatever the ACL links and however often its drive is redelivered, no
\* refunded event tells it to reverse an entry that is not the one the row
\* links: the link is written once, so a snapshot of it is None or right.
THEOREM RefundsNameTheLink == Spec => []RefundNamesLinkedEntry
<1>1. EntryInv => RefundNamesLinkedEntry
  BY DEF EntryInv
<1>2. Spec => []EntryInv
  BY TypeCorrect, InitEntry, StepEntry, PTL DEF Spec
<1>3. QED
  BY <1>1, <1>2, PTL

-----------------------------------------------------------------------------
(* The reversal of the fee.                                                *)

\* The envelope of a request is still the one its composer would make now.
EnvelopeCurrent(w) ==
    job[w].pc = "post" =>
        job[w].env = IF job[w].op = "settle" THEN compose_fee_post(rows[job[w].txn])
                     ELSE compose_fee_reversal(rows[job[w].txn])

\* A refund at its transition has the fee it owes reversed, by a sink that can
\* tell the reversal from the original.
MovingReversed(w) ==
    DedupKey # "source_id" /\ job[w].pc = "transition" /\ job[w].op = "refund"
    /\ HasFeePost(rows[job[w].txn]) =>
        Booked(job[w].txn, "reversal") # {}

FeeJournalsCurrent(t) ==
    \A i \in Booked(t, "original") : ledger[t][i] = compose_fee_post(rows[t])

\* A reversal is of a settled row, is the one its row asks for, and comes after
\* the journal the row links.
ReversalsCurrent(t) ==
    \A i \in Booked(t, "reversal") :
        /\ rows[t].status \in Terminal
        /\ ledger[t][i] = compose_fee_reversal(rows[t])
        /\ rows[t].fee_post_id \in Booked(t, "original")
        /\ rows[t].fee_post_id < i

RefundedReversed(t) ==
    DedupKey # "source_id" /\ rows[t].status = "refunded" /\ HasFeePost(rows[t]) =>
        Booked(t, "reversal") # {}

\* What ties the reversals to the rows while refunds are between their read,
\* their post and their transition.  fee_post_id does not move once the row
\* has settled, so the snapshot a refund took of it stays right.
RefundInv ==
    /\ \A w \in Worker : EnvelopeCurrent(w) /\ MovingReversed(w)
    /\ \A t \in Txn : FeeJournalsCurrent(t) /\ ReversalsCurrent(t) /\ RefundedReversed(t)

\* Nothing the composers read changes, but for the link of a row that settles.
LEMMA ComposersStay ==
    ASSUME TypeOK, [Next]_vars, NEW t \in Txn
    PROVE  /\ compose_fee_post(rows[t])' = compose_fee_post(rows[t])
           /\ rows[t].status \in Terminal =>
                 /\ compose_fee_reversal(rows[t])' = compose_fee_reversal(rows[t])
                 /\ rows'[t].fee_post_id = rows[t].fee_post_id
<1>1. accounts' = accounts
  BY DEF Next, EngineNext, WorkerStep, Proceeds, SettleRead, RefundRead, PostBooked,
      PostReused, PostRejected, MarkFeeFailed, TransitionToSettled, TransitionToRefunded,
      Publish, Reply, Abandon, LinkPaymentEntry, vars
<1>2. rows'[t].fee_amount = rows[t].fee_amount
  BY RowFrame
<1>3. rows[t].status \in Terminal => rows'[t].fee_post_id = rows[t].fee_post_id
  BY RowFrame DEF MaySettle, OpenStatus, Terminal
<1>4. QED
  BY <1>1, <1>2, <1>3 DEF compose_fee_post, compose_fee_reversal

\* No journal disappears or changes.
LEMMA JournalsStay ==
    ASSUME TypeOK, [Next]_vars, NEW t \in Txn, NEW kind, NEW i \in Booked(t, kind)
    PROVE  i \in Booked(t, kind)' /\ ledger'[t][i] = ledger[t][i]
<1>1. i \in 1 .. Len(ledger[t]) /\ ledger[t][i].kind = kind /\ ledger[t] \in Seq(Journal)
  BY DEF Booked, TypeOK
<1>2. CASE ledger'[t] = ledger[t]
  BY <1>1, <1>2 DEF Booked
<1>3. CASE \E w \in Worker : PostBooked(w) /\ job[w].txn = t
                             /\ ledger'[t] = Append(ledger[t], job[w].env)
  <2>1. PICK w \in Worker : PostBooked(w) /\ ledger'[t] = Append(ledger[t], job[w].env)
    BY <1>3
  <2>2. job[w].env \in Journal
    BY <2>1, JobAt DEF TypeOK, PostBooked, Posting
  <2>3. ledger'[t][i] = ledger[t][i] /\ i \in 1 .. Len(ledger'[t])
    BY <1>1, <2>1, <2>2, Appended
  <2>4. QED
    BY <1>1, <2>3 DEF Booked
<1>4. QED
  BY <1>2, <1>3, LedgerFrame

LEMMA InitRefund == Init => RefundInv
<1> SUFFICES ASSUME Init PROVE RefundInv
  OBVIOUS
<1>1. ASSUME NEW t \in Txn
      PROVE  /\ Booked(t, "original") = {} /\ Booked(t, "reversal") = {}
             /\ rows[t].status # "refunded"
  <2>1. rows[t] \in NewRow /\ ledger[t] = <<>>
    BY DEF Init
  <2>2. QED
    BY <2>1, NewRowAssumption DEF Booked, OpenStatus
<1>2. \A w \in Worker : EnvelopeCurrent(w) /\ MovingReversed(w)
  BY DEF Init, Idle, EnvelopeCurrent, MovingReversed
<1>3. QED
  BY <1>1, <1>2 DEF RefundInv, FeeJournalsCurrent, ReversalsCurrent, RefundedReversed

LEMMA EnvelopeStays ==
    ASSUME TypeOK, AckInv, RefundInv, [Next]_vars, NEW w \in Worker
    PROVE  EnvelopeCurrent(w)'
<1>1. CASE job'[w] = job[w] /\ job[w].pc = "post"
  <2>1. PICK t \in Txn : job[w].txn = t
    BY <1>1, JobRow DEF Idle
  <2>2. job[w].op \in Op
    BY <1>1, JobRow DEF Idle
  <2>3. job[w].env = IF job[w].op = "settle" THEN compose_fee_post(rows[t])
                     ELSE compose_fee_reversal(rows[t])
    BY <1>1, <2>1 DEF RefundInv, EnvelopeCurrent
  <2>4. job[w].op = "refund" => rows[t].status \in Terminal
    BY <1>1, <2>1 DEF AckInv, RefundStarted
  <2>5. job'[w].env = IF job'[w].op = "settle" THEN compose_fee_post(rows[t])'
                      ELSE compose_fee_reversal(rows[t])'
    BY <1>1, <2>2, <2>3, <2>4, ComposersStay DEF Op
  <2>6. QED
    BY <1>1, <2>1, <2>5 DEF EnvelopeCurrent
<1>2. CASE \E t \in Txn : SettleRead(w, t) \/ RefundRead(w, t)
  <2>1. PICK t \in Txn : SettleRead(w, t) \/ RefundRead(w, t)
    BY <1>2
  <2>2. /\ job'[w].txn = t /\ rows' = rows /\ accounts' = accounts
        /\ job'[w].pc = "post" =>
              job'[w].env = IF job'[w].op = "settle" THEN compose_fee_post(rows[t])
                            ELSE compose_fee_reversal(rows[t])
    BY <2>1 DEF TypeOK, SettleRead, RefundRead, Enter, Finish, Goto
  <2>3. QED
    BY <2>2 DEF EnvelopeCurrent, compose_fee_post, compose_fee_reversal
<1>3. CASE job'[w].pc # "post"
  BY <1>3 DEF EnvelopeCurrent
<1>4. CASE \/ PostBooked(w) \/ PostReused(w) \/ PostRejected(w) \/ MarkFeeFailed(w)
           \/ TransitionToSettled(w) \/ TransitionToRefunded(w)
           \/ Publish(w) \/ Reply(w) \/ Abandon(w)
  <2>1. job'[w].pc # "post"
    BY <1>4 DEF TypeOK, PostBooked, PostReused, PostRejected, MarkFeeFailed, TransitionToSettled,
                TransitionToRefunded, Publish, Reply, Abandon, Acknowledge, Finish, Goto, Idle
  <2>2. QED
    BY <1>3, <2>1
<1>5. QED
  BY <1>1, <1>2, <1>3, <1>4, JobFrame DEF Proceeds

LEMMA MovingStays ==
    ASSUME TypeOK, FeeInv, RefundInv, [Next]_vars, NEW w \in Worker
    PROVE  MovingReversed(w)'
<1>1. CASE job'[w] = job[w] /\ job[w].pc = "transition"
  <2>1. PICK t \in Txn : job[w].txn = t
    BY <1>1, JobRow DEF Idle
  <2>2. HasFeePost(rows[t])' <=> HasFeePost(rows[t])
    BY FeeOwedFrame
  <2>3. Booked(t, "reversal") # {} => Booked(t, "reversal")' # {}
    BY JournalsStay
  <2>4. QED
    BY <1>1, <2>1, <2>2, <2>3 DEF RefundInv, MovingReversed
<1>2. CASE \E t \in Txn : SettleRead(w, t) \/ RefundRead(w, t)
  <2>1. PICK t \in Txn : SettleRead(w, t) \/ RefundRead(w, t)
    BY <1>2
  <2>2. /\ job'[w].txn = t /\ rows' = rows /\ accounts' = accounts
        /\ job'[w].pc = "transition" => ~HasFeePost(rows[t])
    BY <2>1 DEF TypeOK, SettleRead, RefundRead, Enter, Finish, Goto
  <2>3. QED
    BY <2>2 DEF MovingReversed, HasFeePost
<1>3. CASE PostBooked(w) \/ PostReused(w)
  <2>1. PICK t \in Txn : job[w].txn = t /\ job[w].pc = "post" /\ job[w].env \in Journal
    BY <1>3, JobAt DEF TypeOK, PostBooked, PostReused, Posting
  <2>2. job'[w].txn = t /\ job'[w].op = job[w].op
    BY <1>3, <2>1 DEF TypeOK, PostBooked, PostReused, Acknowledge, Goto
  <2>3. job[w].op = "refund" => job[w].env.kind = "reversal"
    BY <2>1 DEF FeeInv, PostingOwed
  <2>4. CASE PostBooked(w)
    <3>1. ledger[t] \in Seq(Journal) /\ ledger'[t] = Append(ledger[t], job[w].env)
      BY <2>1, <2>4 DEF TypeOK, PostBooked
    <3>2. /\ Len(ledger[t]) + 1 \in 1 .. Len(ledger'[t])
          /\ ledger'[t][Len(ledger[t]) + 1] = job[w].env
      BY <2>1, <3>1, Appended
    <3>3. job[w].op = "refund" => Booked(t, "reversal")' # {}
      BY <2>3, <3>2 DEF Booked
    <3>4. QED
      BY <2>2, <3>3 DEF MovingReversed
  <2>5. CASE PostReused(w)
    <3>1. DedupKey # "source_id" => Booked(t, job[w].env.kind) # {}
      BY <2>1, <2>5, DuplicatesOf DEF PostReused
    <3>2. DedupKey # "source_id" /\ job[w].op = "refund" => Booked(t, "reversal")' # {}
      BY <2>3, <3>1, JournalsStay
    <3>3. QED
      BY <2>2, <3>2 DEF MovingReversed
  <2>6. QED
    BY <1>3, <2>4, <2>5
<1>4. CASE job'[w].pc # "transition"
  BY <1>4 DEF MovingReversed
<1>5. CASE \/ PostRejected(w) \/ MarkFeeFailed(w) \/ TransitionToSettled(w)
           \/ TransitionToRefunded(w) \/ Publish(w) \/ Reply(w) \/ Abandon(w)
  <2>1. job'[w].pc # "transition"
    BY <1>5 DEF TypeOK, PostRejected, MarkFeeFailed, TransitionToSettled,
                TransitionToRefunded, Publish, Reply, Abandon, Finish, Goto, Idle
  <2>2. QED
    BY <1>4, <2>1
<1>6. QED
  BY <1>1, <1>2, <1>3, <1>4, <1>5, JobFrame DEF Proceeds

\* The journal a step appends is the one its request asks for.
LEMMA AppendedJournal ==
    ASSUME TypeOK, FeeInv, AckInv, RefundInv, NEW w \in Worker, NEW t \in Txn,
           PostBooked(w), job[w].txn = t
    PROVE  LET env == job[w].env IN
           \/ env.kind = "original" /\ env = compose_fee_post(rows[t])
           \/ /\ env.kind = "reversal" /\ env = compose_fee_reversal(rows[t])
              /\ rows[t].status \in Terminal
              /\ rows[t].fee_post_id \in Booked(t, "original")
<1>1. job[w].pc = "post" /\ job[w].op \in Op
  BY JobRow DEF PostBooked, Idle
<1>2. /\ HasFeePost(rows[t])
      /\ job[w].env.kind = IF job[w].op = "settle" THEN "original" ELSE "reversal"
  BY <1>1 DEF FeeInv, PostingOwed
<1>3. job[w].env = IF job[w].op = "settle" THEN compose_fee_post(rows[t])
                   ELSE compose_fee_reversal(rows[t])
  BY <1>1 DEF RefundInv, EnvelopeCurrent
<1>4. CASE job[w].op = "settle"
  BY <1>2, <1>3, <1>4
<1>5. CASE job[w].op = "refund"
  <2>1. rows[t].status \in Terminal
    BY <1>1, <1>5 DEF AckInv, RefundStarted
  <2>2. rows[t].fee_post_id \in Booked(t, "original")
    BY <1>2, <2>1 DEF FeeInv, SettledLinks
  <2>3. QED
    BY <1>2, <1>3, <1>5, <2>1, <2>2
<1>6. QED
  BY <1>1, <1>4, <1>5 DEF Op

LEMMA JournalsStayCurrent ==
    ASSUME TypeOK, FeeInv, AckInv, RefundInv, [Next]_vars, NEW t \in Txn
    PROVE  FeeJournalsCurrent(t)' /\ ReversalsCurrent(t)'
<1> DEFINE n == Len(ledger[t])
<1>1. ledger[t] \in Seq(Journal) /\ n \in Nat
  BY DEF TypeOK
<1>2. ASSUME NEW i \in 1 .. n, ledger'[t][i] = ledger[t][i]
      PROVE  /\ ledger[t][i].kind = "original" => ledger'[t][i] = compose_fee_post(rows[t])'
             /\ ledger[t][i].kind = "reversal" =>
                   /\ rows'[t].status \in Terminal
                   /\ ledger'[t][i] = compose_fee_reversal(rows[t])'
                   /\ rows'[t].fee_post_id \in Booked(t, "original")'
                   /\ rows'[t].fee_post_id < i
  <2>1. CASE ledger[t][i].kind = "original"
    BY <1>2, <2>1, ComposersStay DEF RefundInv, FeeJournalsCurrent, Booked
  <2>2. CASE ledger[t][i].kind = "reversal"
    <3>1. /\ rows[t].status \in Terminal /\ ledger[t][i] = compose_fee_reversal(rows[t])
          /\ rows[t].fee_post_id \in Booked(t, "original") /\ rows[t].fee_post_id < i
      BY <2>2 DEF RefundInv, ReversalsCurrent, Booked
    <3>2. QED
      BY <1>2, <2>2, <3>1, ComposersStay, SettledStays, JournalsStay
  <2>3. QED
    BY <2>1, <2>2
<1>3. CASE ledger'[t] = ledger[t]
  BY <1>2, <1>3 DEF FeeJournalsCurrent, ReversalsCurrent, Booked
<1>4. CASE \E w \in Worker : PostBooked(w) /\ job[w].txn = t
                             /\ ledger'[t] = Append(ledger[t], job[w].env)
  <2>1. PICK w \in Worker : PostBooked(w) /\ job[w].txn = t
                            /\ ledger'[t] = Append(ledger[t], job[w].env)
    BY <1>4
  <2> DEFINE env == job[w].env
  <2>2. env \in Journal
    BY <2>1, JobAt DEF TypeOK, PostBooked, Posting
  <2>3. /\ 1 .. Len(ledger'[t]) = (1 .. n) \cup {n + 1}
        /\ \A i \in 1 .. n : ledger'[t][i] = ledger[t][i]
        /\ ledger'[t][n + 1] = env
    BY <1>1, <2>1, <2>2, Appended
  <2>4. \/ env.kind = "original" /\ env = compose_fee_post(rows[t])'
        \/ /\ env.kind = "reversal" /\ env = compose_fee_reversal(rows[t])'
           /\ rows'[t].status \in Terminal
           /\ rows'[t].fee_post_id \in Booked(t, "original")'
           /\ rows'[t].fee_post_id < n + 1
    <3>1. \A i \in Booked(t, "original") : i < n + 1
      BY <1>1 DEF Booked
    <3>2. QED
      BY <2>1, <3>1, AppendedJournal, ComposersStay, SettledStays, JournalsStay
  <2>5. FeeJournalsCurrent(t)'
    BY <1>2, <2>3, <2>4 DEF FeeJournalsCurrent, Booked
  <2>6. ReversalsCurrent(t)'
    <3> SUFFICES ASSUME NEW i \in Booked(t, "reversal")'
                 PROVE  /\ rows'[t].status \in Terminal
                        /\ ledger'[t][i] = compose_fee_reversal(rows[t])'
                        /\ rows'[t].fee_post_id \in Booked(t, "original")'
                        /\ rows'[t].fee_post_id < i
      BY DEF ReversalsCurrent
    <3>1. i \in (1 .. n) \cup {n + 1} /\ ledger'[t][i].kind = "reversal"
      BY <2>3 DEF Booked
    <3>2. CASE i \in 1 .. n
      BY <1>2, <2>3, <3>1, <3>2
    <3>3. CASE i = n + 1
      BY <2>3, <2>4, <3>1, <3>3
    <3>4. QED
      BY <3>1, <3>2, <3>3
  <2>7. QED
    BY <2>5, <2>6
<1>5. QED
  BY <1>3, <1>4, LedgerFrame

LEMMA RefundedStays ==
    ASSUME TypeOK, RefundInv, [Next]_vars, NEW t \in Txn
    PROVE  RefundedReversed(t)'
<1>1. /\ HasFeePost(rows[t])' <=> HasFeePost(rows[t])
      /\ Booked(t, "reversal") # {} => Booked(t, "reversal")' # {}
  BY FeeOwedFrame, JournalsStay
<1>2. CASE rows'[t].status = "refunded" /\ rows[t].status # "refunded"
  <2>1. PICK w \in Worker : TransitionToRefunded(w) /\ job[w].txn = t
    BY <1>2, RowFrame
  <2>2. DedupKey # "source_id" /\ HasFeePost(rows[t]) => Booked(t, "reversal") # {}
    BY <2>1 DEF RefundInv, MovingReversed, TransitionToRefunded
  <2>3. QED
    BY <1>1, <2>2 DEF RefundedReversed
<1>3. CASE rows[t].status = "refunded"
  BY <1>1, <1>3 DEF RefundInv, RefundedReversed
<1>4. CASE rows'[t].status # "refunded"
  BY <1>4 DEF RefundedReversed
<1>5. QED
  BY <1>2, <1>3, <1>4

LEMMA StepRefund == TypeOK /\ FeeInv /\ AckInv /\ RefundInv /\ [Next]_vars => RefundInv'
  BY EnvelopeStays, MovingStays, JournalsStayCurrent, RefundedStays DEF RefundInv

LEMMA RefundInvariant == Spec => [](FeeInv /\ RefundInv)
  BY TypeCorrect, FeeInvariant, AckInvariant, InitRefund, StepRefund, PTL DEF Spec

LEMMA RefundsAreReversed ==
    DedupKey # "source_id" /\ FeeInv /\ RefundInv => RefundReversesFee
<1> SUFFICES ASSUME DedupKey # "source_id", FeeInv, RefundInv, NEW t \in Txn,
                    rows[t].status = "refunded", HasFeePost(rows[t])
             PROVE  \E i \in Booked(t, "reversal") :
                       /\ ledger[t][i].reverses = rows[t].fee_post_id
                       /\ Mirrors(ledger[t][i], ledger[t][rows[t].fee_post_id])
  BY DEF RefundReversesFee
<1>1. PICK i \in Booked(t, "reversal") : ledger[t][i] = compose_fee_reversal(rows[t])
  BY DEF RefundInv, RefundedReversed, ReversalsCurrent
<1>2. ledger[t][rows[t].fee_post_id] = compose_fee_post(rows[t])
  BY DEF FeeInv, SettledLinks, RefundInv, FeeJournalsCurrent, Terminal
<1>3. QED
  BY <1>1, <1>2 DEF compose_fee_post, compose_fee_reversal, Mirrors

\* A refund undoes the fee in any race of refunds, if accounting tells the
\* reversal from the original, by idempotency_key or because it dedups nothing: a
\* refunded row whose fee was booked has a reversal that names the journal the
\* row links and is its mirror.  SourceIdAbsorbsReversals is the other case.
THEOREM RefundUndoesFee ==
    ASSUME DedupKey # "source_id" PROVE Spec => []RefundReversesFee
<1>1. FeeInv /\ RefundInv => RefundReversesFee
  BY RefundsAreReversed
<1>2. QED
  BY <1>1, RefundInvariant, PTL

LEMMA ReversalsFollow == RefundInv => ReversalFollowsFee
<1> SUFFICES ASSUME RefundInv, NEW t \in Txn, NEW i \in Booked(t, "reversal")
             PROVE  /\ ledger[t][i].reverses \in Booked(t, "original")
                    /\ ledger[t][i].reverses < i
  BY DEF ReversalFollowsFee
<1>1. /\ ledger[t][i] = compose_fee_reversal(rows[t])
      /\ rows[t].fee_post_id \in Booked(t, "original")
      /\ rows[t].fee_post_id < i
  BY DEF RefundInv, ReversalsCurrent
<1>2. ledger[t][i].reverses = rows[t].fee_post_id
  BY <1>1 DEF compose_fee_reversal
<1>3. QED
  BY <1>1, <1>2

\* No fee is reversed before it is booked, or without: a reversal names an
\* earlier fee journal of its row.
THEOREM FeeComesFirst == Spec => []ReversalFollowsFee
  BY ReversalsFollow, RefundInvariant, PTL

-----------------------------------------------------------------------------
(* Without crashes nothing is lost.                                        *)

\* A step that is no crash keeps what is announced, or about to be.
LEMMA AnnouncementStays ==
    ASSUME TypeOK, [EngineNext]_vars, NEW t \in Txn, NEW k \in Kind,
           Announced(t, k) \/ \E w \in Worker : AboutToPublish(w, t, k)
    PROVE  Announced(t, k)' \/ \E w \in Worker : AboutToPublish(w, t, k)'
<1>1. [Next]_vars
  BY DEF Next
<1>2. published[t] \in Seq(Event)
  BY DEF TypeOK
<1>3. CASE Announced(t, k)
  <2>1. PICK i \in 1 .. Len(published[t]) : published[t][i].kind = k
    BY <1>3 DEF Announced
  <2>2. i \in 1 .. Len(published'[t]) /\ published'[t][i] = published[t][i]
    <3>1. CASE published'[t] = published[t]
      BY <3>1
    <3>2. CASE \E w \in Worker : Publish(w) /\ job[w].txn = t
                                 /\ published'[t] = Append(published[t], job[w].event)
      <4>1. PICK w \in Worker : Publish(w) /\ published'[t] = Append(published[t], job[w].event)
        BY <3>2
      <4>2. job[w].event \in Event
        BY <4>1, JobAt DEF TypeOK, Publish, Publishing
      <4>3. QED
        BY <1>2, <4>1, <4>2, Appended
    <3>3. QED
      BY <1>1, <3>1, <3>2, StreamFrame
  <2>3. QED
    BY <2>1, <2>2 DEF Announced
<1>4. CASE \E w \in Worker : AboutToPublish(w, t, k)
  <2>1. PICK w \in Worker : AboutToPublish(w, t, k)
    BY <1>4
  <2>2. CASE job'[w] = job[w]
    BY <2>1, <2>2 DEF AboutToPublish
  <2>3. CASE Publish(w)
    <3>1. job[w].event \in Event /\ published'[t] = Append(published[t], job[w].event)
      BY <2>1, <2>3, JobAt DEF TypeOK, Publish, Publishing, AboutToPublish
    <3>2. /\ Len(published[t]) + 1 \in 1 .. Len(published'[t])
          /\ published'[t][Len(published[t]) + 1] = job[w].event
      BY <1>2, <3>1, Appended
    <3>3. QED
      BY <2>1, <3>2 DEF Announced, AboutToPublish
  <2>4. \/ job'[w] = job[w]
        \/ Publish(w)
    <3>1. job[w].pc = "publish"
      BY <2>1 DEF AboutToPublish
    <3>2. \/ UNCHANGED vars
          \/ EngineNext
      OBVIOUS
    <3>3. CASE \E v \in Worker, u \in Txn : SettleRead(v, u) \/ RefundRead(v, u)
      BY <3>1, <3>3 DEF TypeOK, SettleRead, RefundRead, Enter, Finish, Goto, Idle
    <3>4. CASE \E v \in Worker : \/ PostBooked(v) \/ PostReused(v) \/ PostRejected(v)
                                 \/ MarkFeeFailed(v) \/ Reply(v) \/ (Publish(v) /\ v # w)
      BY <3>1, <3>4 DEF TypeOK, PostBooked, PostReused, PostRejected, MarkFeeFailed, Reply,
                        Publish, Acknowledge, Finish, Goto
    <3>5. CASE \E v \in Worker : TransitionToSettled(v) \/ TransitionToRefunded(v)
      BY <3>1, <3>5 DEF TypeOK, TransitionToSettled, TransitionToRefunded, Finish, Goto
    <3>6. CASE UNCHANGED job
      BY <3>6
    <3>7. QED
      BY <3>2, <3>3, <3>4, <3>5, <3>6
      DEF EngineNext, WorkerStep, Proceeds, LinkPaymentEntry, vars
  <2>5. QED
    BY <2>2, <2>3, <2>4
<1>5. QED
  BY <1>3, <1>4

LEMMA InitAnnounced == Init => TransitionIsAnnounced
<1> SUFFICES ASSUME Init PROVE TransitionIsAnnounced
  OBVIOUS
<1>1. \A t \in Txn : rows[t].status \notin Terminal
  BY NewRowAssumption DEF Init, OpenStatus, Terminal
<1>2. QED
  BY <1>1 DEF TransitionIsAnnounced, Terminal

LEMMA StepAnnounced ==
    TypeOK /\ TransitionIsAnnounced /\ [EngineNext]_vars => TransitionIsAnnounced'
<1> SUFFICES ASSUME TypeOK, TransitionIsAnnounced, [EngineNext]_vars, NEW t \in Txn
             PROVE  \A k \in Kind :
                      Reached(t, k)' => \/ Announced(t, k)'
                                        \/ \E w \in Worker : AboutToPublish(w, t, k)'
  BY DEF TransitionIsAnnounced, Reached, Kind
<1>1. [Next]_vars
  BY DEF Next
<1>2. TAKE k \in Kind
<1>3. CASE Reached(t, k)
  <2>1. Announced(t, k) \/ \E w \in Worker : AboutToPublish(w, t, k)
    BY <1>3 DEF TransitionIsAnnounced, Reached, Kind
  <2>2. QED
    BY <2>1, AnnouncementStays
<1>4. CASE ~Reached(t, k) /\ Reached(t, k)'
  <2>1. CASE \E w \in Worker : TransitionToSettled(w) /\ job[w].txn = t /\ MaySettle(t)
    <3>1. PICK w \in Worker : TransitionToSettled(w) /\ job[w].txn = t /\ MaySettle(t)
      BY <2>1
    <3>2. AboutToPublish(w, t, "settled")' /\ rows'[t].status = "settled"
      BY <3>1, SettledMoves DEF AboutToPublish
    <3>3. k = "settled"
      BY <1>4, <3>2 DEF Reached, Kind
    <3>4. QED
      BY <3>2, <3>3
  <2>2. CASE \E w \in Worker : TransitionToRefunded(w) /\ job[w].txn = t /\ MayRefund(t)
    <3>1. PICK w \in Worker : TransitionToRefunded(w) /\ job[w].txn = t /\ MayRefund(t)
      BY <2>2
    <3>2. AboutToPublish(w, t, "refunded")'
      BY <3>1, RefundedMoves DEF AboutToPublish
    <3>3. k = "refunded"
      BY <1>4, <3>1 DEF Reached, Kind, MayRefund, Terminal
    <3>4. QED
      BY <3>2, <3>3
  <2>3. rows'[t].status # rows[t].status
    BY <1>4 DEF Reached
  <2>4. QED
    BY <1>1, <2>1, <2>2, <2>3, RowFrame
<1>5. QED
  BY <1>3, <1>4

\* While no request vanishes, a row that has moved has been announced, or is
\* about to be; MCSettlementCrash shows what a crash does to it.
THEOREM NothingIsLost == UninterruptedSpec => []TransitionIsAnnounced
<1>1. [EngineNext]_vars => [Next]_vars
  BY DEF Next
<1>2. UninterruptedSpec => []TypeOK
  BY <1>1, InitTyped, StepTyped, PTL DEF UninterruptedSpec
<1>3. QED
  BY <1>2, InitAnnounced, StepAnnounced, PTL DEF UninterruptedSpec

-----------------------------------------------------------------------------
(* Nothing is left half done.                                              *)

InTransition(w, op, t) ==
    job[w].pc = "transition" /\ job[w].op = op /\ job[w].txn = t

\* Journals ahead of their row: those of an open row are of a settle, the
\* reversals of a settled one of a refund, that is about to move the row.
OpenFeeIsHeld(t) ==
    rows[t].status \in OpenStatus /\ ledger[t] # <<>> =>
        \E w \in Worker : InTransition(w, "settle", t)

HalfRefundIsHeld(t) ==
    rows[t].status = "settled" /\ Booked(t, "reversal") # {} =>
        \E w \in Worker : InTransition(w, "refund", t)

\* While no request vanishes, a request that has posted moves its row or finds
\* it moved.
HeldInv == \A t \in Txn : OpenFeeIsHeld(t) /\ HalfRefundIsHeld(t)

\* A request leaves its transition only when there is nothing left to do.
LEMMA TransitionDone ==
    ASSUME TypeOK, AckInv, [EngineNext]_vars, NEW w \in Worker, NEW t \in Txn, NEW op \in Op,
           InTransition(w, op, t)
    PROVE  \/ InTransition(w, op, t)'
           \/ op = "settle" /\ rows'[t].status \notin OpenStatus
           \/ op = "refund" /\ rows'[t].status # "settled"
<1>1. rows \in [Txn -> Row] /\ rows[t] \in Row /\ ~rows[t].deleted
  BY DEF TypeOK, AckInv, FoundLive, InTransition
<1>2. CASE job'[w] = job[w]
  BY <1>2 DEF InTransition
<1>3. CASE TransitionToSettled(w)
  <2>1. op = "settle"
    BY <1>3 DEF TransitionToSettled, InTransition
  <2>2. CASE MaySettle(t)
    <3>1. rows'[t].status = "settled"
      BY <1>1, <1>3, <2>2 DEF TransitionToSettled, InTransition, Row
    <3>2. QED
      BY <2>1, <3>1 DEF OpenStatus
  <2>3. CASE ~MaySettle(t)
    BY <1>1, <1>3, <2>1, <2>3 DEF TransitionToSettled, InTransition, MaySettle
  <2>4. QED
    BY <2>2, <2>3
<1>4. CASE TransitionToRefunded(w)
  <2>1. op = "refund"
    BY <1>4 DEF TransitionToRefunded, InTransition
  <2>2. CASE MayRefund(t)
    <3>1. rows'[t].status = "refunded"
      BY <1>1, <1>4, <2>2 DEF TransitionToRefunded, InTransition, Row
    <3>2. QED
      BY <2>1, <3>1
  <2>3. CASE ~MayRefund(t)
    BY <1>1, <1>4, <2>1, <2>3 DEF TransitionToRefunded, InTransition, MayRefund
  <2>4. QED
    BY <2>2, <2>3
<1>5. ~\E u \in Txn : SettleRead(w, u) \/ RefundRead(w, u)
  BY DEF InTransition, SettleRead, RefundRead, Idle
<1>6. QED
  BY <1>2, <1>3, <1>4, <1>5, EngineJobFrame
  DEF InTransition, Proceeds, PostBooked, PostReused, PostRejected, MarkFeeFailed, Publish, Reply

\* What a request is at after its post was booked.
LEMMA BookedMoves ==
    ASSUME TypeOK, FeeInv, NEW w \in Worker, NEW t \in Txn, PostBooked(w), job[w].txn = t
    PROVE  /\ job[w].op \in Op
           /\ \A op : op = job[w].op => InTransition(w, op, t)'
           /\ job[w].env.kind = IF job[w].op = "settle" THEN "original" ELSE "reversal"
           /\ \A kind : kind # job[w].env.kind /\ ledger'[t] = Append(ledger[t], job[w].env) =>
                 Booked(t, kind)' = Booked(t, kind)
<1>1. job[w].op \in Op /\ job[w].env \in Journal
  BY JobRow, JobAt DEF TypeOK, PostBooked, Posting, Idle
<1>2. \A op : op = job[w].op => InTransition(w, op, t)'
  BY DEF TypeOK, PostBooked, Acknowledge, Goto, InTransition
<1>3. job[w].env.kind = IF job[w].op = "settle" THEN "original" ELSE "reversal"
  BY DEF FeeInv, PostingOwed, PostBooked
<1>4. ASSUME NEW kind, kind # job[w].env.kind, ledger'[t] = Append(ledger[t], job[w].env)
      PROVE  Booked(t, kind)' = Booked(t, kind)
  <2>1. /\ 1 .. Len(ledger'[t]) = (1 .. Len(ledger[t])) \cup {Len(ledger[t]) + 1}
        /\ \A i \in 1 .. Len(ledger[t]) : ledger'[t][i] = ledger[t][i]
        /\ ledger'[t][Len(ledger[t]) + 1] = job[w].env
    BY <1>1, <1>4, Appended DEF TypeOK
  <2>2. QED
    BY <1>4, <2>1 DEF Booked
<1>5. QED
  BY <1>1, <1>2, <1>3, <1>4

LEMMA OpenFeeStaysHeld ==
    ASSUME TypeOK, FeeInv, AckInv, HeldInv, [EngineNext]_vars, NEW t \in Txn
    PROVE  OpenFeeIsHeld(t)'
<1>1. [Next]_vars
  BY DEF Next
<1> SUFFICES ASSUME rows'[t].status \in OpenStatus, ledger'[t] # <<>>
             PROVE  \E w \in Worker : InTransition(w, "settle", t)'
  BY DEF OpenFeeIsHeld
<1>2. rows[t].status \in OpenStatus
  BY <1>1, RowFrame DEF OpenStatus
<1>3. CASE ledger'[t] = ledger[t]
  <2>1. PICK w \in Worker : InTransition(w, "settle", t)
    BY <1>2, <1>3 DEF HeldInv, OpenFeeIsHeld
  <2>2. QED
    BY <2>1, TransitionDone DEF Op
<1>4. CASE \E w \in Worker : PostBooked(w) /\ job[w].txn = t
  <2>1. PICK w \in Worker : PostBooked(w) /\ job[w].txn = t
    BY <1>4
  <2>2. job[w].op # "refund"
    BY <1>2, <2>1 DEF AckInv, RefundStarted, PostBooked, OpenStatus, Terminal
  <2>3. QED
    BY <2>1, <2>2, BookedMoves DEF Op
<1>5. QED
  BY <1>1, <1>3, <1>4, LedgerFrame

LEMMA HalfRefundStaysHeld ==
    ASSUME TypeOK, FeeInv, AckInv, RefundInv, HeldInv, [EngineNext]_vars, NEW t \in Txn
    PROVE  HalfRefundIsHeld(t)'
<1>1. [Next]_vars
  BY DEF Next
<1> SUFFICES ASSUME rows'[t].status = "settled", Booked(t, "reversal")' # {}
             PROVE  \E w \in Worker : InTransition(w, "refund", t)'
  BY DEF HalfRefundIsHeld
<1>2. CASE Booked(t, "reversal")' = Booked(t, "reversal")
  <2>1. rows[t].status \in Terminal
    BY <1>2 DEF RefundInv, ReversalsCurrent
  <2>2. rows[t].status = "settled"
    BY <1>1, <2>1, RowFrame DEF Terminal, MaySettle, OpenStatus
  <2>3. PICK w \in Worker : InTransition(w, "refund", t)
    BY <1>2, <2>2 DEF HeldInv, HalfRefundIsHeld
  <2>4. QED
    BY <2>3, TransitionDone DEF Op
<1>3. CASE ledger'[t] = ledger[t]
  BY <1>2, <1>3 DEF Booked
<1>4. CASE \E w \in Worker : PostBooked(w) /\ job[w].txn = t
                             /\ ledger'[t] = Append(ledger[t], job[w].env)
  <2>1. PICK w \in Worker : PostBooked(w) /\ job[w].txn = t
                            /\ ledger'[t] = Append(ledger[t], job[w].env)
    BY <1>4
  <2>2. CASE job[w].op = "settle"
    BY <1>2, <2>1, <2>2, BookedMoves
  <2>3. CASE job[w].op = "refund"
    BY <2>1, <2>3, BookedMoves
  <2>4. QED
    BY <2>1, <2>2, <2>3, BookedMoves DEF Op
<1>5. QED
  BY <1>1, <1>3, <1>4, LedgerFrame

LEMMA InitHeld == Init => HeldInv
<1> SUFFICES ASSUME Init, NEW t \in Txn PROVE OpenFeeIsHeld(t) /\ HalfRefundIsHeld(t)
  BY DEF HeldInv
<1>1. ledger[t] = <<>> /\ rows[t].status \in OpenStatus
  BY NewRowAssumption DEF Init
<1>2. QED
  BY <1>1 DEF OpenFeeIsHeld, HalfRefundIsHeld, OpenStatus

LEMMA StepHeld ==
    TypeOK /\ FeeInv /\ AckInv /\ RefundInv /\ HeldInv /\ [EngineNext]_vars => HeldInv'
  BY OpenFeeStaysHeld, HalfRefundStaysHeld DEF HeldInv

LEMMA UninterruptedRuns == UninterruptedSpec => Spec
<1>1. [EngineNext]_vars => [Next]_vars
  BY DEF Next
<1>2. QED
  BY <1>1, PTL DEF UninterruptedSpec, Spec

LEMMA HeldInvariant == UninterruptedSpec => []HeldInv
  BY UninterruptedRuns, TypeCorrect, AckInvariant, RefundInvariant, InitHeld, StepHeld, PTL
  DEF UninterruptedSpec

\* A refund is all or nothing while no request vanishes and nobody but the
\* engine and the ACL writes the row: at rest, a row with a reversal has its
\* refund announced.  A rejected post, a race of refunds or a sink that does not
\* dedup does not break it.  MCRefundAtomicity shows a request that vanishes
\* between the reversal and the transition, by a crash, a dropped connection or
\* an error of the transition, break it; a row soft-deleted there would too, but
\* operators are not part of this specification.
THEOREM RefundIsWhole == UninterruptedSpec => []RefundIsAllOrNothing
<1>1. RefundInv /\ HeldInv /\ TransitionIsAnnounced => RefundIsAllOrNothing
  <2> SUFFICES ASSUME RefundInv, HeldInv, TransitionIsAnnounced, NEW t \in Txn,
                      AtRest(t), Booked(t, "reversal") # {}
               PROVE  Announced(t, "refunded")
    BY DEF RefundIsAllOrNothing
  <2>1. rows[t].status \in Terminal
    BY DEF RefundInv, ReversalsCurrent
  <2>2. rows[t].status # "settled"
    BY DEF HeldInv, HalfRefundIsHeld, InTransition, AtRest, Idle
  <2>3. \A w \in Worker : ~AboutToPublish(w, t, "refunded")
    BY DEF AboutToPublish, AtRest, Idle
  <2>4. QED
    BY <2>1, <2>2, <2>3 DEF Terminal, TransitionIsAnnounced
<1>2. QED
  BY <1>1, UninterruptedRuns, RefundInvariant, HeldInvariant, NothingIsLost, PTL

=============================================================================
