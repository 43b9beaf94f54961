----------------------- MODULE SettlementBooksProofs ------------------------
(***************************************************************************)
(* Theorems about the engine composed with the accounting control layer:   *)
(* for any number of rows, requests and entries, what a refunded event     *)
(* names is an entry the ACL has posted.                                   *)
(***************************************************************************)
EXTENDS SettlementBooks, GatewaySettlementRefundProofs

-----------------------------------------------------------------------------
(* The composition runs the engine.                                        *)

\* The ACL touches the engine by the link back and by nothing else.
LEMMA BooksStepRunsEngine == [BooksNext]_allVars => [EngineNext]_vars
<1> SUFFICES ASSUME [BooksNext]_allVars PROVE [EngineNext]_vars
  OBVIOUS
<1>1. CASE \E w \in Worker : WorkerStep(w) \/ \E t \in Txn : SettleRead(w, t) \/ RefundRead(w, t)
  BY <1>1 DEF EngineNext
<1>2. CASE \E t \in Txn : AclStep(t)
  <2>1. PICK t \in Txn : AclStep(t)
    BY <1>2
  <2>2. CASE \E e \in PaymentEntry : CreatePayment(t, e) \/ PostPayment(e)
    BY <2>2 DEF CreatePayment, PostPayment
  <2>3. CASE \E e \in PaymentEntry : StampBack(t, e)
    BY <2>3 DEF StampBack, EngineNext
  <2>4. CASE ReversePayment(t)
    BY <2>4 DEF ReversePayment
  <2>5. QED
    BY <2>1, <2>2, <2>3, <2>4 DEF AclStep, EntriesOf
<1>3. CASE UNCHANGED allVars
  BY <1>3 DEF allVars
<1>4. QED
  BY <1>1, <1>2, <1>3 DEF BooksNext

LEMMA BooksRunEngine == BooksSpec => UninterruptedSpec
<1>1. BooksInit => Init
  BY DEF BooksInit
<1>2. QED
  BY <1>1, BooksStepRunsEngine, PTL DEF BooksSpec, UninterruptedSpec

\* What holds of the engine holds of the composition.  Beside an ACL too, a row
\* that moved has its event published, or a request that will publish it.
THEOREM BooksLoseNothing == BooksSpec => []TransitionIsAnnounced
  BY BooksRunEngine, NothingIsLost, PTL

\* And the ACL is promised of the whole what it was promised of the engine.
THEOREM BooksRunTheReliableSeam == BooksSpec => Seam!ReliableSafety
  BY BooksRunEngine, EngineLosesNothing, PTL

-----------------------------------------------------------------------------
(* The amount on both sides of the seam.                                   *)

IsOfGross(x, t) == x.gross_amount = rows[t].gross_amount

SnapshotGross(w) ==
    job[w].pc \in {"post", "transition"} => IsOfGross(job[w].src, job[w].txn)

EventGross(w) == job[w].pc = "publish" => IsOfGross(job[w].event, job[w].txn)

StreamGross(t) == \A i \in 1 .. Len(published[t]) : IsOfGross(published[t][i], t)

\* Every event carries the gross of its row, though a refunded one is made from
\* an older snapshot of it.
GrossInv ==
    /\ \A w \in Worker : SnapshotGross(w) /\ EventGross(w)
    /\ \A t \in Txn : StreamGross(t)

\* An entry is of its row's gross: the ACL takes it from the settled event.
EntryOfGross(e) ==
    entries[e] # None => entries[e].amount = rows[entries[e].txn].gross_amount

\* The row links an entry of its own that is posted, after a settled event.
LinkIsPosted(t) ==
    LET e == rows[t].payment_entry_id IN
    e # None =>
        /\ e \in EntriesOf(t)
        /\ entries[e].state # "draft"
        /\ \E j \in 1 .. Len(published[t]) : published[t][j].kind = "settled"

\* A refunded event that names an entry named the one its row links, which was
\* posted before it was linked; a posted entry never is a draft again.
BooksInv ==
    /\ BooksTypeOK
    /\ EntryInv
    /\ GrossInv
    /\ \A e \in PaymentEntry : EntryOfGross(e)
    /\ \A t \in Txn : LinkIsPosted(t)
    /\ RefundFindsItsEntry

\* The gross of a row never changes, and everything made from a row keeps it.
LEMMA InitGross == Init => GrossInv
  BY DEF Init, GrossInv, SnapshotGross, EventGross, StreamGross, Idle

LEMMA SnapshotGrossStays ==
    ASSUME TypeOK, GrossInv, [Next]_vars, NEW w \in Worker
    PROVE  SnapshotGross(w)'
<1> SUFFICES ASSUME job'[w].pc \in {"post", "transition"}
             PROVE  job'[w].src.gross_amount = rows'[job'[w].txn].gross_amount
  BY DEF SnapshotGross, IsOfGross
<1>1. CASE /\ job[w].pc \in {"post", "transition"}
           /\ job'[w].txn = job[w].txn /\ job'[w].src = job[w].src
  <2>1. job[w].txn \in Txn
    BY <1>1, JobRow DEF Idle
  <2>2. QED
    BY <1>1, <2>1, LinkFrame DEF GrossInv, SnapshotGross, IsOfGross
<1>2. CASE \E t \in Txn : SettleRead(w, t) \/ RefundRead(w, t)
  <2>1. PICK t \in Txn : SettleRead(w, t) \/ RefundRead(w, t)
    BY <1>2
  <2>2. job'[w].txn = t /\ job'[w].src = rows[t] /\ rows' = rows
    BY <2>1 DEF TypeOK, SettleRead, RefundRead, Enter, Finish, Goto
  <2>3. QED
    BY <2>2
<1>3. CASE job'[w] = job[w]
  BY <1>1, <1>3
<1>4. CASE PostBooked(w) \/ PostReused(w)
  BY <1>1, <1>4 DEF TypeOK, PostBooked, PostReused, Acknowledge, Goto
<1>5. CASE \/ PostRejected(w) \/ MarkFeeFailed(w)
           \/ TransitionToSettled(w) \/ TransitionToRefunded(w)
           \/ Publish(w) \/ Reply(w) \/ Abandon(w)
  BY <1>5 DEF TypeOK, PostRejected, MarkFeeFailed, TransitionToSettled, TransitionToRefunded,
              Publish, Reply, Abandon, Finish, Goto, Idle
<1>6. QED
  BY <1>2, <1>3, <1>4, <1>5, JobFrame DEF Proceeds

LEMMA EventGrossStays ==
    ASSUME TypeOK, GrossInv, [Next]_vars, NEW w \in Worker
    PROVE  EventGross(w)'
<1> SUFFICES ASSUME job'[w].pc = "publish"
             PROVE  job'[w].event.gross_amount = rows'[job'[w].txn].gross_amount
  BY DEF EventGross, IsOfGross
<1>1. CASE TransitionToSettled(w)
  <2>1. /\ job'[w].txn = job[w].txn
        /\ job'[w].event.gross_amount = rows[job[w].txn].gross_amount
    BY <1>1 DEF TypeOK, TransitionToSettled, Finish, Goto, SettledEvent
  <2>2. job[w].txn \in Txn
    BY <1>1, JobRow DEF TransitionToSettled, Idle
  <2>3. QED
    BY <2>1, <2>2, LinkFrame
<1>2. CASE TransitionToRefunded(w)
  <2>1. /\ job'[w].txn = job[w].txn
        /\ job'[w].event.gross_amount = job[w].src.gross_amount
    BY <1>2 DEF TypeOK, TransitionToRefunded, Finish, Goto, RefundedEvent
  <2>2. job[w].txn \in Txn /\ job[w].src.gross_amount = rows[job[w].txn].gross_amount
    BY <1>2, JobRow DEF TransitionToRefunded, Idle, GrossInv, SnapshotGross, IsOfGross
  <2>3. QED
    BY <2>1, <2>2, LinkFrame
<1>3. CASE job'[w] = job[w]
  <2>1. job[w].txn \in Txn
    BY <1>3, JobRow DEF Idle
  <2>2. QED
    BY <1>3, <2>1, LinkFrame DEF GrossInv, EventGross, IsOfGross
<1>4. CASE \/ \E t \in Txn : SettleRead(w, t) \/ RefundRead(w, t)
           \/ PostBooked(w) \/ PostReused(w) \/ PostRejected(w) \/ MarkFeeFailed(w)
           \/ Publish(w) \/ Reply(w) \/ Abandon(w)
  BY <1>4 DEF TypeOK, SettleRead, RefundRead, Enter, PostBooked, PostReused, Acknowledge,
              PostRejected, MarkFeeFailed, Publish, Reply, Abandon, Finish, Goto, Idle
<1>5. QED
  BY <1>1, <1>2, <1>3, <1>4, JobFrame DEF Proceeds

LEMMA StreamGrossStays ==
    ASSUME TypeOK, GrossInv, [Next]_vars, NEW t \in Txn
    PROVE  StreamGross(t)'
<1> SUFFICES ASSUME NEW i \in 1 .. Len(published'[t])
             PROVE  published'[t][i].gross_amount = rows'[t].gross_amount
  BY DEF StreamGross, IsOfGross
<1>1. rows'[t].gross_amount = rows[t].gross_amount
  BY LinkFrame
<1>2. CASE published'[t] = published[t]
  BY <1>1, <1>2 DEF GrossInv, StreamGross, IsOfGross
<1>3. CASE \E w \in Worker :
              Publish(w) /\ job[w].txn = t /\ published'[t] = Append(published[t], job[w].event)
  <2>1. PICK w \in Worker :
              Publish(w) /\ job[w].txn = t /\ published'[t] = Append(published[t], job[w].event)
    BY <1>3
  <2>2. job[w].event \in Event /\ published[t] \in Seq(Event)
    BY <2>1, JobAt DEF TypeOK, Publish, Publishing
  <2>3. \/ i \in 1 .. Len(published[t]) /\ published'[t][i] = published[t][i]
        \/ published'[t][i] = job[w].event
    BY <2>1, <2>2, Appended
  <2>4. job[w].event.gross_amount = rows[t].gross_amount
    BY <2>1 DEF GrossInv, EventGross, IsOfGross, Publish
  <2>5. QED
    BY <1>1, <2>3, <2>4 DEF GrossInv, StreamGross, IsOfGross
<1>4. QED
  BY <1>2, <1>3, StreamFrame

LEMMA StepGross == TypeOK /\ GrossInv /\ [Next]_vars => GrossInv'
  BY SnapshotGrossStays, EventGrossStays, StreamGrossStays DEF GrossInv

-----------------------------------------------------------------------------
(* The entries.                                                            *)

\* Published events stay where they are.
LEMMA StreamGrows ==
    ASSUME TypeOK, [Next]_vars, NEW t \in Txn
    PROVE  /\ Len(published[t]) \in Nat /\ Len(published'[t]) \in Nat
           /\ Len(published[t]) <= Len(published'[t])
           /\ \A i \in 1 .. Len(published[t]) :
                 i \in 1 .. Len(published'[t]) /\ published'[t][i] = published[t][i]
<1>1. published[t] \in Seq(Event)
  BY DEF TypeOK
<1>2. CASE published'[t] = published[t]
  BY <1>1, <1>2
<1>3. CASE \E w \in Worker :
              Publish(w) /\ job[w].txn = t /\ published'[t] = Append(published[t], job[w].event)
  <2>1. PICK w \in Worker :
              Publish(w) /\ job[w].txn = t /\ published'[t] = Append(published[t], job[w].event)
    BY <1>3
  <2>2. job[w].event \in Event
    BY <2>1, JobAt DEF TypeOK, Publish, Publishing
  <2>3. QED
    BY <1>1, <2>1, <2>2, Appended
<1>4. QED
  BY <1>2, <1>3, StreamFrame

\* A request writes no link.
LEMMA WorkersDoNotLink ==
    ASSUME TypeOK, NEW t \in Txn,
           \/ \E w \in Worker :
                 WorkerStep(w) \/ \E u \in Txn : SettleRead(w, u) \/ RefundRead(w, u)
           \/ UNCHANGED vars
    PROVE  rows'[t].payment_entry_id = rows[t].payment_entry_id
<1>1. rows \in [Txn -> Row] /\ rows[t] \in Row
  BY DEF TypeOK
<1>2. ASSUME NEW w \in Worker, WorkerStep(w), rows' # rows
      PROVE  \/ rows' = [rows EXCEPT ![job[w].txn].posting_state = "failed"]
             \/ rows' = [rows EXCEPT
                   ![job[w].txn].status = "settled",
                   ![job[w].txn].fee_post_id = job[w].ack,
                   ![job[w].txn].posting_state = IF job[w].ack > 0 THEN "posted" ELSE "pending"]
             \/ rows' = [rows EXCEPT ![job[w].txn].status = "refunded"]
  BY <1>2 DEF WorkerStep, Proceeds, PostBooked, PostReused, PostRejected, MarkFeeFailed,
              TransitionToSettled, TransitionToRefunded, Publish, Reply
<1>3. CASE rows' = rows
  BY <1>3
<1>4. CASE \E w \in Worker : WorkerStep(w) /\ rows' # rows
  <2>1. PICK w \in Worker : WorkerStep(w) /\ rows' # rows
    BY <1>4
  <2>2. CASE rows' = [rows EXCEPT ![job[w].txn].posting_state = "failed"]
    BY <1>1, <2>2 DEF Row
  <2>3. CASE rows' = [rows EXCEPT
                   ![job[w].txn].status = "settled",
                   ![job[w].txn].fee_post_id = job[w].ack,
                   ![job[w].txn].posting_state = IF job[w].ack > 0 THEN "posted" ELSE "pending"]
    BY <1>1, <2>3 DEF Row
  <2>4. CASE rows' = [rows EXCEPT ![job[w].txn].status = "refunded"]
    BY <1>1, <2>4 DEF Row
  <2>5. QED
    BY <1>2, <2>1, <2>2, <2>3, <2>4
<1>5. QED
  BY <1>3, <1>4 DEF SettleRead, RefundRead, vars

\* What the next event says, where the ACL looks at it.
LEMMA HeardEvent ==
    ASSUME BooksTypeOK, NEW t \in Txn, NEW k, Hears(t, k)
    PROVE  /\ heard[t] + 1 \in 1 .. Len(published[t])
           /\ published[t][heard[t] + 1] \in Event
           /\ published[t][heard[t] + 1].kind = k
<1>1. published[t] \in Seq(Event) /\ heard[t] \in Nat
  BY DEF BooksTypeOK, TypeOK
<1>2. heard[t] + 1 \in 1 .. Len(published[t])
  BY <1>1 DEF Hears
<1>3. QED
  BY <1>1, <1>2 DEF Hears

\* What a step of the composition does to an entry: it is created for a row that
\* has none, posted, or reversed for the refund of its row that names it.
LEMMA EntryFrame ==
    ASSUME BooksInv, [BooksNext]_allVars, NEW e \in PaymentEntry
    PROVE  \/ entries'[e] = entries[e]
           \/ /\ entries[e] = None
              /\ \E t \in Txn :
                    /\ Hears(t, "settled") /\ EntriesOf(t) = {}
                    /\ entries'[e] = [txn |-> t, amount |-> rows[t].gross_amount, state |-> "draft"]
           \/ /\ entries[e] # None /\ entries[e].state = "draft"
              /\ entries'[e] = [entries[e] EXCEPT !.state = "posted"]
           \/ /\ entries[e] # None
              /\ \E t \in Txn :
                    /\ ReversePayment(t) /\ entries[e].txn = t
                    /\ published[t][heard[t] + 1].payment_entry_id = e
              /\ entries'[e] = [entries[e] EXCEPT !.state = "reversed"]
<1>1. entries \in [PaymentEntry -> Entry \cup {None}]
  BY DEF BooksInv, BooksTypeOK
<1>2. CASE entries' = entries
  BY <1>2
<1>3. CASE \E t \in Txn : AclStep(t)
  <2>1. PICK t \in Txn : AclStep(t)
    BY <1>3
  <2>2. CASE \E d \in PaymentEntry : CreatePayment(t, d)
    <3>1. PICK d \in PaymentEntry : CreatePayment(t, d)
      BY <2>2
    <3>2. heard[t] + 1 \in 1 .. Len(published[t])
      BY <3>1, HeardEvent DEF BooksInv, CreatePayment
    <3>3. published[t][heard[t] + 1].gross_amount = rows[t].gross_amount
      BY <3>2 DEF BooksInv, GrossInv, StreamGross, IsOfGross
    <3>4. QED
      BY <1>1, <3>1, <3>3 DEF CreatePayment
  <2>3. CASE \E d \in EntriesOf(t) : PostPayment(d)
    BY <1>1, <2>3 DEF PostPayment, EntriesOf
  <2>4. CASE \E d \in PaymentEntry : StampBack(t, d)
    BY <2>4 DEF StampBack
  <2>5. CASE ReversePayment(t)
    <3> DEFINE i == heard[t] + 1
    <3> DEFINE d == published[t][i].payment_entry_id
    <3>1. i \in 1 .. Len(published[t]) /\ published[t][i].kind = "refunded"
      BY <2>5, HeardEvent DEF BooksInv, ReversePayment
    <3>2. d # None => d \in EntriesOf(t)
      BY <3>1 DEF BooksInv, RefundFindsItsEntry
    <3>3. entries' = IF d = None THEN entries ELSE [entries EXCEPT ![d].state = "reversed"]
      BY <2>5 DEF ReversePayment
    <3>4. CASE d = e /\ d # None
      BY <1>1, <2>5, <3>2, <3>3, <3>4 DEF EntriesOf
    <3>5. CASE d # e \/ d = None
      BY <1>1, <3>2, <3>3, <3>5 DEF EntriesOf
    <3>6. QED
      BY <3>4, <3>5
  <2>6. QED
    BY <2>1, <2>2, <2>3, <2>4, <2>5 DEF AclStep
<1>4. QED
  BY <1>2, <1>3 DEF BooksNext, allVars, bookVars

\* An entry stays the entry of its row, and once posted is never a draft.
LEMMA EntryStays ==
    ASSUME BooksInv, [BooksNext]_allVars, NEW e \in PaymentEntry, entries[e] # None
    PROVE  /\ entries'[e] # None
           /\ entries'[e].txn = entries[e].txn
           /\ entries'[e].amount = entries[e].amount
           /\ entries[e].state # "draft" => entries'[e].state # "draft"
<1>1. entries[e] \in Entry
  BY DEF BooksInv, BooksTypeOK
<1>2. CASE entries'[e] = entries[e]
  BY <1>2
<1>3. CASE \E s \in {"posted", "reversed"} : entries'[e] = [entries[e] EXCEPT !.state = s]
  BY <1>1, <1>3, EntryAssumption DEF Entry
<1>4. QED
  BY <1>2, <1>3, EntryFrame

LEMMA InitBooks == BooksInit => BooksInv
<1> SUFFICES ASSUME BooksInit PROVE BooksInv
  OBVIOUS
<1>1. TypeOK /\ EntryInv /\ GrossInv
  BY InitTyped, InitEntry, InitGross DEF BooksInit
<1>2. \A t \in Txn : published[t] = <<>> /\ rows[t].payment_entry_id = None
  BY NewRowAssumption DEF BooksInit, Init
<1>3. BooksTypeOK
  BY <1>1, <1>2 DEF BooksInit, BooksTypeOK
<1>4. \A e \in PaymentEntry : EntryOfGross(e)
  BY DEF BooksInit, EntryOfGross
<1>5. (\A t \in Txn : LinkIsPosted(t)) /\ RefundFindsItsEntry
  BY <1>2 DEF LinkIsPosted, RefundFindsItsEntry
<1>6. QED
  BY <1>1, <1>3, <1>4, <1>5 DEF BooksInv

LEMMA BooksTyped == BooksInv /\ [BooksNext]_allVars => BooksTypeOK'
<1> SUFFICES ASSUME BooksInv, [BooksNext]_allVars PROVE BooksTypeOK'
  OBVIOUS
<1>1. TypeOK /\ [Next]_vars
  BY BooksStepRunsEngine DEF BooksInv, BooksTypeOK, Next
<1>2. TypeOK'
  BY <1>1, StepTyped
<1>3. entries' \in [PaymentEntry -> Entry \cup {None}]
  <2>1. entries \in [PaymentEntry -> Entry \cup {None}]
    BY DEF BooksInv, BooksTypeOK
  <2>2. ASSUME NEW e \in PaymentEntry PROVE entries'[e] \in Entry \cup {None}
    <3>1. \A t \in Txn :
             [txn |-> t, amount |-> rows[t].gross_amount, state |-> "draft"] \in Entry
      BY <1>1 DEF TypeOK, Row, Entry
    <3>2. entries[e] \in Entry =>
             \A s \in {"posted", "reversed"} : [entries[e] EXCEPT !.state = s] \in Entry
      BY DEF Entry
    <3>3. \/ entries'[e] = entries[e]
          \/ \E t \in Txn :
                entries'[e] = [txn |-> t, amount |-> rows[t].gross_amount, state |-> "draft"]
          \/ /\ entries[e] # None
             /\ \E s \in {"posted", "reversed"} : entries'[e] = [entries[e] EXCEPT !.state = s]
      BY EntryFrame
    <3>4. QED
      BY <2>1, <3>1, <3>2, <3>3
  <2>3. \E f : entries' = [e \in PaymentEntry |-> f[e]]
    <3>1. entries' = entries \/ \E d, x : entries' = [entries EXCEPT ![d] = x]
      BY DEF BooksNext, AclStep, CreatePayment, PostPayment, StampBack, ReversePayment,
             allVars, bookVars
    <3>2. QED
      BY <2>1, <3>1
  <2>4. QED
    BY <2>2, <2>3
<1>4. ASSUME NEW t \in Txn
      PROVE  heard'[t] \in Nat /\ heard'[t] <= Len(published'[t])
  <2>1. heard \in [Txn -> Nat] /\ heard[t] <= Len(published[t])
    BY DEF BooksInv, BooksTypeOK
  <2>2. \/ heard'[t] = heard[t]
        \/ heard'[t] = heard[t] + 1 /\ heard[t] < Len(published[t])
    BY <2>1 DEF BooksNext, AclStep, CreatePayment, PostPayment, StampBack, ReversePayment,
                Hears, allVars, bookVars
  <2>3. QED
    BY <1>1, <2>1, <2>2, StreamGrows
<1>5. heard' \in [Txn -> Nat]
  <2>1. heard \in [Txn -> Nat]
    BY DEF BooksInv, BooksTypeOK
  <2>2. heard' = heard \/ \E t \in Txn : heard' = [heard EXCEPT ![t] = @ + 1]
    BY DEF BooksNext, AclStep, CreatePayment, PostPayment, StampBack, ReversePayment,
           allVars, bookVars
  <2>3. QED
    BY <2>1, <2>2
<1>6. QED
  BY <1>2, <1>3, <1>4, <1>5 DEF BooksTypeOK

\* Only the ACL links, and what it links is a posted entry of the row.
LEMMA LinkStaysPosted ==
    ASSUME BooksInv, [BooksNext]_allVars, NEW t \in Txn
    PROVE  LinkIsPosted(t)'
<1>1. TypeOK /\ [Next]_vars
  BY BooksStepRunsEngine DEF BooksInv, BooksTypeOK, Next
<1> SUFFICES ASSUME NEW e, e = rows'[t].payment_entry_id, e # None
             PROVE  /\ e \in PaymentEntry /\ entries'[e] # None /\ entries'[e].txn = t
                    /\ entries'[e].state # "draft"
                    /\ \E j \in 1 .. Len(published'[t]) : published'[t][j].kind = "settled"
  BY DEF LinkIsPosted, EntriesOf
<1>2. /\ e \in PaymentEntry /\ entries[e] # None /\ entries[e].txn = t
      /\ entries[e].state # "draft"
      /\ \E j \in 1 .. Len(published[t]) : published[t][j].kind = "settled"
  <2>1. CASE rows'[t].payment_entry_id = rows[t].payment_entry_id
    BY <2>1 DEF BooksInv, LinkIsPosted, EntriesOf
  <2>2. CASE \E u \in Txn, d \in PaymentEntry : StampBack(u, d) /\ LinkPaymentEntry(u, d)
    <3>1. PICK u \in Txn, d \in PaymentEntry : StampBack(u, d) /\ LinkPaymentEntry(u, d)
      BY <2>2
    <3>2. CASE u = t
      <4>1. rows'[t].payment_entry_id = d
        BY <1>1, <3>1, <3>2 DEF LinkPaymentEntry, TypeOK, Row
      <4>2. QED
        BY <3>1, <3>2, <4>1 DEF StampBack, LinkPaymentEntry, EntriesOf
    <3>3. CASE u # t
      BY <1>1, <2>1, <3>1, <3>3 DEF LinkPaymentEntry, TypeOK
    <3>4. QED
      BY <3>2, <3>3
  <2>3. CASE \/ \E w \in Worker : WorkerStep(w) \/ \E u \in Txn : SettleRead(w, u) \/ RefundRead(w, u)
             \/ UNCHANGED vars
    BY <1>1, <2>1, <2>3, WorkersDoNotLink
  <2>4. QED
    BY <2>2, <2>3 DEF BooksNext, AclStep, CreatePayment, PostPayment, StampBack, ReversePayment,
                      allVars
<1>3. QED
  BY <1>1, <1>2, EntryStays, StreamGrows

LEMMA RefundStillFindsItsEntry ==
    ASSUME BooksInv, [BooksNext]_allVars
    PROVE  RefundFindsItsEntry'
<1>1. TypeOK /\ [Next]_vars
  BY BooksStepRunsEngine DEF BooksInv, BooksTypeOK, Next
<1> SUFFICES ASSUME NEW t \in Txn, NEW i \in 1 .. Len(published'[t]),
                    NEW d, d = published'[t][i].payment_entry_id, d # None,
                    published'[t][i].kind = "refunded"
             PROVE  /\ \E j \in 1 .. i - 1 : published'[t][j].kind = "settled"
                    /\ d \in PaymentEntry /\ entries'[d] # None /\ entries'[d].txn = t
                    /\ entries'[d].state # "draft"
                    /\ entries'[d].amount = published'[t][i].gross_amount
  BY DEF RefundFindsItsEntry, EntriesOf
<1>2. published[t] \in Seq(Event)
  BY <1>1 DEF TypeOK
<1>3. /\ \E j \in 1 .. i - 1 : j \in 1 .. Len(published[t]) /\ published[t][j].kind = "settled"
      /\ d \in PaymentEntry /\ entries[d] # None /\ entries[d].txn = t
      /\ entries[d].state # "draft"
      /\ entries[d].amount = published'[t][i].gross_amount
  <2>1. CASE i \in 1 .. Len(published[t])
    <3>1. published'[t][i] = published[t][i]
      BY <1>1, <2>1, StreamGrows
    <3>2. PICK j \in 1 .. i - 1 : published[t][j].kind = "settled"
      BY <2>1, <3>1 DEF BooksInv, RefundFindsItsEntry
    <3>3. j \in 1 .. Len(published[t])
      BY <1>2, <2>1, <3>2
    <3>4. QED
      BY <2>1, <3>1, <3>2, <3>3 DEF BooksInv, RefundFindsItsEntry, EntriesOf
  <2>2. CASE i \notin 1 .. Len(published[t])
    <3>1. PICK w \in Worker :
              Publish(w) /\ job[w].txn = t /\ published'[t] = Append(published[t], job[w].event)
      BY <1>1, <2>2, StreamFrame
    <3>2. job[w].event \in Event
      BY <1>1, <3>1, JobAt DEF TypeOK, Publish, Publishing
    <3>3. i = Len(published[t]) + 1 /\ published'[t][i] = job[w].event
      BY <1>2, <2>2, <3>1, <3>2, Appended
    <3>4. job[w].event.gross_amount = rows[t].gross_amount
      BY <3>1 DEF BooksInv, GrossInv, EventGross, IsOfGross, Publish
    <3>5. d = rows[t].payment_entry_id
      BY <3>1, <3>3 DEF BooksInv, EntryInv, EventNames, Names, Publish
    <3>6. /\ d \in EntriesOf(t) /\ entries[d].state # "draft"
          /\ \E j \in 1 .. Len(published[t]) : published[t][j].kind = "settled"
      BY <3>5 DEF BooksInv, LinkIsPosted
    <3>7. entries[d].amount = rows[t].gross_amount
      BY <3>6 DEF BooksInv, EntryOfGross, EntriesOf
    <3>8. PICK j \in 1 .. Len(published[t]) : published[t][j].kind = "settled"
      BY <3>6
    <3>9. j \in 1 .. i - 1
      BY <1>2, <3>3, <3>8
    <3>10. QED
      BY <3>3, <3>4, <3>6, <3>7, <3>8, <3>9 DEF EntriesOf
  <2>3. QED
    BY <2>1, <2>2
<1>4. PICK j \in 1 .. i - 1 : j \in 1 .. Len(published[t]) /\ published[t][j].kind = "settled"
  BY <1>3
<1>5. published'[t][j] = published[t][j]
  BY <1>1, <1>4, StreamGrows
<1>6. QED
  BY <1>3, <1>4, <1>5, EntryStays

LEMMA EntryStaysOfGross ==
    ASSUME BooksInv, [BooksNext]_allVars, NEW e \in PaymentEntry
    PROVE  EntryOfGross(e)'
<1>1. TypeOK /\ [Next]_vars
  BY BooksStepRunsEngine DEF BooksInv, BooksTypeOK, Next
<1>2. \A t \in Txn : rows'[t].gross_amount = rows[t].gross_amount
  BY <1>1, LinkFrame
<1> SUFFICES ASSUME entries'[e] # None
             PROVE  entries'[e].amount = rows'[entries'[e].txn].gross_amount
  BY DEF EntryOfGross
<1>3. CASE entries[e] = None
  <2>1. PICK t \in Txn :
            entries'[e] = [txn |-> t, amount |-> rows[t].gross_amount, state |-> "draft"]
    BY <1>3, EntryFrame
  <2>2. QED
    BY <1>2, <2>1
<1>4. CASE entries[e] # None
  <2>1. entries[e].txn \in Txn
    BY <1>4 DEF BooksInv, BooksTypeOK, Entry
  <2>2. QED
    BY <1>2, <1>4, <2>1, EntryStays DEF BooksInv, EntryOfGross
<1>5. QED
  BY <1>3, <1>4

LEMMA StepBooks == BooksInv /\ [BooksNext]_allVars => BooksInv'
<1> SUFFICES ASSUME BooksInv, [BooksNext]_allVars PROVE BooksInv'
  OBVIOUS
<1>1. TypeOK /\ [Next]_vars
  BY BooksStepRunsEngine DEF BooksInv, BooksTypeOK, Next
<1>2. EntryInv' /\ GrossInv'
  BY <1>1, StepEntry, StepGross DEF BooksInv
<1>3. QED
  BY <1>2, BooksTyped, EntryStaysOfGross, LinkStaysPosted, RefundStillFindsItsEntry DEF BooksInv

LEMMA BooksInvariant == BooksSpec => []BooksInv
  BY InitBooks, StepBooks, PTL DEF BooksSpec

\* Beside the ACL the engine stays well-formed, so do the entries, and the ACL
\* never is done with more events than there are.
THEOREM BooksTypeCorrect == BooksSpec => []BooksTypeOK
<1>1. BooksInv => BooksTypeOK
  BY DEF BooksInv
<1>2. QED
  BY <1>1, BooksInvariant, PTL

\* Whatever the requests, and however far behind the ACL is, a refunded event
\* that names an entry comes after a settled one, and names an entry of the
\* row, of the event's gross, that is posted.
THEOREM RefundedEntryIsPosted == BooksSpec => []RefundFindsItsEntry
<1>1. BooksInv => RefundFindsItsEntry
  BY DEF BooksInv
<1>2. QED
  BY <1>1, BooksInvariant, PTL

=============================================================================
