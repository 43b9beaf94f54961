----------------------- MODULE GatewaySettlementProofs ----------------------
(***************************************************************************)
(* Theorems about the settlement engine, for any number of rows, requests, *)
(* payment entries and accounts, and for a fee sink with any dedup key.     *)
(***************************************************************************)
EXTENDS GatewaySettlement, TLAPS

\* What is known of a request from the await it is at.
LEMMA JobAt ==
    ASSUME NEW j \in Job
    PROVE  /\ j.pc = "post" => j \in Posting
           /\ j.pc = "mark" => j \in Marking
           /\ j.pc = "transition" => j \in Moving
           /\ j.pc = "publish" => j \in Publishing
           /\ j.pc = "done" => j \in Done
           /\ j.pc = "idle" => j = Idle
           /\ j = Idle => j.pc = "idle"
  BY DEF Job, Idle, Posting, Marking, Moving, Publishing, Done

\* A row that owes a fee post gives both composers their accounts.
LEMMA ComposedEnvelopes ==
    ASSUME TypeOK, NEW t \in Txn, HasFeePost(rows[t])
    PROVE  /\ compose_fee_post(rows[t]) \in Journal
           /\ compose_fee_reversal(rows[t]) \in Journal
  BY DEF TypeOK, HasFeePost, compose_fee_post, compose_fee_reversal, Journal, Accounts, Row

LEMMA Appended ==
    ASSUME NEW S, NEW s \in Seq(S), NEW e \in S
    PROVE  /\ Len(s) \in Nat /\ Len(Append(s, e)) = Len(s) + 1
           /\ \A i \in 1 .. Len(s) : Append(s, e)[i] = s[i]
           /\ Append(s, e)[Len(s) + 1] = e
           /\ 1 .. Len(Append(s, e)) = (1 .. Len(s)) \cup {Len(s) + 1}
           /\ Len(s) + 1 \notin 1 .. Len(s)
  OBVIOUS

\* The columns the engine writes keep a row well-formed.
LEMMA RowUpdates ==
    ASSUME NEW r \in Row
    PROVE  /\ \A p \in {"pending", "posted", "failed"}, id \in Nat, s \in Terminal :
                [r EXCEPT !.status = s, !.fee_post_id = id, !.posting_state = p] \in Row
           /\ \A s \in Terminal : [r EXCEPT !.status = s] \in Row
           /\ [r EXCEPT !.posting_state = "failed"] \in Row
           /\ \A e \in PaymentEntry : [r EXCEPT !.payment_entry_id = e] \in Row
  BY DEF Row

\* The columns a step of the engine leaves alone.
LEMMA RowFrame ==
    ASSUME TypeOK, [Next]_vars, NEW t \in Txn
    PROVE  /\ rows'[t].fee_amount = rows[t].fee_amount
           /\ \/ /\ rows'[t].status = rows[t].status
                 /\ rows'[t].fee_post_id = rows[t].fee_post_id
              \/ /\ \E w \in Worker : /\ TransitionToSettled(w) /\ job[w].txn = t
                                      /\ rows'[t].fee_post_id = job[w].ack
                 /\ MaySettle(t) /\ rows'[t].status = "settled"
              \/ /\ \E w \in Worker : TransitionToRefunded(w) /\ job[w].txn = t
                 /\ MayRefund(t) /\ rows'[t].status = "refunded"
                 /\ rows'[t].fee_post_id = rows[t].fee_post_id
<1>1. rows \in [Txn -> Row] /\ rows[t] \in Row
  BY DEF TypeOK
<1>2. CASE \E w \in Worker : MarkFeeFailed(w)
  <2>1. PICK w \in Worker : \/ rows' = [rows EXCEPT ![job[w].txn].posting_state = "failed"]
                            \/ rows' = rows
    BY <1>2 DEF MarkFeeFailed
  <2>2. QED
    BY <1>1, <2>1 DEF Row
<1>3. CASE \E u \in Txn, e \in PaymentEntry : LinkPaymentEntry(u, e)
  <2>1. PICK u \in Txn, e \in PaymentEntry : rows' = [rows EXCEPT ![u].payment_entry_id = e]
    BY <1>3 DEF LinkPaymentEntry
  <2>2. QED
    BY <1>1, <2>1 DEF Row
<1>4. CASE \E w \in Worker : TransitionToSettled(w)
  <2>1. PICK w \in Worker : TransitionToSettled(w)
    BY <1>4
  <2>2. CASE MaySettle(job[w].txn)
    <3>1. rows' = [rows EXCEPT
              ![job[w].txn].status = "settled",
              ![job[w].txn].fee_post_id = job[w].ack,
              ![job[w].txn].posting_state = IF job[w].ack > 0 THEN "posted" ELSE "pending"]
      BY <2>1, <2>2 DEF TransitionToSettled
    <3>2. CASE job[w].txn = t
      BY <1>1, <2>1, <2>2, <3>1, <3>2 DEF Row
    <3>3. CASE job[w].txn # t
      BY <1>1, <3>1, <3>3
    <3>4. QED
      BY <3>2, <3>3
  <2>3. CASE ~MaySettle(job[w].txn)
    BY <2>1, <2>3 DEF TransitionToSettled
  <2>4. QED
    BY <2>2, <2>3
<1>5. CASE \E w \in Worker : TransitionToRefunded(w)
  <2>1. PICK w \in Worker : TransitionToRefunded(w)
    BY <1>5
  <2>2. CASE MayRefund(job[w].txn)
    <3>1. rows' = [rows EXCEPT ![job[w].txn].status = "refunded"]
      BY <2>1, <2>2 DEF TransitionToRefunded
    <3>2. CASE job[w].txn = t
      BY <1>1, <2>1, <2>2, <3>1, <3>2 DEF Row
    <3>3. CASE job[w].txn # t
      BY <1>1, <3>1, <3>3
    <3>4. QED
      BY <3>2, <3>3
  <2>3. CASE ~MayRefund(job[w].txn)
    BY <2>1, <2>3 DEF TransitionToRefunded
  <2>4. QED
    BY <2>2, <2>3
<1>6. CASE rows' = rows
  BY <1>6
<1>7. QED
  BY <1>2, <1>3, <1>4, <1>5, <1>6
  DEF Next, EngineNext, WorkerStep, Proceeds, SettleRead, RefundRead, PostBooked,
      PostReused, PostRejected, Publish, Reply, Abandon, vars

\* Entering either operation puts the request at a well-formed place.
LEMMA EnterTyped ==
    ASSUME TypeOK, NEW w \in Worker, NEW t \in Txn, NEW op \in Op, NEW env,
           HasFeePost(rows[t]) => env \in Journal,
           Enter(w, op, t, env)
    PROVE  job' \in [Worker -> Job]
<1> DEFINE posting == [pc |-> "post", op |-> op, txn |-> t, src |-> rows[t], env |-> env]
<1> DEFINE moving == [pc |-> "transition", op |-> op, txn |-> t, src |-> rows[t], ack |-> 0]
<1>1. rows[t] \in Row
  BY DEF TypeOK
<1>2. CASE HasFeePost(rows[t])
  <2>1. posting \in Job
    BY <1>1, <1>2 DEF Job, Posting
  <2>2. QED
    BY <1>2, <2>1 DEF TypeOK, Enter, Goto
<1>3. CASE ~HasFeePost(rows[t])
  <2>1. moving \in Job
    BY <1>1 DEF Job, Moving
  <2>2. QED
    BY <1>3, <2>1 DEF TypeOK, Enter, Goto
<1>4. QED
  BY <1>2, <1>3

LEMMA FinishTyped ==
    ASSUME job \in [Worker -> Job], NEW w \in Worker, NEW t \in Txn, NEW op \in Op,
           NEW outcome \in {"settled", "already_settled", "not_found", "invalid_status",
                            "unsupported_currency", "rejected"},
           Finish(w, op, t, outcome)
    PROVE  job' \in [Worker -> Job]
  BY DEF Finish, Goto, Job, Done

LEMMA SettleReadTyped ==
    ASSUME TypeOK, NEW w \in Worker, NEW t \in Txn, SettleRead(w, t)
    PROVE  TypeOK'
<1>1. "settle" \in Op
  BY DEF Op
<1>2. job' \in [Worker -> Job]
  <2>1. CASE \E o \in {"not_found", "unsupported_currency", "already_settled"} :
                Finish(w, "settle", t, o)
    BY <1>1, <2>1, FinishTyped DEF TypeOK
  <2>2. CASE Enter(w, "settle", t, compose_fee_post(rows[t]))
    BY <1>1, <2>2, EnterTyped, ComposedEnvelopes
  <2>3. QED
    BY <2>1, <2>2 DEF SettleRead
<1>3. QED
  BY <1>2 DEF TypeOK, SettleRead

LEMMA RefundReadTyped ==
    ASSUME TypeOK, NEW w \in Worker, NEW t \in Txn, RefundRead(w, t)
    PROVE  TypeOK'
<1>1. "refund" \in Op
  BY DEF Op
<1>2. job' \in [Worker -> Job]
  <2>1. CASE \E o \in {"not_found", "invalid_status", "already_settled"} :
                Finish(w, "refund", t, o)
    BY <1>1, <2>1, FinishTyped DEF TypeOK
  <2>2. CASE Enter(w, "refund", t, compose_fee_reversal(rows[t]))
    BY <1>1, <2>2, EnterTyped, ComposedEnvelopes
  <2>3. QED
    BY <2>1, <2>2 DEF RefundRead
<1>3. QED
  BY <1>2 DEF TypeOK, RefundRead

LEMMA PostBookedTyped ==
    ASSUME TypeOK, NEW w \in Worker, PostBooked(w)
    PROVE  TypeOK'
<1> DEFINE t == job[w].txn
<1>1. job[w] \in Posting
  BY JobAt DEF TypeOK, PostBooked
<1>2. t \in Txn /\ job[w].env \in Journal /\ job[w].src \in Row /\ job[w].op \in Op
  BY <1>1 DEF Posting
<1>3. ledger' \in [Txn -> Seq(Journal)]
  BY <1>2 DEF TypeOK, PostBooked
<1>4. Len(ledger[t]) + 1 \in Nat
  BY <1>2 DEF TypeOK
<1>5. job' \in [Worker -> Job]
  BY <1>2, <1>4 DEF TypeOK, PostBooked, Acknowledge, Goto, Job, Moving
<1>6. QED
  BY <1>3, <1>5 DEF TypeOK, PostBooked

LEMMA PostReusedTyped ==
    ASSUME TypeOK, NEW w \in Worker, PostReused(w)
    PROVE  TypeOK'
<1>1. job[w] \in Posting
  BY JobAt DEF TypeOK, PostReused
<1>2. PICK i \in Duplicates(job[w].txn, job[w].env) : Acknowledge(w, i)
  BY DEF PostReused
<1>3. i \in Nat
  BY <1>1, <1>2 DEF Duplicates, Posting, TypeOK
<1>4. job' \in [Worker -> Job]
  BY <1>1, <1>2, <1>3 DEF TypeOK, Acknowledge, Goto, Job, Moving, Posting
<1>5. QED
  BY <1>4 DEF TypeOK, PostReused

LEMMA RejectionTyped ==
    ASSUME TypeOK, NEW w \in Worker, PostRejected(w) \/ MarkFeeFailed(w)
    PROVE  TypeOK'
<1>1. CASE PostRejected(w)
  <2>1. job[w] \in Posting
    BY <1>1, JobAt DEF TypeOK, PostRejected
  <2>2. job' \in [Worker -> Job]
    BY <1>1, <2>1 DEF TypeOK, PostRejected, Goto, Job, Marking, Posting
  <2>3. QED
    BY <1>1, <2>2 DEF TypeOK, PostRejected
<1>2. CASE MarkFeeFailed(w)
  <2>1. job[w] \in Marking
    BY <1>2, JobAt DEF TypeOK, MarkFeeFailed
  <2>2. job[w].txn \in Txn /\ job[w].op \in Op
    BY <2>1 DEF Marking
  <2>3. rows' \in [Txn -> Row]
    <3>1. [rows[job[w].txn] EXCEPT !.posting_state = "failed"] \in Row
      BY <2>2, RowUpdates DEF TypeOK
    <3>2. QED
      BY <1>2, <3>1 DEF TypeOK, MarkFeeFailed
  <2>4. job' \in [Worker -> Job]
    BY <1>2, <2>2, FinishTyped DEF TypeOK, MarkFeeFailed
  <2>5. QED
    BY <1>2, <2>3, <2>4 DEF TypeOK, MarkFeeFailed
<1>3. QED
  BY <1>1, <1>2

LEMMA TransitionToSettledTyped ==
    ASSUME TypeOK, NEW w \in Worker, TransitionToSettled(w)
    PROVE  TypeOK'
<1> DEFINE t == job[w].txn
<1>1. job[w] \in Moving /\ t \in Txn /\ job[w].ack \in Nat
  BY JobAt DEF TypeOK, TransitionToSettled, Moving
<1>2. rows' \in [Txn -> Row]
  <2>1. CASE MaySettle(t)
    <3> DEFINE state == IF job[w].ack > 0 THEN "posted" ELSE "pending"
    <3>1. [rows[t] EXCEPT !.status = "settled", !.fee_post_id = job[w].ack,
                          !.posting_state = state] \in Row
      BY <1>1, RowUpdates DEF TypeOK, Terminal
    <3>2. QED
      BY <2>1, <3>1 DEF TypeOK, TransitionToSettled
  <2>2. CASE ~MaySettle(t)
    BY <2>2 DEF TypeOK, TransitionToSettled
  <2>3. QED
    BY <2>1, <2>2
<1>3. job' \in [Worker -> Job]
  <2>1. CASE MaySettle(t)
    <3>1. SettledEvent(rows[t]) \in Event
      BY <1>1 DEF TypeOK, SettledEvent, Event, Row
    <3>2. [pc |-> "publish", op |-> "settle", txn |-> t, event |-> SettledEvent(rows[t])] \in Job
      BY <1>1, <3>1 DEF Job, Publishing, Op
    <3>3. QED
      BY <2>1, <3>2 DEF TypeOK, TransitionToSettled, Goto
  <2>2. CASE ~MaySettle(t)
    BY <1>1, <2>2, FinishTyped DEF TypeOK, TransitionToSettled, Op
  <2>3. QED
    BY <2>1, <2>2
<1>4. QED
  BY <1>2, <1>3 DEF TypeOK, TransitionToSettled

LEMMA TransitionToRefundedTyped ==
    ASSUME TypeOK, NEW w \in Worker, TransitionToRefunded(w)
    PROVE  TypeOK'
<1> DEFINE t == job[w].txn
<1>1. job[w] \in Moving /\ t \in Txn /\ job[w].src \in Row
  BY JobAt DEF TypeOK, TransitionToRefunded, Moving
<1>2. rows' \in [Txn -> Row]
  <2>1. CASE MayRefund(t)
    <3>1. [rows[t] EXCEPT !.status = "refunded"] \in Row
      BY <1>1, RowUpdates DEF TypeOK, Terminal
    <3>2. QED
      BY <2>1, <3>1 DEF TypeOK, TransitionToRefunded
  <2>2. CASE ~MayRefund(t)
    BY <2>2 DEF TypeOK, TransitionToRefunded
  <2>3. QED
    BY <2>1, <2>2
<1>3. job' \in [Worker -> Job]
  <2>1. CASE MayRefund(t)
    <3>1. RefundedEvent(job[w].src) \in Event
      BY <1>1 DEF RefundedEvent, Event, Row
    <3>2. [pc |-> "publish", op |-> "refund", txn |-> t, event |-> RefundedEvent(job[w].src)] \in Job
      BY <1>1, <3>1 DEF Job, Publishing, Op
    <3>3. QED
      BY <2>1, <3>2 DEF TypeOK, TransitionToRefunded, Goto
  <2>2. CASE ~MayRefund(t)
    BY <1>1, <2>2, FinishTyped DEF TypeOK, TransitionToRefunded, Op
  <2>3. QED
    BY <2>1, <2>2
<1>4. QED
  BY <1>2, <1>3 DEF TypeOK, TransitionToRefunded

LEMMA PublishTyped ==
    ASSUME TypeOK, NEW w \in Worker, Publish(w)
    PROVE  TypeOK'
<1>1. job[w] \in Publishing
  BY JobAt DEF TypeOK, Publish
<1>2. job[w].txn \in Txn /\ job[w].op \in Op /\ job[w].event \in Event
  BY <1>1 DEF Publishing
<1>3. published' \in [Txn -> Seq(Event)]
  BY <1>2 DEF TypeOK, Publish
<1>4. job' \in [Worker -> Job]
  BY <1>2, FinishTyped DEF TypeOK, Publish
<1>5. QED
  BY <1>3, <1>4 DEF TypeOK, Publish

LEMMA EndTyped ==
    ASSUME TypeOK, NEW w \in Worker, Reply(w) \/ Abandon(w)
    PROVE  TypeOK'
  BY DEF TypeOK, Reply, Abandon, Goto, Job

LEMMA LinkTyped ==
    ASSUME TypeOK, NEW t \in Txn, NEW e \in PaymentEntry, LinkPaymentEntry(t, e)
    PROVE  TypeOK'
<1>1. [rows[t] EXCEPT !.payment_entry_id = e] \in Row
  BY RowUpdates DEF TypeOK
<1>2. QED
  BY <1>1 DEF TypeOK, LinkPaymentEntry

LEMMA InitTyped == Init => TypeOK
  BY ConstantsAssumption, NewRowAssumption DEF Init, TypeOK, Job

LEMMA StepTyped == TypeOK /\ [Next]_vars => TypeOK'
<1> SUFFICES ASSUME TypeOK, [Next]_vars PROVE TypeOK'
  OBVIOUS
<1>1. CASE \E w \in Worker, t \in Txn : SettleRead(w, t)
  BY <1>1, SettleReadTyped
<1>2. CASE \E w \in Worker, t \in Txn : RefundRead(w, t)
  BY <1>2, RefundReadTyped
<1>3. CASE \E w \in Worker : PostBooked(w)
  BY <1>3, PostBookedTyped
<1>4. CASE \E w \in Worker : PostReused(w)
  BY <1>4, PostReusedTyped
<1>5. CASE \E w \in Worker : PostRejected(w) \/ MarkFeeFailed(w)
  BY <1>5, RejectionTyped
<1>6. CASE \E w \in Worker : TransitionToSettled(w)
  BY <1>6, TransitionToSettledTyped
<1>7. CASE \E w \in Worker : TransitionToRefunded(w)
  BY <1>7, TransitionToRefundedTyped
<1>8. CASE \E w \in Worker : Publish(w)
  BY <1>8, PublishTyped
<1>9. CASE \E w \in Worker : Reply(w) \/ Abandon(w)
  BY <1>9, EndTyped
<1>10. CASE \E t \in Txn, e \in PaymentEntry : LinkPaymentEntry(t, e)
  BY <1>10, LinkTyped
<1>11. CASE UNCHANGED vars
  BY <1>11 DEF TypeOK, vars
<1>12. QED
  BY <1>1, <1>2, <1>3, <1>4, <1>5, <1>6, <1>7, <1>8, <1>9, <1>10, <1>11
  DEF Next, EngineNext, WorkerStep, Proceeds

\* Every reachable state of the engine is well-formed: the rows satisfy the
\* table's column types and every request in flight has the locals of its await.
THEOREM TypeCorrect == Spec => []TypeOK
  BY InitTyped, StepTyped, PTL DEF Spec

-----------------------------------------------------------------------------
(* Exactly once across the seam.                                           *)

Kind == {"settled", "refunded"}

\* The row has come as far as the event says.
Reached(t, k) ==
    IF k = "settled" THEN rows[t].status \in Terminal ELSE rows[t].status = "refunded"

\* AtMostOneEventPerKind is not inductive: what keeps a second event away is
\* that only the request that moved the row is about to publish, and that a row
\* which moved never moves the same way again.
SeamInv ==
    /\ \A w \in Worker, t \in Txn, k \in Kind :
          AboutToPublish(w, t, k) => Reached(t, k) /\ ~Announced(t, k)
    /\ \A v, w \in Worker, t \in Txn, k \in Kind :
          AboutToPublish(v, t, k) /\ AboutToPublish(w, t, k) => v = w
    /\ \A t \in Txn, k \in Kind : Announced(t, k) => Reached(t, k)
    /\ AtMostOneEventPerKind

\* It is a matter of each row by itself.
RowSeam(t) ==
    /\ \A w \in Worker, k \in Kind :
          AboutToPublish(w, t, k) => Reached(t, k) /\ ~Announced(t, k)
    /\ \A v, w \in Worker, k \in Kind :
          AboutToPublish(v, t, k) /\ AboutToPublish(w, t, k) => v = w
    /\ \A k \in Kind : Announced(t, k) => Reached(t, k)
    /\ \A i, j \in 1 .. Len(published[t]) : published[t][i].kind = published[t][j].kind => i = j

LEMMA SeamByRow == SeamInv <=> \A t \in Txn : RowSeam(t)
  BY DEF SeamInv, RowSeam, AtMostOneEventPerKind

\* A step that leaves the seam alone: no status moves, nothing is published,
\* and no request becomes about to publish.
Quiet ==
    /\ \A t \in Txn : rows'[t].status = rows[t].status
    /\ published' = published
    /\ \A w \in Worker : job'[w].pc = "publish" => job'[w] = job[w]

LEMMA QuietKeepsSeam == SeamInv /\ Quiet => SeamInv'
  BY DEF SeamInv, Quiet, AboutToPublish, Announced, Reached, AtMostOneEventPerKind, Kind

\* A row goes no way back, hears nothing, and no request comes to owe it
\* anything.
LEMMA StillKeepsSeam ==
    ASSUME NEW t \in Txn, RowSeam(t), published'[t] = published[t],
           \A k \in Kind : Reached(t, k) => Reached(t, k)',
           \A w \in Worker, k \in Kind : AboutToPublish(w, t, k)' => AboutToPublish(w, t, k)
    PROVE  RowSeam(t)'
<1>1. \A k \in Kind : Announced(t, k)' <=> Announced(t, k)
  BY DEF Announced
<1>2. QED
  BY <1>1 DEF RowSeam

\* Only the transitions and the publish disturb the seam.
LEMMA QuietSteps ==
    ASSUME TypeOK, [Next]_vars
    PROVE  \/ Quiet
           \/ \E w \in Worker : TransitionToSettled(w) /\ MaySettle(job[w].txn)
           \/ \E w \in Worker : TransitionToRefunded(w) /\ MayRefund(job[w].txn)
           \/ \E w \in Worker : Publish(w)
<1>1. CASE \E w \in Worker, t \in Txn : SettleRead(w, t) \/ RefundRead(w, t)
  BY <1>1 DEF TypeOK, SettleRead, RefundRead, Enter, Finish, Goto, Quiet
<1>2. CASE \E w \in Worker : PostBooked(w) \/ PostReused(w) \/ PostRejected(w)
  BY <1>2 DEF TypeOK, PostBooked, PostReused, PostRejected, Acknowledge, Goto, Quiet
<1>3. CASE \E w \in Worker : MarkFeeFailed(w)
  <2>1. PICK w \in Worker : MarkFeeFailed(w)
    BY <1>3
  <2>2. ASSUME NEW t \in Txn PROVE rows'[t].status = rows[t].status
    <3>1. \/ rows' = [rows EXCEPT ![job[w].txn].posting_state = "failed"]
          \/ rows' = rows
      BY <2>1 DEF MarkFeeFailed
    <3>2. rows \in [Txn -> Row] /\ rows[t] \in Row
      BY DEF TypeOK
    <3>3. QED
      BY <3>1, <3>2 DEF Row
  <2>3. QED
    BY <2>1, <2>2 DEF TypeOK, MarkFeeFailed, Finish, Goto, Quiet
<1>4. CASE \E w \in Worker : TransitionToSettled(w) /\ ~MaySettle(job[w].txn)
  <2>1. PICK w \in Worker : TransitionToSettled(w) /\ ~MaySettle(job[w].txn)
    BY <1>4
  <2>2. /\ UNCHANGED <<rows, published>>
        /\ Finish(w, "settle", job[w].txn, "already_settled")
    BY <2>1 DEF TransitionToSettled
  <2>3. QED
    BY <2>2 DEF TypeOK, Finish, Goto, Quiet
<1>5. CASE \E w \in Worker : TransitionToRefunded(w) /\ ~MayRefund(job[w].txn)
  BY <1>5 DEF TypeOK, TransitionToRefunded, Finish, Goto, Quiet
<1>6. CASE \E w \in Worker : Reply(w) \/ Abandon(w)
  BY <1>6 DEF TypeOK, Reply, Abandon, Idle, Goto, Quiet
<1>7. CASE \E t \in Txn, e \in PaymentEntry : LinkPaymentEntry(t, e)
  <2>1. \A t \in Txn : rows'[t].status = rows[t].status
    BY <1>7 DEF TypeOK, LinkPaymentEntry, Row
  <2>2. QED
    BY <1>7, <2>1 DEF LinkPaymentEntry, Quiet
<1>8. CASE UNCHANGED vars
  BY <1>8 DEF vars, Quiet
<1>9. QED
  BY <1>1, <1>2, <1>3, <1>4, <1>5, <1>6, <1>7, <1>8
  DEF Next, EngineNext, WorkerStep, Proceeds

\* A transition: the request that moved the row is now the only one about to
\* publish that event.
LEMMA MoveKeepsSeam ==
    ASSUME NEW t \in Txn, RowSeam(t), NEW w \in Worker, NEW k \in Kind,
           job'[w].pc = "publish", job'[w].txn = t, job'[w].event.kind = k,
           ~Reached(t, k), \A l \in Kind : (Reached(t, l) \/ l = k) => Reached(t, l)',
           \A v \in Worker \ {w} : job'[v] = job[v],
           published' = published
    PROVE  RowSeam(t)'
<1>1. \A v \in Worker, l \in Kind :
        AboutToPublish(v, t, l)' <=> IF v = w THEN l = k ELSE AboutToPublish(v, t, l)
  BY DEF AboutToPublish
<1>2. \A l \in Kind : Announced(t, l)' <=> Announced(t, l)
  BY DEF Announced
<1>3. ~Announced(t, k) /\ \A v \in Worker : ~AboutToPublish(v, t, k)
  BY DEF RowSeam
<1>4. QED
  BY <1>1, <1>2, <1>3 DEF RowSeam

LEMMA SettledMoves ==
    ASSUME TypeOK, NEW w \in Worker, TransitionToSettled(w), MaySettle(job[w].txn)
    PROVE  LET t == job[w].txn IN
           /\ t \in Txn /\ job'[w].pc = "publish" /\ job'[w].txn = t
           /\ job'[w].event.kind = "settled"
           /\ \A v \in Worker \ {w} : job'[v] = job[v]
           /\ rows[t].status \in OpenStatus /\ rows'[t].status = "settled"
           /\ \A u \in Txn \ {t} : rows'[u] = rows[u]
           /\ published' = published
<1> DEFINE t == job[w].txn
<1>1. job[w] \in Moving /\ t \in Txn
  BY JobAt DEF TypeOK, TransitionToSettled, Moving
<1>2. /\ rows' = [rows EXCEPT
                ![t].status = "settled",
                ![t].fee_post_id = job[w].ack,
                ![t].posting_state = IF job[w].ack > 0 THEN "posted" ELSE "pending"]
      /\ job' = [job EXCEPT ![w] = [pc |-> "publish", op |-> "settle", txn |-> t,
                                    event |-> SettledEvent(rows[t])]]
  BY DEF TransitionToSettled, Goto
<1>3. rows'[t].status = "settled" /\ \A u \in Txn \ {t} : rows'[u] = rows[u]
  BY <1>1, <1>2 DEF TypeOK, Row
<1>4. QED
  BY <1>1, <1>2, <1>3 DEF TypeOK, TransitionToSettled, MaySettle, SettledEvent

LEMMA RefundedMoves ==
    ASSUME TypeOK, NEW w \in Worker, TransitionToRefunded(w), MayRefund(job[w].txn)
    PROVE  LET t == job[w].txn IN
           /\ t \in Txn /\ job'[w].pc = "publish" /\ job'[w].txn = t
           /\ job'[w].event.kind = "refunded"
           /\ \A v \in Worker \ {w} : job'[v] = job[v]
           /\ rows[t].status = "settled" /\ rows'[t].status = "refunded"
           /\ \A u \in Txn \ {t} : rows'[u] = rows[u]
           /\ published' = published
<1> DEFINE t == job[w].txn
<1>1. job[w] \in Moving /\ t \in Txn
  BY JobAt DEF TypeOK, TransitionToRefunded, Moving
<1>2. /\ rows' = [rows EXCEPT ![t].status = "refunded"]
      /\ job' = [job EXCEPT ![w] = [pc |-> "publish", op |-> "refund", txn |-> t,
                                    event |-> RefundedEvent(job[w].src)]]
  BY DEF TransitionToRefunded, MayRefund, Goto
<1>3. rows'[t].status = "refunded" /\ \A u \in Txn \ {t} : rows'[u] = rows[u]
  BY <1>1, <1>2 DEF TypeOK, Row
<1>4. QED
  BY <1>1, <1>2, <1>3 DEF TypeOK, TransitionToRefunded, MayRefund, RefundedEvent

LEMMA TransitionKeepsSeam ==
    ASSUME TypeOK, NEW t \in Txn, RowSeam(t), NEW w \in Worker,
           \/ TransitionToSettled(w) /\ MaySettle(job[w].txn)
           \/ TransitionToRefunded(w) /\ MayRefund(job[w].txn)
    PROVE  RowSeam(t)'
<1>1. CASE job[w].txn = t
  <2>1. CASE TransitionToSettled(w) /\ MaySettle(t)
    <3>1. ~Reached(t, "settled") /\ ~Reached(t, "refunded") /\ Reached(t, "settled")'
      BY <1>1, <2>1, SettledMoves DEF Reached, OpenStatus, Terminal
    <3>2. QED
      BY <1>1, <2>1, <3>1, SettledMoves, MoveKeepsSeam DEF Kind
  <2>2. CASE TransitionToRefunded(w) /\ MayRefund(t)
    <3>1. ~Reached(t, "refunded") /\ Reached(t, "refunded")' /\ Reached(t, "settled")'
      BY <1>1, <2>2, RefundedMoves DEF Reached, Terminal
    <3>2. QED
      BY <1>1, <2>2, <3>1, RefundedMoves, MoveKeepsSeam DEF Kind
  <2>3. QED
    BY <1>1, <2>1, <2>2
<1>2. CASE job[w].txn # t
  <2>1. /\ rows'[t] = rows[t] /\ published' = published
        /\ job'[w].txn # t /\ \A v \in Worker \ {w} : job'[v] = job[v]
    BY <1>2, SettledMoves, RefundedMoves
  <2>2. QED
    BY <2>1, StillKeepsSeam DEF Reached, AboutToPublish
<1>3. QED
  BY <1>1, <1>2

LEMMA PublishKeepsSeam ==
    ASSUME TypeOK, NEW t \in Txn, RowSeam(t), NEW w \in Worker, Publish(w)
    PROVE  RowSeam(t)'
<1>1. PICK u \in Txn, ev \in Event : job[w].txn = u /\ job[w].event = ev
  BY JobAt DEF TypeOK, Publish, Publishing
<1>2. ev.kind \in Kind
  BY DEF Event, Kind
<1>3. /\ published' = [published EXCEPT ![u] = Append(published[u], ev)]
      /\ rows' = rows
      /\ job'[w].pc = "done" /\ \A v \in Worker \ {w} : job'[v] = job[v]
  BY <1>1 DEF TypeOK, Publish, Finish, Goto
<1>4. \A v \in Worker, l \in Kind : AboutToPublish(v, t, l)' <=> v # w /\ AboutToPublish(v, t, l)
  BY <1>3 DEF AboutToPublish
<1>5. \A l \in Kind : Reached(t, l)' <=> Reached(t, l)
  BY <1>3 DEF Reached
<1>6. CASE u # t
  <2>1. published'[t] = published[t]
    BY <1>3, <1>6 DEF TypeOK
  <2>2. QED
    BY <1>4, <1>5, <2>1, StillKeepsSeam
<1>7. CASE u = t
  <2> DEFINE n == Len(published[t])
  <2>1. published[t] \in Seq(Event) /\ published'[t] = Append(published[t], ev)
    BY <1>3, <1>7 DEF TypeOK
  <2>2. /\ 1 .. Len(published'[t]) = (1 .. n) \cup {n + 1} /\ n + 1 \notin 1 .. n
        /\ \A i \in 1 .. n : published'[t][i] = published[t][i]
        /\ published'[t][n + 1] = ev
    BY <2>1, Appended
  <2>3. AboutToPublish(w, t, ev.kind)
    BY <1>1, <1>7 DEF Publish, AboutToPublish
  <2>4. Reached(t, ev.kind) /\ \A i \in 1 .. n : published[t][i].kind # ev.kind
    BY <1>2, <2>3 DEF RowSeam, Announced
  <2>5. \A l \in Kind : Announced(t, l)' <=> Announced(t, l) \/ l = ev.kind
    <3>1. \A l \in Kind : Announced(t, l)' <=> \E i \in (1 .. n) \cup {n + 1} : published'[t][i].kind = l
      BY <2>2 DEF Announced
    <3>2. QED
      BY <2>2, <3>1 DEF Announced
  <2>6. ASSUME NEW i \in (1 .. n) \cup {n + 1}, NEW j \in (1 .. n) \cup {n + 1},
               published'[t][i].kind = published'[t][j].kind
        PROVE  i = j
    <3>1. CASE i \in 1 .. n /\ j \in 1 .. n
      BY <2>2, <2>6, <3>1 DEF RowSeam
    <3>2. CASE i = n + 1 \/ j = n + 1
      BY <2>2, <2>4, <2>6, <3>2
    <3>3. QED
      BY <2>6, <3>1, <3>2
  <2>7. ASSUME NEW v \in Worker, NEW l \in Kind, AboutToPublish(v, t, l)'
        PROVE  Reached(t, l)' /\ ~Announced(t, l)'
    <3>1. v # w /\ AboutToPublish(v, t, l)
      BY <1>4, <2>7
    <3>2. l # ev.kind
      BY <2>3, <3>1 DEF RowSeam
    <3>3. QED
      BY <1>5, <2>5, <3>1, <3>2 DEF RowSeam
  <2>8. \A v, x \in Worker, l \in Kind :
          AboutToPublish(v, t, l)' /\ AboutToPublish(x, t, l)' => v = x
    BY <1>4 DEF RowSeam
  <2>9. \A l \in Kind : Announced(t, l)' => Reached(t, l)'
    BY <1>5, <2>4, <2>5 DEF RowSeam
  <2>10. QED
    BY <2>2, <2>6, <2>7, <2>8, <2>9 DEF RowSeam
<1>8. QED
  BY <1>6, <1>7

LEMMA InitSeam == Init => SeamInv
  BY DEF Init, SeamInv, AboutToPublish, Announced, AtMostOneEventPerKind, Idle

LEMMA StepRowSeam ==
    ASSUME TypeOK, [Next]_vars, NEW t \in Txn, RowSeam(t)
    PROVE  RowSeam(t)'
<1>1. CASE Quiet
  BY <1>1, StillKeepsSeam DEF Quiet, Reached, AboutToPublish
<1>2. QED
  BY <1>1, QuietSteps, TransitionKeepsSeam, PublishKeepsSeam

LEMMA StepSeam == TypeOK /\ SeamInv /\ [Next]_vars => SeamInv'
<1>1. SeamInv' <=> \A t \in Txn : RowSeam(t)'
  BY DEF SeamInv, RowSeam, AtMostOneEventPerKind
<1>2. QED
  BY <1>1, SeamByRow, StepRowSeam

\* However many requests settle or refund a row at once, whichever of them
\* vanish, and whatever the fee sink does, the ACL receives at most one settled
\* and at most one refunded event of it.
THEOREM ExactlyOnce == Spec => []AtMostOneEventPerKind
<1>1. SeamInv => AtMostOneEventPerKind
  BY DEF SeamInv
<1>2. Spec => []SeamInv
  BY TypeCorrect, InitSeam, StepSeam, PTL DEF Spec
<1>3. QED
  BY <1>1, <1>2, PTL

-----------------------------------------------------------------------------
(* The fee post.                                                           *)

\* What a sink of either key does and does not take for a repeated post.
LEMMA DuplicatesOf ==
    ASSUME NEW t \in Txn, NEW env
    PROVE  /\ SinkDedups => Booked(t, env.kind) \subseteq Duplicates(t, env)
           /\ DedupKey # "source_id" => Duplicates(t, env) \subseteq Booked(t, env.kind)
           /\ DedupKey = "source_id" => Duplicates(t, env) = 1 .. Len(ledger[t])
  BY ConstantsAssumption DEF SinkDedups, SameKey, Duplicates, Booked

\* A request at its fee post has one to make, of the row's fee; a refund is there
\* only with a row that settled.
PostingOwed(w) ==
    job[w].pc = "post" =>
        /\ HasFeePost(rows[job[w].txn])
        /\ job[w].env.amount = rows[job[w].txn].fee_amount
        /\ job[w].env.kind = IF job[w].op = "settle" THEN "original" ELSE "reversal"
        /\ job[w].op # "settle" => rows[job[w].txn].status \in Terminal

\* A request at its settle transition has the fee it owes booked.
MovingBooked(w) ==
    job[w].pc = "transition" /\ job[w].op = "settle" /\ HasFeePost(rows[job[w].txn]) =>
        job[w].ack \in Booked(job[w].txn, "original")

\* Fee journals are booked for rows that owe one, at the row's fee.
JournalsMatch(t) ==
    \A i \in Booked(t, "original") :
        HasFeePost(rows[t]) /\ ledger[t][i].amount = rows[t].fee_amount

SettledLinks(t) ==
    rows[t].status \in Terminal /\ HasFeePost(rows[t]) =>
        rows[t].fee_post_id \in Booked(t, "original")

\* What the dedup key makes of repeated posts: one original, and under source_id
\* no reversal at all, since the original is there before it.
Deduped(t) ==
    /\ SinkDedups => \A i, j \in Booked(t, "original") : i = j
    /\ DedupKey = "source_id" => Booked(t, "reversal") = {}

\* What ties the fee journals to the rows while requests are between their
\* read, their post and their transition.
FeeInv ==
    /\ \A w \in Worker : PostingOwed(w) /\ MovingBooked(w)
    /\ \A t \in Txn : JournalsMatch(t) /\ SettledLinks(t) /\ Deduped(t)

\* Whether a row owes a fee post never changes.
LEMMA FeeOwedFrame ==
    ASSUME TypeOK, [Next]_vars
    PROVE  \A t \in Txn : /\ HasFeePost(rows[t])' <=> HasFeePost(rows[t])
                          /\ rows'[t].fee_amount = rows[t].fee_amount
                          /\ rows[t].status \in Terminal => rows'[t].status \in Terminal
<1>1. accounts' = accounts
  BY DEF Next, EngineNext, WorkerStep, Proceeds, SettleRead, RefundRead, PostBooked,
      PostReused, PostRejected, MarkFeeFailed, TransitionToSettled, TransitionToRefunded,
      Publish, Reply, Abandon, LinkPaymentEntry, vars
<1>2. QED
  BY <1>1, RowFrame DEF HasFeePost, Terminal

\* Requests at their post or transition that a step leaves alone stay covered,
\* as long as no journal disappears.
LEMMA JobKeepsFee ==
    ASSUME TypeOK, [Next]_vars, NEW w \in Worker, PostingOwed(w), MovingBooked(w),
           job'[w] = job[w],
           \A t \in Txn : Booked(t, "original") \subseteq Booked(t, "original")'
    PROVE  PostingOwed(w)' /\ MovingBooked(w)'
<1>1. CASE job[w].pc \in {"post", "transition"}
  <2>1. PICK t \in Txn : job[w].txn = t
    BY <1>1, JobAt DEF TypeOK, Posting, Moving
  <2>2. /\ HasFeePost(rows[t])' <=> HasFeePost(rows[t])
        /\ rows'[t].fee_amount = rows[t].fee_amount
        /\ rows[t].status \in Terminal => rows'[t].status \in Terminal
    BY FeeOwedFrame
  <2>3. PostingOwed(w)'
    BY <2>1, <2>2 DEF PostingOwed
  <2>4. MovingBooked(w)'
    BY <2>1, <2>2 DEF MovingBooked
  <2>5. QED
    BY <2>3, <2>4
<1>2. CASE job[w].pc \notin {"post", "transition"}
  BY <1>2 DEF PostingOwed, MovingBooked
<1>3. QED
  BY <1>1, <1>2

\* A row that a step does not settle stays linked.
LEMMA RowKeepsFee ==
    ASSUME TypeOK, [Next]_vars, NEW t \in Txn, JournalsMatch(t), SettledLinks(t), Deduped(t),
           ledger' = ledger,
           rows'[t].fee_post_id = rows[t].fee_post_id,
           rows'[t].status \in Terminal => rows[t].status \in Terminal
    PROVE  JournalsMatch(t)' /\ SettledLinks(t)' /\ Deduped(t)'
<1>1. \A kind : Booked(t, kind)' = Booked(t, kind)
  BY DEF Booked
<1>2. /\ HasFeePost(rows[t])' <=> HasFeePost(rows[t])
      /\ rows'[t].fee_amount = rows[t].fee_amount
  BY FeeOwedFrame
<1>3. JournalsMatch(t)'
  BY <1>1, <1>2 DEF JournalsMatch
<1>4. SettledLinks(t)'
  BY <1>1, <1>2 DEF SettledLinks
<1>5. QED
  BY <1>1, <1>3, <1>4 DEF Deduped

\* A step that neither posts nor settles, and brings no request to its post or
\* its transition.
LEMMA FeeQuietKeeps ==
    ASSUME TypeOK, [Next]_vars, FeeInv, ledger' = ledger,
           \A w \in Worker : job'[w].pc \in {"post", "transition"} => job'[w] = job[w],
           \A t \in Txn : /\ rows'[t].fee_post_id = rows[t].fee_post_id
                          /\ rows'[t].status \in Terminal => rows[t].status \in Terminal
    PROVE  FeeInv'
<1>1. ASSUME NEW w \in Worker PROVE PostingOwed(w)' /\ MovingBooked(w)'
  <2>1. CASE job'[w].pc \in {"post", "transition"}
    BY <2>1, JobKeepsFee DEF FeeInv, Booked
  <2>2. CASE job'[w].pc \notin {"post", "transition"}
    BY <2>2 DEF PostingOwed, MovingBooked
  <2>3. QED
    BY <2>1, <2>2
<1>2. \A t \in Txn : JournalsMatch(t)' /\ SettledLinks(t)' /\ Deduped(t)'
  BY RowKeepsFee DEF FeeInv
<1>3. QED
  BY <1>1, <1>2 DEF FeeInv

\* The read of either operation: the request goes to the post only with a fee
\* to post, and skips it only without one.
LEMMA ReadKeepsFee ==
    ASSUME TypeOK, [Next]_vars, FeeInv, NEW w \in Worker, NEW t \in Txn,
           SettleRead(w, t) \/ RefundRead(w, t)
    PROVE  FeeInv'
<1>1. /\ rows' = rows /\ ledger' = ledger /\ accounts' = accounts
      /\ \A v \in Worker \ {w} : job'[v] = job[v]
  BY DEF TypeOK, SettleRead, RefundRead, Enter, Finish, Goto
<1>2. \/ job'[w].pc = "done"
      \/ /\ job'[w].pc = "post" /\ job'[w].txn = t /\ HasFeePost(rows[t])
         /\ \/ job'[w].op = "settle" /\ job'[w].env = compose_fee_post(rows[t])
            \/ /\ job'[w].op = "refund" /\ job'[w].env = compose_fee_reversal(rows[t])
               /\ rows[t].status = "settled"
      \/ job'[w].pc = "transition" /\ job'[w].txn = t /\ ~HasFeePost(rows[t])
  BY DEF TypeOK, SettleRead, RefundRead, Enter, Finish, Goto
<1>3. HasFeePost(rows[t])' <=> HasFeePost(rows[t])
  BY <1>1 DEF HasFeePost
<1>4. PostingOwed(w)'
  BY <1>1, <1>2, <1>3 DEF PostingOwed, compose_fee_post, compose_fee_reversal, Terminal
<1>5. MovingBooked(w)'
  BY <1>2, <1>3 DEF MovingBooked
<1>6. \A v \in Worker \ {w} : PostingOwed(v)' /\ MovingBooked(v)'
  BY <1>1, JobKeepsFee DEF FeeInv, Booked
<1>7. \A u \in Txn : JournalsMatch(u)' /\ SettledLinks(u)' /\ Deduped(u)'
  BY <1>1, RowKeepsFee DEF FeeInv
<1>8. QED
  BY <1>4, <1>5, <1>6, <1>7 DEF FeeInv

\* Accounting books the envelope: the index of the new journal is the answer.
LEMMA PostBookedKeepsFee ==
    ASSUME TypeOK, [Next]_vars, FeeInv, NEW w \in Worker, PostBooked(w)
    PROVE  FeeInv'
<1>1. PICK t \in Txn, env \in Journal : job[w].txn = t /\ job[w].env = env
  BY JobAt DEF TypeOK, PostBooked, Posting
<1> DEFINE n == Len(ledger[t])
<1>2. /\ rows' = rows /\ accounts' = accounts
      /\ ledger' = [ledger EXCEPT ![t] = Append(ledger[t], env)]
      /\ job'[w].pc = "transition" /\ job'[w].op = job[w].op
      /\ job'[w].txn = t /\ job'[w].ack = n + 1
      /\ \A v \in Worker \ {w} : job'[v] = job[v]
  BY <1>1 DEF TypeOK, PostBooked, Acknowledge, Goto
<1>3. /\ HasFeePost(rows[t]) /\ env.amount = rows[t].fee_amount
      /\ env.kind = IF job[w].op = "settle" THEN "original" ELSE "reversal"
      /\ job[w].op # "settle" => rows[t].status \in Terminal
  BY <1>1 DEF FeeInv, PostingOwed, PostBooked
<1>4. ledger[t] \in Seq(Journal)
  BY DEF TypeOK
<1>5. /\ ledger'[t] = Append(ledger[t], env)
      /\ \A u \in Txn \ {t} : ledger'[u] = ledger[u]
  BY <1>2 DEF TypeOK
<1>6. /\ 1 .. Len(ledger'[t]) = (1 .. n) \cup {n + 1} /\ n + 1 \notin 1 .. n
      /\ \A i \in 1 .. n : ledger'[t][i] = ledger[t][i]
      /\ ledger'[t][n + 1] = env
  BY <1>4, <1>5, Appended
<1>7. \A kind :
        Booked(t, kind)' = Booked(t, kind) \cup (IF env.kind = kind THEN {n + 1} ELSE {})
  BY <1>6 DEF Booked
<1>8. \A u \in Txn \ {t} : \A kind : Booked(u, kind)' = Booked(u, kind)
  BY <1>5 DEF Booked
<1>9. \A u \in Txn : HasFeePost(rows[u])' <=> HasFeePost(rows[u])
  BY <1>2 DEF HasFeePost
<1>10. \A v \in Worker \ {w} : PostingOwed(v)' /\ MovingBooked(v)'
  BY <1>2, <1>7, <1>8, JobKeepsFee DEF FeeInv
<1>11. PostingOwed(w)' /\ MovingBooked(w)'
  BY <1>2, <1>3, <1>7 DEF PostingOwed, MovingBooked
<1>12. JournalsMatch(t)'
  <2>1. \A i \in Booked(t, "original") : i \in 1 .. n
    BY DEF Booked
  <2>2. \A i \in Booked(t, "original") :
           ledger'[t][i].amount = rows'[t].fee_amount
    BY <1>2, <1>6, <2>1 DEF FeeInv, JournalsMatch
  <2>3. QED
    BY <1>2, <1>3, <1>6, <1>7, <1>9, <2>2 DEF JournalsMatch
<1>13. SettledLinks(t)'
  BY <1>2, <1>7, <1>9 DEF FeeInv, SettledLinks
<1>14. Deduped(t)'
  <2>1. Duplicates(t, env) = {}
    BY <1>1 DEF PostBooked
  <2>2. SinkDedups => Booked(t, env.kind) = {}
    BY <2>1, DuplicatesOf
  <2>3. DedupKey = "source_id" => env.kind = "original"
    <3>1. job[w].op # "settle" => rows[t].fee_post_id \in 1 .. n
      BY <1>3 DEF FeeInv, SettledLinks, Booked
    <3>2. DedupKey = "source_id" => 1 .. n = {}
      BY <2>1, DuplicatesOf
    <3>3. QED
      BY <1>3, <3>1, <3>2
  <2>4. QED
    BY <1>7, <2>2, <2>3 DEF FeeInv, Deduped
<1>15. \A u \in Txn \ {t} : JournalsMatch(u)' /\ SettledLinks(u)' /\ Deduped(u)'
  BY <1>2, <1>5, <1>8, <1>9 DEF FeeInv, JournalsMatch, SettledLinks, Deduped
<1>16. QED
  BY <1>10, <1>11, <1>12, <1>13, <1>14, <1>15 DEF FeeInv

\* Accounting answers with the journal it has.
LEMMA PostReusedKeepsFee ==
    ASSUME TypeOK, [Next]_vars, FeeInv, NEW w \in Worker, PostReused(w)
    PROVE  FeeInv'
<1>1. PICK t \in Txn, env \in Journal : job[w].txn = t /\ job[w].env = env
  BY JobAt DEF TypeOK, PostReused, Posting
<1>2. PICK i \in Duplicates(t, env) : Acknowledge(w, i)
  BY <1>1 DEF PostReused
<1>3. /\ rows' = rows /\ accounts' = accounts /\ ledger' = ledger
      /\ job'[w].pc = "transition" /\ job'[w].op = job[w].op
      /\ job'[w].txn = t /\ job'[w].ack = i
      /\ \A v \in Worker \ {w} : job'[v] = job[v]
  BY <1>1, <1>2 DEF TypeOK, PostReused, Acknowledge, Goto
<1>4. env.kind = IF job[w].op = "settle" THEN "original" ELSE "reversal"
  BY <1>1 DEF FeeInv, PostingOwed, PostReused
<1>5. job[w].op = "settle" => i \in Booked(t, "original")'
  <2>1. CASE DedupKey # "source_id"
    BY <1>2, <1>3, <1>4, <2>1, DuplicatesOf DEF Booked
  <2>2. CASE DedupKey = "source_id"
    <3>1. i \in 1 .. Len(ledger[t]) /\ ledger[t][i].kind # "reversal"
      BY <1>2, <2>2, DuplicatesOf DEF FeeInv, Deduped, Booked
    <3>2. ledger[t][i] \in Journal
      BY <3>1 DEF TypeOK
    <3>3. QED
      BY <1>3, <3>1, <3>2 DEF Journal, Booked
  <2>3. QED
    BY <2>1, <2>2
<1>6. PostingOwed(w)' /\ MovingBooked(w)'
  BY <1>3, <1>5 DEF PostingOwed, MovingBooked
<1>7. \A v \in Worker \ {w} : PostingOwed(v)' /\ MovingBooked(v)'
  BY <1>3, JobKeepsFee DEF FeeInv, Booked
<1>8. \A u \in Txn : JournalsMatch(u)' /\ SettledLinks(u)' /\ Deduped(u)'
  BY <1>3, RowKeepsFee DEF FeeInv
<1>9. QED
  BY <1>6, <1>7, <1>8 DEF FeeInv

\* The settle transition links the journal the request was answered with.
LEMMA SettleKeepsFee ==
    ASSUME TypeOK, [Next]_vars, FeeInv, NEW w \in Worker,
           TransitionToSettled(w), MaySettle(job[w].txn)
    PROVE  FeeInv'
<1>1. PICK t \in Txn : job[w].txn = t
  BY JobAt DEF TypeOK, TransitionToSettled, Moving
<1>2. /\ rows'[t].fee_post_id = job[w].ack
      /\ \A u \in Txn \ {t} : rows'[u] = rows[u]
  <2>1. rows' = [rows EXCEPT
            ![t].status = "settled",
            ![t].fee_post_id = job[w].ack,
            ![t].posting_state = IF job[w].ack > 0 THEN "posted" ELSE "pending"]
    BY <1>1 DEF TransitionToSettled
  <2>2. rows \in [Txn -> Row] /\ rows[t] \in Row
    BY DEF TypeOK
  <2>3. QED
    BY <2>1, <2>2 DEF Row
<1>3. ledger' = ledger /\ accounts' = accounts
  BY DEF TransitionToSettled
<1>4. job'[w].pc = "publish" /\ \A v \in Worker \ {w} : job'[v] = job[v]
  BY SettledMoves
<1>5. PostingOwed(w)' /\ MovingBooked(w)'
  BY <1>4 DEF PostingOwed, MovingBooked
<1>6. \A v \in Worker \ {w} : PostingOwed(v)' /\ MovingBooked(v)'
  BY <1>3, <1>4, JobKeepsFee DEF FeeInv, Booked
<1>7. \A u \in Txn \ {t} : JournalsMatch(u)' /\ SettledLinks(u)' /\ Deduped(u)'
  BY <1>2, <1>3, RowKeepsFee DEF FeeInv
<1>8. JournalsMatch(t)' /\ SettledLinks(t)' /\ Deduped(t)'
  <2>1. /\ HasFeePost(rows[t])' <=> HasFeePost(rows[t])
        /\ rows'[t].fee_amount = rows[t].fee_amount
    BY FeeOwedFrame
  <2>2. \A kind : Booked(t, kind)' = Booked(t, kind)
    BY <1>3 DEF Booked
  <2>3. HasFeePost(rows[t]) => job[w].ack \in Booked(t, "original")
    BY <1>1 DEF FeeInv, MovingBooked, TransitionToSettled
  <2>4. SettledLinks(t)'
    BY <1>2, <2>1, <2>2, <2>3 DEF SettledLinks
  <2>5. QED
    BY <1>3, <2>1, <2>2, <2>4 DEF FeeInv, JournalsMatch, Deduped
<1>9. QED
  BY <1>5, <1>6, <1>7, <1>8 DEF FeeInv

LEMMA InitFee == Init => FeeInv
<1> SUFFICES ASSUME Init PROVE FeeInv
  OBVIOUS
<1>1. ASSUME NEW t \in Txn
      PROVE  (\A kind : Booked(t, kind) = {}) /\ rows[t].status \notin Terminal
  <2>1. rows[t] \in NewRow /\ ledger[t] = <<>>
    BY DEF Init
  <2>2. rows[t].status \in OpenStatus
    BY <2>1, NewRowAssumption
  <2>3. \A kind : Booked(t, kind) = {}
    BY <2>1 DEF Booked
  <2>4. QED
    BY <2>2, <2>3 DEF OpenStatus, Terminal
<1>2. \A w \in Worker : PostingOwed(w) /\ MovingBooked(w)
  BY DEF Init, Idle, PostingOwed, MovingBooked
<1>3. QED
  BY <1>1, <1>2 DEF FeeInv, JournalsMatch, SettledLinks, Deduped

LEMMA StepFee == TypeOK /\ FeeInv /\ [Next]_vars => FeeInv'
<1> SUFFICES ASSUME TypeOK, FeeInv, [Next]_vars PROVE FeeInv'
  OBVIOUS
<1>1. CASE \E w \in Worker, t \in Txn : SettleRead(w, t) \/ RefundRead(w, t)
  BY <1>1, ReadKeepsFee
<1>2. CASE \E w \in Worker : PostBooked(w)
  BY <1>2, PostBookedKeepsFee
<1>3. CASE \E w \in Worker : PostReused(w)
  BY <1>3, PostReusedKeepsFee
<1>4. CASE \E w \in Worker : TransitionToSettled(w) /\ MaySettle(job[w].txn)
  BY <1>4, SettleKeepsFee
<1>5. CASE \E w \in Worker : TransitionToRefunded(w) /\ MayRefund(job[w].txn)
  <2>1. PICK w \in Worker : TransitionToRefunded(w) /\ MayRefund(job[w].txn)
    BY <1>5
  <2>2. PICK t \in Txn : job[w].txn = t
    BY <2>1, JobAt DEF TypeOK, TransitionToRefunded, Moving
  <2>3. ledger' = ledger
    BY <2>1 DEF TransitionToRefunded
  <2>4. \A v \in Worker : job'[v].pc \in {"post", "transition"} => job'[v] = job[v]
    BY <2>1, RefundedMoves
  <2>5. ASSUME NEW u \in Txn
        PROVE  /\ rows'[u].fee_post_id = rows[u].fee_post_id
               /\ rows'[u].status \in Terminal => rows[u].status \in Terminal
    <3>1. rows' = [rows EXCEPT ![t].status = "refunded"] /\ rows[t].status = "settled"
      BY <2>1, <2>2 DEF TransitionToRefunded, MayRefund
    <3>2. rows \in [Txn -> Row] /\ rows[u] \in Row
      BY DEF TypeOK
    <3>3. QED
      BY <3>1, <3>2 DEF Row, Terminal
  <2>6. QED
    BY <2>3, <2>4, <2>5, FeeQuietKeeps
<1>6. CASE \E w \in Worker : MarkFeeFailed(w)
  <2>1. PICK w \in Worker : MarkFeeFailed(w)
    BY <1>6
  <2>2. ledger' = ledger
        /\ \A v \in Worker : job'[v].pc \in {"post", "transition"} => job'[v] = job[v]
    BY <2>1 DEF TypeOK, MarkFeeFailed, Finish, Goto
  <2>3. ASSUME NEW u \in Txn
        PROVE  rows'[u].fee_post_id = rows[u].fee_post_id /\ rows'[u].status = rows[u].status
    <3>1. \/ rows' = [rows EXCEPT ![job[w].txn].posting_state = "failed"]
          \/ rows' = rows
      BY <2>1 DEF MarkFeeFailed
    <3>2. rows \in [Txn -> Row] /\ rows[u] \in Row
      BY DEF TypeOK
    <3>3. QED
      BY <3>1, <3>2 DEF Row
  <2>4. QED
    BY <2>2, <2>3, FeeQuietKeeps
<1>7. CASE \E t \in Txn, e \in PaymentEntry : LinkPaymentEntry(t, e)
  <2>1. PICK t \in Txn, e \in PaymentEntry : LinkPaymentEntry(t, e)
    BY <1>7
  <2>2. ASSUME NEW u \in Txn
        PROVE  rows'[u].fee_post_id = rows[u].fee_post_id /\ rows'[u].status = rows[u].status
    <3>1. rows' = [rows EXCEPT ![t].payment_entry_id = e]
      BY <2>1 DEF LinkPaymentEntry
    <3>2. rows \in [Txn -> Row] /\ rows[u] \in Row
      BY DEF TypeOK
    <3>3. QED
      BY <3>1, <3>2 DEF Row
  <2>3. QED
    BY <2>1, <2>2, FeeQuietKeeps DEF LinkPaymentEntry
<1>8. CASE \/ \E w \in Worker : TransitionToSettled(w) /\ ~MaySettle(job[w].txn)
           \/ \E w \in Worker : TransitionToRefunded(w) /\ ~MayRefund(job[w].txn)
  <2>1. PICK w \in Worker : \/ TransitionToSettled(w) /\ ~MaySettle(job[w].txn)
                            \/ TransitionToRefunded(w) /\ ~MayRefund(job[w].txn)
    BY <1>8
  <2>2. /\ UNCHANGED <<rows, ledger>>
        /\ \E op \in Op : Finish(w, op, job[w].txn, "already_settled")
    BY <2>1 DEF TransitionToSettled, TransitionToRefunded, Op
  <2>3. QED
    BY <2>2, FeeQuietKeeps DEF TypeOK, Finish, Goto
<1>9. CASE \E w \in Worker : PostRejected(w) \/ Publish(w) \/ Reply(w) \/ Abandon(w)
  <2>1. PICK w \in Worker : PostRejected(w) \/ Publish(w) \/ Reply(w) \/ Abandon(w)
    BY <1>9
  <2>2. /\ UNCHANGED <<rows, ledger>>
        /\ job'[w].pc \notin {"post", "transition"}
        /\ \A v \in Worker \ {w} : job'[v] = job[v]
    BY <2>1 DEF TypeOK, PostRejected, Publish, Reply, Abandon, Finish, Goto, Idle
  <2>3. QED
    BY <2>2, FeeQuietKeeps
<1>10. CASE UNCHANGED vars
  <2>1. UNCHANGED <<rows, job, ledger>>
    BY <1>10 DEF vars
  <2>2. QED
    BY <2>1, FeeQuietKeeps
<1>11. QED
  BY <1>1, <1>2, <1>3, <1>4, <1>5, <1>6, <1>7, <1>8, <1>9, <1>10
  DEF Next, EngineNext, WorkerStep, Proceeds

LEMMA FeeInvariant == Spec => []FeeInv
  BY TypeCorrect, InitFee, StepFee, PTL DEF Spec

\* No half-settled row, for any sink: a settled row that owes a fee links a
\* journal booked for it, at the recorded fee.
THEOREM FeeIsBooked == Spec => []FeeBookedWhenSettled
<1>1. FeeInv => FeeBookedWhenSettled
  BY DEF FeeInv, FeeBookedWhenSettled, SettledLinks, JournalsMatch
<1>2. QED
  BY <1>1, FeeInvariant, PTL

LEMMA OneFeeJournal == FeeInv => FeeBookedOnce
<1> SUFFICES ASSUME FeeInv, SinkDedups, NEW t \in Txn, rows[t].status \in Terminal
             PROVE  Booked(t, "original") =
                      IF HasFeePost(rows[t]) THEN {rows[t].fee_post_id} ELSE {}
  BY DEF FeeBookedOnce
<1>1. JournalsMatch(t) /\ SettledLinks(t) /\ Deduped(t)
  BY DEF FeeInv
<1>2. QED
  BY <1>1 DEF JournalsMatch, SettledLinks, Deduped

\* With a sink that recognises repeated posts by either key, the journal a
\* settled row links is the only fee journal of the row, and a row without a fee has none.
THEOREM FeeIsBookedOnce == Spec => []FeeBookedOnce
  BY OneFeeJournal, FeeInvariant, PTL

\* Accounting that dedups on source_id, as gateway_gl.rs and ADR-001 say it does,
\* never books the reversal of a fee: compose_fee_reversal repeats the source_id
\* of the original, so every refund is answered with the original and the fee
\* stays on the books.
THEOREM SourceIdAbsorbsReversals ==
    ASSUME DedupKey = "source_id"
    PROVE  Spec => [](\A t \in Txn : Booked(t, "reversal") = {})
<1>1. FeeInv => \A t \in Txn : Booked(t, "reversal") = {}
  BY DEF FeeInv, Deduped
<1>2. QED
  BY <1>1, FeeInvariant, PTL

=============================================================================
