-------------------- MODULE GatewayAdministrationProofs ---------------------
(***************************************************************************)
(* Theorems about the engine under administration, for any number of rows, *)
(* requests and edits: what the writes of operators between the awaits of  *)
(* a request cannot do, and what a PATCH of the status can.                *)
(***************************************************************************)
EXTENDS GatewayAdministration, GatewaySettlementRefundProofs

\* A PATCH replaces one row by another of the same fee.
LEMMA PatchedRow ==
    ASSUME TypeOK, NEW t \in Txn, apply_patch(t)
    PROVE  \E row \in Row : row.fee_amount = rows[t].fee_amount /\ rows' = [rows EXCEPT ![t] = row]
<1>1. rows \in [Txn -> Row] /\ rows[t] \in Row
  BY DEF TypeOK
<1>2. PICK status \in OpenStatus \cup Terminal \cup {"failed"},
           state \in {"pending", "posted", "failed"},
           entry \in PaymentEntry \cup {None}, post \in 0 .. MaxJournals :
        rows' = [rows EXCEPT ![t].status = status, ![t].posting_state = state,
                             ![t].payment_entry_id = entry, ![t].fee_post_id = post]
  BY DEF apply_patch
<1>3. post \in Nat
  BY ConstantsAssumption
<1>4. PICK row : row = [rows[t] EXCEPT !.status = status, !.posting_state = state,
                                       !.payment_entry_id = entry, !.fee_post_id = post]
  OBVIOUS
<1>5. row \in Row /\ row.fee_amount = rows[t].fee_amount
  BY <1>1, <1>3, <1>4 DEF Row
<1>6. rows' = [rows EXCEPT ![t] = row]
  BY <1>1, <1>2, <1>4
<1>7. QED
  BY <1>5, <1>6

\* An edit touches a row or the provider, and nothing of the requests, the
\* journals and the events; of a row never the fee.
LEMMA EditFrame ==
    ASSUME TypeOK, Edit
    PROVE  /\ job' = job /\ ledger' = ledger /\ published' = published
           /\ \A t \in Txn : rows'[t].fee_amount = rows[t].fee_amount
           /\ accounts' = accounts \/ accounts' \in NewAccounts
<1>1. rows \in [Txn -> Row]
  BY DEF TypeOK
<1>2. CASE \E u \in Txn : SoftDelete(u) \/ Restore(u)
  <2>1. PICK u \in Txn, b \in BOOLEAN : rows' = [rows EXCEPT ![u].deleted = b]
    BY <1>2 DEF SoftDelete, Restore
  <2>2. UNCHANGED <<accounts, job, ledger, published>>
    BY <1>2 DEF SoftDelete, Restore
  <2>3. QED
    BY <1>1, <2>1, <2>2 DEF Row
<1>3. CASE \E u \in Txn : apply_patch(u)
  <2>1. PICK u \in Txn : apply_patch(u)
    BY <1>3
  <2>2. PICK row \in Row : row.fee_amount = rows[u].fee_amount /\ rows' = [rows EXCEPT ![u] = row]
    BY <2>1, PatchedRow
  <2>3. QED
    BY <1>1, <2>1, <2>2 DEF apply_patch
<1>4. CASE \E acc \in NewAccounts : PatchAccounts(acc)
  BY <1>4 DEF PatchAccounts
<1>5. QED
  BY <1>2, <1>3, <1>4 DEF Edit

LEMMA EditTyped == TypeOK /\ Edit => TypeOK'
<1> SUFFICES ASSUME TypeOK, Edit PROVE TypeOK'
  OBVIOUS
<1>1. rows' \in [Txn -> Row]
  <2>1. CASE \E u \in Txn : SoftDelete(u) \/ Restore(u)
    <3>1. \A r \in Row, b \in BOOLEAN : [r EXCEPT !.deleted = b] \in Row
      BY DEF Row
    <3>2. PICK u \in Txn, b \in BOOLEAN : rows' = [rows EXCEPT ![u].deleted = b]
      BY <2>1 DEF SoftDelete, Restore
    <3>3. QED
      BY <3>1, <3>2 DEF TypeOK
  <2>2. CASE \E u \in Txn : apply_patch(u)
    <3>1. PICK u \in Txn : \E row \in Row : rows' = [rows EXCEPT ![u] = row]
      BY <2>2, PatchedRow
    <3>2. QED
      BY <3>1 DEF TypeOK
  <2>3. CASE rows' = rows
    BY <2>3 DEF TypeOK
  <2>4. QED
    BY <2>1, <2>2, <2>3 DEF Edit, PatchAccounts
<1>2. QED
  BY <1>1, EditFrame, ConstantsAssumption DEF TypeOK

LEMMA InitAdminTyped == AdminInit => TypeOK
<1> SUFFICES ASSUME AdminInit PROVE TypeOK
  OBVIOUS
<1>1. \A r \in NewRow : r \in Row /\ [r EXCEPT !.deleted = TRUE] \in Row
  BY NewRowAssumption DEF Row
<1>2. UNION {{r, [r EXCEPT !.deleted = TRUE]} : r \in NewRow} \subseteq Row
  BY <1>1
<1>3. rows \in [Txn -> Row]
  BY <1>2 DEF AdminInit
<1>4. QED
  BY <1>3, ConstantsAssumption DEF AdminInit, TypeOK, Job

\* A step of the administered engine is one of the engine, or an edit.
LEMMA AdminSteps ==
    ASSUME [AdminNext]_adminVars
    PROVE  \/ [Next]_vars /\ edits' = edits /\ reopened' = reopened
           \/ Edit /\ edits' = edits + 1 /\ reopened' = reopened \cup TakenBack
  BY DEF AdminNext, adminVars

AdminTypeOK == TypeOK /\ edits \in Nat

LEMMA AdminTyped == AdminSpec => []AdminTypeOK
<1>1. AdminInit => AdminTypeOK
  BY InitAdminTyped DEF AdminInit, AdminTypeOK
<1>2. AdminTypeOK /\ [AdminNext]_adminVars => AdminTypeOK'
  BY AdminSteps, StepTyped, EditTyped DEF AdminTypeOK
<1>3. QED
  BY <1>1, <1>2, PTL DEF AdminSpec

\* What leaves the count of edits alone is a step of the engine.
LEMMA EngineSteps ==
    ASSUME AdminTypeOK, [AdminNext]_adminVars, edits' = edits
    PROVE  [Next]_vars
<1>1. edits + 1 # edits
  BY DEF AdminTypeOK
<1>2. QED
  BY <1>1, AdminSteps

-----------------------------------------------------------------------------
(* Exactly once, whatever operators edit.                                  *)

LEMMA InitAdminSeam == AdminInit => SeamInv
  BY DEF AdminInit, SeamInv, AboutToPublish, Announced, AtMostOneEventPerKind, Idle

\* SeamInv does not survive a PATCH that takes a row back: its event is out and
\* the row is open.  Every other row keeps its part of it.
SeamUnlessReopened == \A t \in Txn \ reopened : RowSeam(t)

LEMMA EditKeepsSeam ==
    ASSUME TypeOK, Edit, NEW t \in Txn, RowSeam(t),
           \A k \in Kind : Reached(t, k) => Reached(t, k)'
    PROVE  RowSeam(t)'
<1>1. published' = published /\ job' = job
  BY EditFrame
<1>2. QED
  BY <1>1, StillKeepsSeam DEF AboutToPublish

\* However operators delete, restore and patch rows and reconfigure the provider
\* between the awaits of any request, the ACL does not hear an event of a row
\* twice unless a PATCH took the row's settle or refund back.
THEOREM ExactlyOnceUnlessReopened == AdminSpec => []OnceUnlessReopened
<1>1. AdminInit => SeamUnlessReopened
  BY InitAdminSeam, SeamByRow DEF SeamUnlessReopened
<1>2. ASSUME AdminTypeOK, SeamUnlessReopened, [AdminNext]_adminVars
      PROVE  SeamUnlessReopened'
  <2> SUFFICES ASSUME NEW t \in Txn, t \notin reopened' PROVE RowSeam(t)'
    BY DEF SeamUnlessReopened
  <2>1. CASE [Next]_vars /\ reopened' = reopened
    BY <1>2, <2>1, StepRowSeam DEF SeamUnlessReopened, AdminTypeOK
  <2>2. CASE Edit /\ reopened' = reopened \cup TakenBack
    <3>1. t \notin reopened /\ t \notin TakenBack
      BY <2>2
    <3>2. \A k \in Kind : Reached(t, k) => Reached(t, k)'
      BY <3>1 DEF TakenBack, Reached
    <3>3. QED
      BY <1>2, <2>2, <3>1, <3>2, EditKeepsSeam DEF SeamUnlessReopened, AdminTypeOK
  <2>3. QED
    BY <1>2, <2>1, <2>2, AdminSteps
<1>3. SeamUnlessReopened => OnceUnlessReopened
  BY DEF SeamUnlessReopened, RowSeam, OnceUnlessReopened
<1>4. QED
  BY <1>1, <1>2, <1>3, AdminTyped, PTL DEF AdminSpec

LEMMA InitAdminMaps == AdminInit => Seam!Init
<1> SUFFICES ASSUME AdminInit PROVE Seam!Init
  OBVIOUS
<1>1. \A r \in NewRow : r.status \notin Terminal /\ [r EXCEPT !.deleted = TRUE].status \notin Terminal
  BY NewRowAssumption DEF Row, OpenStatus, Terminal
<1>2. ASSUME NEW t \in Txn PROVE rows[t].status \notin Terminal
  <2>1. PICK r \in NewRow : rows[t] = r \/ rows[t] = [r EXCEPT !.deleted = TRUE]
    BY DEF AdminInit
  <2>2. QED
    BY <1>1, <2>1
<1>3. QED
  BY <1>2, StartMaps DEF AdminInit

\* To the ACL a row is open, settled or refunded.
LEMMA PhaseKept ==
    ASSUME UNCHANGED Phase, NEW t \in Txn
    PROVE  \/ rows'[t].status = rows[t].status
           \/ {rows[t].status, rows'[t].status} \cap Terminal = {}
<1>1. Phase'[t] = Phase[t]
  OBVIOUS
<1>2. QED
  BY <1>1 DEF Phase, Terminal

\* Such an edit is nothing the ACL hears of.
LEMMA EditMaps == TypeOK /\ Edit /\ UNCHANGED Phase => UNCHANGED Seam!vars
<1> SUFFICES ASSUME TypeOK, Edit, UNCHANGED Phase PROVE UNCHANGED Seam!vars
  OBVIOUS
<1>1. published' = published /\ job' = job
  BY EditFrame
<1>2. \A w \in Worker, t \in Txn, k \in Kind : AboutToPublish(w, t, k)' <=> AboutToPublish(w, t, k)
  BY <1>1 DEF AboutToPublish
<1>3. QED
  BY <1>1, <1>2, PhaseKept, StillMaps

\* Nothing but a PATCH into or out of the settled statuses breaks the seam: an
\* administered engine whose operators make none still implements it, however
\* they delete, restore, relink and patch rows and reconfigure the provider.
THEOREM SeamSurvivesOtherEdits == AdminSpec /\ PatchesKeepPhase => ImplementsSeam
<1> DEFINE Keeps == edits' # edits => UNCHANGED Phase
<1>1. ASSUME AdminTypeOK, SeamInv, [AdminNext]_adminVars, [Keeps]_adminVars
      PROVE  SeamInv' /\ [Seam!Next]_Seam!vars
  <2>1. CASE [Next]_vars
    BY <1>1, <2>1, StepSeam, StepMaps DEF AdminTypeOK
  <2>2. CASE Edit /\ edits' = edits + 1
    <3>1. UNCHANGED Phase
      BY <1>1, <2>2 DEF AdminTypeOK, adminVars
    <3>2. \A t \in Txn, k \in Kind : Reached(t, k) => Reached(t, k)'
      BY <3>1, PhaseKept DEF Reached, Terminal
    <3>3. \A t \in Txn : RowSeam(t)'
      BY <1>1, <2>2, <3>2, SeamByRow, EditKeepsSeam DEF AdminTypeOK
    <3>4. SeamInv'
      BY <3>3 DEF SeamInv, RowSeam, AtMostOneEventPerKind
    <3>5. QED
      BY <1>1, <2>2, <3>1, <3>4, EditMaps DEF AdminTypeOK
  <2>3. QED
    BY <1>1, <2>1, <2>2, AdminSteps
<1>2. QED
  BY <1>1, AdminTyped, InitAdminSeam, InitAdminMaps, PTL
  DEF AdminSpec, PatchesKeepPhase, ImplementsSeam, Seam!Spec

-----------------------------------------------------------------------------
(* What no step of the engine does to a row.                               *)

\* A failed charge is never settled by a request, one that read it while it was
\* open included.
THEOREM FailedIsFinal == AdminSpec => FailedStaysFailed
<1>1. ASSUME AdminTypeOK, [AdminNext]_adminVars, edits' = edits, NEW t \in Txn,
             rows[t].status = "failed"
      PROVE  rows'[t].status = "failed"
  BY <1>1, EngineSteps, RowFrame DEF AdminTypeOK, MaySettle, MayRefund, OpenStatus
<1>2. AdminTypeOK /\ [AdminNext]_adminVars =>
        [\A t \in Txn : edits' = edits /\ rows[t].status = "failed"
                           => rows'[t].status = "failed"]_adminVars
  BY <1>1
<1>3. QED
  BY <1>2, AdminTyped, PTL DEF AdminSpec, FailedStaysFailed

\* No request moves a row in the trash, one that read it before included.
THEOREM DeletedRowsRest == AdminSpec => DeletedDoesNotMove
<1>1. ASSUME AdminTypeOK, [AdminNext]_adminVars, edits' = edits, NEW t \in Txn,
             rows[t].deleted
      PROVE  rows'[t].status = rows[t].status
  BY <1>1, EngineSteps, RowFrame DEF AdminTypeOK, MaySettle, MayRefund
<1>2. AdminTypeOK /\ [AdminNext]_adminVars =>
        [\A t \in Txn : edits' = edits /\ rows[t].deleted
                           => rows'[t].status = rows[t].status]_adminVars
  BY <1>1
<1>3. QED
  BY <1>2, AdminTyped, PTL DEF AdminSpec, DeletedDoesNotMove

-----------------------------------------------------------------------------
(* The link of a posted fee.                                               *)

\* A fee journal of t: the fee the row records, on the two accounts some
\* configuration had together.
IsFeeOf(j, t) ==
    /\ j.amount = rows[t].fee_amount
    /\ [fee |-> j.debit, settlement |-> j.credit] \in NewAccounts

\* A settle posts an original of such a journal, a refund a reversal.
EnvelopeIsFee(w) ==
    job[w].pc = "post" =>
        /\ job[w].env.kind = IF job[w].op = "settle" THEN "original" ELSE "reversal"
        /\ job[w].op = "settle" => IsFeeOf(job[w].env, job[w].txn)

\* What accounting answered a settle is the place of a fee journal.
AnswerIsFee(w) ==
    job[w].pc = "transition" /\ job[w].op = "settle" =>
        job[w].ack \in Booked(job[w].txn, "original") \cup {0}

FeeJournals(t) == \A i \in Booked(t, "original") : IsFeeOf(ledger[t][i], t)

\* FeeInv survives no edit of the provider's accounts, by which a row may owe a
\* fee it did not owe when it settled, and no PATCH of the link.  What the
\* requests in flight carry, and what was posted, survive any edit.
LinkInv ==
    /\ accounts \in NewAccounts
    /\ \A w \in Worker : EnvelopeIsFee(w) /\ AnswerIsFee(w)
    /\ \A t \in Txn : FeeJournals(t)

LEMMA InitLink == AdminInit => LinkInv
<1> SUFFICES ASSUME AdminInit PROVE LinkInv
  OBVIOUS
<1>1. ASSUME NEW t \in Txn PROVE Booked(t, "original") = {}
  <2>1. ledger[t] = <<>>
    BY DEF AdminInit
  <2>2. QED
    BY <2>1 DEF Booked
<1>2. QED
  BY <1>1 DEF AdminInit, LinkInv, EnvelopeIsFee, AnswerIsFee, Idle, FeeJournals

LEMMA AccountsStay == [Next]_vars => accounts' = accounts
  BY DEF Next, EngineNext, WorkerStep, Proceeds, SettleRead, RefundRead, PostBooked,
         PostReused, PostRejected, MarkFeeFailed, TransitionToSettled, TransitionToRefunded,
         Publish, Reply, Abandon, LinkPaymentEntry, vars

\* No edit changes what a journal of the row is judged by.
LEMMA EditKeepsLink == TypeOK /\ LinkInv /\ Edit => LinkInv'
<1> SUFFICES ASSUME TypeOK, LinkInv, Edit PROVE LinkInv'
  OBVIOUS
<1>1. UNCHANGED <<job, ledger>> /\ (accounts' = accounts \/ accounts' \in NewAccounts)
  BY EditFrame
<1>2. \A t \in Txn : Booked(t, "original")' = Booked(t, "original")
  BY <1>1 DEF Booked
<1>3. ASSUME NEW w \in Worker PROVE EnvelopeIsFee(w)' /\ AnswerIsFee(w)'
  <2>1. CASE job[w] = Idle
    BY <1>1, <2>1 DEF EnvelopeIsFee, AnswerIsFee, Idle
  <2>2. CASE job[w] # Idle
    <3>1. job[w].txn \in Txn
      BY <2>2, JobRow
    <3>2. rows'[job[w].txn].fee_amount = rows[job[w].txn].fee_amount
      BY <3>1, EditFrame
    <3>3. EnvelopeIsFee(w)'
      BY <1>1, <3>2 DEF LinkInv, EnvelopeIsFee, IsFeeOf
    <3>4. AnswerIsFee(w)'
      BY <1>1, <1>2, <3>1 DEF LinkInv, AnswerIsFee
    <3>5. QED
      BY <3>3, <3>4
  <2>3. QED
    BY <2>1, <2>2
<1>4. ASSUME NEW t \in Txn PROVE FeeJournals(t)'
  <2>1. rows'[t].fee_amount = rows[t].fee_amount
    BY EditFrame
  <2>2. QED
    BY <1>1, <1>2, <2>1 DEF LinkInv, FeeJournals, IsFeeOf
<1>5. QED
  BY <1>1, <1>3, <1>4 DEF LinkInv

LEMMA EnvelopeStaysFee ==
    ASSUME TypeOK, LinkInv, [Next]_vars, NEW w \in Worker
    PROVE  EnvelopeIsFee(w)'
<1> SUFFICES ASSUME job'[w].pc = "post"
             PROVE  /\ job'[w].env.kind = IF job'[w].op = "settle" THEN "original" ELSE "reversal"
                    /\ job'[w].op = "settle" =>
                          /\ job'[w].env.amount = rows'[job'[w].txn].fee_amount
                          /\ [fee |-> job'[w].env.debit, settlement |-> job'[w].env.credit]
                                \in NewAccounts
  BY DEF EnvelopeIsFee, IsFeeOf
<1>1. CASE \E t \in Txn : SettleRead(w, t) \/ RefundRead(w, t)
  <2>1. PICK t \in Txn : SettleRead(w, t) \/ RefundRead(w, t)
    BY <1>1
  <2>2. /\ rows' = rows /\ job'[w].txn = t
        /\ \/ job'[w].op = "settle" /\ job'[w].env = compose_fee_post(rows[t])
           \/ job'[w].op = "refund" /\ job'[w].env = compose_fee_reversal(rows[t])
    BY <2>1 DEF TypeOK, SettleRead, RefundRead, Enter, Finish, Goto
  <2>3. [fee |-> accounts.fee, settlement |-> accounts.settlement] = accounts
    BY DEF TypeOK, Accounts
  <2>4. QED
    BY <2>2, <2>3 DEF LinkInv, compose_fee_post, compose_fee_reversal
<1>2. CASE job'[w] = job[w]
  <2>1. job[w].txn \in Txn
    BY <1>2, JobRow DEF Idle
  <2>2. rows'[job[w].txn].fee_amount = rows[job[w].txn].fee_amount
    BY <2>1, RowFrame
  <2>3. QED
    BY <1>2, <2>2 DEF LinkInv, EnvelopeIsFee, IsFeeOf
<1>3. CASE Proceeds(w) \/ Reply(w) \/ Abandon(w)
  BY <1>3 DEF TypeOK, Proceeds, PostBooked, PostReused, PostRejected, MarkFeeFailed,
              TransitionToSettled, TransitionToRefunded, Publish, Reply, Abandon,
              Acknowledge, Finish, Goto, Idle
<1>4. QED
  BY <1>1, <1>2, <1>3, JobFrame

LEMMA AnswerStaysFee ==
    ASSUME DedupKey # "source_id", TypeOK, LinkInv, [Next]_vars, NEW w \in Worker
    PROVE  AnswerIsFee(w)'
<1> SUFFICES ASSUME job'[w].pc = "transition", job'[w].op = "settle", job'[w].ack # 0
             PROVE  LET t == job'[w].txn IN
                    /\ job'[w].ack \in 1 .. Len(ledger'[t])
                    /\ ledger'[t][job'[w].ack].kind = "original"
  BY DEF AnswerIsFee, Booked
<1>1. CASE PostBooked(w)
  <2>1. PICK t \in Txn, env \in Journal : job[w].txn = t /\ job[w].env = env
    BY <1>1, JobAt DEF TypeOK, PostBooked, Posting
  <2>2. /\ ledger'[t] = Append(ledger[t], env)
        /\ job'[w].txn = t /\ job'[w].ack = Len(ledger[t]) + 1 /\ job'[w].op = job[w].op
    BY <1>1, <2>1 DEF TypeOK, PostBooked, Acknowledge, Goto
  <2>3. env.kind = "original"
    BY <1>1, <2>1, <2>2 DEF LinkInv, EnvelopeIsFee, PostBooked
  <2>4. ledger[t] \in Seq(Journal)
    BY DEF TypeOK
  <2>5. Len(ledger[t]) + 1 \in 1 .. Len(ledger'[t]) /\ ledger'[t][Len(ledger[t]) + 1] = env
    BY <2>2, <2>4, Appended
  <2>6. QED
    BY <2>2, <2>3, <2>5 DEF Booked
<1>2. CASE PostReused(w)
  <2>1. PICK i \in Booked(job[w].txn, job[w].env.kind) : Acknowledge(w, i)
    <3>1. job[w].txn \in Txn
      BY <1>2, JobRow DEF PostReused, Idle
    <3>2. QED
      BY <1>2, <3>1, DuplicatesOf DEF PostReused
  <2>2. /\ ledger' = ledger
        /\ job'[w].txn = job[w].txn /\ job'[w].ack = i /\ job'[w].op = job[w].op
    BY <1>2, <2>1 DEF TypeOK, PostReused, Acknowledge, Goto
  <2>3. job[w].env.kind = "original"
    BY <1>2, <2>2 DEF LinkInv, EnvelopeIsFee, PostReused
  <2>4. QED
    BY <2>1, <2>2, <2>3 DEF Booked
<1>3. CASE job'[w] = job[w]
  <2>1. PICK t \in Txn : job[w].txn = t
    BY <1>3, JobRow DEF Idle
  <2>2. job[w].ack \in Booked(t, "original")
    BY <1>3, <2>1 DEF LinkInv, AnswerIsFee
  <2>3. job[w].ack \in 1 .. Len(ledger'[t]) /\ ledger'[t][job[w].ack].kind = "original"
    BY <2>2, JournalsStay DEF Booked
  <2>4. QED
    BY <1>3, <2>1, <2>3
<1>4. CASE \E t \in Txn : SettleRead(w, t) \/ RefundRead(w, t)
  BY <1>4 DEF TypeOK, SettleRead, RefundRead, Enter, Finish, Goto
<1>5. CASE \/ PostRejected(w) \/ MarkFeeFailed(w)
           \/ TransitionToSettled(w) \/ TransitionToRefunded(w)
           \/ Publish(w) \/ Reply(w) \/ Abandon(w)
  BY <1>5 DEF TypeOK, PostRejected, MarkFeeFailed, TransitionToSettled, TransitionToRefunded,
              Publish, Reply, Abandon, Finish, Goto, Idle
<1>6. QED
  BY <1>1, <1>2, <1>3, <1>4, <1>5, JobFrame DEF Proceeds

LEMMA JournalsStayFee ==
    ASSUME TypeOK, LinkInv, [Next]_vars, NEW t \in Txn
    PROVE  FeeJournals(t)'
<1>1. rows'[t].fee_amount = rows[t].fee_amount
  BY RowFrame
<1> SUFFICES ASSUME NEW i \in 1 .. Len(ledger'[t]), ledger'[t][i].kind = "original"
             PROVE  /\ ledger'[t][i].amount = rows[t].fee_amount
                    /\ [fee |-> ledger'[t][i].debit, settlement |-> ledger'[t][i].credit]
                          \in NewAccounts
  BY <1>1 DEF FeeJournals, IsFeeOf, Booked
<1>2. CASE ledger'[t] = ledger[t]
  BY <1>2 DEF LinkInv, FeeJournals, IsFeeOf, Booked
<1>3. CASE \E w \in Worker :
              PostBooked(w) /\ job[w].txn = t /\ ledger'[t] = Append(ledger[t], job[w].env)
  <2>1. PICK w \in Worker :
              PostBooked(w) /\ job[w].txn = t /\ ledger'[t] = Append(ledger[t], job[w].env)
    BY <1>3
  <2>2. job[w].env \in Journal /\ ledger[t] \in Seq(Journal)
    BY <2>1, JobAt DEF TypeOK, PostBooked, Posting
  <2>3. \/ i \in 1 .. Len(ledger[t]) /\ ledger'[t][i] = ledger[t][i]
        \/ ledger'[t][i] = job[w].env
    BY <2>1, <2>2, Appended
  <2>4. job[w].env.kind = "original" => IsFeeOf(job[w].env, t)
    BY <2>1 DEF LinkInv, EnvelopeIsFee, PostBooked
  <2>5. QED
    BY <2>3, <2>4 DEF LinkInv, FeeJournals, IsFeeOf, Booked
<1>4. QED
  BY <1>2, <1>3, LedgerFrame

\* A row is settled and marked posted only by the request whose answer it links.
LEMMA SettleFrame ==
    ASSUME TypeOK, [Next]_vars, NEW t \in Txn,
           rows[t].status # "settled", rows'[t].status = "settled",
           rows'[t].posting_state = "posted"
    PROVE  \E w \in Worker : /\ job[w].pc = "transition" /\ job[w].op = "settle"
                             /\ job[w].txn = t /\ job[w].ack > 0
                             /\ rows'[t].fee_post_id = job[w].ack
<1>1. PICK w \in Worker : TransitionToSettled(w) /\ job[w].txn = t /\ rows'[t].fee_post_id = job[w].ack
  BY RowFrame
<1>2. rows' = [rows EXCEPT
          ![t].status = "settled",
          ![t].fee_post_id = job[w].ack,
          ![t].posting_state = IF job[w].ack > 0 THEN "posted" ELSE "pending"]
  BY <1>1 DEF TransitionToSettled
<1>3. rows'[t].posting_state = IF job[w].ack > 0 THEN "posted" ELSE "pending"
  BY <1>2 DEF TypeOK, Row
<1>4. QED
  BY <1>1, <1>3 DEF TransitionToSettled

LEMMA LinkInvariant ==
    ASSUME DedupKey # "source_id" PROVE AdminSpec => []LinkInv
<1>1. TypeOK /\ LinkInv /\ [Next]_vars => LinkInv'
  BY EnvelopeStaysFee, AnswerStaysFee, JournalsStayFee, AccountsStay DEF LinkInv
<1>2. AdminTypeOK /\ LinkInv /\ [AdminNext]_adminVars => LinkInv'
  BY <1>1, AdminSteps, EditKeepsLink DEF AdminTypeOK
<1>3. QED
  BY <1>2, AdminTyped, InitLink, PTL DEF AdminSpec

\* Whoever edits rows and the provider while the request is in flight, a settle
\* that marks its row posted links a fee journal of the row, of the recorded fee,
\* on two accounts that one configuration had: if accounting can tell a reversal
\* from its original.  If it cannot, the refund of a row that owed no fee when it
\* settled books a reversal first, which then answers a settle after a PATCH.
THEOREM PostedLinkIsRight ==
    ASSUME DedupKey # "source_id" PROVE AdminSpec => PostedFeeIsBooked
<1>1. ASSUME AdminTypeOK, LinkInv, [AdminNext]_adminVars, edits' = edits, NEW t \in Txn,
             rows[t].status # "settled", rows'[t].status = "settled",
             rows'[t].posting_state = "posted"
      PROVE  LET j == ledger[t][rows'[t].fee_post_id] IN
             /\ rows'[t].fee_post_id \in Booked(t, "original")
             /\ j.amount = rows[t].fee_amount
             /\ [fee |-> j.debit, settlement |-> j.credit] \in NewAccounts
  <2>1. PICK w \in Worker : /\ job[w].pc = "transition" /\ job[w].op = "settle"
                            /\ job[w].txn = t /\ job[w].ack > 0
                            /\ rows'[t].fee_post_id = job[w].ack
    BY <1>1, EngineSteps, SettleFrame DEF AdminTypeOK
  <2>2. job[w].ack \in Booked(t, "original")
    BY <1>1, <2>1 DEF LinkInv, AnswerIsFee
  <2>3. QED
    BY <1>1, <2>1, <2>2 DEF LinkInv, FeeJournals, IsFeeOf
<1>2. AdminTypeOK /\ LinkInv /\ [AdminNext]_adminVars =>
        [\A t \in Txn :
            edits' = edits /\ rows[t].status # "settled" /\ rows'[t].status = "settled"
            /\ rows'[t].posting_state = "posted" =>
                LET j == ledger[t][rows'[t].fee_post_id] IN
                /\ rows'[t].fee_post_id \in Booked(t, "original")
                /\ j.amount = rows[t].fee_amount
                /\ [fee |-> j.debit, settlement |-> j.credit] \in NewAccounts]_adminVars
  BY <1>1
<1>3. QED
  BY <1>2, AdminTyped, LinkInvariant, PTL DEF AdminSpec, PostedFeeIsBooked

=============================================================================
