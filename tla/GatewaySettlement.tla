------------------------- MODULE GatewaySettlement --------------------------
(***************************************************************************)
(* The settlement engine, GatewayWriteService over the statements of       *)
(* GatewayTransactionRepository: concurrent requests that settle or refund *)
(* rows of gateway_transactions, post the gateway fee at accounting, and   *)
(* publish the seam events.                                                *)
(*                                                                         *)
(* A worker serves one request at a time.  Its steps are the awaits of     *)
(* settle_transaction and reverse_transaction: the read of the row joined  *)
(* with its provider, the fee post (accounting is its own unit of work),   *)
(* the transition in one database transaction, the publish after the       *)
(* commit.  Between two steps any other worker may run, and the request    *)
(* may vanish: the client hangs up and the future is dropped, the process  *)
(* dies, a statement returns an error that `?` propagates.                 *)
(***************************************************************************)
EXTENDS Integers, Sequences

CONSTANTS
    Txn,            \* ids of gateway_transactions rows
    Worker,         \* request slots of the process(es) running the module
    PaymentEntry,   \* PaymentEntry ids the ACL may link back
    None,           \* SQL NULL / Rust's Option::None
    NewRow,         \* the rows charge creation leaves behind
    Account,        \* ids of general-ledger accounts
    NewAccounts,    \* how an operator may have configured the provider
    DedupKey,       \* what accounting tells a post it has seen before by
    MaxJournals     \* bound on the journals per row of a sink that cannot tell

VARIABLES
    rows,           \* rows[t]: the row of t in gateway_transactions
    accounts,       \* fee_account_id and settlement_account_id of the provider
    job,            \* job[w]: what worker w is doing
    ledger,         \* ledger[t]: the gateway_fee journals accounting booked for t
    published       \* published[t]: the events the sink received for t, in order

vars == <<rows, accounts, job, ledger, published>>

OpenStatus == {"pending", "authorized", "captured"}

Terminal == {"settled", "refunded"}

Row == [status: OpenStatus \cup Terminal \cup {"failed"},
        posting_state: {"pending", "posted", "failed"},
        fee_post_id: Nat,              \* position in ledger[t], 0 for NULL
        payment_entry_id: PaymentEntry \cup {None},
        gross_amount: Nat,
        fee_amount: Nat,
        currency: {"IDR", "other"},
        deleted: BOOLEAN]

Accounts == [fee: Account \cup {None}, settlement: Account \cup {None}]

\* An AccountingPostEnvelope: which of the two composers made it, the accounts
\* and the amount of its two lines, and reverses_post_id.
Journal == [kind: {"original", "reversal"}, debit: Account, credit: Account,
            amount: Nat, reverses: Nat]

Event == [kind: {"settled", "refunded"},
          payment_entry_id: PaymentEntry \cup {None},
          gross_amount: Nat,
          fee_amount: Nat]

Op == {"settle", "refund"}

\* The local state of a request, by the await it is at.
Idle == [pc |-> "idle"]

Posting == [pc: {"post"}, op: Op, txn: Txn, src: Row, env: Journal]

Marking == [pc: {"mark"}, op: Op, txn: Txn]

Moving == [pc: {"transition"}, op: Op, txn: Txn, src: Row, ack: Nat]

Publishing == [pc: {"publish"}, op: Op, txn: Txn, event: Event]

Done == [pc: {"done"}, op: Op, txn: Txn,
         outcome: {"settled", "already_settled", "not_found", "invalid_status",
                   "unsupported_currency", "rejected"}]

Job == {Idle} \cup Posting \cup Marking \cup Moving \cup Publishing \cup Done

ASSUME ConstantsAssumption ==
    /\ None \notin PaymentEntry \cup Account
    /\ NewAccounts \subseteq Accounts
    /\ DedupKey \in {"source_id", "idempotency_key", "none"}
    /\ MaxJournals \in Nat

\* Charge creation inserts an open row: nothing posted, nothing linked.
ASSUME NewRowAssumption ==
    \A r \in NewRow :
        /\ r \in Row
        /\ r.status \in OpenStatus
        /\ r.posting_state = "pending"
        /\ r.fee_post_id = 0
        /\ r.payment_entry_id = None
        /\ ~r.deleted

Init ==
    /\ rows \in [Txn -> NewRow]
    /\ accounts \in NewAccounts
    /\ job = [w \in Worker |-> Idle]
    /\ ledger = [t \in Txn |-> <<>>]
    /\ published = [t \in Txn |-> <<>>]

-----------------------------------------------------------------------------
(* The composers.  None: nothing to post, so the post is skipped.          *)

HasFeePost(src) ==
    src.fee_amount > 0 /\ accounts.fee # None /\ accounts.settlement # None

compose_fee_post(src) ==
    [kind |-> "original", debit |-> accounts.fee, credit |-> accounts.settlement,
     amount |-> src.fee_amount, reverses |-> 0]

\* Mutant: the reversal negates the amount instead of swapping the sides.
compose_fee_reversal_Negated(src) ==
    [kind |-> "reversal", debit |-> accounts.fee, credit |-> accounts.settlement,
     amount |-> 0 - src.fee_amount, reverses |-> src.fee_post_id]

\* Mutant: the lines are those of the original.
compose_fee_reversal_Unflipped(src) ==
    [kind |-> "reversal", debit |-> accounts.fee, credit |-> accounts.settlement,
     amount |-> src.fee_amount, reverses |-> src.fee_post_id]

\* Mutant: the link to the original is left out.
compose_fee_reversal_Unlinked(src) ==
    [kind |-> "reversal", debit |-> accounts.settlement, credit |-> accounts.fee,
     amount |-> src.fee_amount, reverses |-> 0]

compose_fee_reversal(src) ==
    [kind |-> "reversal", debit |-> accounts.settlement, credit |-> accounts.fee,
     amount |-> src.fee_amount, reverses |-> src.fee_post_id]

\* Mutants: the events carry what landed in the bank as the gross.
SettledEvent_Net(hdr) ==
    [kind |-> "settled", payment_entry_id |-> None,
     gross_amount |-> hdr.gross_amount - hdr.fee_amount, fee_amount |-> hdr.fee_amount]

RefundedEvent_Net(src) ==
    [kind |-> "refunded", payment_entry_id |-> src.payment_entry_id,
     gross_amount |-> src.gross_amount - src.fee_amount, fee_amount |-> src.fee_amount]

SettledEvent(hdr) ==
    [kind |-> "settled", payment_entry_id |-> None,
     gross_amount |-> hdr.gross_amount, fee_amount |-> hdr.fee_amount]

RefundedEvent(src) ==
    [kind |-> "refunded", payment_entry_id |-> src.payment_entry_id,
     gross_amount |-> src.gross_amount, fee_amount |-> src.fee_amount]

-----------------------------------------------------------------------------
(* The requests.                                                           *)

Goto(w, j) == job' = [job EXCEPT ![w] = j]

Finish(w, op, t, outcome) ==
    Goto(w, [pc |-> "done", op |-> op, txn |-> t, outcome |-> outcome])

\* After the guards of either operation: the fee goes to the sink first, if
\* there is one to post; src is the snapshot the rest of the request works on.
Enter(w, op, t, env) ==
    IF HasFeePost(rows[t])
      THEN Goto(w, [pc |-> "post", op |-> op, txn |-> t, src |-> rows[t], env |-> env])
      ELSE Goto(w, [pc |-> "transition", op |-> op, txn |-> t, src |-> rows[t], ack |-> 0])

\* Mutant: a captured row counts as settled.
SettleRead_Captured(w, t) ==
    LET src == rows[t] IN
    /\ job[w] = Idle
    /\ IF src.status \in Terminal \cup {"captured"}
         THEN Finish(w, "settle", t, "already_settled")
         ELSE Enter(w, "settle", t, compose_fee_post(src))
    /\ UNCHANGED <<rows, accounts, ledger, published>>

\* settle_transaction up to the fee post: the one read and its early returns.
SettleRead(w, t) ==
    LET src == rows[t] IN
    /\ job[w] = Idle
    /\ \/ /\ src.deleted
          /\ Finish(w, "settle", t, "not_found")
       \/ /\ ~src.deleted
          /\ src.currency # "IDR"
          /\ Finish(w, "settle", t, "unsupported_currency")
       \/ /\ ~src.deleted
          /\ src.currency = "IDR"
          /\ src.status \in {"settled", "refunded"}
          /\ Finish(w, "settle", t, "already_settled")
       \/ /\ ~src.deleted
          /\ src.currency = "IDR"
          /\ src.status \notin {"settled", "refunded"}
          /\ Enter(w, "settle", t, compose_fee_post(src))
    /\ UNCHANGED <<rows, accounts, ledger, published>>

\* reverse_transaction up to the fee reversal; there is no currency check.
RefundRead(w, t) ==
    LET src == rows[t] IN
    /\ job[w] = Idle
    /\ \/ /\ src.deleted
          /\ Finish(w, "refund", t, "not_found")
       \/ /\ ~src.deleted
          /\ src.status = "refunded"
          /\ Finish(w, "refund", t, "already_settled")
       \/ /\ ~src.deleted
          /\ src.status \notin {"settled", "refunded"}
          /\ Finish(w, "refund", t, "invalid_status")
       \/ /\ ~src.deleted
          /\ src.status = "settled"
          /\ Enter(w, "refund", t, compose_fee_reversal(src))
    /\ UNCHANGED <<rows, accounts, ledger, published>>

\* Both composers put the row id in source_id.  In idempotency_key the original
\* has the row id too, the reversal has it under a "reversal:" prefix.
SameKey(journal, env) ==
    \/ DedupKey = "source_id"
    \/ DedupKey = "idempotency_key" /\ journal.kind = env.kind

\* The journals of t that accounting takes the envelope to repeat.
Duplicates(t, env) == {i \in 1 .. Len(ledger[t]) : SameKey(ledger[t][i], env)}

SinkDedups == DedupKey # "none"

Acknowledge(w, postId) ==
    Goto(w, [pc |-> "transition", op |-> job[w].op, txn |-> job[w].txn,
             src |-> job[w].src, ack |-> postId])

\* Accounting books the envelope as a new journal ...
PostBooked(w) ==
    LET t == job[w].txn IN
    /\ job[w].pc = "post"
    /\ Duplicates(t, job[w].env) = {}
    /\ ~SinkDedups => Len(ledger[t]) < MaxJournals
    /\ ledger' = [ledger EXCEPT ![t] = Append(@, job[w].env)]
    /\ Acknowledge(w, Len(ledger[t]) + 1)
    /\ UNCHANGED <<rows, accounts, published>>

\* ... or recognises the key and answers with the journal it has
\* (GlPostAck::idempotent_reuse) ...
PostReused(w) ==
    /\ job[w].pc = "post"
    /\ \E i \in Duplicates(job[w].txn, job[w].env) : Acknowledge(w, i)
    /\ UNCHANGED <<rows, accounts, ledger, published>>

\* Mutant: a rejected fee does not stop the settle.
PostRejected_Proceeds(w) ==
    /\ job[w].pc = "post"
    /\ Acknowledge(w, 0)
    /\ UNCHANGED <<rows, accounts, ledger, published>>

\* ... or rejects it.
PostRejected(w) ==
    /\ job[w].pc = "post"
    /\ Goto(w, [pc |-> "mark", op |-> job[w].op, txn |-> job[w].txn])
    /\ UNCHANGED <<rows, accounts, ledger, published>>

\* mark_fee_failed: no guard on the row but its id.  Its own failure is
\* ignored; either way the request reports the rejection.
MarkFeeFailed(w) ==
    LET t == job[w].txn IN
    /\ job[w].pc = "mark"
    /\ rows' = [rows EXCEPT ![t].posting_state = "failed"] \/ UNCHANGED rows
    /\ Finish(w, job[w].op, t, "rejected")
    /\ UNCHANGED <<accounts, ledger, published>>

\* Mutants: the transition UPDATE forgets a clause, or names too few statuses.
MaySettle_AnyStatus(t) == ~rows[t].deleted

MaySettle_NotTerminal(t) == rows[t].status \notin Terminal /\ ~rows[t].deleted

MaySettle_EvenDeleted(t) == rows[t].status \in OpenStatus

MaySettle_PendingOnly(t) == rows[t].status = "pending" /\ ~rows[t].deleted

MayRefund_AnyStatus(t) == ~rows[t].deleted

\* The WHERE clauses of the two transition UPDATEs.
MaySettle(t) == rows[t].status \in OpenStatus /\ ~rows[t].deleted

MayRefund(t) == rows[t].status = "settled" /\ ~rows[t].deleted

\* Mutant: the id accounting answered is not bound, the state always is.
TransitionToSettled_Unlinked(w) ==
    LET t == job[w].txn IN
    /\ job[w].pc = "transition" /\ job[w].op = "settle" /\ MaySettle(t)
    /\ rows' = [rows EXCEPT ![t].status = "settled", ![t].posting_state = "posted"]
    /\ Goto(w, [pc |-> "publish", op |-> "settle", txn |-> t, event |-> SettledEvent(rows[t])])
    /\ UNCHANGED <<accounts, ledger, published>>

\* The settle's database transaction: the UPDATE, and the header read on the
\* same connection; or a rollback when another request moved the row first.
TransitionToSettled(w) ==
    LET t == job[w].txn IN
    /\ job[w].pc = "transition" /\ job[w].op = "settle"
    /\ \/ /\ MaySettle(t)
          /\ rows' = [rows EXCEPT
                ![t].status = "settled",
                ![t].fee_post_id = job[w].ack,
                ![t].posting_state = IF job[w].ack > 0 THEN "posted" ELSE "pending"]
          /\ Goto(w, [pc |-> "publish", op |-> "settle", txn |-> t,
                      event |-> SettledEvent(rows[t])])
       \/ /\ ~MaySettle(t)
          /\ Finish(w, "settle", t, "already_settled")
          /\ UNCHANGED rows
    /\ UNCHANGED <<accounts, ledger, published>>

\* Mutant: the refund is not announced.
TransitionToRefunded_Silent(w) ==
    LET t == job[w].txn IN
    /\ job[w].pc = "transition" /\ job[w].op = "refund" /\ MayRefund(t)
    /\ rows' = [rows EXCEPT ![t].status = "refunded"]
    /\ Finish(w, "refund", t, "settled")
    /\ UNCHANGED <<accounts, ledger, published>>

\* The refund's database transaction.  It touches the status and nothing
\* else, and the event is made from the snapshot the request started from.
TransitionToRefunded(w) ==
    LET t == job[w].txn IN
    /\ job[w].pc = "transition" /\ job[w].op = "refund"
    /\ \/ /\ MayRefund(t)
          /\ rows' = [rows EXCEPT ![t].status = "refunded"]
          /\ Goto(w, [pc |-> "publish", op |-> "refund", txn |-> t,
                      event |-> RefundedEvent(job[w].src)])
       \/ /\ ~MayRefund(t)
          /\ Finish(w, "refund", t, "already_settled")
          /\ UNCHANGED rows
    /\ UNCHANGED <<accounts, ledger, published>>

\* Mutant: the reply goes out and the event does not.
Publish_Dropped(w) ==
    /\ job[w].pc = "publish"
    /\ Finish(w, job[w].op, job[w].txn, "settled")
    /\ UNCHANGED <<rows, accounts, ledger, published>>

\* GatewayEventSink::publish, after the commit and outside of it.  There is no
\* await between the two, but the commit itself is one: the row may have moved
\* when the request dies or its acknowledgement is lost.
Publish(w) ==
    /\ job[w].pc = "publish"
    /\ published' = [published EXCEPT ![job[w].txn] = Append(@, job[w].event)]
    /\ Finish(w, job[w].op, job[w].txn, "settled")
    /\ UNCHANGED <<rows, accounts, ledger>>

Reply(w) ==
    /\ job[w].pc = "done"
    /\ Goto(w, Idle)
    /\ UNCHANGED <<rows, accounts, ledger, published>>

\* The request vanishes between two awaits.
Abandon(w) ==
    /\ job[w].pc \in {"post", "mark", "transition", "publish"}
    /\ Goto(w, Idle)
    /\ UNCHANGED <<rows, accounts, ledger, published>>

\* Mutant: without the compare-and-set.
LinkPaymentEntry_Overwrites(t, e) ==
    /\ Len(published[t]) > 0
    /\ rows' = [rows EXCEPT ![t].payment_entry_id = e]
    /\ UNCHANGED <<accounts, job, ledger, published>>

\* The ACL consumed the settled event, created a PaymentEntry and stamps it
\* back; a redelivered drive comes with another entry.
LinkPaymentEntry(t, e) ==
    /\ \E i \in 1 .. Len(published[t]) : published[t][i].kind = "settled"
    /\ rows[t].payment_entry_id = None
    /\ rows' = [rows EXCEPT ![t].payment_entry_id = e]
    /\ UNCHANGED <<accounts, job, ledger, published>>

-----------------------------------------------------------------------------

\* What a request does between its first read and its answer.
Proceeds(w) ==
    \/ PostBooked(w) \/ PostReused(w) \/ PostRejected(w)
    \/ MarkFeeFailed(w)
    \/ TransitionToSettled(w) \/ TransitionToRefunded(w)
    \/ Publish(w)

WorkerStep(w) == Proceeds(w) \/ Reply(w)

EngineNext ==
    \/ \E w \in Worker, t \in Txn : SettleRead(w, t) \/ RefundRead(w, t)
    \/ \E w \in Worker : WorkerStep(w)
    \/ \E t \in Txn, e \in PaymentEntry : LinkPaymentEntry(t, e)

Next == EngineNext \/ \E w \in Worker : Abandon(w)

Spec == Init /\ [][Next]_vars

\* The engine while no request vanishes.
UninterruptedSpec == Init /\ [][EngineNext]_vars

\* The sink, asked again and again, accepts the fee of t.
SettleAccepted(t) ==
    \E w \in Worker : job[w] # Idle /\ job[w].op = "settle" /\ job[w].txn = t
                      /\ (PostBooked(w) \/ PostReused(w))

-----------------------------------------------------------------------------
(* What must hold.                                                         *)

TypeOK ==
    /\ rows \in [Txn -> Row]
    /\ accounts \in Accounts
    /\ job \in [Worker -> Job]
    /\ ledger \in [Txn -> Seq(Journal)]
    /\ published \in [Txn -> Seq(Event)]

Booked(t, kind) == {i \in 1 .. Len(ledger[t]) : ledger[t][i].kind = kind}

Announced(t, kind) == \E i \in 1 .. Len(published[t]) : published[t][i].kind = kind

AboutToPublish(w, t, kind) ==
    job[w].pc = "publish" /\ job[w].txn = t /\ job[w].event.kind = kind

\* No request is working on t.
AtRest(t) == \A w \in Worker : job[w] # Idle => job[w].txn # t

\* Exactly once across the seam: however many requests settle or refund t at
\* once, and whatever the fee sink does, the ACL never receives two settled or
\* two refunded events for t (the rows_affected = 1 gate).
AtMostOneEventPerKind ==
    \A t \in Txn : \A i, j \in 1 .. Len(published[t]) :
        published[t][i].kind = published[t][j].kind => i = j

\* Transition and emission go together: a row that left the open states has
\* its events published, or a worker that will publish them.
TransitionIsAnnounced ==
    \A t \in Txn :
        /\ rows[t].status \in Terminal =>
              \/ Announced(t, "settled")
              \/ \E w \in Worker : AboutToPublish(w, t, "settled")
        /\ rows[t].status = "refunded" =>
              \/ Announced(t, "refunded")
              \/ \E w \in Worker : AboutToPublish(w, t, "refunded")

\* No half-settled row: a row with a fee at a configured provider is settled
\* only with its fee journal booked, and fee_post_id is that journal.  Reads,
\* posts and transitions of several requests interleave freely in between.
FeeBookedWhenSettled ==
    \A t \in Txn :
        rows[t].status \in Terminal /\ HasFeePost(rows[t]) =>
            /\ rows[t].fee_post_id \in Booked(t, "original")
            /\ ledger[t][rows[t].fee_post_id].amount = rows[t].fee_amount

\* With a sink that recognises a repeated post by either key, redelivered and
\* concurrent settles leave exactly one fee journal: the one the row links.
FeeBookedOnce ==
    SinkDedups =>
        \A t \in Txn :
            rows[t].status \in Terminal =>
                Booked(t, "original") = IF HasFeePost(rows[t]) THEN {rows[t].fee_post_id} ELSE {}

Mirrors(reversal, original) ==
    /\ reversal.debit = original.credit
    /\ reversal.credit = original.debit
    /\ reversal.amount = original.amount

\* A refund undoes the fee: a refunded row with a booked fee has a reversal
\* that names the fee journal the row links and is its sign-flipped mirror.
\* This needs a sink that can tell the reversal from the original: one that
\* dedups on source_id, as the header of gateway_gl.rs says accounting does,
\* takes the reversal for the original posted again and books nothing.
RefundReversesFee ==
    \A t \in Txn :
        rows[t].status = "refunded" /\ HasFeePost(rows[t]) =>
            \E i \in Booked(t, "reversal") :
                /\ ledger[t][i].reverses = rows[t].fee_post_id
                /\ Mirrors(ledger[t][i], ledger[t][rows[t].fee_post_id])

\* The fee is never reversed before, or without, being booked: no journal of a
\* row reverses something that is not an earlier fee journal of that row.
ReversalFollowsFee ==
    \A t \in Txn : \A i \in Booked(t, "reversal") :
        /\ ledger[t][i].reverses \in Booked(t, "original")
        /\ ledger[t][i].reverses < i

\* An acknowledged settle (the caller stops redelivering) means the row is
\* settled, also when another request won the race for the transition.
AcknowledgedMeansSettled ==
    \A w \in Worker :
        job[w].pc = "done" /\ job[w].outcome \in {"settled", "already_settled"} =>
            rows[job[w].txn].status \in Terminal

\* The refunded event never tells the ACL to reverse an entry that is not the
\* one linked to the row, even when the ACL's drive is redelivered.
RefundNamesLinkedEntry ==
    \A t \in Txn : \A i \in 1 .. Len(published[t]) :
        published[t][i].payment_entry_id \in {None, rows[t].payment_entry_id}

\* What the documentation says and the code does not do; TransitionIsAnnounced
\* belongs here too when a request may vanish after its commit.

\* GatewayPostingState::failed is "Fee post rejected by accounting": a row so
\* marked does not link a fee journal that accounting booked.
FailedPostIsNotBooked ==
    \A t \in Txn :
        rows[t].posting_state = "failed" => rows[t].fee_post_id \notin Booked(t, "original")

\* The refunded event carries the PaymentEntry created on settle: the one that
\* the row links at the very moment the refund commits.
RefundNamesTheEntry ==
    [][\A w \in Worker :
        job[w].pc = "transition" /\ job'[w].pc = "publish" /\ job'[w].op = "refund" =>
            job'[w].event.payment_entry_id = rows[job[w].txn].payment_entry_id]_vars

\* A refund is all-or-nothing, the fee reversal and the event fire together:
\* with no refund under way, a reversal is booked only if the refund was
\* announced.
RefundIsAllOrNothing ==
    \A t \in Txn :
        AtRest(t) /\ Booked(t, "reversal") # {} => Announced(t, "refunded")

-----------------------------------------------------------------------------
(* The engine implements the seam.                                         *)

Phase == [t \in Txn |-> IF rows[t].status \in Terminal THEN rows[t].status ELSE "open"]

Owed == {o \in Txn \X {"settled", "refunded"} :
            \E w \in Worker : AboutToPublish(w, o[1], o[2])}

Stream == [t \in Txn |-> [i \in 1 .. Len(published[t]) |-> published[t][i].kind]]

Seam == INSTANCE SettlementSeam WITH phase <- Phase, owed <- Owed, stream <- Stream

\* Every behaviour of the engine is one the ACL was promised.
ImplementsSeam == Seam!Spec

\* While no request vanishes, every event that is owed is delivered.
ImplementsReliableSeam == Seam!ReliableSpec

=============================================================================
