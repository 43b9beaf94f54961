-------------------------- MODULE SettlementBooks ---------------------------
(***************************************************************************)
(* The settlement engine composed with the accounting control layer (ACL)  *)
(* that consumes its events and with the general ledger both of them post  *)
(* to.  The ACL and the payment module are external; they are modelled     *)
(* from the seam's contract as tests/gateway_seam.rs drives it: a settled  *)
(* event becomes a PaymentEntry of the gross, posted as Dr Bank, Cr A/R,   *)
(* and linked back to the row; a refunded event reverses the entry it      *)
(* names.  The ACL handles the events of a row in the order they were      *)
(* published, at its own pace, and recognises an entry it created before   *)
(* by the dedup key.                                                       *)
(***************************************************************************)
EXTENDS GatewaySettlement, Functions

CONSTANTS
    Bank,           \* the account payments arrive on
    Receivable      \* accounts receivable

VARIABLES
    entries,        \* entries[e]: the PaymentEntry e, None if there is none
    heard           \* heard[t]: how many of t's events the ACL is done with

bookVars == <<entries, heard>>

allVars == <<vars, bookVars>>

ASSUME BooksAssumption ==
    /\ {Bank, Receivable} \subseteq Account /\ Bank # Receivable
    /\ \A acc \in NewAccounts : acc.settlement \in {Bank, None} /\ acc.fee \notin {Bank, Receivable}

Entry == [txn: Txn, amount: Nat, state: {"draft", "posted", "reversed"}]

ASSUME EntryAssumption == None \notin Entry

BooksTypeOK ==
    /\ TypeOK
    /\ entries \in [PaymentEntry -> Entry \cup {None}]
    /\ heard \in [Txn -> Nat]
    /\ \A t \in Txn : heard[t] <= Len(published[t])

BooksInit ==
    /\ Init
    /\ entries = [e \in PaymentEntry |-> None]
    /\ heard = [t \in Txn |-> 0]

-----------------------------------------------------------------------------
(* The ACL.                                                                *)

Hears(t, kind) ==
    heard[t] < Len(published[t]) /\ published[t][heard[t] + 1].kind = kind

EntriesOf(t) == {e \in PaymentEntry : entries[e] # None /\ entries[e].txn = t}

\* A settled event: the entry, its journal and the link back are three calls;
\* between them the engine may do anything, a refund included.
CreatePayment(t, e) ==
    /\ Hears(t, "settled")
    /\ EntriesOf(t) = {} /\ entries[e] = None
    /\ entries' = [entries EXCEPT
          ![e] = [txn |-> t, amount |-> published[t][heard[t] + 1].gross_amount,
                  state |-> "draft"]]
    /\ UNCHANGED <<vars, heard>>

PostPayment(e) ==
    /\ entries[e] # None /\ entries[e].state = "draft"
    /\ entries' = [entries EXCEPT ![e].state = "posted"]
    /\ UNCHANGED <<vars, heard>>

\* The ACL may die before it notes that it is done, and then links again.
StampBack(t, e) ==
    /\ Hears(t, "settled")
    /\ e \in EntriesOf(t) /\ entries[e].state = "posted"
    /\ \/ LinkPaymentEntry(t, e)
       \/ rows[t].payment_entry_id # None /\ UNCHANGED vars
    /\ \/ heard' = [heard EXCEPT ![t] = @ + 1]
       \/ UNCHANGED heard
    /\ UNCHANGED entries

\* A refunded event: payment.reverse_payment on the entry it names, if any.
ReversePayment(t) ==
    LET e == published[t][heard[t] + 1].payment_entry_id IN
    /\ Hears(t, "refunded")
    /\ entries' = IF e = None THEN entries ELSE [entries EXCEPT ![e].state = "reversed"]
    /\ heard' = [heard EXCEPT ![t] = @ + 1]
    /\ UNCHANGED vars

AclStep(t) ==
    \/ \E e \in PaymentEntry : CreatePayment(t, e) \/ StampBack(t, e)
    \/ \E e \in EntriesOf(t) : PostPayment(e)
    \/ ReversePayment(t)

BooksNext ==
    \/ \E w \in Worker :
          /\ WorkerStep(w) \/ \E t \in Txn : SettleRead(w, t) \/ RefundRead(w, t)
          /\ UNCHANGED bookVars
    \/ \E t \in Txn : AclStep(t)

\* The runtime polls every woken future, so a request that can go on does, and
\* none is dropped; a provider redelivers the notification of an unsettled
\* transaction until it is acknowledged; a sink that is asked again and again
\* accepts in the end; the ACL gets on with what it hears, and notes in the end
\* that it is done with it.
BooksSpec ==
    /\ BooksInit
    /\ [][BooksNext]_allVars
    /\ \A w \in Worker : WF_allVars(WorkerStep(w) /\ UNCHANGED bookVars)
    /\ \A t \in Txn :
          /\ SF_allVars((\E w \in Worker : SettleRead(w, t)) /\ UNCHANGED bookVars)
          /\ SF_allVars(SettleAccepted(t) /\ UNCHANGED bookVars)
          /\ WF_allVars(AclStep(t))
          /\ SF_allVars(AclStep(t) /\ heard'[t] > heard[t])

-----------------------------------------------------------------------------
(* The general ledger.                                                     *)

\* What a journal of debit and credit moves on account a, debit-positive.
Moves(debit, credit, amount, a) ==
    (IF a = debit THEN amount ELSE 0) - (IF a = credit THEN amount ELSE 0)

FeeNet(t, a) ==
    SumFunction([i \in DOMAIN ledger[t] |->
        Moves(ledger[t][i].debit, ledger[t][i].credit, ledger[t][i].amount, a)])

\* A draft is not posted yet, a reversed entry was undone by its mirror.
PaymentNet(t, a) ==
    SumFunction([e \in {d \in EntriesOf(t) : entries[d].state = "posted"} |->
        Moves(Bank, Receivable, entries[e].amount, a)])

Net(t, a) == FeeNet(t, a) + PaymentNet(t, a)

\* Nothing is under way for t, and the ACL has heard everything.
Drained(t) ==
    AtRest(t) /\ heard[t] = Len(published[t])

RefundNamesAnEntry(t) ==
    \E i \in 1 .. Len(published[t]) :
        published[t][i].kind = "refunded" /\ published[t][i].payment_entry_id # None

\* The entry of the gross, posted and not reversed.
GrossIsBooked(t) ==
    \A a \in Account : PaymentNet(t, a) = Moves(Bank, Receivable, rows[t].gross_amount, a)

GrossIsReversed(t) == \A a \in Account : PaymentNet(t, a) = 0

-----------------------------------------------------------------------------
(* What must hold.                                                         *)

\* The journals of a charge reconcile whenever nothing is under way: a settled
\* row leaves gross minus fee on the bank account, the gross on receivables and
\* the fee on the expense account; an open row leaves nothing anywhere.  A
\* refunded row leaves nothing either if its event named the entry; if it named
\* none, because the refund had read the row before the ACL linked it or because
\* its event overtook the settled one, the gross stays on the books to the last
\* rupiah.  The fee is posted before the row moves and the gross after it, by
\* two systems, each of which may be asked several times at once.  The fee of a
\* refund needs accounting to dedup on idempotency_key: see RefundReversesFee.
BooksReconcile ==
    \A t \in Txn : Drained(t) =>
        LET fee == IF HasFeePost(rows[t]) THEN rows[t].fee_amount ELSE 0 IN
        /\ rows[t].status \in OpenStatus => \A a \in Account : Net(t, a) = 0
        /\ rows[t].status = "settled" =>
              /\ Net(t, Bank) = rows[t].gross_amount - fee
              /\ Net(t, Receivable) = 0 - rows[t].gross_amount
              /\ HasFeePost(rows[t]) => Net(t, accounts.fee) = fee
        /\ rows[t].status = "refunded" =>
              /\ \A a \in Account : FeeNet(t, a) = 0
              /\ IF RefundNamesAnEntry(t) THEN GrossIsReversed(t) ELSE GrossIsBooked(t)

\* An ACL that works its events off in order is never told to reverse what it
\* does not have: a refunded event that names an entry comes after the settled
\* event, and the entry is one of this row, of the event's gross, and posted.
\* Publishing is outside the transactions, so a refund may overtake the settle
\* before it; then it names no entry.
RefundFindsItsEntry ==
    \A t \in Txn : \A i \in 1 .. Len(published[t]) :
        LET event == published[t][i] IN
        event.kind = "refunded" /\ event.payment_entry_id # None =>
            /\ \E j \in 1 .. i - 1 : published[t][j].kind = "settled"
            /\ event.payment_entry_id \in EntriesOf(t)
            /\ entries[event.payment_entry_id].state # "draft"
            /\ entries[event.payment_entry_id].amount = event.gross_amount

\* A redelivered notification not only settles its row: the gross of every
\* rupiah charge is on the books in the end, behind refused fee posts, races
\* for the transition and a refund that comes at once.
EventuallyBooked ==
    \A t \in Txn : rows[t].currency = "IDR" ~>
        \E e \in EntriesOf(t) : entries[e].state # "draft"

=============================================================================
