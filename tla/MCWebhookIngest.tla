-------------------------- MODULE MCWebhookIngest ---------------------------
(* Small instances of the ingest pipeline for TLC. *)
EXTENDS WebhookIngest, TLC

CONSTANTS t1, k1, a1, a2

\* One charge of 10 with a recorded fee of 3, and its provider's id.
MCKeyOf == (t1 :> k1)

MCNewRow ==
    {[status |-> "pending", posting_state |-> "pending", fee_post_id |-> 0,
      payment_entry_id |-> None, gross_amount |-> 10, fee_amount |-> 3,
      currency |-> "IDR", deleted |-> FALSE]}

\* The provider with its two GL accounts.
MCAccounts == {[fee |-> a1, settlement |-> a2]}

Word(word, lower) == [word |-> word, lower |-> lower]

DokuBody(status, gross) ==
    [json |-> TRUE,
     fields |-> "/transaction/id" :> k1 @@ "/transaction/status" :> status
                @@ "/order/amount" :> gross]

MidtransBody(status, gross) ==
    [json |-> TRUE,
     fields |-> "order_id" :> k1 @@ "transaction_status" :> status @@ "gross_amount" :> gross]

XenditBody(status, gross) ==
    [json |-> TRUE,
     fields |-> "id" :> k1 @@ "status" :> status @@ "paid_amount" :> gross]

Request(body, from, about) ==
    [body |-> body, headers |-> DigestHeader, said |-> "settle",
     signature |-> [form |-> "missing"], from |-> from, about |-> about]

Signed(secret, r) == [r EXCEPT !.signature = Digest(secret, r)]

DokuPending == Signed(webhook_secret, Request(DokuBody(Word("pending", FALSE), 10), "doku", None))

DokuSettled == Signed(webhook_secret, Request(DokuBody(Word("settle", FALSE), 10), "doku", k1))

\* DOKU announces the settlement, in upper case, or in lower case with another
\* amount, and before it that the charge is pending.
DokuInbox ==
    {DokuSettled,
     Signed(webhook_secret, Request(DokuBody(Word("settle", TRUE), 7), "doku", k1)),
     DokuPending}

\* A settlement under the digest of another notification, and a copy of a
\* genuine one.
TamperedInbox ==
    {[Request(DokuBody(Word("settle", FALSE), 10), "stranger", None)
        EXCEPT !.signature = DokuPending.signature],
     [DokuSettled EXCEPT !.from = "stranger", !.about = None]}

\* Midtrans and Xendit announce it; strangers announce it too.
RefetchInbox ==
    {Request(MidtransBody(Word("settlement", TRUE), g), "midtrans", k1) : g \in Gross}
    \cup {Request(XenditBody(Word("paid", FALSE), 10), "xendit", k1),
          Request(MidtransBody(Word("settlement", TRUE), 10), "stranger", None)}

\* Bytes that are no JSON.
Garbled == {Request([json |-> FALSE, fields |-> <<>>], "stranger", None)}

MCInbox == DokuInbox \cup TamperedInbox \cup RefetchInbox \cup Garbled

Symmetry == Permutations(Worker)

=============================================================================
