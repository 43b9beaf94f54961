--------------------------- MODULE WebhookIngest ----------------------------
(***************************************************************************)
(* The verified webhook pipeline, WebhookIngestService::ingest, composed   *)
(* with the settlement engine it ends in.  A worker takes a notification   *)
(* through its awaits: resolve the provider config, establish the          *)
(* authority (the body, once its signature is verified, or the provider's  *)
(* status API), look the row up by its dedup key, pass the money gate,     *)
(* stamp the payload, settle.  A step that refuses ends the delivery       *)
(* there.                                                                  *)
(*                                                                         *)
(* The provider is external.  It settles charges, tells the truth when its *)
(* API is asked, signs only what is true, and redelivers a settlement      *)
(* notification until it is acknowledged.  Notifications may arrive        *)
(* duplicated, out of order, unsigned or garbled, and before the host has  *)
(* inserted the row of the charge it created.  A row that is not there yet *)
(* answers every statement as a deleted one does; here deleted means that. *)
(***************************************************************************)
EXTENDS GatewaySettlement, GatewayCodecs

CONSTANTS
    KeyOf,          \* KeyOf[t]: the provider_transaction_id of row t
    Fee,            \* fees the status API may report besides none at all
    Code,           \* provider codes a config may have
    Inbox           \* the requests that may arrive at a webhook route

VARIABLES
    config,         \* the provider config row resolve_webhook_target projects
    truth,          \* truth[k]: what the provider knows of k (external)
    delivery,       \* delivery[w]: the ingest call worker w is serving
    raw_payload,    \* raw_payload[t]: the column of that name, None for NULL
    acked           \* the settlement notifications answered 200 (external)

ingestVars == <<config, truth, delivery, raw_payload, acked>>

allVars == <<vars, ingestVars>>

Route == [slug: Code, declared: {"HmacRawBody", "ApiRefetch"}]

Body == {n.body : n \in Inbox}

\* The credential the provider shares with us.
webhook_secret == "webhook_secret"

\* A request is what its codec sees of it, and what it really is: who sent it,
\* a provider or a stranger, and the charge whose settlement it announces, None
\* if it announces none.  The last two are external; no code reads them.
\* Nobody but the provider computes digests with the shared secret, though a
\* stranger may attach one he has seen to a body of his own.
ASSUME InboxAssumption ==
    \A n \in Inbox :
        /\ n.from \in DOMAIN codecs \cup {"stranger"}
        /\ n.about \in Key \cup {None}
        /\ n.signature \notin Unsigned /\ n.signature.secret = webhook_secret =>
              \E m \in Inbox : m.from = "doku" /\ m.signature = n.signature
                               /\ m.body = n.signature.body

\* A provider announces a settlement by a body that claims it, and only then.
ASSUME AnnouncementAssumption ==
    \A n \in Inbox : n.from \in DOMAIN codecs /\ Parses(n.from, n.body) =>
        LET notification == parse(n.from, n.body) IN
        n.about = IF notification.event = "SettleHint"
                    THEN notification.provider_transaction_id
                    ELSE None

\* The ids and the amounts a codec reads in a body; a missing amount is zero.
ASSUME BodyAssumption ==
    \A n \in Inbox, code \in DOMAIN codecs : Parses(code, n.body) =>
        /\ parse(code, n.body).provider_transaction_id \in Key
        /\ parse(code, n.body).gross_hint \in Gross \cup {0}

\* A row has the id of one charge, and no two rows have the same: the dedup
\* index, with no row deleted.
ASSUME KeyAssumption ==
    /\ KeyOf \in [Txn -> Key]
    /\ \A t, u \in Txn : KeyOf[t] = KeyOf[u] => t = u
    /\ None \notin Key

ProviderTruth == [settled: BOOLEAN, gross: Gross, fee: Fee \cup {None}]

\* What a body or the status API reports of a charge.
Authority == [settled: BOOLEAN, gross: Gross \cup {0}, fee: Fee \cup {None}]

Config == [code: Code, status: {"active", "inactive", "deleted"}, credentials_ref: BOOLEAN]

NoDelivery == [at |-> "none"]

Verifying == [at: {"authority"}, n: Inbox, credentials_ref: BOOLEAN]

Finding == [at: {"find"}, n: Inbox, authority: Authority]

Gating == [at: {"gate"}, n: Inbox, authority: Authority, txn: Txn]

Settling == [at: {"stamp", "settle", "engine"}, n: Inbox, txn: Txn]

Refusal == {"unknown_config", "inactive", "scheme_mismatch", "codec_missing", "parse",
            "credential", "signature", "transport", "provider", "not_found", "amount_mismatch"}

Answered == [at: {"reply"}, awaited: Key \cup {None}, result: Refusal \cup {"ignored"}]

Delivery == {NoDelivery} \cup Verifying \cup Finding \cup Gating \cup Settling \cup Answered

IngestTypeOK ==
    /\ TypeOK
    /\ config \in Config
    /\ truth \in [Key -> ProviderTruth]
    /\ delivery \in [Worker -> Delivery]
    /\ raw_payload \in [Txn -> Body \cup {None}]
    /\ acked \subseteq Key

\* The provider has been asked for every charge; their rows come later.
IngestInit ==
    /\ rows \in [Txn -> {[r EXCEPT !.deleted = TRUE] : r \in NewRow}]
    /\ accounts \in NewAccounts
    /\ job = [w \in Worker |-> Idle]
    /\ ledger = [t \in Txn |-> <<>>]
    /\ published = [t \in Txn |-> <<>>]
    /\ config \in [code: Code, status: {"active"}, credentials_ref: BOOLEAN]
    /\ truth \in [Key -> [settled: {FALSE}, gross: Gross, fee: Fee \cup {None}]]
    /\ delivery = [w \in Worker |-> NoDelivery]
    /\ raw_payload = [t \in Txn |-> None]
    /\ acked = {}

-----------------------------------------------------------------------------
(* The pipeline.                                                           *)

Advance(w, d) == delivery' = [delivery EXCEPT ![w] = d]

Genuine(n) == n.from = config.code

\* The charge whose settlement the provider announces with n: it redelivers
\* until it is answered 200.
Awaited(n) == IF Genuine(n) THEN n.about ELSE None

Answer(w, n, result) ==
    Advance(w, [at |-> "reply", awaited |-> Awaited(n), result |-> result])

KeyIn(n) == parse(config.code, n.body).provider_transaction_id

\* The notifications n repeats: itself, and those whose digest it carries.
Repeated(n) ==
    {m \in Inbox : m = n \/ (n.signature \notin Unsigned /\ m.signature = n.signature)}

\* What the provider announces is true when it announces it, and nobody can
\* repeat it before.
Sendable(n) ==
    \A m \in Repeated(n) : Awaited(m) # None =>
        /\ truth[m.about].settled
        /\ parse(config.code, m.body).gross_hint = truth[m.about].gross

\* Steps 1 and 2 of ingest and the parse: one read of the config, then checks.
Receive(w, n, route) ==
    LET resolved == config.status = "active"
        routed == resolved /\ config.code = route.slug
        served == routed /\ Registered(config.code)
        admitted == served /\ SchemeOf(config.code) = route.declared IN
    /\ job[w] = Idle /\ delivery[w] = NoDelivery
    /\ Sendable(n)
    /\ \/ config.status = "deleted" /\ Answer(w, n, "unknown_config")
       \/ config.status = "inactive" /\ Answer(w, n, "inactive")
       \/ resolved /\ ~routed /\ Answer(w, n, "scheme_mismatch")
       \/ routed /\ ~served /\ Answer(w, n, "codec_missing")
       \/ served /\ ~admitted /\ Answer(w, n, "scheme_mismatch")
       \/ admitted /\ ~Parses(config.code, n.body) /\ Answer(w, n, "parse")
       \/ /\ admitted /\ Parses(config.code, n.body)
          /\ Advance(w, [at |-> "authority", n |-> n, credentials_ref |-> config.credentials_ref])
    /\ UNCHANGED <<vars, config, truth, raw_payload, acked>>

\* An authority that does not report the charge settled ends the delivery
\* with a 200; the others go on to the engine.
WithAuthority(w, n, authority) ==
    IF authority.settled
      THEN Advance(w, [at |-> "find", n |-> n, authority |-> authority])
      ELSE Answer(w, n, "ignored")

\* HmacRawBody: the credential is read, which may fail, the signature is
\* verified, and then the body itself is the authority.
VerifyBody(w) ==
    LET d == delivery[w]
        verified == d.credentials_ref /\ verify(config.code, d.n, webhook_secret)
        notification == parse(config.code, d.n.body) IN
    /\ d.at = "authority" /\ SchemeOf(config.code) = "HmacRawBody"
    /\ \/ Answer(w, d.n, "credential")
       \/ d.credentials_ref /\ ~verified /\ Answer(w, d.n, "signature")
       \/ /\ verified
          /\ WithAuthority(w, d.n, [settled |-> notification.event = "SettleHint",
                                    gross |-> notification.gross_hint, fee |-> None])
    /\ UNCHANGED <<vars, config, truth, raw_payload, acked>>

\* ApiRefetch: nothing of the payload but its key is used.
Refetch(w) ==
    LET n == delivery[w].n IN
    /\ delivery[w].at = "authority" /\ SchemeOf(config.code) = "ApiRefetch"
    /\ \/ Answer(w, n, "transport")
       \/ ~truth[KeyIn(n)].settled /\ Answer(w, n, "provider")
       \/ WithAuthority(w, n, truth[KeyIn(n)])
    /\ UNCHANGED <<vars, config, truth, raw_payload, acked>>

\* Mutant: a charge that is not known is not ours.
FindRow_Ignores(w) ==
    LET d == delivery[w]
        live == {t \in Txn : KeyOf[t] = KeyIn(d.n) /\ ~rows[t].deleted} IN
    /\ d.at = "find"
    /\ \/ \E t \in live :
            Advance(w, [at |-> "gate", n |-> d.n, authority |-> d.authority, txn |-> t])
       \/ live = {} /\ Answer(w, d.n, "ignored")
    /\ UNCHANGED <<vars, config, truth, raw_payload, acked>>

\* find_id_by_provider_tx: the live row with the dedup key.
FindRow(w) ==
    LET d == delivery[w]
        live == {t \in Txn : KeyOf[t] = KeyIn(d.n) /\ ~rows[t].deleted} IN
    /\ d.at = "find"
    /\ \/ \E t \in live :
            Advance(w, [at |-> "gate", n |-> d.n, authority |-> d.authority, txn |-> t])
       \/ live = {} /\ Answer(w, d.n, "not_found")
    /\ UNCHANGED <<vars, config, truth, raw_payload, acked>>

check_money(gross, fee, net) ==
    gross >= 0 /\ fee >= 0 /\ net >= 0 /\ net = gross - fee

\* Mutant: the recorded gross is not compared.
MoneyAgrees_AnyGross(authority, src) ==
    check_money(authority.gross, src.fee_amount, authority.gross - src.fee_amount)

\* The authority's fee gates the money invariant when it reports one; the
\* recorded fee otherwise.  What books is the recorded fee in either case.
MoneyAgrees(authority, src) ==
    LET fee == IF authority.fee = None THEN src.fee_amount ELSE authority.fee IN
    /\ check_money(authority.gross, fee, authority.gross - fee)
    /\ authority.gross = src.gross_amount

MoneyGate(w) ==
    LET d == delivery[w] src == rows[d.txn] IN
    /\ d.at = "gate"
    /\ \/ src.deleted /\ Answer(w, d.n, "not_found")
       \/ ~src.deleted /\ ~MoneyAgrees(d.authority, src) /\ Answer(w, d.n, "amount_mismatch")
       \/ /\ ~src.deleted /\ MoneyAgrees(d.authority, src)
          /\ Advance(w, [at |-> "stamp", n |-> d.n, txn |-> d.txn])
    /\ UNCHANGED <<vars, config, truth, raw_payload, acked>>

\* Mutant: the whole delivery is stamped instead of its payload.
Stamp_Delivery(w) ==
    LET d == delivery[w] IN
    /\ d.at = "stamp"
    /\ raw_payload' = [raw_payload EXCEPT ![d.txn] = d]
    /\ Advance(w, [d EXCEPT !.at = "settle"])
    /\ UNCHANGED <<vars, config, truth, acked>>

\* Mutant: a payload that is there already refuses the delivery.
Stamp_OnceOnly(w) ==
    LET d == delivery[w] IN
    /\ d.at = "stamp"
    /\ IF raw_payload[d.txn] = None
         THEN /\ raw_payload' = [raw_payload EXCEPT ![d.txn] = d.n.body]
              /\ Advance(w, [d EXCEPT !.at = "settle"])
         ELSE Answer(w, d.n, "not_found") /\ UNCHANGED raw_payload
    /\ UNCHANGED <<vars, config, truth, acked>>

\* stamp_raw_payload: a compare-and-set on NULL whose error is ignored.
Stamp(w) ==
    LET d == delivery[w] IN
    /\ d.at = "stamp"
    /\ \/ raw_payload[d.txn] = None /\ raw_payload' = [raw_payload EXCEPT ![d.txn] = d.n.body]
       \/ UNCHANGED raw_payload
    /\ Advance(w, [d EXCEPT !.at = "settle"])
    /\ UNCHANGED <<vars, config, truth, acked>>

SettleVerified(w) ==
    LET d == delivery[w] IN
    /\ d.at = "settle"
    /\ SettleRead(w, d.txn)
    /\ Advance(w, [d EXCEPT !.at = "engine"])
    /\ UNCHANGED <<config, truth, raw_payload, acked>>

\* The engine's steps on behalf of a delivery or of a refund.
EngineStep(w) == Proceeds(w) /\ UNCHANGED ingestVars

\* The provider stops redelivering k, if k is something it awaits.
Confirm(k) == acked' = acked \cup ({k} \cap Key)

\* The HTTP answer: 200, or an error status that makes the provider redeliver.
Respond(w) ==
    LET d == delivery[w]
        ok == job[w] # Idle /\ job[w].pc = "done"
              /\ job[w].outcome \in {"settled", "already_settled"} IN
    /\ \/ /\ d.at = "reply" /\ UNCHANGED vars
          /\ IF d.result = "ignored" THEN Confirm(d.awaited) ELSE UNCHANGED acked
       \/ /\ d.at = "engine" /\ Reply(w)
          /\ IF ok THEN Confirm(Awaited(d.n)) ELSE UNCHANGED acked
       \/ d.at = "none" /\ Reply(w) /\ UNCHANGED acked
    /\ Advance(w, NoDelivery)
    /\ UNCHANGED <<config, truth, raw_payload>>

\* The call vanishes: a dropped future, a crash, a database error.
AbandonDelivery(w) ==
    /\ \/ job[w] = Idle /\ delivery[w].at \in {"authority", "find", "gate", "stamp", "settle"}
          /\ UNCHANGED vars
       \/ Abandon(w)
    /\ Advance(w, NoDelivery)
    /\ UNCHANGED <<config, truth, raw_payload, acked>>

RefundRequest(w, t) ==
    /\ delivery[w] = NoDelivery
    /\ RefundRead(w, t)
    /\ UNCHANGED ingestVars

Link(t, e) == LinkPaymentEntry(t, e) /\ UNCHANGED ingestVars

-----------------------------------------------------------------------------
(* Around the pipeline.                                                    *)

\* The host inserts the row of a charge, with the key create_charge returned.
InsertCharge(t) ==
    /\ rows[t].deleted
    /\ rows' = [rows EXCEPT ![t].deleted = FALSE]
    /\ UNCHANGED <<accounts, job, ledger, published, ingestVars>>

ProviderSettles(k) ==
    /\ ~truth[k].settled
    /\ truth' = [truth EXCEPT ![k].settled = TRUE]
    /\ UNCHANGED <<vars, config, delivery, raw_payload, acked>>

\* An operator edits the provider config through the generic service.
EditConfig(status, ref) ==
    /\ config' = [config EXCEPT !.status = status, !.credentials_ref = ref]
    /\ UNCHANGED <<vars, truth, delivery, raw_payload, acked>>

PipelineStep(w) ==
    \/ VerifyBody(w) \/ Refetch(w)
    \/ FindRow(w) \/ MoneyGate(w) \/ Stamp(w) \/ SettleVerified(w)
    \/ EngineStep(w)
    \/ Respond(w)

PipelineNext ==
    \/ \E w \in Worker, n \in Inbox, route \in Route : Receive(w, n, route)
    \/ \E w \in Worker : PipelineStep(w)
    \/ \E w \in Worker, t \in Txn : RefundRequest(w, t)
    \/ \E t \in Txn : InsertCharge(t)
    \/ \E t \in Txn, e \in PaymentEntry : Link(t, e)
    \/ \E k \in Key : ProviderSettles(k)

IngestNext ==
    \/ PipelineNext
    \/ \E w \in Worker : AbandonDelivery(w)
    \/ \E status \in {"active", "inactive", "deleted"}, ref \in BOOLEAN : EditConfig(status, ref)

IngestSpec == IngestInit /\ [][IngestNext]_allVars

\* The pipeline with a provider that redelivers until acknowledged, whose
\* status API and credential store answer in the end, and an accepting sink.
Redeliver(k) ==
    /\ k \notin acked
    /\ \E w \in Worker, n \in Inbox, route \in Route :
          Awaited(n) = k
          /\ route.slug = config.code /\ route.declared = SchemeOf(config.code)
          /\ Receive(w, n, route)

Authorise(k) ==
    \E w \in Worker :
        /\ delivery[w].at = "authority" /\ Awaited(delivery[w].n) = k
        /\ VerifyBody(w) \/ Refetch(w)
        /\ delivery'[w].at = "find"

SinkAccepts(t) ==
    \E w \in Worker : job[w] # Idle /\ job[w].op = "settle" /\ job[w].txn = t
                      /\ (PostBooked(w) \/ PostReused(w)) /\ UNCHANGED ingestVars

IngestFairSpec ==
    /\ IngestInit
    /\ [][PipelineNext]_allVars
    /\ \A w \in Worker : WF_allVars(PipelineStep(w))
    /\ \A k \in Key : SF_allVars(Redeliver(k)) /\ SF_allVars(Authorise(k))
    /\ \A t \in Txn : SF_allVars(SinkAccepts(t))

-----------------------------------------------------------------------------
(* What must hold.                                                         *)

\* Nothing unverified settles: behind whatever mixture of unsigned, garbled,
\* duplicated and misrouted notifications, a row is settled only if the
\* provider settled that very charge, at the recorded gross.
SettledIsTrueAtProvider ==
    \A t \in Txn : rows[t].status \in Terminal =>
        truth[KeyOf[t]].settled /\ truth[KeyOf[t]].gross = rows[t].gross_amount

\* The audit payload is stored after verification and after the money gate:
\* it is a notification of this charge; from a signing provider a genuine one
\* whose amount is the recorded one.
PayloadIsVerified ==
    \A t \in Txn : raw_payload[t] # None =>
        LET notification == parse(config.code, raw_payload[t]) IN
        /\ notification.provider_transaction_id = KeyOf[t]
        /\ truth[KeyOf[t]].settled
        /\ SchemeOf(config.code) = "HmacRawBody" =>
              /\ notification.gross_hint = rows[t].gross_amount
              /\ \E n \in Inbox : Awaited(n) = KeyOf[t] /\ n.body = raw_payload[t]

\* A 200 is never given away: when the provider stops redelivering a
\* settlement, its row is settled.
AcknowledgedIsSettled ==
    \A t \in Txn : KeyOf[t] \in acked => rows[t].status \in Terminal

\* A charge that can settle: inserted, in rupiah, a codec and a credential for
\* its provider, and amounts that agree.
Settleable(t) ==
    /\ ~rows[t].deleted
    /\ rows[t].currency = "IDR"
    /\ Registered(config.code)
    /\ SchemeOf(config.code) = "HmacRawBody" => config.credentials_ref
    /\ truth[KeyOf[t]].settled
    /\ MoneyAgrees(IF SchemeOf(config.code) = "HmacRawBody"
                     THEN [truth[KeyOf[t]] EXCEPT !.fee = None] ELSE truth[KeyOf[t]], rows[t])

\* Refusals lose nothing: a transport failure, a missing credential, a rejected
\* fee post, or a notification that overtook the insert of its charge leaves
\* the notification to be redelivered, and in the end the row settles.
NotificationSettlesInTheEnd ==
    \A t \in Txn : Settleable(t) ~> rows[t].status \in Terminal

=============================================================================
