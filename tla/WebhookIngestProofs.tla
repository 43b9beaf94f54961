------------------------ MODULE WebhookIngestProofs -------------------------
(***************************************************************************)
(* Theorems about the verified pipeline in front of the engine, for any    *)
(* number of charges, concurrent deliveries and notifications: nothing     *)
(* unverified settles, and no acknowledgement is given away.               *)
(***************************************************************************)
EXTENDS WebhookIngest, GatewaySettlementRefundProofs

-----------------------------------------------------------------------------
(* What is known of a delivery from the await it is at.                    *)

\* The provider settled the charge n names; a signing provider wrote the body.
Vouched(n) ==
    /\ truth[KeyIn(n)].settled
    /\ SchemeOf(config.code) = "HmacRawBody" =>
          /\ parse(config.code, n.body).gross_hint = truth[KeyIn(n)].gross
          /\ \E m \in Inbox : Awaited(m) = KeyIn(n) /\ m.body = n.body

Admitted(n) ==
    Registered(config.code) /\ Parses(config.code, n.body) /\ Sendable(n)

\* Each step of the pipeline leaves what it established behind.
Justified(d) ==
    /\ d.at \in {"authority", "find", "gate", "stamp", "settle", "engine"} => Admitted(d.n)
    /\ d.at \in {"find", "gate", "stamp", "settle", "engine"} => Vouched(d.n)
    /\ d.at \in {"find", "gate"} => d.authority.gross = truth[KeyIn(d.n)].gross
    /\ d.at \in {"gate", "stamp", "settle", "engine"} => KeyOf[d.txn] = KeyIn(d.n)
    /\ d.at \in {"stamp", "settle", "engine"} =>
          rows[d.txn].gross_amount = truth[KeyIn(d.n)].gross
    /\ d.at = "reply" /\ d.result = "ignored" => d.awaited = None

\* The engine settles for a delivery, and for nothing else.
JobServes(w) ==
    /\ delivery[w].at = "engine" => job[w] # Idle
    /\ job[w] # Idle =>
          IF job[w].op = "settle"
            THEN delivery[w].at = "engine" /\ delivery[w].txn = job[w].txn
            ELSE delivery[w] = NoDelivery

Serving(w) == Justified(delivery[w]) /\ JobServes(w)

\* None of the three properties is inductive: they hold of a row because of
\* what the delivery that settled it had established, step by step.
IngestInv ==
    /\ IngestTypeOK
    /\ SeamInv
    /\ AckInv
    /\ \A w \in Worker : Serving(w)
    /\ SettledIsTrueAtProvider
    /\ PayloadIsVerified
    /\ AcknowledgedIsSettled

LEMMA DeliveryAt ==
    ASSUME NEW d \in Delivery
    PROVE  /\ d.at = "none" => d = NoDelivery
           /\ d.at = "authority" => d \in Verifying
           /\ d.at = "find" => d \in Finding
           /\ d.at = "gate" => d \in Gating
           /\ d.at \in {"stamp", "settle", "engine"} => d \in Settling
           /\ d.at = "reply" => d \in Answered
           /\ d = NoDelivery => d.at = "none"
  BY DEF Delivery, NoDelivery, Verifying, Finding, Gating, Settling, Answered

-----------------------------------------------------------------------------
(* What the codecs make of a notification.                                 *)

\* Of the registered codecs only DOKU's takes the body as the authority.
LEMMA SigningCodec ==
    ASSUME NEW code, Registered(code), SchemeOf(code) = "HmacRawBody"
    PROVE  code = "doku"
  BY DEF Registered, SchemeOf, codecs, DokuCodec, MidtransCodec, XenditCodec, ManualNoopCodec

\* A provider awaits the answer to a settlement it announces, and the charge is
\* the one its codec reads.
LEMMA AwaitedKey ==
    ASSUME NEW n \in Inbox, Registered(config.code), Parses(config.code, n.body)
    PROVE  /\ KeyIn(n) \in Key /\ KeyIn(n) # None
           /\ Genuine(n) =>
                 Awaited(n) = IF parse(config.code, n.body).event = "SettleHint"
                                THEN KeyIn(n) ELSE None
           /\ ~Genuine(n) => Awaited(n) = None
<1>1. config.code \in DOMAIN codecs
  BY DEF Registered
<1>2. KeyIn(n) \in Key /\ KeyIn(n) # None
  BY <1>1, BodyAssumption, KeyAssumption DEF KeyIn
<1>3. ASSUME Genuine(n)
      PROVE  n.about = IF parse(config.code, n.body).event = "SettleHint"
                         THEN KeyIn(n) ELSE None
  BY <1>1, <1>3, AnnouncementAssumption DEF Genuine, KeyIn
<1>4. QED
  BY <1>2, <1>3 DEF Awaited

\* Whoever sent it, a body whose digest is right was written by the provider,
\* and the settlement it claims is true.
LEMMA VerifiedIsGenuine ==
    ASSUME NEW n \in Inbox, Admitted(n), SchemeOf(config.code) = "HmacRawBody",
           verify(config.code, n, webhook_secret),
           parse(config.code, n.body).event = "SettleHint"
    PROVE  Vouched(n)
<1>1. config.code = "doku" /\ Registered(config.code) /\ Parses(config.code, n.body)
  BY SigningCodec DEF Admitted
<1>2. n.signature \notin Unsigned /\ n.signature = Digest(webhook_secret, n)
  BY DEF verify
<1>3. n.signature.secret = webhook_secret /\ n.signature.body = n.body
  BY <1>2 DEF Digest
<1>4. PICK m \in Inbox : m.from = "doku" /\ m.signature = n.signature /\ m.body = n.body
  BY <1>2, <1>3, InboxAssumption
<1>5. Genuine(m) /\ m \in Repeated(n)
  BY <1>1, <1>2, <1>4 DEF Genuine, Repeated
<1>6. KeyIn(m) = KeyIn(n)
  BY <1>4 DEF KeyIn
<1>7. Awaited(m) = KeyIn(n) /\ KeyIn(n) # None /\ m.about = KeyIn(n)
  BY <1>1, <1>4, <1>5, <1>6, AwaitedKey DEF Awaited
<1>8. /\ truth[m.about].settled
      /\ parse(config.code, m.body).gross_hint = truth[m.about].gross
  BY <1>5, <1>7 DEF Admitted, Sendable
<1>9. QED
  BY <1>4, <1>7, <1>8 DEF Vouched

-----------------------------------------------------------------------------
(* What no step takes back.                                                *)

\* The provider row keeps its code, a settled charge stays settled at its
\* amount, and so does a row.
WorldStays ==
    /\ config'.code = config.code
    /\ \A k \in Key : /\ truth'[k].gross = truth[k].gross
                      /\ truth[k].settled => truth'[k].settled
    /\ \A t \in Txn : /\ rows'[t].gross_amount = rows[t].gross_amount
                      /\ rows[t].status \in Terminal => rows'[t].status \in Terminal

\* A step of the composition is one of the engine, or an insert.
LEMMA IngestSteps ==
    ASSUME IngestTypeOK, [IngestNext]_allVars
    PROVE  [Next]_vars \/ \E t \in Txn : InsertCharge(t)
<1>1. CASE \E w \in Worker, n \in Inbox, route \in Route : Receive(w, n, route)
  BY <1>1 DEF Receive
<1>2. CASE \E w \in Worker : VerifyBody(w) \/ Refetch(w) \/ FindRow(w) \/ MoneyGate(w) \/ Stamp(w)
  BY <1>2 DEF VerifyBody, Refetch, FindRow, MoneyGate, Stamp
<1>3. CASE \E w \in Worker : SettleVerified(w)
  <2>1. PICK w \in Worker : SettleVerified(w)
    BY <1>3
  <2>2. delivery[w].txn \in Txn
    BY <2>1, DeliveryAt DEF IngestTypeOK, SettleVerified, Settling
  <2>3. QED
    BY <2>1, <2>2 DEF SettleVerified, Next, EngineNext
<1>4. CASE \E w \in Worker : EngineStep(w)
  BY <1>4 DEF EngineStep, Next, EngineNext, WorkerStep
<1>5. CASE \E w \in Worker : Respond(w)
  BY <1>5 DEF Respond, Next, EngineNext, WorkerStep
<1>6. CASE \E w \in Worker, t \in Txn : RefundRequest(w, t)
  BY <1>6 DEF RefundRequest, Next, EngineNext
<1>7. CASE \E t \in Txn, e \in PaymentEntry : Link(t, e)
  BY <1>7 DEF Link, Next, EngineNext
<1>8. CASE \E k \in Key : ProviderSettles(k)
  BY <1>8 DEF ProviderSettles
<1>9. CASE \E w \in Worker : AbandonDelivery(w)
  BY <1>9 DEF AbandonDelivery, Next
<1>10. CASE \E status \in {"active", "inactive", "deleted"}, ref \in BOOLEAN : EditConfig(status, ref)
  BY <1>10 DEF EditConfig
<1>11. CASE UNCHANGED allVars
  BY <1>11 DEF allVars
<1>12. QED
  BY <1>1, <1>2, <1>3, <1>4, <1>5, <1>6, <1>7, <1>8, <1>9, <1>10, <1>11
  DEF IngestNext, PipelineNext, PipelineStep

LEMMA InsertFrame ==
    ASSUME TypeOK, NEW u \in Txn, InsertCharge(u), NEW t \in Txn
    PROVE  /\ rows'[t] \in Row
           /\ rows'[t].status = rows[t].status
           /\ rows'[t].gross_amount = rows[t].gross_amount
           /\ rows'[t].fee_amount = rows[t].fee_amount
           /\ rows'[t].fee_post_id = rows[t].fee_post_id
           /\ rows'[t].payment_entry_id = rows[t].payment_entry_id
           /\ ~rows[t].deleted => ~rows'[t].deleted
<1>1. rows' = [rows EXCEPT ![u].deleted = FALSE] /\ rows[t] \in Row /\ rows[u] \in Row
  BY DEF TypeOK, InsertCharge
<1>2. QED
  BY <1>1 DEF TypeOK, Row

LEMMA WorldFrame ==
    ASSUME IngestTypeOK, [IngestNext]_allVars
    PROVE  WorldStays
<1>1. TypeOK
  BY DEF IngestTypeOK
<1>2. \A t \in Txn : /\ rows'[t].gross_amount = rows[t].gross_amount
                     /\ rows[t].status \in Terminal => rows'[t].status \in Terminal
  <2>1. CASE [Next]_vars
    BY <1>1, <2>1, SettledStays, LinkFrame
  <2>2. CASE \E t \in Txn : InsertCharge(t)
    BY <1>1, <2>2, InsertFrame
  <2>3. QED
    BY <2>1, <2>2, IngestSteps
<1>3. config'.code = config.code
  <2>1. CASE \E status \in {"active", "inactive", "deleted"}, ref \in BOOLEAN : EditConfig(status, ref)
    <3>1. PICK status, ref : config' = [config EXCEPT !.status = status, !.credentials_ref = ref]
      BY <2>1 DEF EditConfig
    <3>2. QED
      BY <3>1 DEF IngestTypeOK, Config
  <2>2. CASE config' = config
    BY <2>2
  <2>3. QED
    BY <2>1, <2>2 DEF IngestNext, PipelineNext, PipelineStep, Receive, VerifyBody, Refetch,
      FindRow, MoneyGate, Stamp, SettleVerified, EngineStep, Respond, RefundRequest, Link,
      InsertCharge, ProviderSettles, AbandonDelivery, ingestVars, allVars
<1>4. \A k \in Key : /\ truth'[k].gross = truth[k].gross
                     /\ truth[k].settled => truth'[k].settled
  <2>1. CASE \E k \in Key : ProviderSettles(k)
    <3>1. PICK k \in Key : truth' = [truth EXCEPT ![k].settled = TRUE]
      BY <2>1 DEF ProviderSettles
    <3>2. QED
      BY <3>1 DEF IngestTypeOK, ProviderTruth
  <2>2. CASE truth' = truth
    BY <2>2
  <2>3. QED
    BY <2>1, <2>2 DEF IngestNext, PipelineNext, PipelineStep, Receive, VerifyBody, Refetch,
      FindRow, MoneyGate, Stamp, SettleVerified, EngineStep, Respond, RefundRequest, Link,
      InsertCharge, EditConfig, AbandonDelivery, ingestVars, allVars
<1>5. QED
  BY <1>2, <1>3, <1>4 DEF WorldStays

\* So a notification says tomorrow what it says today.
LEMMA ReadingStays ==
    ASSUME WorldStays, NEW n
    PROVE  /\ parse(config.code, n.body)' = parse(config.code, n.body)
           /\ KeyIn(n)' = KeyIn(n)
           /\ Genuine(n)' <=> Genuine(n)
           /\ Awaited(n)' = Awaited(n)
           /\ Registered(config.code)' <=> Registered(config.code)
           /\ Parses(config.code, n.body)' <=> Parses(config.code, n.body)
           /\ SchemeOf(config.code)' = SchemeOf(config.code)
  BY DEF WorldStays, parse, KeyIn, Genuine, Awaited, Registered, Parses, SchemeOf

LEMMA AdmittedStays ==
    ASSUME WorldStays, NEW n \in Inbox, Admitted(n)
    PROVE  Admitted(n)'
<1>1. Registered(config.code)' /\ Parses(config.code, n.body)'
  BY ReadingStays DEF Admitted
<1>2. ASSUME NEW m \in Repeated(n), Awaited(m)' # None
      PROVE  /\ truth'[m.about].settled
             /\ parse(config.code, m.body)' .gross_hint = truth'[m.about].gross
  <2>1. Awaited(m) # None /\ parse(config.code, m.body)' = parse(config.code, m.body)
    BY <1>2, ReadingStays
  <2>2. m \in Inbox /\ m.about \in Key
    BY <2>1, InboxAssumption DEF Repeated, Awaited
  <2>3. QED
    BY <2>1, <2>2 DEF Admitted, Sendable, WorldStays
<1>3. Sendable(n)'
  BY <1>2 DEF Sendable, Repeated
<1>4. QED
  BY <1>1, <1>3 DEF Admitted

LEMMA VouchedStays ==
    ASSUME WorldStays, NEW n \in Inbox, Admitted(n), Vouched(n)
    PROVE  Vouched(n)'
<1>1. KeyIn(n) \in Key
  BY AwaitedKey DEF Admitted
<1>2. /\ KeyIn(n)' = KeyIn(n)
      /\ parse(config.code, n.body)' = parse(config.code, n.body)
      /\ SchemeOf(config.code)' = SchemeOf(config.code)
      /\ \A m \in Inbox : Awaited(m)' = Awaited(m)
  BY ReadingStays
<1>3. QED
  BY <1>1, <1>2 DEF Vouched, WorldStays

LEMMA JustifiedStays ==
    ASSUME WorldStays, NEW d \in Delivery, Justified(d)
    PROVE  Justified(d)'
<1>1. CASE d.at \in {"none", "reply"}
  BY <1>1 DEF Justified
<1>2. CASE d.at \in {"authority", "find", "gate", "stamp", "settle", "engine"}
  <2>1. d.n \in Inbox /\ Admitted(d.n)
    BY <1>2, DeliveryAt DEF Justified, Verifying, Finding, Gating, Settling
  <2>2. KeyIn(d.n) \in Key /\ KeyIn(d.n)' = KeyIn(d.n)
    BY <2>1, AwaitedKey, ReadingStays DEF Admitted
  <2>3. Admitted(d.n)' /\ (Vouched(d.n) => Vouched(d.n)')
    BY <2>1, AdmittedStays, VouchedStays
  <2>4. d.at \in {"stamp", "settle", "engine"} => d.txn \in Txn
    BY DeliveryAt DEF Settling
  <2>5. QED
    BY <1>2, <2>2, <2>3, <2>4 DEF Justified, WorldStays
<1>3. QED
  BY <1>1, <1>2, DeliveryAt DEF Delivery, Verifying, Finding, Gating, Settling, Answered, NoDelivery

-----------------------------------------------------------------------------
(* What each step of the pipeline establishes.                             *)

\* Delivery w moves on to one of these stages, for a good reason.
Moves(w, stages) ==
    \E d \in Delivery : Advance(w, d) /\ Justified(d) /\ d.at \in stages

LEMMA AnswerMoves ==
    ASSUME NEW w \in Worker, NEW n \in Inbox, NEW result \in Refusal \cup {"ignored"},
           Answer(w, n, result), result = "ignored" => Awaited(n) = None
    PROVE  Moves(w, {"reply"})
<1> DEFINE d == [at |-> "reply", awaited |-> Awaited(n), result |-> result]
<1>1. Awaited(n) \in Key \cup {None}
  BY InboxAssumption DEF Awaited
<1>2. d \in Delivery
  BY <1>1 DEF Delivery, Answered
<1>3. Justified(d)
  BY DEF Justified
<1>4. QED
  BY <1>2, <1>3 DEF Answer, Moves

LEMMA ReceiveMoves ==
    ASSUME IngestTypeOK, NEW w \in Worker, NEW n \in Inbox, NEW route \in Route,
           Receive(w, n, route)
    PROVE  Moves(w, {"authority", "reply"})
<1> DEFINE d == [at |-> "authority", n |-> n, credentials_ref |-> config.credentials_ref]
<1>1. CASE Advance(w, d) /\ Registered(config.code) /\ Parses(config.code, n.body)
  <2>1. d \in Delivery
    BY DEF IngestTypeOK, Config, Delivery, Verifying
  <2>2. Admitted(n)
    BY <1>1 DEF Admitted, Receive
  <2>3. Justified(d)
    BY <2>2 DEF Justified
  <2>4. QED
    BY <1>1, <2>1, <2>3 DEF Moves
<1>2. CASE \E result \in Refusal : Answer(w, n, result)
  <2>1. PICK result \in Refusal : Answer(w, n, result)
    BY <1>2
  <2>2. result # "ignored"
    BY DEF Refusal
  <2>3. Moves(w, {"reply"})
    BY <2>1, <2>2, AnswerMoves
  <2>4. QED
    BY <2>3 DEF Moves
<1>3. QED
  BY <1>1, <1>2 DEF Receive, Refusal

\* The authority, whichever it is, vouches for what goes on to the engine.
LEMMA AuthorityMoves ==
    ASSUME NEW w \in Worker, NEW n \in Inbox, NEW authority \in Authority,
           WithAuthority(w, n, authority), Admitted(n),
           authority.settled => Vouched(n) /\ authority.gross = truth[KeyIn(n)].gross,
           ~authority.settled => Awaited(n) = None
    PROVE  Moves(w, {"find", "reply"})
<1> DEFINE d == [at |-> "find", n |-> n, authority |-> authority]
<1>1. CASE authority.settled
  <2>1. d \in Delivery
    BY DEF Delivery, Finding
  <2>2. Justified(d)
    BY <1>1 DEF Justified
  <2>3. QED
    BY <1>1, <2>1, <2>2 DEF WithAuthority, Moves
<1>2. CASE ~authority.settled
  <2>1. Moves(w, {"reply"})
    BY <1>2, AnswerMoves DEF WithAuthority
  <2>2. QED
    BY <2>1 DEF Moves
<1>3. QED
  BY <1>1, <1>2 DEF Authority

LEMMA VerifyMoves ==
    ASSUME IngestTypeOK, NEW w \in Worker, Justified(delivery[w]), VerifyBody(w)
    PROVE  Moves(w, {"find", "reply"})
<1> DEFINE d == delivery[w]
<1> DEFINE notification == parse(config.code, d.n.body)
<1> DEFINE authority == [settled |-> notification.event = "SettleHint",
                         gross |-> notification.gross_hint, fee |-> None]
<1>1. d.n \in Inbox /\ Admitted(d.n) /\ SchemeOf(config.code) = "HmacRawBody"
  BY DeliveryAt DEF IngestTypeOK, VerifyBody, Verifying, Justified
<1>2. CASE \E result \in {"credential", "signature"} : Answer(w, d.n, result)
  <2>1. PICK result \in {"credential", "signature"} : Answer(w, d.n, result)
    BY <1>2
  <2>2. Moves(w, {"reply"})
    BY <1>1, <2>1, AnswerMoves DEF Refusal
  <2>3. QED
    BY <2>2 DEF Moves
<1>3. CASE verify(config.code, d.n, webhook_secret) /\ WithAuthority(w, d.n, authority)
  <2>1. authority.settled => Vouched(d.n)
    BY <1>1, <1>3, VerifiedIsGenuine
  <2>2. Vouched(d.n) => authority.gross = truth[KeyIn(d.n)].gross
    BY <1>1 DEF Vouched
  <2>3. ~authority.settled => Awaited(d.n) = None
    BY <1>1, AwaitedKey DEF Admitted
  <2>4. authority \in Authority
    <3>1. notification.gross_hint \in Gross \cup {0}
      BY <1>1, BodyAssumption DEF Admitted, Registered
    <3>2. QED
      BY <3>1 DEF Authority
  <2>5. QED
    BY <1>1, <1>3, <2>1, <2>2, <2>3, <2>4, AuthorityMoves
<1>4. QED
  BY <1>2, <1>3 DEF VerifyBody

LEMMA RefetchMoves ==
    ASSUME IngestTypeOK, NEW w \in Worker, Justified(delivery[w]), Refetch(w)
    PROVE  Moves(w, {"find", "reply"})
<1> DEFINE n == delivery[w].n
<1>1. n \in Inbox /\ Admitted(n) /\ SchemeOf(config.code) = "ApiRefetch"
  BY DeliveryAt DEF IngestTypeOK, Refetch, Verifying, Justified
<1>2. KeyIn(n) \in Key /\ truth[KeyIn(n)] \in Authority
  BY <1>1, AwaitedKey DEF Admitted, IngestTypeOK, ProviderTruth, Authority
<1>3. CASE \E result \in {"transport", "provider"} : Answer(w, n, result)
  <2>1. PICK result \in {"transport", "provider"} : Answer(w, n, result)
    BY <1>3
  <2>2. Moves(w, {"reply"})
    BY <1>1, <2>1, AnswerMoves DEF Refusal
  <2>3. QED
    BY <2>2 DEF Moves
<1>4. CASE WithAuthority(w, n, truth[KeyIn(n)])
  <2>1. truth[KeyIn(n)].settled => Vouched(n)
    BY <1>1 DEF Vouched
  <2>2. ~truth[KeyIn(n)].settled => Awaited(n) = None
    <3>1. SUFFICES ASSUME Awaited(n) # None PROVE truth[KeyIn(n)].settled
      OBVIOUS
    <3>2. n \in Repeated(n)
      BY <1>1 DEF Repeated
    <3>3. n.about = KeyIn(n)
      BY <1>1, <3>1, AwaitedKey DEF Awaited, Admitted
    <3>4. QED
      BY <1>1, <3>1, <3>2, <3>3 DEF Admitted, Sendable
  <2>3. QED
    BY <1>1, <1>2, <1>4, <2>1, <2>2, AuthorityMoves
<1>5. QED
  BY <1>3, <1>4 DEF Refetch

LEMMA FindMoves ==
    ASSUME IngestTypeOK, NEW w \in Worker, Justified(delivery[w]), FindRow(w)
    PROVE  Moves(w, {"gate", "reply"})
<1> DEFINE d == delivery[w]
<1>1. d \in Finding /\ d.at = "find"
  BY DeliveryAt DEF IngestTypeOK, FindRow
<1>2. CASE Answer(w, d.n, "not_found")
  <2>1. Moves(w, {"reply"})
    BY <1>1, <1>2, AnswerMoves DEF Refusal, Finding
  <2>2. QED
    BY <2>1 DEF Moves
<1>3. CASE \E t \in {u \in Txn : KeyOf[u] = KeyIn(d.n) /\ ~rows[u].deleted} :
              Advance(w, [at |-> "gate", n |-> d.n, authority |-> d.authority, txn |-> t])
  <2>1. PICK t \in Txn :
            /\ KeyOf[t] = KeyIn(d.n)
            /\ Advance(w, [at |-> "gate", n |-> d.n, authority |-> d.authority, txn |-> t])
    BY <1>3
  <2> DEFINE g == [at |-> "gate", n |-> d.n, authority |-> d.authority, txn |-> t]
  <2>2. g \in Delivery
    BY <1>1 DEF Delivery, Finding, Gating
  <2>3. Justified(g)
    BY <1>1, <2>1 DEF Justified
  <2>4. QED
    BY <2>1, <2>2, <2>3 DEF Moves
<1>4. QED
  BY <1>2, <1>3 DEF FindRow

\* The money gate ties the row's amount to the provider's.
LEMMA GateMoves ==
    ASSUME IngestTypeOK, NEW w \in Worker, Justified(delivery[w]), MoneyGate(w)
    PROVE  Moves(w, {"stamp", "reply"})
<1> DEFINE d == delivery[w]
<1>1. d \in Gating /\ d.at = "gate"
  BY DeliveryAt DEF IngestTypeOK, MoneyGate
<1>2. CASE \E result \in {"not_found", "amount_mismatch"} : Answer(w, d.n, result)
  <2>1. PICK result \in {"not_found", "amount_mismatch"} : Answer(w, d.n, result)
    BY <1>2
  <2>2. Moves(w, {"reply"})
    BY <1>1, <2>1, AnswerMoves DEF Refusal, Gating
  <2>3. QED
    BY <2>2 DEF Moves
<1>3. CASE /\ MoneyAgrees(d.authority, rows[d.txn])
           /\ Advance(w, [at |-> "stamp", n |-> d.n, txn |-> d.txn])
  <2> DEFINE s == [at |-> "stamp", n |-> d.n, txn |-> d.txn]
  <2>1. s \in Delivery
    BY <1>1 DEF Delivery, Gating, Settling
  <2>2. rows[d.txn].gross_amount = truth[KeyIn(d.n)].gross
    BY <1>1, <1>3 DEF MoneyAgrees, Justified
  <2>3. Justified(s)
    BY <1>1, <2>2 DEF Justified
  <2>4. QED
    BY <1>3, <2>1, <2>3 DEF Moves
<1>4. QED
  BY <1>2, <1>3 DEF MoneyGate

LEMMA SettlingMoves ==
    ASSUME IngestTypeOK, NEW w \in Worker, Justified(delivery[w]), Stamp(w) \/ SettleVerified(w)
    PROVE  /\ Stamp(w) => Moves(w, {"settle"})
           /\ SettleVerified(w) => Moves(w, {"engine"})
<1> DEFINE d == delivery[w]
<1>1. d \in Settling /\ d.at \in {"stamp", "settle"}
  BY DeliveryAt DEF IngestTypeOK, Stamp, SettleVerified
<1>2. ASSUME NEW stage \in {"settle", "engine"}
      PROVE  /\ [d EXCEPT !.at = stage] \in Delivery
             /\ [d EXCEPT !.at = stage].at = stage
             /\ Justified([d EXCEPT !.at = stage])
  <2>1. [d EXCEPT !.at = stage] = [at |-> stage, n |-> d.n, txn |-> d.txn]
    BY <1>1 DEF Settling
  <2>2. [at |-> stage, n |-> d.n, txn |-> d.txn] \in Delivery
    BY <1>1 DEF Settling, Delivery
  <2>3. Justified([at |-> stage, n |-> d.n, txn |-> d.txn])
    BY <1>1 DEF Justified
  <2>4. QED
    BY <2>1, <2>2, <2>3
<1>3. QED
  BY <1>2 DEF Stamp, SettleVerified, Moves

-----------------------------------------------------------------------------
(* Every worker serves one delivery.                                       *)

LEMMA StillJustified ==
    ASSUME WorldStays, NEW v \in Worker, NEW d \in Delivery, delivery'[v] = d, Justified(d)
    PROVE  Justified(delivery[v])'
<1>1. Justified(d)'
  BY JustifiedStays
<1>2. QED
  BY <1>1 DEF Justified, Admitted, Vouched, Sendable, Repeated, Awaited, Genuine, KeyIn

\* A delivery that moves on leaves the others as they were.
LEMMA AdvanceServes ==
    ASSUME IngestTypeOK, \A v \in Worker : Serving(v), WorldStays,
           NEW w \in Worker, NEW d \in Delivery, Advance(w, d), Justified(d),
           \A v \in Worker \ {w} : job'[v] = job[v],
           \/ job'[w] = Idle /\ d.at # "engine"
           \/ /\ job'[w] # Idle /\ job'[w].op = "settle"
              /\ d.at = "engine" /\ d.txn = job'[w].txn
    PROVE  delivery' \in [Worker -> Delivery] /\ \A v \in Worker : Serving(v)'
<1>1. delivery' = [delivery EXCEPT ![w] = d] /\ delivery \in [Worker -> Delivery]
  BY DEF IngestTypeOK, Advance
<1>2. delivery' \in [Worker -> Delivery]
  BY <1>1
<1>3. Serving(w)'
  <2>1. delivery'[w] = d
    BY <1>1
  <2>2. JobServes(w)'
    BY <2>1 DEF JobServes
  <2>3. QED
    BY <2>1, <2>2, StillJustified DEF Serving
<1>4. ASSUME NEW v \in Worker \ {w} PROVE Serving(v)'
  <2>1. delivery'[v] = delivery[v] /\ job'[v] = job[v]
    BY <1>1
  <2>2. PICK e \in Delivery : e = delivery[v]
    BY <1>1
  <2>3. Justified(e)
    BY <2>2 DEF Serving
  <2>4. Justified(delivery[v])'
    BY <2>1, <2>2, <2>3, StillJustified
  <2>5. JobServes(v)'
    BY <2>1 DEF Serving, JobServes
  <2>6. QED
    BY <2>4, <2>5 DEF Serving
<1>5. QED
  BY <1>2, <1>3, <1>4

LEMMA MovesServes ==
    ASSUME IngestTypeOK, \A v \in Worker : Serving(v), WorldStays, NEW w \in Worker,
           Moves(w, {"authority", "find", "gate", "stamp", "settle", "reply"}),
           job' = job, job[w] = Idle
    PROVE  delivery' \in [Worker -> Delivery] /\ \A v \in Worker : Serving(v)'
<1>1. PICK d \in Delivery :
          /\ Advance(w, d) /\ Justified(d)
          /\ d.at \in {"authority", "find", "gate", "stamp", "settle", "reply"}
  BY DEF Moves
<1>2. QED
  BY <1>1, AdvanceServes

\* What the engine does to a request on its way.
LEMMA EngineKeeps ==
    ASSUME TypeOK, NEW w \in Worker, Proceeds(w)
    PROVE  /\ job[w] # Idle /\ job'[w] # Idle
           /\ job'[w].op = job[w].op /\ job'[w].txn = job[w].txn
           /\ \A v \in Worker \ {w} : job'[v] = job[v]
<1>1. CASE PostBooked(w) \/ PostReused(w) \/ PostRejected(w)
  BY <1>1, JobAt DEF TypeOK, PostBooked, PostReused, PostRejected, Acknowledge, Goto, Idle
<1>2. CASE MarkFeeFailed(w) \/ Publish(w)
  BY <1>2, JobAt DEF TypeOK, MarkFeeFailed, Publish, Finish, Goto, Idle
<1>3. CASE TransitionToSettled(w) \/ TransitionToRefunded(w)
  BY <1>3, JobAt DEF TypeOK, TransitionToSettled, TransitionToRefunded, Finish, Goto, Idle
<1>4. QED
  BY <1>1, <1>2, <1>3 DEF Proceeds

LEMMA ReadBegins ==
    ASSUME TypeOK, NEW w \in Worker, NEW t \in Txn, SettleRead(w, t) \/ RefundRead(w, t)
    PROVE  /\ job[w] = Idle /\ job'[w] # Idle /\ job'[w].txn = t
           /\ SettleRead(w, t) => job'[w].op = "settle"
           /\ RefundRead(w, t) => job'[w].op = "refund"
           /\ \A v \in Worker \ {w} : job'[v] = job[v]
<1>1. CASE SettleRead(w, t)
  <2>1. /\ job[w] = Idle /\ job'[w] # Idle /\ job'[w].txn = t /\ job'[w].op = "settle"
        /\ \A v \in Worker \ {w} : job'[v] = job[v]
    BY <1>1 DEF TypeOK, SettleRead, Enter, Finish, Goto, Idle
  <2>2. ~RefundRead(w, t)
    BY <2>1 DEF TypeOK, RefundRead, Enter, Finish, Goto, Idle
  <2>3. QED
    BY <2>1, <2>2
<1>2. CASE RefundRead(w, t)
  <2>1. /\ job[w] = Idle /\ job'[w] # Idle /\ job'[w].txn = t /\ job'[w].op = "refund"
        /\ \A v \in Worker \ {w} : job'[v] = job[v]
    BY <1>2 DEF TypeOK, RefundRead, Enter, Finish, Goto, Idle
  <2>2. ~SettleRead(w, t)
    BY <2>1 DEF TypeOK, SettleRead, Enter, Finish, Goto, Idle
  <2>3. QED
    BY <2>1, <2>2
<1>3. QED
  BY <1>1, <1>2

\* A step that touches no delivery.
LEMMA OtherServes ==
    ASSUME IngestTypeOK, \A v \in Worker : Serving(v), WorldStays, delivery' = delivery,
           \A v \in Worker :
              \/ job'[v] = job[v]
              \/ /\ job[v] # Idle /\ job'[v] # Idle
                 /\ job'[v].op = job[v].op /\ job'[v].txn = job[v].txn
              \/ delivery[v] = NoDelivery /\ job'[v] # Idle /\ job'[v].op = "refund"
    PROVE  delivery' \in [Worker -> Delivery] /\ \A v \in Worker : Serving(v)'
<1>1. ASSUME NEW v \in Worker PROVE Serving(v)'
  <2>1. PICK d \in Delivery : d = delivery[v]
    BY DEF IngestTypeOK
  <2>2. Justified(delivery[v])'
    <3>1. Justified(d)
      BY <2>1 DEF Serving
    <3>2. QED
      BY <2>1, <3>1, StillJustified
  <2>3. JobServes(v)'
    BY DEF Serving, JobServes, NoDelivery
  <2>4. QED
    BY <2>2, <2>3 DEF Serving
<1>2. QED
  BY <1>1 DEF IngestTypeOK

\* Before the engine has it, a delivery has no job.
LEMMA NotYetSettling ==
    ASSUME NEW w \in Worker, Serving(w),
           delivery[w].at \in {"authority", "find", "gate", "stamp", "settle", "reply"}
    PROVE  job[w] = Idle
  BY DEF Serving, JobServes, NoDelivery

LEMMA StepServing ==
    ASSUME IngestTypeOK, \A v \in Worker : Serving(v), [IngestNext]_allVars
    PROVE  delivery' \in [Worker -> Delivery] /\ \A v \in Worker : Serving(v)'
<1>1. WorldStays /\ TypeOK
  BY WorldFrame DEF IngestTypeOK
<1>2. CASE \E w \in Worker, n \in Inbox, route \in Route : Receive(w, n, route)
  <2>1. PICK w \in Worker, n \in Inbox, route \in Route : Receive(w, n, route)
    BY <1>2
  <2>2. Moves(w, {"authority", "reply"}) /\ job' = job /\ job[w] = Idle
    BY <2>1, ReceiveMoves DEF Receive, vars
  <2>3. QED
    BY <1>1, <2>2, MovesServes DEF Moves
<1>3. CASE \E w \in Worker : VerifyBody(w) \/ Refetch(w) \/ FindRow(w) \/ MoneyGate(w) \/ Stamp(w)
  <2>1. PICK w \in Worker : VerifyBody(w) \/ Refetch(w) \/ FindRow(w) \/ MoneyGate(w) \/ Stamp(w)
    BY <1>3
  <2>2. job' = job /\ delivery[w].at \in {"authority", "find", "gate", "stamp"}
    BY <2>1 DEF VerifyBody, Refetch, FindRow, MoneyGate, Stamp, vars
  <2>3. job[w] = Idle /\ Justified(delivery[w])
    BY <2>2, NotYetSettling DEF Serving
  <2>4. \/ Moves(w, {"find", "reply"}) \/ Moves(w, {"gate", "reply"})
        \/ Moves(w, {"stamp", "reply"}) \/ Moves(w, {"settle"})
    BY <2>1, <2>3, VerifyMoves, RefetchMoves, FindMoves, GateMoves, SettlingMoves
  <2>5. QED
    BY <1>1, <2>2, <2>3, <2>4, MovesServes DEF Moves
<1>4. CASE \E w \in Worker : SettleVerified(w)
  <2>1. PICK w \in Worker : SettleVerified(w)
    BY <1>4
  <2>2. Moves(w, {"engine"}) /\ delivery[w] \in Settling
    BY <2>1, SettlingMoves, DeliveryAt DEF SettleVerified, Serving, IngestTypeOK
  <2>3. PICK d \in Delivery : Advance(w, d) /\ Justified(d) /\ d.at = "engine"
    BY <2>2 DEF Moves
  <2>4. d.txn = delivery[w].txn /\ delivery[w].txn \in Txn
    <3>1. [delivery EXCEPT ![w] = d] = [delivery EXCEPT ![w] = [delivery[w] EXCEPT !.at = "engine"]]
      BY <2>1, <2>3 DEF SettleVerified, Advance
    <3>2. d = [delivery[w] EXCEPT !.at = "engine"]
      BY <3>1 DEF IngestTypeOK
    <3>3. QED
      BY <2>2, <3>2 DEF Settling
  <2>5. SettleRead(w, delivery[w].txn)
    BY <2>1 DEF SettleVerified
  <2>6. /\ job'[w] # Idle /\ job'[w].op = "settle" /\ job'[w].txn = d.txn
        /\ \A v \in Worker \ {w} : job'[v] = job[v]
    BY <1>1, <2>4, <2>5, ReadBegins
  <2>7. QED
    BY <1>1, <2>3, <2>6, AdvanceServes
<1>5. CASE \E w \in Worker : EngineStep(w)
  <2>1. PICK w \in Worker : Proceeds(w) /\ delivery' = delivery
    BY <1>5 DEF EngineStep, ingestVars
  <2>2. QED
    BY <1>1, <2>1, EngineKeeps, OtherServes
<1>6. CASE \E w \in Worker : Respond(w) \/ AbandonDelivery(w)
  <2>1. PICK w \in Worker : Respond(w) \/ AbandonDelivery(w)
    BY <1>6
  <2>2. Advance(w, NoDelivery)
    BY <2>1 DEF Respond, AbandonDelivery
  <2>3. NoDelivery \in Delivery /\ NoDelivery.at = "none" /\ Justified(NoDelivery)
    BY DEF Delivery, NoDelivery, Justified
  <2>4. job'[w] = Idle /\ \A v \in Worker \ {w} : job'[v] = job[v]
    <3>1. CASE Reply(w) \/ Abandon(w)
      BY <1>1, <3>1 DEF TypeOK, Reply, Abandon, Goto
    <3>2. CASE job' = job /\ delivery[w].at = "reply"
      BY <3>2, NotYetSettling
    <3>3. CASE job' = job /\ job[w] = Idle
      BY <3>3
    <3>4. QED
      BY <2>1, <3>1, <3>2, <3>3 DEF Respond, AbandonDelivery, vars
  <2>5. QED
    BY <1>1, <2>2, <2>3, <2>4, AdvanceServes
<1>7. CASE \E w \in Worker, t \in Txn : RefundRequest(w, t)
  <2>1. PICK w \in Worker, t \in Txn :
            RefundRead(w, t) /\ delivery[w] = NoDelivery /\ delivery' = delivery
    BY <1>7 DEF RefundRequest, ingestVars
  <2>2. QED
    BY <1>1, <2>1, ReadBegins, OtherServes
<1>8. CASE delivery' = delivery /\ job' = job
  BY <1>1, <1>8, OtherServes
<1>9. QED
  BY <1>2, <1>3, <1>4, <1>5, <1>6, <1>7, <1>8
  DEF IngestNext, PipelineNext, PipelineStep, Link, LinkPaymentEntry, InsertCharge,
      ProviderSettles, EditConfig, allVars, vars, ingestVars

-----------------------------------------------------------------------------
(* The engine and the audit columns.                                       *)

\* The engine's own invariants do not notice where a row comes from.
LEMMA InsertKeepsEngine ==
    ASSUME TypeOK, SeamInv, AckInv, NEW u \in Txn, InsertCharge(u)
    PROVE  TypeOK' /\ SeamInv' /\ AckInv'
<1>1. UNCHANGED <<accounts, job, ledger, published>>
  BY DEF InsertCharge
<1>2. TypeOK'
  <2>1. rows' = [t \in Txn |-> rows'[t]]
    BY DEF TypeOK, InsertCharge
  <2>2. \A t \in Txn : rows'[t] \in Row
    BY InsertFrame
  <2>3. QED
    BY <1>1, <2>1, <2>2 DEF TypeOK
<1>3. SeamInv'
  BY <1>1, InsertFrame, QuietKeepsSeam DEF Quiet
<1>4. AckInv'
  <2>1. \A t \in Txn : NeverFailed(t)'
    BY InsertFrame DEF AckInv, NeverFailed
  <2>2. ASSUME NEW w \in Worker PROVE FoundLive(w)' /\ RefundStarted(w)' /\ AnswerIsTrue(w)'
    <3>1. CASE job[w] = Idle
      BY <1>1, <3>1 DEF Idle, FoundLive, RefundStarted, AnswerIsTrue
    <3>2. CASE job[w] # Idle
      <4>1. PICK t \in Txn : job[w].txn = t
        BY <3>2, JobRow
      <4>2. job'[w] = job[w] /\ rows'[t].status = rows[t].status
            /\ (~rows[t].deleted => ~rows'[t].deleted)
        BY <1>1, InsertFrame
      <4>3. FoundLive(w) /\ RefundStarted(w) /\ AnswerIsTrue(w)
        BY DEF AckInv
      <4>4. QED
        BY <4>1, <4>2, <4>3 DEF FoundLive, RefundStarted, AnswerIsTrue
    <3>3. QED
      BY <3>1, <3>2
  <2>3. QED
    BY <2>1, <2>2 DEF AckInv
<1>5. QED
  BY <1>2, <1>3, <1>4

LEMMA StepEngine ==
    ASSUME IngestTypeOK, SeamInv, AckInv, [IngestNext]_allVars
    PROVE  TypeOK' /\ SeamInv' /\ AckInv'
<1>1. TypeOK
  BY DEF IngestTypeOK
<1>2. QED
  BY <1>1, IngestSteps, StepTyped, StepSeam, StepAck, InsertKeepsEngine

\* A payload column is written by one step, the stamp of a delivery.
LEMMA PayloadFrame ==
    ASSUME IngestTypeOK, [IngestNext]_allVars
    PROVE  \/ raw_payload' = raw_payload
           \/ \E w \in Worker :
                 /\ Stamp(w)
                 /\ raw_payload' = [raw_payload EXCEPT ![delivery[w].txn] = delivery[w].n.body]
<1>1. CASE \E w \in Worker : Stamp(w)
  BY <1>1 DEF Stamp
<1>2. CASE raw_payload' = raw_payload
  BY <1>2
<1>3. QED
  BY <1>1, <1>2 DEF IngestNext, PipelineNext, PipelineStep, Receive, VerifyBody, Refetch,
    FindRow, MoneyGate, SettleVerified, EngineStep, Respond, RefundRequest, Link,
    InsertCharge, ProviderSettles, EditConfig, AbandonDelivery, ingestVars, allVars

\* The provider learns of a 200 in one step, the answer.
LEMMA AckedFrame ==
    ASSUME [IngestNext]_allVars
    PROVE  \/ acked' = acked
           \/ \E w \in Worker :
                 \/ /\ delivery[w].at = "reply" /\ delivery[w].result = "ignored"
                    /\ Confirm(delivery[w].awaited)
                 \/ /\ delivery[w].at = "engine" /\ job[w].pc = "done"
                    /\ job[w].outcome \in {"settled", "already_settled"}
                    /\ Confirm(Awaited(delivery[w].n))
<1>1. CASE \E w \in Worker : Respond(w)
  BY <1>1 DEF Respond
<1>2. CASE acked' = acked
  BY <1>2
<1>3. QED
  BY <1>1, <1>2 DEF IngestNext, PipelineNext, PipelineStep, Receive, VerifyBody, Refetch,
    FindRow, MoneyGate, Stamp, SettleVerified, EngineStep, RefundRequest, Link,
    InsertCharge, ProviderSettles, EditConfig, AbandonDelivery, ingestVars, allVars

LEMMA ColumnsTyped ==
    ASSUME IngestTypeOK, [IngestNext]_allVars
    PROVE  /\ config' \in Config
           /\ truth' \in [Key -> ProviderTruth]
           /\ raw_payload' \in [Txn -> Body \cup {None}]
           /\ acked' \subseteq Key
<1>1. config' \in Config
  <2>1. CASE \E status \in {"active", "inactive", "deleted"}, ref \in BOOLEAN : EditConfig(status, ref)
    <3>1. PICK status \in {"active", "inactive", "deleted"}, ref \in BOOLEAN :
              config' = [config EXCEPT !.status = status, !.credentials_ref = ref]
      BY <2>1 DEF EditConfig
    <3>2. QED
      BY <3>1 DEF IngestTypeOK, Config
  <2>2. CASE config' = config
    BY <2>2 DEF IngestTypeOK
  <2>3. QED
    BY <2>1, <2>2 DEF IngestNext, PipelineNext, PipelineStep, Receive, VerifyBody, Refetch,
      FindRow, MoneyGate, Stamp, SettleVerified, EngineStep, Respond, RefundRequest, Link,
      InsertCharge, ProviderSettles, AbandonDelivery, ingestVars, allVars
<1>2. truth' \in [Key -> ProviderTruth]
  <2>1. CASE \E k \in Key : ProviderSettles(k)
    <3>1. PICK k \in Key : truth' = [truth EXCEPT ![k].settled = TRUE]
      BY <2>1 DEF ProviderSettles
    <3>2. [truth[k] EXCEPT !.settled = TRUE] \in ProviderTruth
      BY DEF IngestTypeOK, ProviderTruth
    <3>3. QED
      BY <3>1, <3>2 DEF IngestTypeOK
  <2>2. CASE truth' = truth
    BY <2>2 DEF IngestTypeOK
  <2>3. QED
    BY <2>1, <2>2 DEF IngestNext, PipelineNext, PipelineStep, Receive, VerifyBody, Refetch,
      FindRow, MoneyGate, Stamp, SettleVerified, EngineStep, Respond, RefundRequest, Link,
      InsertCharge, EditConfig, AbandonDelivery, ingestVars, allVars
<1>3. raw_payload' \in [Txn -> Body \cup {None}]
  <2>1. CASE raw_payload' = raw_payload
    BY <2>1 DEF IngestTypeOK
  <2>2. CASE \E w \in Worker :
                /\ Stamp(w)
                /\ raw_payload' = [raw_payload EXCEPT ![delivery[w].txn] = delivery[w].n.body]
    <3>1. PICK w \in Worker :
              /\ Stamp(w)
              /\ raw_payload' = [raw_payload EXCEPT ![delivery[w].txn] = delivery[w].n.body]
      BY <2>2
    <3>2. delivery[w].n.body \in Body
      BY <3>1, DeliveryAt DEF IngestTypeOK, Stamp, Settling, Body
    <3>3. QED
      BY <3>1, <3>2 DEF IngestTypeOK
  <2>3. QED
    BY <2>1, <2>2, PayloadFrame
<1>4. acked' \subseteq Key
  BY AckedFrame DEF IngestTypeOK, Confirm
<1>5. QED
  BY <1>1, <1>2, <1>3, <1>4

-----------------------------------------------------------------------------
(* What the pipeline promises.                                             *)

\* What the engine settles for a delivery, the provider settled.
LEMMA StepSettledTrue ==
    ASSUME IngestInv, [IngestNext]_allVars
    PROVE  SettledIsTrueAtProvider'
<1>1. WorldStays /\ TypeOK /\ \A t \in Txn : KeyOf[t] \in Key
  BY WorldFrame, KeyAssumption DEF IngestInv, IngestTypeOK
<1>2. ASSUME NEW t \in Txn, rows'[t].status \in Terminal
      PROVE  truth[KeyOf[t]].settled /\ truth[KeyOf[t]].gross = rows[t].gross_amount
  <2>1. CASE rows[t].status \in Terminal
    BY <2>1 DEF IngestInv, SettledIsTrueAtProvider
  <2>2. CASE rows[t].status \notin Terminal
    <3>1. [Next]_vars
      BY <1>1, <1>2, <2>2, IngestSteps, InsertFrame DEF IngestInv
    <3>2. PICK w \in Worker : TransitionToSettled(w) /\ job[w].txn = t
      BY <1>1, <1>2, <2>2, <3>1, RowFrame DEF MayRefund, Terminal
    <3>3. job[w] # Idle /\ job[w].op = "settle"
      BY <3>2 DEF TransitionToSettled, Idle
    <3>4. delivery[w].at = "engine" /\ delivery[w].txn = t /\ Justified(delivery[w])
      BY <3>2, <3>3 DEF IngestInv, Serving, JobServes
    <3>5. QED
      BY <3>4 DEF Justified, Vouched
  <2>3. QED
    BY <2>1, <2>2
<1>3. QED
  BY <1>1, <1>2 DEF SettledIsTrueAtProvider, WorldStays

LEMMA StepPayload ==
    ASSUME IngestInv, [IngestNext]_allVars
    PROVE  PayloadIsVerified'
<1> DEFINE Verified(t, body) ==
        /\ parse(config.code, body).provider_transaction_id = KeyOf[t]
        /\ truth[KeyOf[t]].settled
        /\ SchemeOf(config.code) = "HmacRawBody" =>
              /\ parse(config.code, body).gross_hint = rows[t].gross_amount
              /\ \E n \in Inbox : Awaited(n) = KeyOf[t] /\ n.body = body
<1>1. IngestTypeOK /\ WorldStays /\ \A t \in Txn : KeyOf[t] \in Key
  BY WorldFrame, KeyAssumption DEF IngestInv
<1>2. ASSUME NEW t \in Txn, raw_payload'[t] # None
      PROVE  Verified(t, raw_payload'[t])
  <2>1. CASE raw_payload'[t] = raw_payload[t]
    BY <1>2, <2>1 DEF IngestInv, PayloadIsVerified
  <2>2. CASE \E w \in Worker : Stamp(w) /\ delivery[w].txn = t /\ raw_payload'[t] = delivery[w].n.body
    <3>1. PICK w \in Worker :
              Stamp(w) /\ delivery[w].txn = t /\ raw_payload'[t] = delivery[w].n.body
      BY <2>2
    <3>2. delivery[w].at = "stamp" /\ Justified(delivery[w])
      BY <3>1 DEF Stamp, IngestInv, Serving
    <3>3. Vouched(delivery[w].n) /\ KeyOf[t] = KeyIn(delivery[w].n)
          /\ rows[t].gross_amount = truth[KeyOf[t]].gross
      BY <3>1, <3>2 DEF Justified
    <3>4. QED
      BY <3>1, <3>3 DEF Vouched, KeyIn
  <2>3. QED
    BY <1>1, <2>1, <2>2, PayloadFrame DEF IngestTypeOK
<1>3. ASSUME NEW t \in Txn, raw_payload'[t] # None
      PROVE  LET notification == parse(config'.code, raw_payload'[t]) IN
             /\ notification.provider_transaction_id = KeyOf[t]
             /\ truth'[KeyOf[t]].settled
             /\ SchemeOf(config'.code) = "HmacRawBody" =>
                   /\ notification.gross_hint = rows'[t].gross_amount
                   /\ \E n \in Inbox : Awaited(n)' = KeyOf[t] /\ n.body = raw_payload'[t]
  <2>1. \A n \in Inbox : Awaited(n)' = Awaited(n)
    BY <1>1, ReadingStays
  <2>2. Verified(t, raw_payload'[t])
    BY <1>2, <1>3
  <2>3. QED
    BY <1>1, <2>1, <2>2 DEF WorldStays
<1>4. QED
  BY <1>3 DEF PayloadIsVerified

\* An answer of 200 to an awaited notification is an answer of the engine.
LEMMA StepAcknowledged ==
    ASSUME IngestInv, [IngestNext]_allVars
    PROVE  AcknowledgedIsSettled'
<1>1. WorldStays
  BY WorldFrame DEF IngestInv
<1>2. SUFFICES ASSUME NEW t \in Txn, KeyOf[t] \in acked', KeyOf[t] \notin acked
               PROVE  rows[t].status \in Terminal
  BY <1>1 DEF IngestInv, AcknowledgedIsSettled, WorldStays
<1>3. KeyOf[t] # None
  BY KeyAssumption
<1>4. PICK w \in Worker :
          \/ /\ delivery[w].at = "reply" /\ delivery[w].result = "ignored"
             /\ KeyOf[t] = delivery[w].awaited
          \/ /\ delivery[w].at = "engine" /\ job[w].pc = "done"
             /\ job[w].outcome \in {"settled", "already_settled"}
             /\ KeyOf[t] = Awaited(delivery[w].n)
  BY <1>2, AckedFrame DEF Confirm
<1>5. Justified(delivery[w]) /\ JobServes(w)
  BY DEF IngestInv, Serving
<1>6. /\ delivery[w].at = "engine" /\ job[w].pc = "done"
      /\ job[w].outcome \in {"settled", "already_settled"}
      /\ KeyOf[t] = Awaited(delivery[w].n)
  BY <1>3, <1>4, <1>5 DEF Justified
<1>7. delivery[w] \in Settling
  BY <1>6, DeliveryAt DEF IngestInv, IngestTypeOK
<1>8. KeyOf[t] = KeyIn(delivery[w].n)
  BY <1>3, <1>5, <1>6, <1>7, AwaitedKey DEF Justified, Admitted, Settling
<1>9. t = delivery[w].txn
  BY <1>5, <1>6, <1>7, <1>8, KeyAssumption DEF Justified, Settling
<1>10. rows[job[w].txn].status \in Terminal
  BY <1>6 DEF IngestInv, AckInv, AnswerIsTrue
<1>11. job[w].txn = delivery[w].txn
  BY <1>5, <1>6 DEF JobServes, NoDelivery
<1>12. QED
  BY <1>9, <1>10, <1>11

-----------------------------------------------------------------------------
(* The theorems.                                                           *)

LEMMA InitIngest == IngestInit => IngestInv
<1> SUFFICES ASSUME IngestInit PROVE IngestInv
  OBVIOUS
<1>1. \A r \in NewRow : /\ [r EXCEPT !.deleted = TRUE] \in Row
                        /\ [r EXCEPT !.deleted = TRUE].status \in OpenStatus
  BY NewRowAssumption DEF Row
<1>2. rows \in [Txn -> Row] /\ \A t \in Txn : rows[t].status \in OpenStatus
  <2> DEFINE Missing == {[r EXCEPT !.deleted = TRUE] : r \in NewRow}
  <2>1. \A r \in Missing : r \in Row /\ r.status \in OpenStatus
    BY <1>1
  <2>2. rows \in [Txn -> Missing]
    BY DEF IngestInit
  <2> HIDE DEF Missing
  <2>3. QED
    BY <2>1, <2>2
<1>3. TypeOK
  BY <1>2, ConstantsAssumption DEF IngestInit, TypeOK, Job
<1>4. IngestTypeOK
  BY <1>3 DEF IngestInit, IngestTypeOK, Config, ProviderTruth, Delivery
<1>5. SeamInv
  BY DEF IngestInit, SeamInv, AboutToPublish, Announced, AtMostOneEventPerKind, Idle
<1>6. AckInv
  BY <1>2 DEF IngestInit, AckInv, NeverFailed, FoundLive, RefundStarted, AnswerIsTrue, Idle, OpenStatus
<1>7. \A w \in Worker : Serving(w)
  BY DEF IngestInit, Serving, Justified, JobServes, NoDelivery
<1>8. SettledIsTrueAtProvider
  BY <1>2 DEF SettledIsTrueAtProvider, OpenStatus, Terminal
<1>9. PayloadIsVerified /\ AcknowledgedIsSettled
  BY DEF IngestInit, PayloadIsVerified, AcknowledgedIsSettled
<1>10. QED
  BY <1>4, <1>5, <1>6, <1>7, <1>8, <1>9 DEF IngestInv

LEMMA StepIngest == IngestInv /\ [IngestNext]_allVars => IngestInv'
<1> SUFFICES ASSUME IngestInv, [IngestNext]_allVars PROVE IngestInv'
  OBVIOUS
<1>1. TypeOK' /\ SeamInv' /\ AckInv'
  BY StepEngine DEF IngestInv
<1>2. delivery' \in [Worker -> Delivery] /\ \A w \in Worker : Serving(w)'
  BY StepServing DEF IngestInv
<1>3. IngestTypeOK'
  BY <1>1, <1>2, ColumnsTyped DEF IngestInv, IngestTypeOK
<1>4. QED
  BY <1>1, <1>2, <1>3, StepSettledTrue, StepPayload, StepAcknowledged DEF IngestInv

LEMMA IngestInvariant == IngestSpec => []IngestInv
  BY InitIngest, StepIngest, PTL DEF IngestSpec

\* The pipeline keeps its state well-formed: what a delivery carries from one
\* await to the next is what the next one expects.
THEOREM IngestTypeCorrect == IngestSpec => []IngestTypeOK
<1>1. IngestInv => IngestTypeOK
  BY DEF IngestInv
<1>2. QED
  BY <1>1, IngestInvariant, PTL

\* Whoever sends whatever notifications in whatever order, and whatever vanishes
\* on the way, a row settles only if the provider settled that charge at the
\* recorded amount.
THEOREM NothingUnverifiedSettles == IngestSpec => []SettledIsTrueAtProvider
<1>1. IngestInv => SettledIsTrueAtProvider
  BY DEF IngestInv
<1>2. QED
  BY <1>1, IngestInvariant, PTL

\* The payload an auditor finds in a row passed the verification and the money
\* gate: a signing provider wrote it about this charge and this amount.
THEOREM StoredPayloadIsVerified == IngestSpec => []PayloadIsVerified
<1>1. IngestInv => PayloadIsVerified
  BY DEF IngestInv
<1>2. QED
  BY <1>1, IngestInvariant, PTL

\* The provider stops redelivering a settlement only when the row is settled.
THEOREM NoAnswerIsGivenAway == IngestSpec => []AcknowledgedIsSettled
<1>1. IngestInv => AcknowledgedIsSettled
  BY DEF IngestInv
<1>2. QED
  BY <1>1, IngestInvariant, PTL

-----------------------------------------------------------------------------
(* What the engine promises, behind the pipeline.                          *)

LEMMA InsertKeepsFee ==
    ASSUME TypeOK, FeeInv, NEW u \in Txn, InsertCharge(u)
    PROVE  FeeInv'
<1>1. UNCHANGED <<accounts, job, ledger, published>>
  BY DEF InsertCharge
<1>2. ASSUME NEW t \in Txn
      PROVE  /\ HasFeePost(rows[t])' <=> HasFeePost(rows[t])
             /\ rows'[t].fee_amount = rows[t].fee_amount
             /\ rows'[t].fee_post_id = rows[t].fee_post_id
             /\ rows'[t].status = rows[t].status
  BY <1>1, InsertFrame DEF HasFeePost
<1>3. ASSUME NEW t \in Txn, NEW kind PROVE Booked(t, kind)' = Booked(t, kind)
  BY <1>1 DEF Booked
<1>4. ASSUME NEW t \in Txn PROVE JournalsMatch(t)' /\ SettledLinks(t)' /\ Deduped(t)'
  <2>1. JournalsMatch(t) /\ SettledLinks(t) /\ Deduped(t)
    BY DEF FeeInv
  <2>2. QED
    BY <1>1, <1>2, <1>3, <2>1 DEF JournalsMatch, SettledLinks, Deduped
<1>5. ASSUME NEW w \in Worker PROVE PostingOwed(w)' /\ MovingBooked(w)'
  <2>1. CASE job[w] = Idle
    BY <1>1, <2>1 DEF Idle, PostingOwed, MovingBooked
  <2>2. CASE job[w] # Idle
    <3>1. PICK t \in Txn : job[w].txn = t
      BY <2>2, JobRow
    <3>2. PostingOwed(w) /\ MovingBooked(w) /\ job'[w] = job[w]
      BY <1>1 DEF FeeInv
    <3>3. PostingOwed(w)'
      BY <1>2, <3>1, <3>2 DEF PostingOwed
    <3>4. MovingBooked(w)'
      BY <1>2, <1>3, <3>1, <3>2 DEF MovingBooked
    <3>5. QED
      BY <3>3, <3>4
  <2>3. QED
    BY <2>1, <2>2
<1>6. QED
  BY <1>4, <1>5 DEF FeeInv

LEMMA OpenAtFirst == IngestInit => \A t \in Txn : rows[t].status \notin Terminal
<1> DEFINE Missing == {[r EXCEPT !.deleted = TRUE] : r \in NewRow}
<1>1. \A r \in Missing : r.status \notin Terminal
  BY NewRowAssumption DEF Row, OpenStatus, Terminal
<1>2. IngestInit => \A t \in Txn : rows[t] \in Missing
  BY DEF IngestInit
<1> HIDE DEF Missing
<1>3. QED
  BY <1>1, <1>2

LEMMA InitIngestFee == IngestInit => FeeInv
<1> SUFFICES ASSUME IngestInit PROVE FeeInv
  OBVIOUS
<1>1. ASSUME NEW t \in Txn
      PROVE  /\ Booked(t, "original") = {} /\ Booked(t, "reversal") = {}
             /\ rows[t].status \notin Terminal
  <2>1. ledger[t] = <<>>
    BY DEF IngestInit
  <2>2. QED
    BY <2>1, OpenAtFirst DEF Booked
<1>2. ASSUME NEW w \in Worker PROVE PostingOwed(w) /\ MovingBooked(w)
  BY DEF IngestInit, PostingOwed, MovingBooked, Idle
<1>3. QED
  BY <1>1, <1>2 DEF FeeInv, JournalsMatch, SettledLinks, Deduped

\* Behind the pipeline too the ACL hears once of each: deliveries that race
\* each other, refunds and late inserts included.
THEOREM PipelineAnnouncesOnce == IngestSpec => []AtMostOneEventPerKind
<1>1. IngestInv => AtMostOneEventPerKind
  BY DEF IngestInv, SeamInv
<1>2. QED
  BY <1>1, IngestInvariant, PTL

LEMMA IngestFeeInvariant == IngestSpec => []FeeInv
<1>1. IngestInv /\ FeeInv /\ [IngestNext]_allVars => FeeInv'
  BY IngestSteps, StepFee, InsertKeepsFee DEF IngestInv, IngestTypeOK
<1>2. QED
  BY <1>1, InitIngestFee, IngestInvariant, PTL DEF IngestSpec

\* Nor does a delivery that vanishes or loses the race leave a settled row
\* without its fee journal.
THEOREM PipelineBooksFees == IngestSpec => []FeeBookedWhenSettled
<1>1. FeeInv => FeeBookedWhenSettled
  BY DEF FeeInv, FeeBookedWhenSettled, SettledLinks, JournalsMatch
<1>2. QED
  BY <1>1, IngestFeeInvariant, PTL

LEMMA InsertKeepsRefund ==
    ASSUME TypeOK, RefundInv, NEW u \in Txn, InsertCharge(u)
    PROVE  RefundInv'
<1>1. UNCHANGED <<accounts, job, ledger, published>>
  BY DEF InsertCharge
<1>2. ASSUME NEW t \in Txn
      PROVE  /\ HasFeePost(rows[t])' <=> HasFeePost(rows[t])
             /\ compose_fee_post(rows[t])' = compose_fee_post(rows[t])
             /\ compose_fee_reversal(rows[t])' = compose_fee_reversal(rows[t])
             /\ rows'[t].fee_post_id = rows[t].fee_post_id
             /\ rows'[t].status = rows[t].status
  BY <1>1, InsertFrame DEF HasFeePost, compose_fee_post, compose_fee_reversal
<1>3. ASSUME NEW t \in Txn, NEW kind PROVE Booked(t, kind)' = Booked(t, kind)
  BY <1>1 DEF Booked
<1>4. ASSUME NEW t \in Txn
      PROVE  FeeJournalsCurrent(t)' /\ ReversalsCurrent(t)' /\ RefundedReversed(t)'
  <2>1. FeeJournalsCurrent(t) /\ ReversalsCurrent(t) /\ RefundedReversed(t)
    BY DEF RefundInv
  <2>2. QED
    BY <1>1, <1>2, <1>3, <2>1 DEF FeeJournalsCurrent, ReversalsCurrent, RefundedReversed
<1>5. ASSUME NEW w \in Worker PROVE EnvelopeCurrent(w)' /\ MovingReversed(w)'
  <2>1. CASE job[w] = Idle
    BY <1>1, <2>1 DEF Idle, EnvelopeCurrent, MovingReversed
  <2>2. CASE job[w] # Idle
    <3>1. PICK t \in Txn : job[w].txn = t
      BY <2>2, JobRow
    <3>2. EnvelopeCurrent(w) /\ MovingReversed(w) /\ job'[w] = job[w]
      BY <1>1 DEF RefundInv
    <3>3. QED
      BY <1>2, <1>3, <3>1, <3>2 DEF EnvelopeCurrent, MovingReversed
  <2>3. QED
    BY <2>1, <2>2
<1>6. QED
  BY <1>4, <1>5 DEF RefundInv

LEMMA InitIngestRefund == IngestInit => RefundInv
<1> SUFFICES ASSUME IngestInit PROVE RefundInv
  OBVIOUS
<1>1. ASSUME NEW t \in Txn
      PROVE  /\ Booked(t, "original") = {} /\ Booked(t, "reversal") = {}
             /\ rows[t].status # "refunded"
  <2>1. ledger[t] = <<>>
    BY DEF IngestInit
  <2>2. QED
    BY <2>1, OpenAtFirst DEF Booked, Terminal
<1>2. \A w \in Worker : EnvelopeCurrent(w) /\ MovingReversed(w)
  BY DEF IngestInit, Idle, EnvelopeCurrent, MovingReversed
<1>3. QED
  BY <1>1, <1>2 DEF RefundInv, FeeJournalsCurrent, ReversalsCurrent, RefundedReversed

LEMMA IngestRefundInvariant == IngestSpec => []RefundInv
<1>1. IngestInv /\ FeeInv /\ RefundInv /\ [IngestNext]_allVars => RefundInv'
  BY IngestSteps, StepRefund, InsertKeepsRefund DEF IngestInv, IngestTypeOK
<1>2. QED
  BY <1>1, InitIngestRefund, IngestFeeInvariant, IngestInvariant, PTL DEF IngestSpec

\* Refunds that race deliveries of their own charge undo the fee all the same,
\* if accounting can tell the reversal from its original.
THEOREM PipelineRefundsUndoFees ==
    ASSUME DedupKey # "source_id" PROVE IngestSpec => []RefundReversesFee
  BY RefundsAreReversed, IngestFeeInvariant, IngestRefundInvariant, PTL

\* No refund that races the deliveries of its charge reverses a fee that none of
\* them has booked.
THEOREM PipelineFeeComesFirst == IngestSpec => []ReversalFollowsFee
  BY ReversalsFollow, IngestRefundInvariant, PTL

\* Redeliveries and deliveries in flight together book one fee, given a sink
\* that dedups on either key.
THEOREM PipelineBooksOnce == IngestSpec => []FeeBookedOnce
  BY OneFeeJournal, IngestFeeInvariant, PTL

\* No delivery is told "settled" or "already settled" of a row that is not.
THEOREM PipelineAnswersAreTrue == IngestSpec => []AcknowledgedMeansSettled
<1>1. IngestInv => AcknowledgedMeansSettled
  BY AnswersAck DEF IngestInv
<1>2. QED
  BY <1>1, IngestInvariant, PTL

\* Nor does an insert or a delivery between a refund's read and its event make
\* the event name an entry that is not the row's.
THEOREM PipelineRefundsNameTheLink == IngestSpec => []RefundNamesLinkedEntry
<1>1. IngestInit => EntryInv
  BY DEF IngestInit, EntryInv, SnapshotNames, EventNames, Idle, RefundNamesLinkedEntry
<1>2. ASSUME TypeOK, EntryInv, NEW u \in Txn, InsertCharge(u)
      PROVE  EntryInv'
  <2>1. job' = job /\ published' = published
    BY <1>2 DEF InsertCharge
  <2>2. \A t \in Txn : rows'[t].payment_entry_id = rows[t].payment_entry_id
    BY <1>2, InsertFrame
  <2>3. QED
    BY <1>2, <2>1, <2>2, LinksKeepEntry
<1>3. IngestInv /\ EntryInv /\ [IngestNext]_allVars => EntryInv'
  BY <1>2, IngestSteps, StepEntry DEF IngestInv, IngestTypeOK
<1>4. EntryInv => RefundNamesLinkedEntry
  BY DEF EntryInv
<1>5. QED
  BY <1>1, <1>3, <1>4, IngestInvariant, PTL DEF IngestSpec

\* The pipeline and the engine behind it, seen from the ACL, are what
\* SettlementSeam promises: what a host may take for the engine.
THEOREM PipelineImplementsSeam == IngestSpec => ImplementsSeam
<1>1. IngestInit => Seam!Init
  BY OpenAtFirst, StartMaps DEF IngestInit
<1>2. IngestInv /\ [IngestNext]_allVars => [Seam!Next]_Seam!vars
  <2> SUFFICES ASSUME IngestInv, [IngestNext]_allVars PROVE [Seam!Next]_Seam!vars
    OBVIOUS
  <2>1. IngestTypeOK /\ TypeOK /\ SeamInv
    BY DEF IngestInv, IngestTypeOK
  <2>2. CASE [Next]_vars
    BY <2>1, <2>2, StepMaps
  <2>3. CASE \E u \in Txn : InsertCharge(u)
    <3>1. published' = published /\ job' = job
      BY <2>3 DEF InsertCharge
    <3>2. \A t \in Txn : rows'[t].status = rows[t].status
      BY <2>1, <2>3, InsertFrame
    <3>3. \A w \in Worker, t \in Txn, k \in Kind :
            AboutToPublish(w, t, k)' <=> AboutToPublish(w, t, k)
      BY <3>1 DEF AboutToPublish
    <3>4. QED
      BY <3>1, <3>2, <3>3, StillMaps
  <2>4. QED
    BY <2>1, <2>2, <2>3, IngestSteps
<1>3. QED
  BY <1>1, <1>2, IngestInvariant, PTL DEF IngestSpec, ImplementsSeam, Seam!Spec

===========================================================================
