# A verification project for backbone-payment-gateway

The crate is the payment-gateway module of a larger service. It keeps a table of gateway
transactions (charges made at Midtrans, Xendit, DOKU, Stripe or by hand), moves a row to `settled`
when the provider says so and to `refunded` when the host asks, posts the gateway's fee at the
accounting module on the way, and tells the accounting control layer (ACL) about either transition
with one event. This directory models that in TLA+, together with what the ACL and the general ledger make
of it, model-checks it with TLC on small instances, and proves the properties the ACL depends on with
TLAPS for every instance.

## 1. Inventory of the system

| Component | Code | State | Operations |
|---|---|---|---|
| Settlement engine | `gateway_write_service.rs`, `gateway_gl.rs`, `gateway_events.rs` | none of its own; a request's locals between two awaits | `settle_transaction`, `reverse_transaction`, `settle_by_provider_tx(_verified)`, `link_payment_entry` |
| Statements on gateway transactions | `gateway_transaction_repository_custom.rs` | the table `gateway_transactions` | joined read, transition to settled or refunded, `mark_fee_failed`, `stamp_raw_payload`, `link_payment_entry`, `find_id_by_provider_tx`, the two journal composers |
| Verified webhook ingest | `gateway_ingest_service.rs`, SQL function `resolve_webhook_target` | a delivery's locals between two awaits | `ingest` |
| Notification codecs and registry | `gateway_codecs.rs` | none (pure) | `parse`, `verify`, `scheme`, `lookup` for DOKU, Midtrans, Xendit, manual |
| Generic CRUD on both tables | entities, DTOs, row rules, repositories over backbone-core | both tables | create, full and partial update, soft delete, restore, bulk, upsert, trash |
| Module builder and routers | `lib.rs`, `lib.ext.rs`, `gateway_webhook_handler.rs`, the two CRUD handlers | the ports, the built module, what the host mounts | `with_*`, `build`, the router factories, `settle_webhook` |
| Seam with the ACL and the ledger | `tests/gateway_seam.rs`, `gateway_events.rs` | the ACL's entries, its place in the event stream | create, post and link back a PaymentEntry, reverse it |
| Provider port | `gateway_provider.rs` | the stub's map | called by the host only |
| Migrations, seeders, exports, CRUD event types | `migrations/`, `seeders/`, `exports/`, `domain/event/` | schema | run once, or without behaviour |

Outside the crate: the provider (its API, its signed notifications, its redeliveries), accounting
behind `GlPostSink`, the ACL behind `GatewayEventSink`, the credential store, and backbone-core.

How they interact: a notification enters `ingest`, is parsed and verified by a codec (or re-fetched
through `StatusRefetch`), passes the money gate, is stamped on the row, and ends in
`settle_transaction`. That reads the row joined with its provider, posts the fee at accounting (a unit
of work of accounting's own), runs the transition UPDATE in a database transaction, and publishes the
event from memory after the commit. The ACL answers a settled event by creating a PaymentEntry and
linking it back. Operators edit both tables through CRUD meanwhile. Shared state is the two tables;
nothing locks a row across two awaits.

What is hard, and what makes each part correct:

* Engine: several deliveries of one charge run at once, each may vanish at any await, and the fee is
  posted outside the row's transaction. Right when the ACL gets each event at most once, no row is
  settled without its fee journal, the journal is booked once and undone by a refund (if accounting can tell the reversal from it), an answer
  `already_settled` is true, and retries get a row settled in the end.
* Ingest: notifications come duplicated, reordered, unsigned, garbled or misrouted; 200 ends the
  provider's redeliveries. Right when nothing but the provider's word settles a row, and 200 is
  answered only when nothing is left to redeliver.
* Codecs: right when what verifies is what the provider signed, and what the provider calls settled
  is read so.
* CRUD and administration: writes that look at nothing fall between two awaits of the engine, and a
  full update writes back what was read long before. Right when failed and deleted rows stay where
  they are, and when the surfaces meant for production cannot undo the engine.
* Builder: right when a router exists only with the ports it needs.
* Seam: two systems post to one ledger, the fee before the row moves and the gross after it. Right when
  the journals of a charge reconcile as soon as nothing is under way for it.

`PROJECT.json` lists the hazards by line and the properties aimed at each.

## 2. Modules

| Module | Models | Extends / instantiates |
|---|---|---|
| `SettlementSeam` | what the engine promises the ACL: open, settled, refunded; events owed, delivered or lost | |
| `GatewaySettlement` | the engine over the table, one action per await | instantiates `SettlementSeam` |
| `SettlementBooks` | the engine, the ACL that works off its events, and the ledger both post to | `GatewaySettlement` |
| `GatewayCodecs` | codecs and registry as functions | |
| `WebhookIngest` | the pipeline, one action per await, with the provider | `GatewaySettlement`, `GatewayCodecs` |
| `GatewayAdministration` | the engine with CRUD writes falling between its awaits | `GatewaySettlement` |
| `GatewayHost` | builder, routers, HTTP clients and row rules | `SettlementSeam` as the engine |
| `GatewaySettlementProofs` | theorems on the engine: types, events, the fee | `GatewaySettlement` |
| `GatewaySettlementRefundProofs` | theorems on its answers, the refund and what a crash-free run announces | `GatewaySettlementRefinement` |
| `GatewaySettlementRefinement` | the engine implements the seam | `GatewaySettlementProofs` |
| `SettlementBooksProofs` | theorems on the engine with the ACL: types, events, the entry of a refund | `SettlementBooks`, `GatewaySettlementRefundProofs` |
| `SettlementReconciliationProofs` | the ledger reconciles; sums of a few journals | `SettlementBooksProofs` |
| `WebhookIngestProofs` | theorems on the pipeline in front of the engine | `WebhookIngest`, `GatewaySettlementRefundProofs` |
| `GatewayAdministrationProofs` | theorems on the engine under CRUD writes | `GatewayAdministration`, `GatewaySettlementRefundProofs` |
| `GatewayHostProofs` | theorems on hosts and their clients | `GatewayHost` |
| `MC*` | constants for TLC | |

Definitions whose names end in `_Something` under a comment "Mutant" are plausible slips of the code.
Each property is run once with one such slip in place and has to fail.

### GatewaySettlement

`rows[t]` is the row (status, `posting_state`, `fee_post_id`, `payment_entry_id`, gross and fee
amounts, currency, deleted), `accounts` the provider's two GL accounts, `ledger[t]` the journals
accounting booked (`fee_post_id` is a position in it, 0 for NULL), `published[t]` what the event sink
received, and `job[w]` the request worker `w` serves, by the await it is at: `post`, `mark`,
`transition`, `publish`, `done`.

| Action | Code (`gateway_write_service.rs`) |
|---|---|
| `SettleRead`, `RefundRead` | the one read, the early returns in order, the composing of the fee post |
| `PostBooked`, `PostReused`, `PostRejected` | `GlPostSink::post`: booked, `idempotent_reuse`, rejected |
| `MarkFeeFailed` | `mark_fee_failed`, then the error |
| `TransitionToSettled`, `TransitionToRefunded` | the database transaction with its `rows_affected` gate |
| `Publish` | `events.publish` after `commit` |
| `Reply` | the caller gets its answer and the slot is free |
| `Abandon` | a dropped future, a crash, an error propagated by `?`; also an accepted post or a commit whose answer is lost, since the two halves are actions of their own |
| `LinkPaymentEntry` | `link_payment_entry` |

`DedupKey` says what accounting, behind `GlPostSink`, recognises a repeated post by. The repository
documents `source_id` and calls `idempotency_key` "the same value" (`gateway_gl.rs`, the comments of the
write service, ADR-001); that holds of the settle's envelope, where both are the row id, but
`compose_fee_reversal` repeats the `source_id` and prefixes the `idempotency_key`. So the two readings
differ, and `SameKey` keeps them apart:

* `"idempotency_key"`: a reversal is told from its original. `MCSettlement`, `MCBooks`,
  `MCAdministration` and the runs below that expect a violation for another reason take it, because
  only under it can a refund do what its comment says.
* `"source_id"`, as documented: the first post of a row absorbs the reversal as a duplicate
  (`idempotent_reuse`), and the fee stays booked. `MCSettlementSourceId` shows it, `SourceIdAbsorbsReversals`
  proves it. `MCIngest` and `MCIngestFair` run under it: what they check does not depend on the reversal.
* `"none"`: books again each time, up to `MaxJournals` per row. `MCSettlementNoDedup`.

Net amount, ids and dates in the event, error
texts and logging are left out. Amounts are natural numbers: the code only compares and adds them.

### WebhookIngest and GatewayCodecs

`delivery[w]` is the delivery of worker `w` at `authority`, `find`, `gate`, `stamp`, `settle`, then
`engine` (the settle runs as `job[w]`), or at `reply` with its refusal. `config` is what
`resolve_webhook_target` projects, `truth[k]` what the provider knows of charge `k`, `acked` what was
answered 200, `raw_payload` the column. `Receive` covers resolve, the slug, codec and scheme checks and
the parse, which read once and do not await between; then `VerifyBody` or `Refetch`, `FindRow`,
`MoneyGate`, `Stamp` (whose error the code ignores) and `SettleVerified`. `Respond` maps outcomes to
200 or not.

A request is what its codec sees of it, plus who sent it and which settlement it announces; the last
two are external and only properties and the provider's behaviour use them. The model's provider sends
only what is true and answers its API truthfully and without lag; nobody else computes digests with
the shared secret. A stranger may repeat a signed notification, or attach its digest to another body,
but only once the provider has something to sign (`Repeated`, `Sendable`): before the settlement is
true no such digest exists to be copied. The digest is ideal (no collisions, an injective signed text). Statuses are words in lower case or another spelling, which
is what the codecs differ in. `config.code` does not change while the model runs.

### SettlementBooks

`entries[e]` is a PaymentEntry of the payment module (draft, posted, reversed), `heard[t]` how many of
the row's events the ACL is done with. `CreatePayment`, `PostPayment` and `StampBack` are the three
calls the seam test makes on a settled event, with the engine free to act between them; the ACL may
die before it notes that it is done and then links again. `ReversePayment` is its answer to a refunded
event. It works its events off in the order they were published. `Net(t, a)` is `FeeNet(t, a)`, what the
engine's journals move on account `a` for row `t`, plus `PaymentNet(t, a)`, what the ACL's do; each is
the sum of a function over the journals or the posted entries.

### GatewayAdministration

Engine steps interleaved with `SoftDelete`, `Restore` (refused by the unique partial index when a live
row has the key; it stands for the first insert as well), `PatchAccounts`, and `apply_patch`, which
writes `status`, `posting_state`, `payment_entry_id` and `fee_post_id` of a live row to any value at any
time, as the entity's `apply_patch` looks at nothing but the name of the column; at most `MaxEdits`
writes in all. A PATCH of amounts, currency or keys is left out, and so is one of the columns the engine
only passes on. Two variables are no columns: `edits` counts the writes and tells them from engine steps
in the action properties, and the history variable `reopened` collects the rows whose settle or refund a
PATCH has taken back. No property is claimed of such rows' events: they settle and announce again.

### GatewayHost

`With`, `build` and `Mount` follow `lib.rs` and `lib.ext.rs`: the webhook router exists with a fee
sink, the ingest service with fee sink, credential reader and re-fetcher, and without an event sink
the default one logs and so loses every event. `Surfaces` are the sets of routers hosts mount, and
`Serves` says what each router answers.

HTTP clients write both tables through their DTOs. A column is kept by what DTO, row rules and declared
checks ask of it: its value is fine, null, blank, too long, negative, of another type, or left out.
`Accepts` and `Held` are the deserialization of a DTO (mandatory, defaulted and optional columns),
`TransactionRules` and `ProviderRules` the row rules, which look at changed columns only,
`TransactionChecks` and `ProviderChecks` the constraints of the migrations. `Verdict` puts them in the
order of a request: 422 from the DTO or a rule before a check can answer 500.

| Action | Code |
|---|---|
| `CreateTransaction`, `apply_update`, `apply_patch` | POST, PUT (every column as the client read it, but one) and PATCH (one column) of a transaction; POST meets the foreign key |
| `CreateProvider`, `UpdateProvider`, `PatchProvider` | the same of the provider |
| `MoveProvider`, `PurgeProvider` | its trash: delete, restore, permanent delete, refused by the foreign key while a charge references it |
| `settle_webhook` | the normalized endpoint: other statuses acknowledged without a step, unknown charges not found |
| `Ingest`, `RefundInProcess`, `InsertCharge` | the verified pipeline, a refund and a charge creation by the host itself |

The engine is the seam, which is sound because the engine and the pipeline implement it (section 4);
the host never sees more of it: of a row it keeps the phase, which a PUT or a PATCH of `status` may
set to any, and not the posting state or the links. The generic handler is backbone-core's and external: a PATCH is taken to store what
the entity's `apply_patch` makes of it, and every request to be one committed statement.

## 3. What is checked

Deadlock is allowed only in `MCHost`, where a host that mounted everything and a client that may
write nothing have no step left.

| Run | Instance | Shows |
|---|---|---|
| `MCSettlement` | 1 row, 3 workers, sink that dedups on `idempotency_key`, aborts anywhere | fee booked once, reversed as its mirror and never before it was booked; `already_settled` is true; a refund names no entry but the linked one |
| `MCSettlementNoDedup` | the same shape, sink that books again | at most one event of a kind, no row settled without its fee journal, `ImplementsSeam` |
| `MCBooks` | 1 row, 2 workers, ACL, ledger; no aborts; fairness | every transition is announced; the journals of a charge reconcile at rest, or keep exactly the gross of a refund that named no entry; a refund names an entry the ACL has and is all or nothing; redelivery gets the gross booked; owed events arrive (`ImplementsReliableSeam`) |
| `MCIngest` | 1 charge, 2 workers, DOKU, Midtrans or Xendit, nine requests, the row inserted at any time | only the provider's word settles; what is stamped is verified; a 200 is never given away |
| `MCIngestFair` | the same without aborts and config edits, also an unregistered provider; fairness | a charge that can settle does |
| `MCAdministration` | 2 rows of one key, 2 workers, aborts, any two edits, PATCHes to any value included | events at most once unless a PATCH takes a settle or refund back; a settle links a booked fee, whoever edits; no request moves a failed or a deleted row |
| `MCHost` | 1 row, 1 client, 1 provider, three kinds of host, all ports | a guarded host announces once; DTOs and rules are as strict as the table; no charge loses its provider row |

Bounds. Rows meet only in the dedup index, so one row shows what requests do to each other and two show
the index. Two workers make every race for one transition, a third gives a bystander that read before
both. Two edits fit a deletion and a restore under the other row's key, a reconfiguration and its undoing,
or a PATCH that undoes another, between any two awaits; `MaxJournals = 1` there bounds the values a PATCH
writes to `fee_post_id`, not the sink, which dedups. The three hosts of `MCSurfaces` cover every router except the
ones they contain: an administration backend with the unguarded surface, a back office that edits
providers, and a public host of the verified pipeline. The notifications carry the recorded amount,
another one, a tampered body, a stranger's and no JSON at all. `MaxJournals = 2` lets an undeduplicated
fee be booked twice (3 in `MCSettlementNoDedup`, so that it can be reversed twice as well),
`MaxEvents = 2` lets a row be announced twice. Workers are symmetric, and the runs that declare it check
no liveness.

Fairness, in `BooksSpec` and `IngestFairSpec` only. Weak fairness of a worker's steps: the runtime
polls a future that can proceed, and no request is dropped. Strong fairness of the delivery of a
settlement: the provider redelivers until it is answered 200 and finds a free worker time and again.
Strong fairness of the authority and of the sink's acceptance: credential store, status API and
accounting answer in the end, however often they refuse. Fairness of the ACL's steps, strong for the
one that finishes an event: an external consumer gets on with its stream. Nothing in the code retries
by itself, so without redelivery nothing would be live.

### Where code and documentation disagree

Five runs expect a violation; each counterexample is a short story told in `PROJECT.json` "findings".

* `MCSettlementCrash`: a request that dies after the commit and before the publish leaves a settled
  row nobody announces, and a redelivery answers `already_settled`. The comments say "crash-safe".
* `MCSettlementFailedMark`: a late rejection sets `posting_state = failed` on a row whose fee is booked.
* `MCRefundAtomicity`: a refund that dies after its reversal post leaves a settled row with a reversed
  fee and no refunded event. Comment and ADR-001 say "all-or-nothing". A dropped future, a crash, a
  database error that `?` propagates from the transaction, and a deletion or a PATCH of the row between
  the post and the UPDATE all leave the refund half done; `RefundIsWhole` proves the property of what
  remains, requests that run to their end on rows nobody edits.
* `MCSettlementRefundLink`: the ACL links its entry while the reversal is being posted; when the refund
  commits the row names the entry, and the event, made from the snapshot of the first read, does not.
  The settle re-reads its header inside its transaction, the refund does not. (A link that comes after
  the commit is no fault of the event and is not counted.)
* `MCSettlementSourceId`: accounting that dedups on `source_id`, the documented contract, takes the fee
  reversal for the original; the refund goes through and the fee stays booked.

Seen while modelling and not run: the second of two authenticated deliveries may settle while the
first one's payload is stamped; `SettleOutcome::already_settled` is documented as found at the read but
is also returned by the loser of the race; `ParseError` is documented as 422 and answered 400;
`check_money` is called with `net` computed as `gross - fee`, so its third comparison cannot fail, and
the recorded net amount is never compared; a notification that outruns the provider's own status API is
answered 200 and not redelivered; a notification for an existing charge of an inactive provider is
refused, though the provider's model file says that existing references settle; a provider without both
GL accounts settles rows without a fee post, and a refund once it has them books a reversal of its own,
as the composer documents; after a change of the provider's accounts a refund reverses on accounts the
fee was not booked on. A refund's event names no entry for either of two reasons, and both leave the
gross on the books: it was published before the settle it follows, or the refund read the row before the
ACL linked it. `BooksReconcile` says so: after such a refund the whole gross stays booked, after any
other none of it. A PATCH may take a settled row back to an open status: it then settles and is
announced again (`OnceUnlessReopened` ends there). Other properties of the undisturbed engine fail under
CRUD edits as well: `FeeBookedWhenSettled`, `FeeBookedOnce` and `ReversalFollowsFee` because an edit of the
accounts changes whether a settled row owes a fee and a PATCH which journal it links, `RefundNamesLinkedEntry` because a PATCH may replace
the link, `AcknowledgedMeansSettled` because the engine answers `already_settled` when its UPDATE found
the row deleted or failed, and because a PATCH may undo what was answered; in front of the pipeline that answer is a 200.

## 4. What is proved

Every theorem holds for any number of rows, workers, entries, accounts, notifications and clients.

| Module | Theorem | Statement |
|---|---|---|
| `GatewaySettlementProofs` | `TypeCorrect` | `Spec => []TypeOK` |
| | `ExactlyOnce` | `Spec => []AtMostOneEventPerKind` |
| | `FeeIsBooked` | `Spec => []FeeBookedWhenSettled` |
| | `FeeIsBookedOnce` | `Spec => []FeeBookedOnce` |
| | `SourceIdAbsorbsReversals` | `DedupKey = "source_id"` implies `Spec => []` no row has a reversal journal |
| `GatewaySettlementRefinement` | `EngineImplementsSeam` | `Spec => ImplementsSeam` |
| | `EngineLosesNothing` | `UninterruptedSpec => Seam!ReliableSafety` |
| `GatewaySettlementRefundProofs` | `AnswersAreTrue` | `Spec => []AcknowledgedMeansSettled` |
| | `RefundsNameTheLink` | `Spec => []RefundNamesLinkedEntry` |
| | `RefundUndoesFee` | `DedupKey # "source_id"` implies `Spec => []RefundReversesFee` |
| | `FeeComesFirst` | `Spec => []ReversalFollowsFee` |
| | `NothingIsLost` | `UninterruptedSpec => []TransitionIsAnnounced` |
| | `RefundIsWhole` | `UninterruptedSpec => []RefundIsAllOrNothing` |
| `SettlementBooksProofs` | `BooksTypeCorrect` | `BooksSpec => []BooksTypeOK` |
| | `BooksLoseNothing` | `BooksSpec => []TransitionIsAnnounced` |
| | `BooksRunTheReliableSeam` | `BooksSpec => Seam!ReliableSafety` |
| | `RefundedEntryIsPosted` | `BooksSpec => []RefundFindsItsEntry` |
| `SettlementReconciliationProofs` | `BooksAlwaysReconcile` | `DedupKey = "idempotency_key"` implies `BooksSpec => []BooksReconcile` |
| | `BooksRefundWhole` | `BooksSpec => []RefundIsAllOrNothing` |
| `GatewayAdministrationProofs` | `ExactlyOnceUnlessReopened` | `AdminSpec => []OnceUnlessReopened` |
| | `SeamSurvivesOtherEdits` | `AdminSpec /\ PatchesKeepPhase => ImplementsSeam` |
| | `PostedLinkIsRight` | `DedupKey # "source_id"` implies `AdminSpec => PostedFeeIsBooked` |
| | `FailedIsFinal` | `AdminSpec => FailedStaysFailed` |
| | `DeletedRowsRest` | `AdminSpec => DeletedDoesNotMove` |
| `WebhookIngestProofs` | `IngestTypeCorrect` | `IngestSpec => []IngestTypeOK` |
| | `NothingUnverifiedSettles` | `IngestSpec => []SettledIsTrueAtProvider` |
| | `StoredPayloadIsVerified` | `IngestSpec => []PayloadIsVerified` |
| | `NoAnswerIsGivenAway` | `IngestSpec => []AcknowledgedIsSettled` |
| | `PipelineAnnouncesOnce` | `IngestSpec => []AtMostOneEventPerKind` |
| | `PipelineBooksFees` | `IngestSpec => []FeeBookedWhenSettled` |
| | `PipelineBooksOnce` | `IngestSpec => []FeeBookedOnce` |
| | `PipelineRefundsUndoFees` | `DedupKey # "source_id"` implies `IngestSpec => []RefundReversesFee` |
| | `PipelineFeeComesFirst` | `IngestSpec => []ReversalFollowsFee` |
| | `PipelineAnswersAreTrue` | `IngestSpec => []AcknowledgedMeansSettled` |
| | `PipelineRefundsNameTheLink` | `IngestSpec => []RefundNamesLinkedEntry` |
| | `PipelineImplementsSeam` | `IngestSpec => ImplementsSeam` |
| `GatewayHostProofs` | `HostTypeCorrect` | `HostSpec => []HostTypeOK` |
| | `GuardedHostIsOnce` | `HostSpec => []GuardedHostAnnouncesOnce` |
| | `RulesCoverTheChecks` | `HostSpec => []RefusedBeforeTheDatabase` |
| | `ChargesKeepTheirProvider` | `HostSpec => []EveryChargeFindsItsProvider` |

### Assumptions

Each is named in the module that declares the constants, and TLC evaluates it on that module's runs.
`SourceIdAbsorbsReversals` is about one dedup key, the documented one. Four more theorems assume something
in their statement, all of it about that key, which the crate leaves to the host:

* `RefundUndoesFee` and `PipelineRefundsUndoFees` need `DedupKey # "source_id"`: any sink that books a
  reversal beside its original, one that double-books included. They are false for the documented key.
* `PostedLinkIsRight` needs the same: deduping on `source_id`, a settle after a PATCH has reopened a
  refunded row could be answered with a reversal booked for it.
* `BooksAlwaysReconcile` needs `DedupKey = "idempotency_key"`: a sink that dedups on nothing books fees
  twice, and one that dedups on `source_id` never reverses any.

The other properties, `FeeBookedOnce` and the refinement included, hold of every key.
`SeamSurvivesOtherEdits` has a hypothesis instead, `PatchesKeepPhase`: no operator's write moves a row into
or out of the settled statuses. The code does not enforce it; `ExactlyOnceUnlessReopened` needs nothing of
the kind.

* `ConstantsAssumption`, `NewRowAssumption`: NULL is no id, configurations are well-typed, and a charge
  is created open with nothing posted or linked (`GatewayTransactionBuilder::build`).
* `BooksAssumption`: the ACL's two accounts differ and no provider books its fee on them;
  `EntryAssumption`: no entry is NULL.
* `SurfacesAssumption`: a host mounts routers the crate has; `NoneAssumption`: a missing row is no row.
* `InboxAssumption`: who signs with the shared secret is the provider. `AnnouncementAssumption`: what a
  provider's notification announces is the settlement its codec reads in it, which is how "announces"
  is meant. `BodyAssumption`: ids are charges of the provider; amounts are amounts or zero, which is
  what the codecs make of a missing one. `KeyAssumption`: rows of one provider differ in their
  transaction id, which the unique dedup index enforces while no row is deleted, and the ingest model
  deletes none.

### The invariants

Few of the properties are inductive. Each invariant below is proved action by action, the last step of
each theorem is temporal, and what a step leaves alone is stated once in frame lemmas (`RowFrame`,
`LinkFrame`, `StreamFrame`, `JobFrame`) that the later proofs cite.

* `SeamInv`, for the events. `AtMostOneEventPerKind` says nothing of a worker about to publish. The
  invariant adds that an event of a kind is published, or about to be by one worker, only if the row
  has passed that transition, and that no two of these hold for one kind; the condition on status in
  the transition UPDATE then makes each step safe. The refinement rests on it too: the owed events
  are a set because no two workers hold the same one. The invariant speaks of one row at a time (`RowSeam`,
  `SeamByRow`), and of nothing that a deletion, a restore, an edit of links or accounts or a PATCH forward
  changes; only a PATCH that takes a row back breaks it, for that row. So under administration it holds
  of every row outside `reopened` (`SeamUnlessReopened`), and of all rows where no PATCH changes the phase.
  The row inserted beside the pipeline keeps it as well.
* `FeeInv`, for the fee from request to row: an envelope in flight is the one its snapshot asks for
  (`PostingOwed`), a request that reaches the transition has its journal booked (`MovingBooked`),
  journals carry the recorded amount (`JournalsMatch`), a settled row links its own (`SettledLinks`),
  and there is one original per row if the sink dedups on either key, and no reversal if it does on
  `source_id` (`Deduped`); a request that lost the race has posted as well.
* `AckInv`, for the answer. The loser of the race answers `already_settled` because its UPDATE found no
  open row. That means settled only while nothing else takes a row out of the open states, so the
  invariant says that rows of live requests are neither deleted nor failed.
* `EntryInv`, for the entry a refund names: the snapshot of every request and every event in flight
  names no entry or the linked one. It holds because `link_payment_entry` fills an empty link only.
* `RefundInv`, for the reversal: an envelope in flight is still the one the composer would make now,
  a refund at its transition has its reversal booked (unless the sink dedups on `source_id`: that conjunct
  and the one on refunded rows are conditional on it, the rest is not), and every reversal is the one its row asks for
  and comes after the journal it undoes. It rests on `FeeInv` and on `fee_post_id` staying put once a
  row has settled.
* `TransitionIsAnnounced` is inductive by itself when no request vanishes; `BooksSpec` implies
  `UninterruptedSpec` (`BooksRunEngine`), so it carries over to the books.
* `HeldInv`, for what is half done. A row with journals that has not moved, and a settled row with a
  reversal, are held by a request at its transition, which leaves it only once the row has moved
  (`TransitionDone`). It is true while no request vanishes and nobody edits the row, and is
  where a vanished request breaks `RefundIsAllOrNothing`: the reversal stays and nobody holds the row. At rest nobody does, so the row has
  been refunded, and `TransitionIsAnnounced` does the rest.
* `BooksInv`, for the ACL. It joins `EntryInv` with `GrossInv` (snapshots and events carry the gross of
  their row), `EntryOfGross` (so do entries) and `LinkIsPosted` (a linked entry is the row's own, is
  posted, and came with a settled event). The last is why a refund that names an entry is behind the
  settle in the stream: it read the link the ACL had made.
* `AclInv`, for what the ACL is done with: a row has one entry at most and only after its settled event,
  an entry is posted once the ACL is past that event, reversed once it is past a refund that names it, and
  reversed only for a row that has a refunded event naming an entry (`ReversedIsTold`). The two directions
  together are why the gross is wholly reversed or wholly booked, whatever the refund had read. With `ReversalInv`, one reversal at most, it joins everything known of the
  engine in `Known`. At rest each row is then one of three cases (`OpenReconciles`, `SettledReconciles`,
  `RefundedReconciles`) with no more than two journals and one posted entry. That is why
  `BooksReconcile` needs no induction over data: the fold behind `SumFunction` is a choice of a function
  that satisfies a recursive equation, and over none, one or two elements such a function can be
  exhibited and its value computed (`SumOfNone`, `SumOfOne`, `SumOfTwo`).
* `LinkInv`, for the fee under administration. `FeeInv` survives no edit of the accounts, by which a row may
  owe a fee it did not owe when it settled, and no PATCH of the link. What survives is what requests carry
  and what was posted: envelopes and fee journals are of the recorded fee on a pair of accounts of some
  configuration, and what accounting answered a settle is the place of such a journal. That is all the
  step that links it needs, so `PostedFeeIsBooked` is stated of that step.
* `IngestInv`, for the pipeline. A property of a settled row holds because of what the delivery that
  settled it had established, so `Justified` says at each await what is established so far (admitted,
  vouched for by signature or API, found, money gate passed), and `JobServes` that the engine settles
  for such a delivery and for nothing else. `SeamInv` and `AckInv` are conjuncts: an answer is true
  only because the engine's is. `FeeInv`, `RefundInv` and `EntryInv` hold of the engine in the
  pipeline as they do of the engine alone, since the one step that is not the engine's, the insert of a
  row, touches nothing they speak of. `MCIngest` checks on two workers what the conjuncts say together.
* `OnceInv`, for hosts: an event is owed or was delivered, never both, and only of a row that has come
  as far; true as long as no client can write the phase back.
* `ReadRowsExist`, for the provider's trash: what a client edits exists, so a stale update cannot bring
  back a charge beside a purged provider.
* `WriteIsJudged` is the lemma on the rules: for any table whose columns are `Guarded`, a write the DTO
  accepts and no rule refuses breaks no check, though rules look at changed columns only, because the
  row it changes broke none. Both tables of the crate are guarded.

Only model-checked. `EventuallyBooked`, `NotificationSettlesInTheEnd` and the fairness of
`ImplementsReliableSeam` are liveness, which the provers do not reach; the steps of the last are
`EngineLosesNothing` and `BooksRunTheReliableSeam`. What the codecs make of a body enters
`WebhookIngestProofs` through the definitions of `GatewayCodecs`; that each provider's spelling of a
settlement is recognised is checked by `MCIngest` on its notifications.

## 5. Not modelled

* The provider port with its registry and its Manual and Stub implementations: nothing in the crate
  calls it, the host does. The registry is a map filled before serving; the implementations answer
  constants or a test's own values. What a provider knows of a charge is the external truth of
  `WebhookIngest`.
* backbone-core: lists, bulk create, upsert, permissions, the purge of transactions.
* A status API that lags behind its own notification: no document says what providers do there; with
  one, a 200 is given away.
* A PATCH of amounts, currency, keys or the provider reference of a charge in flight, on the detailed
  engine; `GatewayHost` has such writes against the rules and checks.
* Notifications for charges of a retired provider as a run: that they are refused is in the model of
  `Receive`, and disclosed in section 3.
* The direction of a charge (receive or pay): the engine passes it through into the event.
* Amount ranges: `NUMERIC(18, 2)` rounds and overflows in the database only, where no rule looks.
* Tenancy and row security: removed from the crate by its last migrations, left to the host.
* Migrations other than by their result, seeders, exports, CRUD event types, DTOs for responses.

## 6. Plan

Done: the seam, the engine, the refinement, the books, codecs, ingest, administration, host; a theorem
for every safety invariant and action property the passing runs check, and for the engine's own
properties wherever they survive in the pipeline and under administration. What is left:

1. `config.code` edited during a delivery.
2. The normalized endpoint beside verified ingest on the detailed engine (it has no money gate).
3. A PATCH of the amounts between the read of a request and its events.
4. What a row under reconfiguration owes: the fee properties of the engine restated for the accounts a
   row was settled with, which the code does not record.
