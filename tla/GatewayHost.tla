---------------------------- MODULE GatewayHost -----------------------------
(***************************************************************************)
(* The service a host builds from the crate: the module builder, the       *)
(* routers the host mounts, and the HTTP requests that reach the tables    *)
(* through them, beside the settlement engine.  The engine is represented  *)
(* by what it promises, SettlementSeam, which GatewaySettlement            *)
(* implements; phase is the status column.                                 *)
(*                                                                         *)
(* The generic CRUD service of a table is external (backbone-core); the    *)
(* crate gives it the DTOs, the row rules and the routes.  Of a column     *)
(* only what the DTOs, the rules and the declared checks ask is kept:      *)
(* whether its value is fine, null, blank, too long or negative.           *)
(***************************************************************************)
EXTENDS SettlementSeam, Integers

CONSTANTS
    Client,         \* HTTP clients
    None,           \* no such row
    Surfaces,       \* the sets of routers hosts mount
    MaxEvents       \* bound on the events of one row

VARIABLES
    ports,          \* the builder calls made so far
    built,          \* has build returned a module?
    mounted,        \* the routers the host mounted
    table,          \* table[t]: columns of t that clients write, None if there is no row
    provider,       \* the provider row, None if there is none
    draft,          \* draft[c]: the transaction client c read last
    reply           \* the last answer: "ok", or what refused the request

hostVars == <<ports, built, mounted, table, provider, draft, reply>>

allVars == <<vars, hostVars>>

Port == {"database", "fee_sink", "event_sink", "credential_reader", "refetcher"}

\* What the routers of the crate serve: the two tables, and the settle routes.
TransactionRoute == {"read_transactions", "write_transactions"}

ProviderRoute == {"read_providers", "write_providers"}

Router == {"all_crud_routes", "readonly_routes", "transaction_read_routes",
           "provider_config_read_routes", "provider_config_write_routes",
           "gateway_webhook_router", "ingest_service"}

ASSUME SurfacesAssumption == Surfaces \subseteq SUBSET Router

\* Mutant: the read surface carries the whole CRUD router.
Serves_WritesToo(router) ==
    CASE router \in {"all_crud_routes", "readonly_routes"} -> TransactionRoute \cup ProviderRoute
      [] router = "transaction_read_routes" -> {"read_transactions"}
      [] router = "provider_config_read_routes" -> {"read_providers"}
      [] router = "provider_config_write_routes" -> {"write_providers"}
      [] router = "gateway_webhook_router" -> {"webhook"}
      [] router = "ingest_service" -> {"ingest"}

Serves(router) ==
    CASE router = "all_crud_routes" -> TransactionRoute \cup ProviderRoute
      [] router = "readonly_routes" -> {"read_transactions", "read_providers"}
      [] router = "transaction_read_routes" -> {"read_transactions"}
      [] router = "provider_config_read_routes" -> {"read_providers"}
      [] router = "provider_config_write_routes" -> {"write_providers"}
      [] router = "gateway_webhook_router" -> {"webhook"}
      [] router = "ingest_service" -> {"ingest"}

Served == UNION {Serves(r) : r \in mounted}

-----------------------------------------------------------------------------
(* The columns a client writes: those a rule or a check names, and of the  *)
(* others one of a kind.                                                   *)

\* Whether a column must be in a request body, has a default, or is nullable.
TransactionColumns ==
    [provider_id |-> "required", provider_transaction_id |-> "required",
     gross_amount |-> "required", fee_amount |-> "defaulted", net_amount |-> "required",
     currency |-> "defaulted", reference_no |-> "optional"]

ProviderColumns ==
    [code |-> "required", display_name |-> "required", credentials_ref |-> "optional",
     status |-> "defaulted"]

\* Mutant: the net amount has no rule.
TransactionRules_NoNet ==
    [provider_id |-> {"null"}, provider_transaction_id |-> {"null", "blank", "too_long"},
     gross_amount |-> {"negative"}, fee_amount |-> {"negative"}, net_amount |-> {},
     currency |-> {"too_long"}, reference_no |-> {"too_long"}]

\* The values the row rules refuse.  The rule of a column is checked on a
\* create, and on an update that changes the column.
TransactionRules ==
    [provider_id |-> {"null"}, provider_transaction_id |-> {"null", "blank", "too_long"},
     gross_amount |-> {"negative"}, fee_amount |-> {"negative"}, net_amount |-> {"negative"},
     currency |-> {"too_long"}, reference_no |-> {"too_long"}]

ProviderRules ==
    [code |-> {}, display_name |-> {"null", "blank", "too_long"},
     credentials_ref |-> {"too_long"}, status |-> {}]

\* The CHECK and NOT NULL constraints of the two tables.
TransactionChecks ==
    [provider_id |-> {"null"}, provider_transaction_id |-> {"null", "blank", "too_long"},
     gross_amount |-> {"null", "negative"}, fee_amount |-> {"null", "negative"},
     net_amount |-> {"null", "negative"}, currency |-> {"null", "too_long"},
     reference_no |-> {"too_long"}]

ProviderChecks ==
    [code |-> {"null"}, display_name |-> {"null", "blank", "too_long"},
     credentials_ref |-> {"too_long"}, status |-> {"null"}]

\* What a request may carry in a column: a fine value, none, null, one of
\* another type, and those a check would refuse.
Values(checks, col) == {"fine", "absent", "null", "ill_typed"} \cup checks[col]

\* Does a DTO in which the columns of the kinds needed are mandatory
\* deserialize with value in col?
Accepts(columns, needed, col, value) ==
    /\ value # "ill_typed"
    /\ value = "null" => columns[col] = "optional"
    /\ value = "absent" => columns[col] \notin needed

\* What a DTO that accepts value holds in col.
Held(columns, col, value) ==
    CASE value # "absent" -> value
      [] value = "absent" /\ columns[col] = "optional" -> "null"
      [] OTHER -> "fine"

Fine(columns) == [col \in DOMAIN columns |-> "fine"]

\* The rows that break no constraint.
Stored(columns) ==
    {r \in [DOMAIN columns -> {"fine", "null"}] :
        \A col \in DOMAIN columns : r[col] = "null" => columns[col] = "optional"}

Provider == [row: Stored(ProviderColumns), deleted: BOOLEAN]

\* What a client that read a transaction may send back.
Draft == [t: Txn, row: Stored(TransactionColumns), phase: {"open"} \cup Kind]

\* A row is not the same as none.
ASSUME NoneAssumption == None \notin Provider \cup Draft \cup Stored(TransactionColumns)

HostTypeOK ==
    /\ phase \in [Txn -> {"open"} \cup Kind]
    /\ owed \subseteq Txn \X Kind
    /\ stream \in [Txn -> Seq(Kind)]
    /\ ports \subseteq Port /\ built \in BOOLEAN /\ mounted \subseteq Router
    /\ table \in [Txn -> Stored(TransactionColumns) \cup {None}]
    /\ provider \in Provider \cup {None}
    /\ draft \in [Client -> Draft \cup {None}]
    /\ reply \in {"none", "ok", "not_found", "rule", "check", "reference"}

HostInit ==
    /\ Init
    /\ ports = {} /\ built = FALSE /\ mounted = {}
    /\ table = [t \in Txn |-> None]
    /\ provider = None
    /\ draft = [c \in Client |-> None]
    /\ reply = "none"

-----------------------------------------------------------------------------
(* Building and mounting.                                                  *)

\* with_database, with_fee_sink, with_event_sink, ...
With(port) ==
    /\ ~built /\ port \notin ports
    /\ ports' = ports \cup {port}
    /\ UNCHANGED <<vars, built, mounted, table, provider, draft, reply>>

\* Without a database build returns an error and there is no module.
build ==
    /\ ~built /\ "database" \in ports
    /\ built' = TRUE
    /\ UNCHANGED <<vars, ports, mounted, table, provider, draft, reply>>

\* The routers that settle exist only with the ports they need: None otherwise.
Exists(router) ==
    CASE router = "gateway_webhook_router" -> "fee_sink" \in ports
      [] router = "ingest_service" ->
            {"fee_sink", "credential_reader", "refetcher"} \subseteq ports
      [] OTHER -> TRUE

\* The host mounts the routers it wants, those of them that exist.
Mount(surface) ==
    /\ built /\ mounted = {}
    /\ mounted' = {router \in surface : Exists(router)}
    /\ UNCHANGED <<vars, ports, built, table, provider, draft, reply>>

-----------------------------------------------------------------------------
(* Generic CRUD of transactions.                                           *)

\* What a write of the row after over the row before comes to; it is stored if
\* that is "ok".  A body its DTO does not deserialize never becomes a row.
Verdict(accepted, rules, checks, before, after) ==
    LET changed == {col \in DOMAIN rules : before = None \/ before[col] # after[col]} IN
    IF ~accepted \/ \E col \in changed : after[col] \in rules[col] THEN "rule"
    ELSE IF \E col \in DOMAIN checks : after[col] \in checks[col] THEN "check"
    ELSE "ok"

\* Mutant: a row that does not exist is answered as an empty one.
GetTransaction_NoRow(c, t) ==
    /\ "read_transactions" \in Served
    /\ draft' = [draft EXCEPT ![c] = [t |-> t, row |-> table[t], phase |-> phase[t]]]
    /\ UNCHANGED <<vars, ports, built, mounted, table, provider, reply>>

GetTransaction(c, t) ==
    /\ "read_transactions" \in Served /\ table[t] # None
    /\ draft' = [draft EXCEPT ![c] = [t |-> t, row |-> table[t], phase |-> phase[t]]]
    /\ UNCHANGED <<vars, ports, built, mounted, table, provider, reply>>

\* POST with one column of any value; the defaults of the DTO make the new row
\* an open one.  Its provider_id must reference a provider row, in the trash or
\* not.
CreateTransaction(t, col, value) ==
    LET new == [Fine(TransactionColumns) EXCEPT ![col] = Held(TransactionColumns, col, value)]
        verdict == Verdict(Accepts(TransactionColumns, {"required"}, col, value),
                           TransactionRules, TransactionChecks, None, new) IN
    /\ "write_transactions" \in Served /\ table[t] = None
    /\ IF verdict = "ok" /\ provider # None
         THEN table' = [table EXCEPT ![t] = new] /\ reply' = "ok"
         ELSE UNCHANGED table /\ reply' = IF verdict = "ok" THEN "reference" ELSE verdict
    /\ UNCHANGED <<vars, ports, built, mounted, provider, draft>>

\* PUT replaces every column, the status among them, by what the client read,
\* but for the one column it edits.
apply_update(c, col, value) ==
    LET d == draft[c]
        new == [d.row EXCEPT ![col] = Held(TransactionColumns, col, value)]
        accepted == Accepts(TransactionColumns, {"required", "defaulted"}, col, value)
        verdict == Verdict(accepted, TransactionRules, TransactionChecks, table[d.t], new) IN
    /\ "write_transactions" \in Served /\ d # None
    /\ reply' = verdict
    /\ IF verdict = "ok"
         THEN table' = [table EXCEPT ![d.t] = new] /\ phase' = [phase EXCEPT ![d.t] = d.phase]
         ELSE UNCHANGED <<table, phase>>
    /\ UNCHANGED <<owed, stream, ports, built, mounted, provider, draft>>

\* PATCH sets one column of the row as it is, and may set the status too, to any;
\* a value of another type leaves the column alone.
apply_patch(t, col, value) ==
    LET new == IF Accepts(TransactionColumns, {}, col, value) /\ value # "absent"
                 THEN [table[t] EXCEPT ![col] = value]
                 ELSE table[t]
        verdict == Verdict(TRUE, TransactionRules, TransactionChecks, table[t], new) IN
    /\ "write_transactions" \in Served /\ table[t] # None
    /\ reply' = verdict
    /\ IF verdict = "ok"
         THEN /\ table' = [table EXCEPT ![t] = new]
              /\ \E to \in {"open"} \cup Kind : phase' = [phase EXCEPT ![t] = to]
         ELSE UNCHANGED <<table, phase>>
    /\ UNCHANGED <<owed, stream, ports, built, mounted, provider, draft>>

-----------------------------------------------------------------------------
(* Generic CRUD of the provider: create, PUT, PATCH, and the trash.        *)

WriteProvider(accepted, before, new) ==
    LET verdict == Verdict(accepted, ProviderRules, ProviderChecks, before, new) IN
    /\ "write_providers" \in Served
    /\ reply' = verdict
    /\ provider' = IF verdict = "ok" THEN [row |-> new, deleted |-> FALSE] ELSE provider
    /\ UNCHANGED <<vars, ports, built, mounted, table, draft>>

CreateProvider(col, value) ==
    /\ provider = None
    /\ WriteProvider(Accepts(ProviderColumns, {"required"}, col, value), None,
                     [Fine(ProviderColumns) EXCEPT ![col] = Held(ProviderColumns, col, value)])

Live == provider # None /\ ~provider.deleted

\* PUT: a body that leaves an optional column out clears it.
UpdateProvider(col, value) ==
    /\ Live
    /\ WriteProvider(Accepts(ProviderColumns, {"required", "defaulted"}, col, value),
                     provider.row,
                     [provider.row EXCEPT ![col] = Held(ProviderColumns, col, value)])

PatchProvider(col, value) ==
    /\ Live
    /\ WriteProvider(TRUE, provider.row,
                     IF Accepts(ProviderColumns, {}, col, value) /\ value # "absent"
                       THEN [provider.row EXCEPT ![col] = value]
                       ELSE provider.row)

\* DELETE and restore.
MoveProvider(deleted) ==
    /\ "write_providers" \in Served
    /\ provider # None /\ provider.deleted # deleted
    /\ provider' = [provider EXCEPT !.deleted = deleted]
    /\ reply' = "ok"
    /\ UNCHANGED <<vars, ports, built, mounted, table, draft>>

\* Mutant: no foreign key keeps a provider that charges reference.
PurgeProvider_NoReference ==
    /\ "write_providers" \in Served
    /\ provider # None /\ provider.deleted
    /\ provider' = None /\ reply' = "ok"
    /\ UNCHANGED <<vars, ports, built, mounted, table, draft>>

\* A permanent delete from the trash: refused by the foreign key of the
\* transactions while one references the row.
PurgeProvider ==
    /\ "write_providers" \in Served
    /\ provider # None /\ provider.deleted
    /\ IF \E t \in Txn : table[t] # None
         THEN reply' = "reference" /\ UNCHANGED provider
         ELSE reply' = "ok" /\ provider' = None
    /\ UNCHANGED <<vars, ports, built, mounted, table, draft>>

-----------------------------------------------------------------------------
(* Beside it: charge creation by the host itself, and the engine.          *)

\* The host creates a charge at the provider and inserts its row.
InsertCharge(t) ==
    /\ built /\ table[t] = None /\ provider # None
    /\ table' = [table EXCEPT ![t] = Fine(TransactionColumns)]
    /\ UNCHANGED <<vars, ports, built, mounted, provider, draft, reply>>

\* The engine reads a row joined with its provider, in the trash or not.
Found(t) == table[t] # None /\ provider # None

\* POST /webhook/settle: a notification that is not "settled" is acknowledged
\* without a step, one for a row past "open" is too.
settle_webhook(t, status) ==
    /\ "webhook" \in Served
    /\ \/ status # "settled" /\ reply' = "ok" /\ UNCHANGED vars
       \/ status = "settled" /\ ~Found(t) /\ reply' = "not_found" /\ UNCHANGED vars
       \/ status = "settled" /\ Found(t) /\ phase[t] # "open" /\ reply' = "ok" /\ UNCHANGED vars
       \/ /\ status = "settled" /\ Found(t) /\ Len(stream[t]) < MaxEvents
          /\ Settle(t) /\ reply' = "ok"
    /\ UNCHANGED <<ports, built, mounted, table, provider, draft>>

\* The verified pipeline: only an active, live provider is served.
Ingest(t) ==
    /\ "ingest" \in Served /\ Live /\ table[t] # None
    /\ Len(stream[t]) < MaxEvents
    /\ Settle(t)
    /\ UNCHANGED hostVars

\* The host calls reverse_transaction on the module's write_service.
RefundInProcess(t) ==
    /\ built /\ Found(t) /\ Len(stream[t]) < MaxEvents
    /\ Refund(t)
    /\ UNCHANGED hostVars

\* Without an event sink of the host's, the default one only logs.
Publish(t, kind) ==
    /\ IF "event_sink" \in ports THEN Deliver(t, kind) ELSE Lose(t, kind)
    /\ UNCHANGED hostVars

HostNext ==
    \/ \E port \in Port : With(port)
    \/ build
    \/ \E surface \in Surfaces : Mount(surface)
    \/ \E c \in Client, t \in Txn : GetTransaction(c, t)
    \/ \E col \in DOMAIN TransactionColumns : \E value \in Values(TransactionChecks, col) :
          \/ \E t \in Txn : CreateTransaction(t, col, value) \/ apply_patch(t, col, value)
          \/ \E c \in Client : apply_update(c, col, value)
    \/ \E col \in DOMAIN ProviderColumns : \E value \in Values(ProviderChecks, col) :
          CreateProvider(col, value) \/ UpdateProvider(col, value) \/ PatchProvider(col, value)
    \/ \E deleted \in BOOLEAN : MoveProvider(deleted)
    \/ PurgeProvider
    \/ \E t \in Txn : InsertCharge(t) \/ Ingest(t) \/ RefundInProcess(t)
    \/ \E t \in Txn, status \in {"settled", "pending"} : settle_webhook(t, status)
    \/ \E t \in Txn, kind \in Kind : Publish(t, kind)

HostSpec == HostInit /\ [][HostNext]_allVars

-----------------------------------------------------------------------------
(* What must hold.                                                         *)

\* readonly_routes and the surfaces composed of it cannot undo what the engine
\* did: on a host that does not mount the unguarded CRUD surface, no reading,
\* holding back and editing of a row by any client makes the engine settle it,
\* or announce it, twice.  On one that does, a PUT of an older read or a PATCH of
\* the status reopens a settled row.
GuardedHostAnnouncesOnce ==
    "all_crud_routes" \notin mounted =>
        \A t \in Txn : \A i, j \in 1 .. Len(stream[t]) :
            stream[t][i] = stream[t][j] => i = j

\* The row rules and the DTOs are as strict as the table, though the rules look
\* at the changed columns only: whatever a client sends or leaves out, and
\* however old the row it edits, a write that would break a declared check or
\* a NOT NULL is refused before the database has to.
RefusedBeforeTheDatabase == reply # "check"

\* fetch_fee_source joins a charge with its provider: whatever operators delete
\* and purge, no charge loses the provider row without which the engine would
\* answer "not found" to its settlement and its refund.
EveryChargeFindsItsProvider == \A t \in Txn : table[t] # None => Found(t)

=============================================================================
