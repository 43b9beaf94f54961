------------------------- MODULE GatewayHostProofs --------------------------
(***************************************************************************)
(* Theorems about the service a host builds, for any number of rows and    *)
(* clients and whatever routers it mounts: what generic requests on the    *)
(* two tables cannot do to each other, to the database and to the engine.  *)
(***************************************************************************)
EXTENDS GatewayHost, TLAPS

-----------------------------------------------------------------------------
(* The columns.                                                            *)

\* A table whose rules are as strict as its checks, but for the nulls, which
\* the DTOs refuse where a column must not be null.
Guarded(columns, rules, checks) ==
    /\ DOMAIN rules = DOMAIN columns /\ DOMAIN checks = DOMAIN columns
    /\ \A col \in DOMAIN columns :
          /\ checks[col] \subseteq rules[col] \cup {"null"}
          /\ "fine" \notin checks[col]
          /\ "null" \in checks[col] => columns[col] # "optional"

LEMMA TransactionsGuarded ==
    Guarded(TransactionColumns, TransactionRules, TransactionChecks)
  BY DEF Guarded, TransactionColumns, TransactionRules, TransactionChecks

LEMMA ProvidersGuarded ==
    Guarded(ProviderColumns, ProviderRules, ProviderChecks)
  BY DEF Guarded, ProviderColumns, ProviderRules, ProviderChecks

LEMMA FineIsStored == ASSUME NEW columns PROVE Fine(columns) \in Stored(columns)
  BY DEF Fine, Stored

\* A value that may stand in a column once the checks are passed.
Writable(columns, checks, col, value) ==
    /\ value \in {"fine", "null"} \cup checks[col]
    /\ value = "null" => columns[col] = "optional"

LEMMA HeldIsWritable ==
    ASSUME NEW columns, NEW checks, NEW needed, NEW col, NEW value \in Values(checks, col),
           Accepts(columns, needed, col, value)
    PROVE  /\ Writable(columns, checks, col, Held(columns, col, value))
           /\ value # "absent" => Writable(columns, checks, col, value)
  BY DEF Values, Accepts, Held, Writable

\* Nothing that is not refused by the rules is left for the checks: a column
\* the rules skip, because it did not change, holds what the table accepted.
LEMMA WriteIsJudged ==
    ASSUME NEW columns, NEW rules, NEW checks, Guarded(columns, rules, checks),
           NEW base \in Stored(columns), NEW before \in Stored(columns) \cup {None},
           NEW col \in DOMAIN columns, NEW value, NEW accepted \in BOOLEAN,
           accepted => Writable(columns, checks, col, value)
    PROVE  LET new == [base EXCEPT ![col] = value]
               verdict == Verdict(accepted, rules, checks, before, new) IN
           /\ verdict \in {"rule", "ok"}
           /\ verdict = "ok" => new \in Stored(columns)
<1> DEFINE new == [base EXCEPT ![col] = value]
<1> DEFINE changed == {c \in DOMAIN rules : before = None \/ before[c] # new[c]}
<1>1. /\ new \in [DOMAIN columns -> {"fine", "null"} \cup {value}]
      /\ new[col] = value
      /\ \A c \in DOMAIN columns \ {col} : new[c] = base[c]
      /\ \A c \in DOMAIN columns : base[c] \in {"fine", "null"}
  BY DEF Stored
<1>2. CASE ~accepted \/ \E c \in changed : new[c] \in rules[c]
  BY <1>2 DEF Verdict
<1>3. CASE accepted /\ \A c \in changed : new[c] \notin rules[c]
  <2>1. Writable(columns, checks, col, value)
    BY <1>3
  <2>2. ASSUME NEW c \in DOMAIN columns PROVE new[c] \notin checks[c]
    <3>1. ASSUME NEW r \in Stored(columns) PROVE r[c] \notin checks[c]
      BY DEF Stored, Guarded
    <3>2. CASE c \notin changed
      <4>1. before \in Stored(columns) /\ before[c] = new[c]
        BY <3>2 DEF Guarded
      <4>2. QED
        BY <3>1, <4>1
    <3>3. CASE c \in changed /\ c = col
      BY <1>1, <1>3, <2>1, <3>3 DEF Guarded, Writable
    <3>4. CASE c # col
      BY <1>1, <3>1, <3>4
    <3>5. QED
      BY <3>2, <3>3, <3>4
  <2>3. Verdict(accepted, rules, checks, before, new) = "ok"
    BY <1>3, <2>2 DEF Verdict, Guarded
  <2>4. new \in Stored(columns)
    <3>1. value \in {"fine", "null"}
      BY <1>1, <2>1, <2>2 DEF Writable
    <3>2. \A c \in DOMAIN columns : base[c] = "null" => columns[c] = "optional"
      BY DEF Stored
    <3>3. \A c \in DOMAIN columns : new[c] = "null" => columns[c] = "optional"
      BY <1>1, <2>1, <3>2 DEF Writable
    <3>4. new \in [DOMAIN columns -> {"fine", "null"}]
      BY <1>1, <3>1
    <3>5. QED
      BY <3>3, <3>4 DEF Stored
  <2>5. QED
    BY <2>3, <2>4
<1>4. QED
  BY <1>2, <1>3

-----------------------------------------------------------------------------
(* The invariants.                                                         *)

\* The row has come as far as the event says.
Past(t, k) == phase[t] \in {k, "refunded"}

\* An event is owed or was delivered, never both, and only of a row that has
\* come that far.
RowOnce(t) ==
    /\ \A k \in Kind : <<t, k>> \in owed =>
          Past(t, k) /\ \A i \in 1 .. Len(stream[t]) : stream[t][i] # k
    /\ \A i \in 1 .. Len(stream[t]) : Past(t, stream[t][i])
    /\ \A i, j \in 1 .. Len(stream[t]) : stream[t][i] = stream[t][j] => i = j

\* GuardedHostAnnouncesOnce speaks of the stream alone: that an event cannot
\* come again follows from the phase, as long as no client writes it back.
OnceInv == "all_crud_routes" \notin mounted => \A t \in Txn : RowOnce(t)

-----------------------------------------------------------------------------
(* The writes of clients.                                                  *)

\* Among the routers of the crate one lets clients write transactions.
LEMMA WritersRouter ==
    ASSUME mounted \subseteq Router, "write_transactions" \in Served
    PROVE  "all_crud_routes" \in mounted
  BY DEF Served, Serves, Router, TransactionRoute, ProviderRoute

Answers == {"ok", "rule", "reference"}

LEMMA CreateWrites ==
    ASSUME HostTypeOK, NEW t \in Txn, NEW col \in DOMAIN TransactionColumns,
           NEW value \in Values(TransactionChecks, col), CreateTransaction(t, col, value)
    PROVE  /\ table' \in [Txn -> Stored(TransactionColumns) \cup {None}]
           /\ reply' \in Answers
           /\ provider' = provider
           /\ provider = None => table' = table
<1> DEFINE held == Held(TransactionColumns, col, value)
<1> DEFINE new == [Fine(TransactionColumns) EXCEPT ![col] = held]
<1> DEFINE accepted == Accepts(TransactionColumns, {"required"}, col, value)
<1> DEFINE verdict == Verdict(accepted, TransactionRules, TransactionChecks, None, new)
<1>1. accepted => Writable(TransactionColumns, TransactionChecks, col, held)
  BY HeldIsWritable
<1>2. accepted \in BOOLEAN
  BY DEF Accepts
<1>3. verdict \in {"rule", "ok"} /\ (verdict = "ok" => new \in Stored(TransactionColumns))
  <2> HIDE DEF held, accepted
  <2>1. QED
    BY <1>1, <1>2, TransactionsGuarded, FineIsStored, WriteIsJudged
<1>4. \/ verdict = "ok" /\ provider # None /\ table' = [table EXCEPT ![t] = new] /\ reply' = "ok"
      \/ table' = table /\ reply' = IF verdict = "ok" THEN "reference" ELSE verdict
  BY DEF CreateTransaction
<1>5. provider' = provider
  BY DEF CreateTransaction
<1>6. (provider = None => table' = table) /\ reply' \in Answers
  BY <1>3, <1>4 DEF Answers, CreateTransaction
<1>7. table' \in [Txn -> Stored(TransactionColumns) \cup {None}]
  <2> HIDE DEF new, verdict
  <2>1. QED
    BY <1>3, <1>4 DEF HostTypeOK
<1>8. QED
  BY <1>5, <1>6, <1>7

LEMMA UpdateWrites ==
    ASSUME HostTypeOK, NEW c \in Client, NEW col \in DOMAIN TransactionColumns,
           NEW value \in Values(TransactionChecks, col), apply_update(c, col, value)
    PROVE  /\ table' \in [Txn -> Stored(TransactionColumns) \cup {None}]
           /\ phase' \in [Txn -> {"open"} \cup Kind]
           /\ reply' \in Answers
           /\ \A u \in Txn : \/ table'[u] = table[u]
                             \/ u = draft[c].t /\ table'[u] \in Stored(TransactionColumns)
<1> DEFINE d == draft[c]
<1> DEFINE held == Held(TransactionColumns, col, value)
<1> DEFINE new == [d.row EXCEPT ![col] = held]
<1> DEFINE accepted == Accepts(TransactionColumns, {"required", "defaulted"}, col, value)
<1> DEFINE verdict == Verdict(accepted, TransactionRules, TransactionChecks, table[d.t], new)
<1>1. d \in Draft
  BY DEF HostTypeOK, apply_update
<1>2. /\ d.t \in Txn /\ d.row \in Stored(TransactionColumns)
      /\ d.phase \in {"open"} \cup Kind
      /\ table[d.t] \in Stored(TransactionColumns) \cup {None}
  BY <1>1 DEF Draft, HostTypeOK
<1>3. accepted \in BOOLEAN /\ (accepted => Writable(TransactionColumns, TransactionChecks, col, held))
  BY HeldIsWritable DEF Accepts
<1>4. verdict \in {"rule", "ok"} /\ (verdict = "ok" => new \in Stored(TransactionColumns))
  <2>1. PICK base \in Stored(TransactionColumns) : base = d.row
    BY <1>2
  <2>2. PICK before \in Stored(TransactionColumns) \cup {None} : before = table[d.t]
    BY <1>2
  <2> HIDE DEF held, accepted
  <2>3. LET after == [base EXCEPT ![col] = held]
            judged == Verdict(accepted, TransactionRules, TransactionChecks, before, after) IN
        judged \in {"rule", "ok"} /\ (judged = "ok" => after \in Stored(TransactionColumns))
    BY <1>3, TransactionsGuarded, WriteIsJudged
  <2>4. QED
    BY <2>1, <2>2, <2>3
<1>5. /\ reply' = verdict
      /\ \/ /\ verdict = "ok"
            /\ table' = [table EXCEPT ![d.t] = new] /\ phase' = [phase EXCEPT ![d.t] = d.phase]
         \/ table' = table /\ phase' = phase
  BY DEF apply_update
<1>6. d = draft[c]
  OBVIOUS
<1> HIDE DEF new, verdict, d
<1>7. /\ table' \in [Txn -> Stored(TransactionColumns) \cup {None}]
      /\ phase' \in [Txn -> {"open"} \cup Kind]
      /\ reply' \in Answers
  BY <1>2, <1>4, <1>5 DEF HostTypeOK, Answers
<1>8. ASSUME NEW u \in Txn, table'[u] # table[u]
      PROVE  u = d.t /\ table'[u] \in Stored(TransactionColumns)
  BY <1>2, <1>4, <1>5, <1>8 DEF HostTypeOK
<1>9. QED
  BY <1>6, <1>7, <1>8

LEMMA PatchWrites ==
    ASSUME HostTypeOK, NEW t \in Txn, NEW col \in DOMAIN TransactionColumns,
           NEW value \in Values(TransactionChecks, col), apply_patch(t, col, value)
    PROVE  /\ table' \in [Txn -> Stored(TransactionColumns) \cup {None}]
           /\ reply' \in Answers
           /\ \A u \in Txn : \/ table'[u] = table[u]
                             \/ table[u] # None /\ table'[u] \in Stored(TransactionColumns)
<1> DEFINE writes == Accepts(TransactionColumns, {}, col, value) /\ value # "absent"
<1> DEFINE to == IF writes THEN value ELSE table[t][col]
<1> DEFINE new == [table[t] EXCEPT ![col] = to]
<1> DEFINE verdict == Verdict(TRUE, TransactionRules, TransactionChecks, table[t], new)
<1>1. table[t] # None /\ table[t] \in Stored(TransactionColumns)
  BY DEF HostTypeOK, apply_patch
<1>2. Writable(TransactionColumns, TransactionChecks, col, to)
  <2>1. CASE writes
    BY <2>1, HeldIsWritable
  <2>2. CASE ~writes
    BY <1>1, <2>2 DEF Writable, Stored
  <2>3. QED
    BY <2>1, <2>2
<1>3. verdict \in {"rule", "ok"} /\ (verdict = "ok" => new \in Stored(TransactionColumns))
  <2> HIDE DEF to
  <2>1. QED
    BY <1>1, <1>2, TransactionsGuarded, WriteIsJudged
<1>4. new = IF writes THEN [table[t] EXCEPT ![col] = value] ELSE table[t]
  BY <1>1 DEF Stored
<1>5. reply' = verdict /\ table' = IF verdict = "ok" THEN [table EXCEPT ![t] = new] ELSE table
  <2> DEFINE after == IF writes THEN [table[t] EXCEPT ![col] = value] ELSE table[t]
  <2> DEFINE judged == Verdict(TRUE, TransactionRules, TransactionChecks, table[t], after)
  <2>1. reply' = judged /\ table' = IF judged = "ok" THEN [table EXCEPT ![t] = after] ELSE table
    BY DEF apply_patch
  <2>2. new = after
    BY <1>4
  <2> HIDE DEF new, after
  <2>3. QED
    BY <2>1, <2>2
<1> HIDE DEF new, verdict
<1>6. QED
  BY <1>1, <1>3, <1>5 DEF HostTypeOK, Answers

\* A write leaves a provider row behind when there was one, or makes it.
LEMMA ProviderWrites ==
    ASSUME HostTypeOK, NEW col \in DOMAIN ProviderColumns,
           NEW value \in Values(ProviderChecks, col),
           CreateProvider(col, value) \/ UpdateProvider(col, value) \/ PatchProvider(col, value)
    PROVE  /\ provider' \in Provider \cup {None}
           /\ reply' \in Answers
           /\ provider # None => provider' # None
           /\ UNCHANGED <<vars, ports, built, mounted, table, draft>>
<1>1. ASSUME NEW base \in Stored(ProviderColumns), NEW before \in Stored(ProviderColumns) \cup {None},
             NEW v, NEW accepted \in BOOLEAN,
             accepted => Writable(ProviderColumns, ProviderChecks, col, v),
             WriteProvider(accepted, before, [base EXCEPT ![col] = v])
      PROVE  /\ provider' \in Provider \cup {None}
             /\ reply' \in Answers
             /\ provider # None => provider' # None
             /\ UNCHANGED <<vars, ports, built, mounted, table, draft>>
  <2> DEFINE new == [base EXCEPT ![col] = v]
  <2> DEFINE verdict == Verdict(accepted, ProviderRules, ProviderChecks, before, new)
  <2>1. verdict \in {"rule", "ok"} /\ (verdict = "ok" => new \in Stored(ProviderColumns))
    BY <1>1, ProvidersGuarded, WriteIsJudged
  <2>2. /\ reply' = verdict
        /\ provider' = IF verdict = "ok" THEN [row |-> new, deleted |-> FALSE] ELSE provider
        /\ UNCHANGED <<vars, ports, built, mounted, table, draft>>
    BY <1>1 DEF WriteProvider
  <2> HIDE DEF new, verdict
  <2>3. [row |-> new, deleted |-> FALSE] \in Provider \/ verdict # "ok"
    BY <2>1 DEF Provider
  <2>4. QED
    BY <2>1, <2>2, <2>3, NoneAssumption DEF HostTypeOK, Answers
<1>2. CASE CreateProvider(col, value)
  <2>1. Accepts(ProviderColumns, {"required"}, col, value) =>
          Writable(ProviderColumns, ProviderChecks, col, Held(ProviderColumns, col, value))
    BY HeldIsWritable
  <2>2. QED
    BY <1>1, <1>2, <2>1, FineIsStored DEF CreateProvider, Accepts
<1>3. CASE UpdateProvider(col, value)
  <2>1. provider.row \in Stored(ProviderColumns)
    BY <1>3 DEF UpdateProvider, Live, HostTypeOK, Provider
  <2>2. Accepts(ProviderColumns, {"required", "defaulted"}, col, value) =>
          Writable(ProviderColumns, ProviderChecks, col, Held(ProviderColumns, col, value))
    BY HeldIsWritable
  <2>3. QED
    BY <1>1, <1>3, <2>1, <2>2 DEF UpdateProvider, Accepts
<1>4. CASE PatchProvider(col, value)
  <2> DEFINE writes == Accepts(ProviderColumns, {}, col, value) /\ value # "absent"
  <2> DEFINE to == IF writes THEN value ELSE provider.row[col]
  <2>1. provider.row \in Stored(ProviderColumns)
    BY <1>4 DEF PatchProvider, Live, HostTypeOK, Provider
  <2>2. Writable(ProviderColumns, ProviderChecks, col, to)
    <3>1. CASE writes
      BY <3>1, HeldIsWritable
    <3>2. CASE ~writes
      BY <2>1, <3>2 DEF Writable, Stored
    <3>3. QED
      BY <3>1, <3>2
  <2>3. [provider.row EXCEPT ![col] = to] =
          IF writes THEN [provider.row EXCEPT ![col] = value] ELSE provider.row
    BY <2>1 DEF Stored
  <2>4. WriteProvider(TRUE, provider.row, [provider.row EXCEPT ![col] = to])
    BY <1>4, <2>3 DEF PatchProvider
  <2> HIDE DEF to
  <2>5. QED
    BY <1>1, <2>1, <2>2, <2>4
<1>5. QED
  BY <1>2, <1>3, <1>4

-----------------------------------------------------------------------------
(* Type correctness, and what no write leaves to the database.             *)

SeamStep ==
    \/ \E t \in Txn : Settle(t) \/ Refund(t)
    \/ \E t \in Txn, k \in Kind : Deliver(t, k) \/ Lose(t, k)

LEMMA SeamStepTyped ==
    ASSUME HostTypeOK, SeamStep
    PROVE  /\ phase' \in [Txn -> {"open"} \cup Kind]
           /\ owed' \subseteq Txn \X Kind
           /\ stream' \in [Txn -> Seq(Kind)]
<1>1. CASE \E t \in Txn : Settle(t) \/ Refund(t)
  <2>1. PICK t \in Txn, k \in Kind :
            /\ phase' = [phase EXCEPT ![t] = k]
            /\ owed' = owed \cup {<<t, k>>}
            /\ stream' = stream
    BY <1>1 DEF Settle, Refund, Commit, Kind
  <2>2. QED
    BY <2>1 DEF HostTypeOK
<1>2. CASE \E t \in Txn, k \in Kind : Deliver(t, k) \/ Lose(t, k)
  <2>1. PICK t \in Txn, k \in Kind : Deliver(t, k) \/ Lose(t, k)
    BY <1>2
  <2>2. phase' = phase /\ owed' \subseteq owed
    BY <2>1 DEF Deliver, Lose
  <2>3. stream' = stream \/ stream' = [stream EXCEPT ![t] = Append(stream[t], k)]
    BY <2>1 DEF Deliver, Lose
  <2>4. stream[t] \in Seq(Kind) /\ Append(stream[t], k) \in Seq(Kind)
    BY DEF HostTypeOK
  <2>5. QED
    BY <2>2, <2>3, <2>4 DEF HostTypeOK
<1>3. QED
  BY <1>1, <1>2 DEF SeamStep

\* The steps, by what they touch.
ClientWrites ==
    \/ \E col \in DOMAIN TransactionColumns : \E value \in Values(TransactionChecks, col) :
          \/ \E t \in Txn : CreateTransaction(t, col, value) \/ apply_patch(t, col, value)
          \/ \E c \in Client : apply_update(c, col, value)
    \/ \E col \in DOMAIN ProviderColumns : \E value \in Values(ProviderChecks, col) :
          CreateProvider(col, value) \/ UpdateProvider(col, value) \/ PatchProvider(col, value)

EngineWorks ==
    \/ \E t \in Txn, status \in {"settled", "pending"} : settle_webhook(t, status)
    \/ \E t \in Txn : Ingest(t) \/ RefundInProcess(t)
    \/ \E t \in Txn, kind \in Kind : Publish(t, kind)

HostSetup ==
    \/ \E port \in Port : With(port)
    \/ build
    \/ \E surface \in Surfaces : Mount(surface)

RowsMove ==
    \/ \E c \in Client, t \in Txn : GetTransaction(c, t)
    \/ \E deleted \in BOOLEAN : MoveProvider(deleted)
    \/ PurgeProvider
    \/ \E t \in Txn : InsertCharge(t)

LEMMA HostSteps ==
    [HostNext]_allVars =>
        HostSetup \/ RowsMove \/ ClientWrites \/ EngineWorks \/ UNCHANGED allVars
  BY DEF HostNext, HostSetup, RowsMove, ClientWrites, EngineWorks

\* The engine's requests move the seam, or answer, and touch nothing else.
LEMMA EngineFrame ==
    ASSUME EngineWorks
    PROVE  /\ SeamStep \/ UNCHANGED vars
           /\ reply' \in {reply, "ok", "not_found"}
           /\ UNCHANGED <<ports, built, mounted, table, provider, draft>>
<1>1. CASE \E t \in Txn, status \in {"settled", "pending"} : settle_webhook(t, status)
  BY <1>1 DEF settle_webhook, SeamStep
<1>2. CASE \E t \in Txn : Ingest(t) \/ RefundInProcess(t)
  BY <1>2 DEF Ingest, RefundInProcess, SeamStep, hostVars
<1>3. CASE \E t \in Txn, kind \in Kind : Publish(t, kind)
  BY <1>3 DEF Publish, SeamStep, hostVars
<1>4. QED
  BY <1>1, <1>2, <1>3 DEF EngineWorks

LEMMA WritesTyped ==
    ASSUME HostTypeOK, ClientWrites
    PROVE  HostTypeOK' /\ reply' \in Answers
<1>1. CASE \E col \in DOMAIN TransactionColumns : \E value \in Values(TransactionChecks, col) :
              \E t \in Txn : CreateTransaction(t, col, value)
  <2>1. PICK col \in DOMAIN TransactionColumns : \E value \in Values(TransactionChecks, col), t \in Txn :
            CreateTransaction(t, col, value)
    BY <1>1
  <2>2. /\ table' \in [Txn -> Stored(TransactionColumns) \cup {None}]
        /\ reply' \in Answers /\ provider' = provider
    BY <2>1, CreateWrites
  <2>3. UNCHANGED <<vars, ports, built, mounted, draft>>
    BY <2>1 DEF CreateTransaction
  <2>4. QED
    BY <2>2, <2>3 DEF HostTypeOK, Answers, vars
<1>2. CASE \E col \in DOMAIN TransactionColumns : \E value \in Values(TransactionChecks, col) :
              \E t \in Txn : apply_patch(t, col, value)
  <2>1. PICK col \in DOMAIN TransactionColumns : \E value \in Values(TransactionChecks, col), t \in Txn :
            apply_patch(t, col, value)
    BY <1>2
  <2>2. table' \in [Txn -> Stored(TransactionColumns) \cup {None}] /\ reply' \in Answers
    BY <2>1, PatchWrites
  <2>3. UNCHANGED <<owed, stream, ports, built, mounted, provider, draft>>
    BY <2>1 DEF apply_patch
  <2>4. phase' \in [Txn -> {"open"} \cup Kind]
    BY <2>1 DEF HostTypeOK, apply_patch
  <2>5. QED
    BY <2>2, <2>3, <2>4 DEF HostTypeOK, Answers
<1>3. CASE \E col \in DOMAIN TransactionColumns : \E value \in Values(TransactionChecks, col) :
              \E c \in Client : apply_update(c, col, value)
  <2>1. PICK col \in DOMAIN TransactionColumns : \E value \in Values(TransactionChecks, col), c \in Client :
            apply_update(c, col, value)
    BY <1>3
  <2>2. /\ table' \in [Txn -> Stored(TransactionColumns) \cup {None}]
        /\ phase' \in [Txn -> {"open"} \cup Kind]
        /\ reply' \in Answers
    BY <2>1, UpdateWrites
  <2>3. UNCHANGED <<owed, stream, ports, built, mounted, provider, draft>>
    BY <2>1 DEF apply_update
  <2>4. QED
    BY <2>2, <2>3 DEF HostTypeOK, Answers
<1>4. CASE \E col \in DOMAIN ProviderColumns : \E value \in Values(ProviderChecks, col) :
              CreateProvider(col, value) \/ UpdateProvider(col, value) \/ PatchProvider(col, value)
  <2>1. PICK col \in DOMAIN ProviderColumns : \E value \in Values(ProviderChecks, col) :
              CreateProvider(col, value) \/ UpdateProvider(col, value) \/ PatchProvider(col, value)
    BY <1>4
  <2>2. /\ provider' \in Provider \cup {None} /\ reply' \in Answers
        /\ UNCHANGED <<vars, ports, built, mounted, table, draft>>
    BY <2>1, ProviderWrites
  <2>3. QED
    BY <2>2 DEF HostTypeOK, Answers, vars
<1>5. QED
  BY <1>1, <1>2, <1>3, <1>4 DEF ClientWrites

LEMMA SetupTyped ==
    ASSUME HostTypeOK, HostSetup
    PROVE  HostTypeOK' /\ reply' = reply
<1>1. UNCHANGED <<vars, table, provider, draft, reply>>
  BY DEF HostSetup, With, build, Mount
<1>2. ports' \subseteq Port /\ built' \in BOOLEAN
  BY DEF HostTypeOK, HostSetup, With, build, Mount
<1>3. mounted' \subseteq Router
  BY SurfacesAssumption DEF HostTypeOK, HostSetup, With, build, Mount
<1>4. QED
  BY <1>1, <1>2, <1>3 DEF HostTypeOK, vars

LEMMA RowsMoveTyped ==
    ASSUME HostTypeOK, RowsMove
    PROVE  HostTypeOK' /\ reply' \in {reply} \cup Answers
<1>1. CASE \E c \in Client, t \in Txn : GetTransaction(c, t)
  <2>1. PICK c \in Client, t \in Txn : GetTransaction(c, t)
    BY <1>1
  <2> DEFINE d == [t |-> t, row |-> table[t], phase |-> phase[t]]
  <2>2. d \in Draft
    BY <2>1 DEF HostTypeOK, GetTransaction, Draft
  <2>3. draft' = [draft EXCEPT ![c] = d]
    BY <2>1 DEF GetTransaction
  <2>4. UNCHANGED <<vars, ports, built, mounted, table, provider, reply>>
    BY <2>1 DEF GetTransaction
  <2> HIDE DEF d
  <2>5. draft' \in [Client -> Draft \cup {None}]
    BY <2>2, <2>3 DEF HostTypeOK
  <2>6. QED
    BY <2>4, <2>5 DEF HostTypeOK, vars
<1>2. CASE PurgeProvider \/ \E deleted \in BOOLEAN : MoveProvider(deleted)
  <2>1. provider' \in Provider \cup {None}
    BY <1>2 DEF HostTypeOK, PurgeProvider, MoveProvider, Provider
  <2>2. /\ UNCHANGED <<vars, ports, built, mounted, table, draft>>
        /\ reply' \in Answers
    BY <1>2 DEF PurgeProvider, MoveProvider, Answers
  <2>3. QED
    BY <2>1, <2>2 DEF HostTypeOK, Answers, vars
<1>3. CASE \E t \in Txn : InsertCharge(t)
  <2>1. table' \in [Txn -> Stored(TransactionColumns) \cup {None}]
    BY <1>3, FineIsStored DEF HostTypeOK, InsertCharge
  <2>2. UNCHANGED <<vars, ports, built, mounted, provider, draft, reply>>
    BY <1>3 DEF InsertCharge
  <2>3. QED
    BY <2>1, <2>2 DEF HostTypeOK, vars
<1>4. QED
  BY <1>1, <1>2, <1>3 DEF RowsMove

LEMMA EngineTyped ==
    ASSUME HostTypeOK, EngineWorks
    PROVE  HostTypeOK'
<1>1. /\ phase' \in [Txn -> {"open"} \cup Kind]
      /\ owed' \subseteq Txn \X Kind
      /\ stream' \in [Txn -> Seq(Kind)]
  BY EngineFrame, SeamStepTyped DEF HostTypeOK, vars
<1>2. /\ reply' \in {reply, "ok", "not_found"}
      /\ UNCHANGED <<ports, built, mounted, table, provider, draft>>
  BY EngineFrame
<1>3. QED
  BY <1>1, <1>2 DEF HostTypeOK

LEMMA InitHostTyped == HostInit => HostTypeOK
<1> SUFFICES ASSUME HostInit PROVE HostTypeOK
  OBVIOUS
<1>1. /\ phase \in [Txn -> {"open"} \cup Kind]
      /\ owed \subseteq Txn \X Kind
  BY DEF HostInit, Init
<1>2. stream \in [Txn -> Seq(Kind)]
  BY DEF HostInit, Init
<1>3. /\ ports \subseteq Port /\ built \in BOOLEAN /\ mounted \subseteq Router
      /\ reply = "none"
  BY DEF HostInit
<1>4. /\ table \in [Txn -> Stored(TransactionColumns) \cup {None}]
      /\ provider \in Provider \cup {None}
      /\ draft \in [Client -> Draft \cup {None}]
  BY DEF HostInit
<1>5. QED
  BY <1>1, <1>2, <1>3, <1>4 DEF HostTypeOK

LEMMA StepHostTyped ==
    ASSUME HostTypeOK, [HostNext]_allVars
    PROVE  HostTypeOK' /\ reply' \in {reply, "not_found"} \cup Answers
<1>1. CASE HostSetup
  BY <1>1, SetupTyped
<1>2. CASE RowsMove
  BY <1>2, RowsMoveTyped
<1>3. CASE ClientWrites
  BY <1>3, WritesTyped
<1>4. CASE EngineWorks
  BY <1>4, EngineTyped, EngineFrame DEF Answers
<1>5. CASE UNCHANGED allVars
  BY <1>5 DEF HostTypeOK, allVars, hostVars, vars
<1>6. QED
  BY <1>1, <1>2, <1>3, <1>4, <1>5, HostSteps

\* Whatever clients send, the tables hold rows that break no constraint, and
\* what a client holds back to send later is one of them.
THEOREM HostTypeCorrect == HostSpec => []HostTypeOK
<1>1. HostTypeOK /\ [HostNext]_allVars => HostTypeOK'
  BY StepHostTyped
<1>2. QED
  BY <1>1, InitHostTyped, PTL DEF HostSpec

\* For any column, value and age of the row a client edits: a write that breaks
\* a declared check is refused by the DTO or the rules, never by the database.
THEOREM RulesCoverTheChecks == HostSpec => []RefusedBeforeTheDatabase
<1>1. HostInit => RefusedBeforeTheDatabase
  BY DEF HostInit, RefusedBeforeTheDatabase
<1>2. HostTypeOK /\ RefusedBeforeTheDatabase /\ [HostNext]_allVars => RefusedBeforeTheDatabase'
  BY StepHostTyped DEF RefusedBeforeTheDatabase, Answers
<1>3. QED
  BY <1>1, <1>2, HostTypeCorrect, PTL DEF HostSpec

-----------------------------------------------------------------------------
(* Once, on a guarded host.                                                *)

LEMMA CommitKeepsOnce ==
    ASSUME HostTypeOK, NEW u \in Txn, Settle(u) \/ Refund(u), NEW t \in Txn, RowOnce(t)
    PROVE  RowOnce(t)'
<1>1. PICK from \in {"open", "settled"}, to \in Kind :
          /\ phase[u] = from /\ from # to /\ from # "refunded"
          /\ from = "settled" => to = "refunded"
          /\ phase' = [phase EXCEPT ![u] = to]
          /\ owed' = owed \cup {<<u, to>>}
          /\ stream' = stream
  BY DEF Settle, Refund, Commit, Kind
<1>2. phase \in [Txn -> {"open"} \cup Kind] /\ \A i \in 1 .. Len(stream[t]) : stream[t][i] \in Kind
  BY DEF HostTypeOK
<1>3. \A k \in Kind : Past(t, k) => Past(t, k)'
  BY <1>1, <1>2 DEF Past, Kind
<1>4. ASSUME NEW k \in Kind, <<t, k>> \in owed'
      PROVE  Past(t, k)' /\ \A i \in 1 .. Len(stream[t]) : stream[t][i] # k
  <2>1. CASE <<t, k>> \in owed
    BY <1>3, <2>1 DEF RowOnce
  <2>2. CASE t = u /\ k = to
    <3>1. Past(t, k)'
      BY <1>1, <1>2, <2>2 DEF Past
    <3>2. ~Past(t, k)
      BY <1>1, <2>2 DEF Past
    <3>3. QED
      BY <3>1, <3>2 DEF RowOnce
  <2>3. QED
    BY <1>1, <1>4, <2>1, <2>2
<1>5. QED
  BY <1>1, <1>2, <1>3, <1>4 DEF RowOnce

LEMMA DeliveryKeepsOnce ==
    ASSUME HostTypeOK, NEW u \in Txn, NEW e \in Kind, Deliver(u, e) \/ Lose(u, e),
           NEW t \in Txn, RowOnce(t)
    PROVE  RowOnce(t)'
<1>1. <<u, e>> \in owed /\ owed' = owed \ {<<u, e>>} /\ phase' = phase
  BY DEF Deliver, Lose
<1>2. \A k : Past(t, k)' <=> Past(t, k)
  BY <1>1 DEF Past
<1>3. CASE stream'[t] = stream[t]
  BY <1>1, <1>2, <1>3 DEF RowOnce
<1>4. CASE t = u /\ stream'[t] = Append(stream[t], e)
  <2> DEFINE n == Len(stream[t])
  <2>1. stream[t] \in Seq(Kind) /\ n \in Nat
    BY DEF HostTypeOK
  <2>2. /\ 1 .. Len(stream'[t]) = (1 .. n) \cup {n + 1}
        /\ stream'[t][n + 1] = e
        /\ \A i \in 1 .. n : stream'[t][i] = stream[t][i]
    BY <1>4, <2>1
  <2>3. Past(t, e) /\ \A i \in 1 .. n : stream[t][i] # e
    BY <1>1, <1>4 DEF RowOnce
  <2>4. \A k \in Kind : <<t, k>> \in owed' => <<t, k>> \in owed /\ k # e
    BY <1>1, <1>4
  <2>5. \A k \in Kind : <<t, k>> \in owed' =>
          Past(t, k)' /\ \A i \in 1 .. Len(stream'[t]) : stream'[t][i] # k
    BY <1>2, <2>2, <2>4 DEF RowOnce
  <2>6. \A i \in 1 .. Len(stream'[t]) : phase'[t] \in {stream'[t][i], "refunded"}
    BY <1>1, <2>2, <2>3 DEF RowOnce, Past
  <2>7. \A i, j \in 1 .. Len(stream'[t]) : stream'[t][i] = stream'[t][j] => i = j
    BY <2>2, <2>3 DEF RowOnce
  <2>8. QED
    BY <2>5, <2>6, <2>7 DEF RowOnce, Past
<1>5. QED
  BY <1>3, <1>4 DEF Deliver, Lose, HostTypeOK

\* The routers are chosen once, and only clients and the engine move rows
\* from phase to phase.
LEMMA SetupFrame ==
    ASSUME HostSetup \/ RowsMove
    PROVE  UNCHANGED vars /\ (mounted' = mounted \/ mounted = {})
<1>1. CASE HostSetup
  BY <1>1 DEF HostSetup, With, build, Mount
<1>2. CASE RowsMove
  BY <1>2 DEF RowsMove, GetTransaction, MoveProvider, PurgeProvider, InsertCharge
<1>3. QED
  BY <1>1, <1>2

\* Of what clients write, only an update of a transaction moves its phase.
LEMMA ClientFrame ==
    ASSUME HostTypeOK, ClientWrites
    PROVE  mounted' = mounted /\ (UNCHANGED vars \/ "all_crud_routes" \in mounted)
<1>1. CASE \E col \in DOMAIN TransactionColumns : \E value \in Values(TransactionChecks, col) :
              \E t \in Txn : CreateTransaction(t, col, value) \/ apply_patch(t, col, value)
  <2>1. PICK col \in DOMAIN TransactionColumns :
            \E value \in Values(TransactionChecks, col), t \in Txn :
                CreateTransaction(t, col, value) \/ apply_patch(t, col, value)
    BY <1>1
  <2>2. PICK value \in Values(TransactionChecks, col), t \in Txn :
            CreateTransaction(t, col, value) \/ apply_patch(t, col, value)
    BY <2>1
  <2>3. CASE CreateTransaction(t, col, value)
    BY <2>3 DEF CreateTransaction
  <2>4. CASE apply_patch(t, col, value)
    <3>1. mounted' = mounted /\ "write_transactions" \in Served
      BY <2>4 DEF apply_patch
    <3>2. QED
      BY <3>1, WritersRouter DEF HostTypeOK
  <2>5. QED
    BY <2>2, <2>3, <2>4
<1>2. CASE \E col \in DOMAIN TransactionColumns : \E value \in Values(TransactionChecks, col) :
              \E c \in Client : apply_update(c, col, value)
  BY <1>2, WritersRouter DEF HostTypeOK, apply_update
<1>3. CASE \E col \in DOMAIN ProviderColumns : \E value \in Values(ProviderChecks, col) :
              CreateProvider(col, value) \/ UpdateProvider(col, value) \/ PatchProvider(col, value)
  BY <1>3 DEF CreateProvider, UpdateProvider, PatchProvider, WriteProvider
<1>4. QED
  BY <1>1, <1>2, <1>3 DEF ClientWrites

LEMMA GuardFrame ==
    ASSUME HostTypeOK, [HostNext]_allVars, "all_crud_routes" \notin mounted'
    PROVE  "all_crud_routes" \notin mounted /\ (SeamStep \/ UNCHANGED vars)
<1>1. CASE HostSetup \/ RowsMove
  BY <1>1, SetupFrame
<1>2. CASE ClientWrites
  BY <1>2, ClientFrame
<1>3. CASE EngineWorks
  BY <1>3, EngineFrame
<1>4. CASE UNCHANGED allVars
  BY <1>4 DEF allVars, hostVars
<1>5. QED
  BY <1>1, <1>2, <1>3, <1>4, HostSteps

LEMMA StepOnce == HostTypeOK /\ OnceInv /\ [HostNext]_allVars => OnceInv'
<1> SUFFICES ASSUME HostTypeOK, OnceInv, [HostNext]_allVars, "all_crud_routes" \notin mounted',
                    NEW t \in Txn
             PROVE  RowOnce(t)'
  BY DEF OnceInv
<1>1. "all_crud_routes" \notin mounted /\ (SeamStep \/ UNCHANGED vars)
  BY GuardFrame
<1>2. RowOnce(t)
  BY <1>1 DEF OnceInv
<1>3. CASE UNCHANGED vars
  BY <1>2, <1>3 DEF vars, RowOnce, Past
<1>4. CASE SeamStep
  BY <1>2, <1>4, CommitKeepsOnce, DeliveryKeepsOnce DEF SeamStep
<1>5. QED
  BY <1>1, <1>3, <1>4

\* However many clients read rows, hold them back and edit what they can reach:
\* on a host without the unguarded CRUD surface the ACL hears once of each.
THEOREM GuardedHostIsOnce == HostSpec => []GuardedHostAnnouncesOnce
<1>1. HostInit => OnceInv
  <2> SUFFICES ASSUME HostInit, NEW t \in Txn PROVE RowOnce(t)
    BY DEF OnceInv
  <2>1. owed = {} /\ stream[t] = <<>>
    BY DEF HostInit, Init
  <2>2. 1 .. Len(stream[t]) = {}
    BY <2>1
  <2>3. QED
    BY <2>1, <2>2 DEF RowOnce
<1>2. OnceInv => GuardedHostAnnouncesOnce
  BY DEF OnceInv, RowOnce, GuardedHostAnnouncesOnce
<1>3. QED
  BY <1>1, <1>2, StepOnce, HostTypeCorrect, PTL DEF HostSpec

-----------------------------------------------------------------------------
(* No charge loses its provider.                                           *)

\* A row a client has read is still there when it writes it back.
ReadRowsExist == \A c \in Client : draft[c] # None => table[draft[c].t] # None

LEMMA NoRow == \A r \in Stored(TransactionColumns) : r # None
  BY NoneAssumption

\* No row disappears, and a row comes only while there is a provider.
RowsKept ==
    /\ \A t \in Txn : table[t] # None => table'[t] # None
    /\ (\E t \in Txn : table[t] = None /\ table'[t] # None) => provider # None
    /\ provider # None /\ provider' = None => \A t \in Txn : table'[t] = None

LEMMA WritesKeepRows ==
    ASSUME HostTypeOK, ReadRowsExist, ClientWrites
    PROVE  RowsKept /\ draft' = draft
<1>1. CASE \E col \in DOMAIN TransactionColumns : \E value \in Values(TransactionChecks, col) :
              \E t \in Txn : CreateTransaction(t, col, value)
  <2>1. PICK col \in DOMAIN TransactionColumns : \E value \in Values(TransactionChecks, col), t \in Txn :
            CreateTransaction(t, col, value)
    BY <1>1
  <2>2. PICK value \in Values(TransactionChecks, col), t \in Txn : CreateTransaction(t, col, value)
    BY <2>1
  <2>3. provider' = provider /\ (provider = None => table' = table)
    BY <2>2, CreateWrites
  <2>4. table[t] = None /\ draft' = draft
    BY <2>2 DEF CreateTransaction
  <2>5. \A u \in Txn \ {t} : table'[u] = table[u]
    BY <2>2 DEF CreateTransaction, HostTypeOK
  <2>6. QED
    BY <2>3, <2>4, <2>5 DEF RowsKept
<1>2. CASE \E col \in DOMAIN TransactionColumns : \E value \in Values(TransactionChecks, col) :
              \E t \in Txn : apply_patch(t, col, value)
  <2>1. PICK col \in DOMAIN TransactionColumns : \E value \in Values(TransactionChecks, col), t \in Txn :
            apply_patch(t, col, value)
    BY <1>2
  <2>2. \A u \in Txn : \/ table'[u] = table[u]
                       \/ table[u] # None /\ table'[u] \in Stored(TransactionColumns)
    BY <2>1, PatchWrites
  <2>3. provider' = provider /\ draft' = draft
    BY <2>1 DEF apply_patch
  <2>4. QED
    BY <2>2, <2>3, NoRow DEF RowsKept
<1>3. CASE \E col \in DOMAIN TransactionColumns : \E value \in Values(TransactionChecks, col) :
              \E c \in Client : apply_update(c, col, value)
  <2>1. PICK col \in DOMAIN TransactionColumns : \E value \in Values(TransactionChecks, col), c \in Client :
            apply_update(c, col, value)
    BY <1>3
  <2>2. PICK value \in Values(TransactionChecks, col), c \in Client : apply_update(c, col, value)
    BY <2>1
  <2>3. table[draft[c].t] # None
    BY <2>2 DEF ReadRowsExist, apply_update
  <2>4. \A u \in Txn : \/ table'[u] = table[u]
                       \/ u = draft[c].t /\ table'[u] \in Stored(TransactionColumns)
    BY <2>2, UpdateWrites
  <2>5. provider' = provider /\ draft' = draft
    BY <2>2 DEF apply_update
  <2>6. QED
    BY <2>3, <2>4, <2>5, NoRow DEF RowsKept
<1>4. CASE \E col \in DOMAIN ProviderColumns : \E value \in Values(ProviderChecks, col) :
              CreateProvider(col, value) \/ UpdateProvider(col, value) \/ PatchProvider(col, value)
  <2>1. PICK col \in DOMAIN ProviderColumns : \E value \in Values(ProviderChecks, col) :
              CreateProvider(col, value) \/ UpdateProvider(col, value) \/ PatchProvider(col, value)
    BY <1>4
  <2>2. (provider # None => provider' # None) /\ table' = table /\ draft' = draft
    BY <2>1, ProviderWrites
  <2>3. QED
    BY <2>2 DEF RowsKept
<1>5. QED
  BY <1>1, <1>2, <1>3, <1>4 DEF ClientWrites

\* The foreign key keeps the provider of a charge out of the permanent delete.
LEMMA MovesKeepRows ==
    ASSUME HostTypeOK, RowsMove
    PROVE  RowsKept
<1>1. CASE PurgeProvider
  BY <1>1 DEF PurgeProvider, RowsKept
<1>2. CASE \E deleted \in BOOLEAN : MoveProvider(deleted)
  <2>1. PICK deleted \in BOOLEAN : provider' = [provider EXCEPT !.deleted = deleted]
    BY <1>2 DEF MoveProvider
  <2>2. provider \in Provider /\ table' = table
    BY <1>2 DEF MoveProvider, HostTypeOK
  <2>3. provider' \in Provider
    BY <2>1, <2>2 DEF Provider
  <2>4. QED
    BY <2>2, <2>3, NoneAssumption DEF RowsKept
<1>3. CASE \E t \in Txn : InsertCharge(t)
  <2>1. PICK t \in Txn : InsertCharge(t)
    BY <1>3
  <2>2. \A u \in Txn : table'[u] = table[u] \/ (u = t /\ table[u] = None /\ provider # None)
    BY <2>1 DEF InsertCharge, HostTypeOK
  <2>3. provider' = provider /\ \A u \in Txn : table[u] # None => table'[u] # None
    BY <2>1, <2>2 DEF InsertCharge
  <2>4. QED
    BY <2>2, <2>3 DEF RowsKept
<1>4. CASE UNCHANGED <<table, provider>>
  BY <1>4 DEF RowsKept
<1>5. QED
  BY <1>1, <1>2, <1>3, <1>4 DEF RowsMove, GetTransaction

LEMMA StepKeepsRows ==
    ASSUME HostTypeOK, ReadRowsExist, [HostNext]_allVars
    PROVE  RowsKept
<1>1. CASE HostSetup
  BY <1>1 DEF HostSetup, With, build, Mount, RowsKept
<1>2. CASE EngineWorks
  BY <1>2, EngineFrame DEF RowsKept
<1>3. CASE UNCHANGED allVars
  BY <1>3 DEF allVars, hostVars, RowsKept
<1>4. QED
  BY <1>1, <1>2, <1>3, WritesKeepRows, MovesKeepRows, HostSteps

LEMMA StepReadRows ==
    ASSUME HostTypeOK, ReadRowsExist, [HostNext]_allVars
    PROVE  ReadRowsExist'
<1>1. RowsKept
  BY StepKeepsRows
<1>2. \A c \in Client : draft[c] # None => draft[c].t \in Txn
  BY DEF HostTypeOK, Draft
<1>3. CASE draft' = draft
  BY <1>1, <1>2, <1>3 DEF ReadRowsExist, RowsKept
<1>4. CASE \E c \in Client, t \in Txn : GetTransaction(c, t)
  <2>1. PICK c \in Client, t \in Txn : GetTransaction(c, t)
    BY <1>4
  <2>2. table' = table /\ table[t] # None
    BY <2>1 DEF GetTransaction
  <2>3. \A b \in Client : draft'[b] = draft[b] \/ draft'[b].t = t
    BY <2>1 DEF GetTransaction, HostTypeOK
  <2>4. QED
    BY <2>2, <2>3 DEF ReadRowsExist
<1>5. CASE HostSetup \/ EngineWorks \/ UNCHANGED allVars
  BY <1>3, <1>5, EngineFrame DEF HostSetup, With, build, Mount, allVars, hostVars
<1>6. CASE RowsMove
  BY <1>3, <1>4, <1>6 DEF RowsMove, MoveProvider, PurgeProvider, InsertCharge
<1>7. CASE ClientWrites
  BY <1>3, <1>7, WritesKeepRows
<1>8. QED
  BY <1>5, <1>6, <1>7, HostSteps

\* Whatever operators delete, restore, purge and write, in whatever order: the
\* engine finds a provider for every charge there is.
THEOREM ChargesKeepTheirProvider == HostSpec => []EveryChargeFindsItsProvider
<1>1. HostInit => ReadRowsExist /\ EveryChargeFindsItsProvider
  BY DEF HostInit, ReadRowsExist, EveryChargeFindsItsProvider
<1>2. HostTypeOK /\ ReadRowsExist /\ [HostNext]_allVars => ReadRowsExist'
  BY StepReadRows
<1>3. HostTypeOK /\ ReadRowsExist /\ EveryChargeFindsItsProvider /\ [HostNext]_allVars
        => EveryChargeFindsItsProvider'
  BY StepKeepsRows DEF RowsKept, EveryChargeFindsItsProvider, Found
<1>4. QED
  BY <1>1, <1>2, <1>3, HostTypeCorrect, PTL DEF HostSpec

=============================================================================
