------------------- MODULE SettlementReconciliationProofs -------------------
(***************************************************************************)
(* The general ledger reconciles: with a fee sink that dedups on           *)
(* idempotency_key, the journals of the gateway and of the ACL add up for  *)
(* every charge that nobody is working on, for any number of rows,         *)
(* requests and entries.                                                   *)
(***************************************************************************)
EXTENDS SettlementBooksProofs

-----------------------------------------------------------------------------
(* Sums.  SumFunction folds over a domain of any size; the journals of a   *)
(* row, and its posted entries, are two at most.                           *)

\* The equation whose solution the fold chooses, over the parts of S.
Sums(f, S, iter) ==
    iter = [s \in SUBSET S |->
              IF s = {} THEN 0
              ELSE LET x == CHOOSE x \in s : TRUE IN f[x] + iter[s \ {x}]]

LEMMA SumUnfolds ==
    ASSUME NEW f, NEW S, DOMAIN f = S
    PROVE  SumFunction(f) = (CHOOSE iter : Sums(f, S, iter))[S]
  BY DEF SumFunction, SumFunctionOnSet, FoldFunctionOnSet, MapThenFoldSet, Sums

LEMMA SumOfNone ==
    ASSUME NEW f, DOMAIN f = {}
    PROVE  SumFunction(f) = 0
<1>1. PICK g : g = [s \in SUBSET {} |-> 0]
  OBVIOUS
<1>2. Sums(f, {}, g)
  BY <1>1 DEF Sums
<1>3. PICK h : h = (CHOOSE iter : Sums(f, {}, iter))
  OBVIOUS
<1>4. Sums(f, {}, h)
  BY <1>2, <1>3
<1>5. {} \in SUBSET {}
  OBVIOUS
<1>6. h[{}] = 0
  BY <1>4, <1>5 DEF Sums
<1>7. QED
  BY <1>3, <1>6, SumUnfolds

LEMMA SumOfOne ==
    ASSUME NEW f, NEW x, DOMAIN f = {x}, f[x] \in Int
    PROVE  SumFunction(f) = f[x]
<1>1. PICK g : g = [s \in SUBSET {x} |-> IF s = {} THEN 0 ELSE f[x]]
  OBVIOUS
<1>2. /\ SUBSET {x} = {{}, {x}}
      /\ (CHOOSE y \in {x} : TRUE) = x
      /\ {x} \ {x} = {}
  OBVIOUS
<1>3. Sums(f, {x}, g)
  <2>1. g = [s \in SUBSET {x} |->
              IF s = {} THEN 0
              ELSE LET y == CHOOSE y \in s : TRUE IN f[y] + g[s \ {y}]]
    BY <1>1, <1>2
  <2>2. QED
    BY <2>1 DEF Sums
<1>4. PICK h : h = (CHOOSE iter : Sums(f, {x}, iter))
  OBVIOUS
<1>5. Sums(f, {x}, h)
  BY <1>3, <1>4
<1>6. h[{}] = 0 /\ h[{x}] = f[x] + h[{}]
  BY <1>2, <1>5 DEF Sums
<1>7. SumFunction(f) = h[{x}]
  BY <1>4, SumUnfolds
<1>8. QED
  BY <1>6, <1>7

LEMMA SumOfTwo ==
    ASSUME NEW f, NEW x, NEW y, x # y, DOMAIN f = {x, y}, f[x] \in Int, f[y] \in Int
    PROVE  SumFunction(f) = f[x] + f[y]
<1> DEFINE D == {x, y}
<1>1. PICK g : g = [s \in SUBSET D |->
                      (IF x \in s THEN f[x] ELSE 0) + (IF y \in s THEN f[y] ELSE 0)]
  OBVIOUS
<1>2. Sums(f, D, g)
  <2>1. ASSUME NEW s \in SUBSET D, s # {}, NEW z \in s
        PROVE  g[s] = f[z] + g[s \ {z}]
    BY <1>1, <2>1
  <2>2. \A s \in SUBSET D : s # {} => (CHOOSE z \in s : TRUE) \in s
    OBVIOUS
  <2>3. ASSUME NEW s \in SUBSET D
        PROVE  g[s] = IF s = {} THEN 0
                      ELSE LET z == CHOOSE z \in s : TRUE IN f[z] + g[s \ {z}]
    <3>1. CASE s = {}
      BY <1>1, <3>1
    <3>2. CASE s # {}
      <4>1. PICK z \in s : z = CHOOSE v \in s : TRUE
        BY <2>2, <3>2
      <4>2. g[s] = f[z] + g[s \ {z}]
        BY <2>1, <3>2
      <4>3. QED
        BY <3>2, <4>1, <4>2
    <3>3. QED
      BY <3>1, <3>2
  <2>4. g = [s \in SUBSET D |-> g[s]]
    BY <1>1
  <2>5. g = [s \in SUBSET D |->
              IF s = {} THEN 0
              ELSE LET z == CHOOSE z \in s : TRUE IN f[z] + g[s \ {z}]]
    BY <2>3, <2>4
  <2>6. QED
    BY <2>5 DEF Sums
<1>3. PICK h : h = (CHOOSE iter : Sums(f, D, iter))
  OBVIOUS
<1>4. Sums(f, D, h)
  BY <1>2, <1>3
<1>5. PICK z \in D : z = CHOOSE v \in D : TRUE
  OBVIOUS
<1>6. h[D] = f[z] + h[D \ {z}]
  BY <1>4, <1>5 DEF Sums
<1>7. \A v \in D : h[{v}] = f[v] + h[{}]
  <2>1. ASSUME NEW v \in D
        PROVE  (CHOOSE u \in {v} : TRUE) = v /\ {v} \ {v} = {} /\ {v} \in SUBSET D
    OBVIOUS
  <2>2. QED
    BY <2>1, <1>4 DEF Sums
<1>8. h[{}] = 0
  BY <1>4 DEF Sums
<1>9. h[{x}] = f[x] /\ h[{y}] = f[y]
  BY <1>7, <1>8
<1>10. h[D] = f[x] + f[y]
  <2>1. CASE z = x
    <3>1. D \ {z} = {y}
      BY <2>1
    <3>2. h[D] = f[x] + h[{y}]
      BY <1>6, <2>1, <3>1
    <3>3. QED
      BY <1>9, <3>2
  <2>2. CASE z = y
    <3>1. D \ {z} = {x}
      BY <2>2
    <3>2. h[D] = f[y] + h[{x}]
      BY <1>6, <2>2, <3>1
    <3>3. QED
      BY <1>9, <3>2
  <2>3. QED
    BY <1>5, <2>1, <2>2
<1>11. SumFunction(f) = h[D]
  BY <1>3, SumUnfolds
<1>12. QED
  BY <1>10, <1>11

-----------------------------------------------------------------------------
(* At most two journals.                                                   *)

OneReversal(t) == SinkDedups => \A i, j \in Booked(t, "reversal") : i = j

ReversalInv == \A t \in Txn : OneReversal(t)

LEMMA StepReversal == TypeOK /\ ReversalInv /\ [Next]_vars => ReversalInv'
<1> SUFFICES ASSUME TypeOK, ReversalInv, [Next]_vars, NEW t \in Txn, SinkDedups,
                    NEW i \in Booked(t, "reversal")', NEW j \in Booked(t, "reversal")'
             PROVE  i = j
  BY DEF ReversalInv, OneReversal
<1>1. CASE ledger'[t] = ledger[t]
  BY <1>1 DEF ReversalInv, OneReversal, Booked
<1>2. CASE \E w \in Worker :
              PostBooked(w) /\ job[w].txn = t /\ ledger'[t] = Append(ledger[t], job[w].env)
  <2>1. PICK w \in Worker :
              PostBooked(w) /\ job[w].txn = t /\ ledger'[t] = Append(ledger[t], job[w].env)
    BY <1>2
  <2>2. ledger[t] \in Seq(Journal) /\ job[w].env \in Journal
    BY <2>1, JobAt DEF TypeOK, PostBooked, Posting
  <2>3. /\ 1 .. Len(ledger'[t]) = (1 .. Len(ledger[t])) \cup {Len(ledger[t]) + 1}
        /\ \A k \in 1 .. Len(ledger[t]) : ledger'[t][k] = ledger[t][k]
        /\ ledger'[t][Len(ledger[t]) + 1] = job[w].env
    BY <2>1, <2>2, Appended
  <2>4. Booked(t, job[w].env.kind) = {}
    BY <2>1, DuplicatesOf DEF PostBooked
  <2>5. CASE job[w].env.kind = "reversal"
    BY <2>3, <2>4, <2>5 DEF Booked
  <2>6. CASE job[w].env.kind # "reversal"
    BY <2>3, <2>6 DEF ReversalInv, OneReversal, Booked
  <2>7. QED
    BY <2>5, <2>6
<1>3. QED
  BY <1>1, <1>2, LedgerFrame

LEMMA ReversalInvariant == Spec => []ReversalInv
<1>1. Init => ReversalInv
  BY DEF Init, ReversalInv, OneReversal, Booked
<1>2. QED
  BY <1>1, TypeCorrect, StepReversal, PTL DEF Spec

-----------------------------------------------------------------------------
(* What the ACL has done about the events it is done with.                 *)

\* A row has one entry at most, created for its settled event.
OneEntry(t) == \A d, e \in EntriesOf(t) : d = e

EntryIsTold(t) == EntriesOf(t) # {} => Announced(t, "settled")

\* The ACL moves past a settled event when it has posted the entry, past a
\* refunded event when it has reversed the one it names.
SettledIsPosted(t) ==
    \A i \in 1 .. heard[t] :
        published[t][i].kind = "settled" => \E e \in EntriesOf(t) : entries[e].state # "draft"

RefundIsReversed(t) ==
    \A i \in 1 .. heard[t] :
        LET event == published[t][i] IN
        event.kind = "refunded" /\ event.payment_entry_id # None =>
            entries[event.payment_entry_id].state = "reversed"

\* It reverses nothing else.
ReversedIsTold(e) ==
    entries[e] # None /\ entries[e].state = "reversed" => RefundNamesAnEntry(entries[e].txn)

AclInv ==
    /\ \A t \in Txn :
          OneEntry(t) /\ EntryIsTold(t) /\ SettledIsPosted(t) /\ RefundIsReversed(t)
    /\ \A e \in PaymentEntry : ReversedIsTold(e)

LEMMA InitAcl == BooksInit => AclInv
<1> SUFFICES ASSUME BooksInit PROVE AclInv
  OBVIOUS
<1>1. /\ \A t \in Txn : EntriesOf(t) = {}
      /\ \A e \in PaymentEntry : entries[e] = None
  BY DEF BooksInit, EntriesOf
<1>2. \A t \in Txn : heard[t] = 0
  BY DEF BooksInit
<1>3. 1 .. 0 = {}
  OBVIOUS
<1>4. QED
  BY <1>1, <1>2, <1>3
  DEF AclInv, OneEntry, EntryIsTold, SettledIsPosted, RefundIsReversed, ReversedIsTold

\* The ACL is done with events one by one.
LEMMA HeardFrame ==
    ASSUME BooksInv, [BooksNext]_allVars, NEW t \in Txn
    PROVE  \/ heard'[t] = heard[t]
           \/ /\ heard'[t] = heard[t] + 1
              /\ (\E e \in PaymentEntry : StampBack(t, e)) \/ ReversePayment(t)
<1>1. heard \in [Txn -> Nat]
  BY DEF BooksInv, BooksTypeOK
<1>2. CASE heard' = heard
  BY <1>2
<1>3. CASE \E u \in Txn, e \in PaymentEntry : StampBack(u, e)
  BY <1>1, <1>3 DEF StampBack
<1>4. CASE \E u \in Txn : ReversePayment(u)
  BY <1>1, <1>4 DEF ReversePayment
<1>5. QED
  BY <1>2, <1>3, <1>4
  DEF BooksNext, AclStep, CreatePayment, PostPayment, EntriesOf, allVars, bookVars

\* An announcement stays.
LEMMA AnnouncedStays ==
    ASSUME TypeOK, [Next]_vars, NEW t \in Txn, NEW k, Announced(t, k)
    PROVE  Announced(t, k)'
<1>1. PICK i \in 1 .. Len(published[t]) : published[t][i].kind = k
  BY DEF Announced
<1>2. i \in 1 .. Len(published'[t]) /\ published'[t][i] = published[t][i]
  BY <1>1, StreamGrows
<1>3. QED
  BY <1>1, <1>2 DEF Announced

LEMMA NamingStays ==
    ASSUME TypeOK, [Next]_vars, NEW t \in Txn, RefundNamesAnEntry(t)
    PROVE  RefundNamesAnEntry(t)'
<1>1. PICK i \in 1 .. Len(published[t]) :
          published[t][i].kind = "refunded" /\ published[t][i].payment_entry_id # None
  BY DEF RefundNamesAnEntry
<1>2. i \in 1 .. Len(published'[t]) /\ published'[t][i] = published[t][i]
  BY <1>1, StreamGrows
<1>3. QED
  BY <1>1, <1>2 DEF RefundNamesAnEntry

\* The entries of a row are those it had, or the first one.
LEMMA EntriesFrame ==
    ASSUME BooksInv, [BooksNext]_allVars, NEW t \in Txn
    PROVE  \/ EntriesOf(t)' = EntriesOf(t)
           \/ /\ Hears(t, "settled") /\ EntriesOf(t) = {}
              /\ \E e \in PaymentEntry : EntriesOf(t)' = {e}
<1>1. entries \in [PaymentEntry -> Entry \cup {None}]
  BY DEF BooksInv, BooksTypeOK
<1>2. PICK x, v : entries' = entries \/ entries' = [entries EXCEPT ![x] = v]
  BY DEF BooksNext, AclStep, CreatePayment, PostPayment, StampBack, ReversePayment,
         allVars, bookVars
<1>3. ASSUME NEW e \in PaymentEntry, entries[e] # None
      PROVE  e \in EntriesOf(t)' <=> e \in EntriesOf(t)
  BY <1>3, EntryStays DEF EntriesOf
<1>4. CASE \E e \in PaymentEntry : entries[e] = None /\ e \in EntriesOf(t)'
  <2>1. PICK e \in PaymentEntry : entries[e] = None /\ e \in EntriesOf(t)'
    BY <1>4
  <2>2. entries'[e] # None /\ entries'[e].txn = t
    BY <2>1 DEF EntriesOf
  <2>3. PICK u \in Txn :
            /\ Hears(u, "settled") /\ EntriesOf(u) = {}
            /\ entries'[e] = [txn |-> u, amount |-> rows[u].gross_amount, state |-> "draft"]
    BY <2>1, <2>2, EntryFrame
  <2>4. u = t
    BY <2>2, <2>3
  <2>5. \A d \in PaymentEntry \ {e} : entries'[d] = entries[d]
    BY <1>1, <1>2, <2>1, <2>2
  <2>6. EntriesOf(t)' = {e}
    BY <2>1, <2>2, <2>3, <2>4, <2>5 DEF EntriesOf
  <2>7. QED
    BY <2>3, <2>4, <2>6
<1>5. CASE ~\E e \in PaymentEntry : entries[e] = None /\ e \in EntriesOf(t)'
  <2>1. \A e \in PaymentEntry : e \in EntriesOf(t)' <=> e \in EntriesOf(t)
    BY <1>3, <1>5 DEF EntriesOf
  <2>2. EntriesOf(t)' \subseteq PaymentEntry /\ EntriesOf(t) \subseteq PaymentEntry
    BY DEF EntriesOf
  <2>3. QED
    BY <2>1, <2>2
<1>6. QED
  BY <1>4, <1>5

LEMMA OneEntryStays ==
    ASSUME BooksInv, AclInv, [BooksNext]_allVars, NEW t \in Txn
    PROVE  OneEntry(t)' /\ EntryIsTold(t)'
<1>1. TypeOK /\ [Next]_vars
  BY BooksStepRunsEngine DEF BooksInv, BooksTypeOK, Next
<1>2. OneEntry(t)'
  BY EntriesFrame DEF AclInv, OneEntry
<1>3. Announced(t, "settled") => EntryIsTold(t)'
  <2>1. Announced(t, "settled") => Announced(t, "settled")'
    BY <1>1, AnnouncedStays
  <2>2. QED
    BY <2>1 DEF EntryIsTold
<1>4. CASE EntriesOf(t)' = EntriesOf(t)
  <2>1. EntriesOf(t) = {} => EntryIsTold(t)'
    BY <1>4 DEF EntryIsTold
  <2>2. QED
    BY <1>2, <1>3, <2>1 DEF AclInv, EntryIsTold
<1>5. CASE Hears(t, "settled")
  <2>1. Announced(t, "settled")
    BY <1>5, HeardEvent DEF BooksInv, Announced
  <2>2. QED
    BY <1>2, <1>3, <2>1
<1>6. QED
  BY <1>4, <1>5, EntriesFrame

\* A posted entry stays posted or is reversed, and a reversed one stays so.
LEMMA SettledStaysPosted ==
    ASSUME BooksInv, AclInv, [BooksNext]_allVars, NEW t \in Txn
    PROVE  SettledIsPosted(t)'
<1>1. TypeOK /\ [Next]_vars
  BY BooksStepRunsEngine DEF BooksInv, BooksTypeOK, Next
<1>2. heard[t] \in Nat /\ heard[t] <= Len(published[t]) /\ Len(published[t]) \in Nat
  BY DEF BooksInv, BooksTypeOK, TypeOK
<1> SUFFICES ASSUME NEW i \in 1 .. heard'[t], published'[t][i].kind = "settled"
             PROVE  \E e \in EntriesOf(t)' : entries'[e].state # "draft"
  BY DEF SettledIsPosted
<1>3. CASE i \in 1 .. heard[t]
  <2>1. published'[t][i] = published[t][i]
    BY <1>1, <1>2, <1>3, StreamGrows
  <2>2. PICK e \in EntriesOf(t) : entries[e].state # "draft"
    BY <1>3, <2>1 DEF AclInv, SettledIsPosted
  <2>3. e \in EntriesOf(t)' /\ entries'[e].state # "draft"
    BY <2>2, EntryStays DEF EntriesOf
  <2>4. QED
    BY <2>3
<1>4. CASE i \notin 1 .. heard[t]
  <2>1. i = heard[t] + 1 /\ ((\E e \in PaymentEntry : StampBack(t, e)) \/ ReversePayment(t))
    BY <1>2, <1>4, HeardFrame
  <2>2. CASE \E e \in PaymentEntry : StampBack(t, e)
    BY <2>2 DEF StampBack, EntriesOf
  <2>3. CASE ReversePayment(t)
    <3>1. i \in 1 .. Len(published[t]) /\ published[t][i].kind = "refunded"
      BY <2>1, <2>3, HeardEvent DEF BooksInv, ReversePayment
    <3>2. published'[t][i] = published[t][i]
      BY <1>1, <3>1, StreamGrows
    <3>3. QED
      BY <3>1, <3>2
  <2>4. QED
    BY <2>1, <2>2, <2>3
<1>5. QED
  BY <1>3, <1>4

LEMMA RefundStaysReversed ==
    ASSUME BooksInv, AclInv, [BooksNext]_allVars, NEW t \in Txn
    PROVE  RefundIsReversed(t)'
<1>1. TypeOK /\ [Next]_vars
  BY BooksStepRunsEngine DEF BooksInv, BooksTypeOK, Next
<1>2. heard[t] \in Nat /\ heard[t] <= Len(published[t]) /\ Len(published[t]) \in Nat
  BY DEF BooksInv, BooksTypeOK, TypeOK
<1> SUFFICES ASSUME NEW i \in 1 .. heard'[t], published'[t][i].kind = "refunded",
                    NEW e, e = published'[t][i].payment_entry_id, e # None
             PROVE  entries'[e].state = "reversed"
  BY DEF RefundIsReversed
<1>3. i \in 1 .. Len(published[t]) /\ published'[t][i] = published[t][i]
  <2>1. i \in 1 .. Len(published[t])
    <3>1. (\E d \in PaymentEntry : StampBack(t, d)) \/ ReversePayment(t)
             => heard[t] < Len(published[t])
      BY DEF StampBack, ReversePayment, Hears
    <3>2. QED
      BY <1>2, <3>1, HeardFrame
  <2>2. QED
    BY <1>1, <2>1, StreamGrows
<1>4. e \in EntriesOf(t)
  BY <1>3 DEF BooksInv, RefundFindsItsEntry
<1>5. entries[e] \in Entry /\ entries \in [PaymentEntry -> Entry \cup {None}]
  BY <1>4 DEF BooksInv, BooksTypeOK, EntriesOf
<1>6. CASE i \in 1 .. heard[t]
  <2>1. entries[e].state = "reversed"
    BY <1>3, <1>6 DEF AclInv, RefundIsReversed
  <2>2. \/ entries'[e] = entries[e]
        \/ entries'[e] = [entries[e] EXCEPT !.state = "reversed"]
    BY <1>4, <2>1, EntryFrame DEF EntriesOf
  <2>3. QED
    BY <1>5, <2>1, <2>2 DEF Entry
<1>7. CASE i \notin 1 .. heard[t]
  <2>1. i = heard[t] + 1 /\ ((\E d \in PaymentEntry : StampBack(t, d)) \/ ReversePayment(t))
    BY <1>2, <1>7, HeardFrame
  <2>2. ReversePayment(t)
    BY <1>3, <2>1 DEF StampBack, Hears
  <2>3. entries' = [entries EXCEPT ![e].state = "reversed"]
    BY <1>3, <2>1, <2>2 DEF ReversePayment
  <2>4. QED
    BY <1>4, <1>5, <2>3 DEF Entry, EntriesOf
<1>8. QED
  BY <1>6, <1>7

LEMMA ReversedStaysTold ==
    ASSUME BooksInv, AclInv, [BooksNext]_allVars, NEW e \in PaymentEntry
    PROVE  ReversedIsTold(e)'
<1>1. TypeOK /\ [Next]_vars
  BY BooksStepRunsEngine DEF BooksInv, BooksTypeOK, Next
<1> SUFFICES ASSUME entries'[e] # None, entries'[e].state = "reversed",
                    NEW t, t = entries'[e].txn
             PROVE  RefundNamesAnEntry(t)'
  BY DEF ReversedIsTold
<1>2. entries[e] # None
  <2>1. \A u : entries'[e] # [txn |-> u, amount |-> rows[u].gross_amount, state |-> "draft"]
    OBVIOUS
  <2>2. QED
    BY <2>1, EntryFrame
<1>3. t = entries[e].txn /\ t \in Txn /\ entries[e] \in Entry
  BY <1>2, EntryStays DEF BooksInv, BooksTypeOK, Entry
<1>4. RefundNamesAnEntry(t)
  <2>1. CASE entries'[e] = entries[e]
    BY <1>2, <1>3, <2>1 DEF AclInv, ReversedIsTold
  <2>2. CASE /\ ReversePayment(t)
             /\ published[t][heard[t] + 1].payment_entry_id = e
    <3>1. e # None
      BY ConstantsAssumption
    <3>2. QED
      BY <1>3, <2>2, <3>1, HeardEvent DEF BooksInv, ReversePayment, RefundNamesAnEntry
  <2>3. CASE entries'[e] = [entries[e] EXCEPT !.state = "posted"]
    BY <1>3, <2>3 DEF Entry
  <2>4. \/ entries'[e] = entries[e]
        \/ entries'[e] = [entries[e] EXCEPT !.state = "posted"]
        \/ \E u \in Txn :
              /\ ReversePayment(u) /\ entries[e].txn = u
              /\ published[u][heard[u] + 1].payment_entry_id = e
    BY <1>2, EntryFrame
  <2>5. QED
    BY <1>3, <2>1, <2>2, <2>3, <2>4
<1>5. QED
  BY <1>1, <1>3, <1>4, NamingStays

LEMMA StepAcl == BooksInv /\ AclInv /\ [BooksNext]_allVars => AclInv'
  BY OneEntryStays, SettledStaysPosted, RefundStaysReversed, ReversedStaysTold DEF AclInv

LEMMA AclInvariant == BooksSpec => []AclInv
  BY BooksInvariant, InitAcl, StepAcl, PTL DEF BooksSpec

-----------------------------------------------------------------------------
(* The two nets of a charge.                                               *)

\* What a journal of the gateway, and what the payment journal of an entry,
\* moves on account a.
FeeMoves(t, a, i) == Moves(ledger[t][i].debit, ledger[t][i].credit, ledger[t][i].amount, a)

PaymentMoves(a, e) == Moves(Bank, Receivable, entries[e].amount, a)

LEMMA MovesIsInt ==
    ASSUME NEW debit, NEW credit, NEW amount \in Nat, NEW a
    PROVE  Moves(debit, credit, amount, a) \in Int
  BY DEF Moves

LEMMA FeeNetIs ==
    ASSUME TypeOK, NEW t \in Txn, NEW a
    PROVE  /\ DOMAIN ledger[t] = Booked(t, "original") \cup Booked(t, "reversal")
           /\ DOMAIN ledger[t] = {} => FeeNet(t, a) = 0
           /\ \A i : DOMAIN ledger[t] = {i} => FeeNet(t, a) = FeeMoves(t, a, i)
           /\ \A i, j : i # j /\ DOMAIN ledger[t] = {i, j} =>
                 FeeNet(t, a) = FeeMoves(t, a, i) + FeeMoves(t, a, j)
<1> DEFINE f == [i \in DOMAIN ledger[t] |-> FeeMoves(t, a, i)]
<1>1. ledger[t] \in Seq(Journal)
  BY DEF TypeOK
<1>2. DOMAIN ledger[t] = 1 .. Len(ledger[t]) /\ \A i \in DOMAIN ledger[t] : ledger[t][i] \in Journal
  BY <1>1
<1>3. FeeNet(t, a) = SumFunction(f)
  BY DEF FeeNet, FeeMoves
<1>4. DOMAIN f = DOMAIN ledger[t] /\ \A i \in DOMAIN f : f[i] = FeeMoves(t, a, i) /\ f[i] \in Int
  BY <1>2, MovesIsInt DEF Journal, FeeMoves
<1>5. DOMAIN ledger[t] = Booked(t, "original") \cup Booked(t, "reversal")
  BY <1>2 DEF Booked, Journal
<1> HIDE DEF f
<1>6. ASSUME DOMAIN ledger[t] = {} PROVE FeeNet(t, a) = 0
  BY <1>3, <1>4, <1>6, SumOfNone
<1>7. ASSUME NEW i, DOMAIN ledger[t] = {i} PROVE FeeNet(t, a) = FeeMoves(t, a, i)
  BY <1>3, <1>4, <1>7, SumOfOne
<1>8. ASSUME NEW i, NEW j, i # j, DOMAIN ledger[t] = {i, j}
      PROVE  FeeNet(t, a) = FeeMoves(t, a, i) + FeeMoves(t, a, j)
  BY <1>3, <1>4, <1>8, SumOfTwo
<1>9. QED
  BY <1>5, <1>6, <1>7, <1>8

LEMMA PaymentNetIs ==
    ASSUME BooksTypeOK, NEW t \in Txn, NEW a
    PROVE  LET S == {d \in EntriesOf(t) : entries[d].state = "posted"} IN
           /\ S = {} => PaymentNet(t, a) = 0
           /\ \A e : S = {e} => PaymentNet(t, a) = PaymentMoves(a, e)
<1> DEFINE S == {d \in EntriesOf(t) : entries[d].state = "posted"}
           f == [e \in S |-> PaymentMoves(a, e)]
<1>1. PaymentNet(t, a) = SumFunction(f)
  BY DEF PaymentNet, PaymentMoves
<1>2. \A e \in S : entries[e].amount \in Nat
  BY DEF BooksTypeOK, EntriesOf, Entry
<1>3. DOMAIN f = S /\ \A e \in S : f[e] = PaymentMoves(a, e) /\ f[e] \in Int
  BY <1>2, MovesIsInt DEF PaymentMoves
<1> HIDE DEF f, S
<1>4. ASSUME S = {} PROVE PaymentNet(t, a) = 0
  BY <1>1, <1>3, <1>4, SumOfNone
<1>5. ASSUME NEW e, S = {e} PROVE PaymentNet(t, a) = PaymentMoves(a, e)
  BY <1>1, <1>3, <1>5, SumOfOne
<1>6. QED
  BY <1>4, <1>5 DEF S

\* A journal and its mirror cancel, whatever the accounts.
LEMMA MirrorCancels ==
    ASSUME NEW x, NEW y, NEW amount \in Nat, NEW a
    PROVE  Moves(x, y, amount, a) + Moves(y, x, amount, a) = 0
  BY DEF Moves

-----------------------------------------------------------------------------
(* The ledger, once nothing is under way.                                  *)

\* The provider's accounts are the ones it was configured with.
AsConfigured == accounts \in NewAccounts

LEMMA AccountsInvariant == BooksSpec => []AsConfigured
<1>1. BooksInit => AsConfigured
  BY DEF BooksInit, Init, AsConfigured
<1>2. AsConfigured /\ [EngineNext]_vars => AsConfigured'
  BY DEF AsConfigured, EngineNext, WorkerStep, Proceeds, SettleRead, RefundRead, PostBooked, PostReused,
         PostRejected, MarkFeeFailed, TransitionToSettled, TransitionToRefunded, Publish, Reply,
         LinkPaymentEntry, vars
<1>3. QED
  BY <1>1, <1>2, BooksStepRunsEngine, PTL DEF BooksSpec

\* All that is known of a state of the composition.
Known ==
    /\ TypeOK /\ SeamInv /\ FeeInv /\ AckInv /\ RefundInv /\ ReversalInv
    /\ HeldInv /\ TransitionIsAnnounced /\ FeeBookedOnce
    /\ BooksInv /\ AclInv
    /\ AsConfigured

\* A row is one of open, settled and refunded; the fee of a configured provider
\* goes from the bank to an account that is neither of the payment's.
LEMMA Charges ==
    ASSUME Known, NEW t \in Txn
    PROVE  /\ rows[t] \in Row
           /\ rows[t].gross_amount \in Nat /\ rows[t].fee_amount \in Nat
           /\ rows[t].status \in OpenStatus \cup Terminal
           /\ HasFeePost(rows[t]) =>
                 accounts.settlement = Bank /\ accounts.fee \notin {Bank, Receivable}
  BY BooksAssumption
  DEF Known, TypeOK, Row, AckInv, NeverFailed, HasFeePost, AsConfigured

\* Nothing of an open row is on the books.
LEMMA OpenReconciles ==
    ASSUME Known, NEW t \in Txn, Drained(t), rows[t].status \in OpenStatus, NEW a
    PROVE  Net(t, a) = 0
<1>1. ledger[t] = <<>>
  <2>1. ~\E w \in Worker : InTransition(w, "settle", t)
    BY DEF Drained, AtRest, InTransition, Idle
  <2>2. QED
    BY <2>1 DEF Known, HeldInv, OpenFeeIsHeld
<1>2. DOMAIN ledger[t] = {}
  BY <1>1
<1>3. EntriesOf(t) = {}
  BY DEF Known, AclInv, EntryIsTold, SeamInv, Reached, Kind, OpenStatus, Terminal
<1>4. FeeNet(t, a) = 0
  BY <1>2, FeeNetIs DEF Known
<1>5. PaymentNet(t, a) = 0
  BY <1>3, PaymentNetIs DEF Known, BooksInv
<1>6. QED
  BY <1>4, <1>5 DEF Net

\* The journals of a settled or refunded row: the fee, and its reversal if the
\* row is refunded.
LEMMA JournalsOf ==
    ASSUME Known, SinkDedups, NEW t \in Txn, Drained(t), rows[t].status \in Terminal
    PROVE  IF ~HasFeePost(rows[t]) THEN DOMAIN ledger[t] = {}
           ELSE /\ ledger[t][rows[t].fee_post_id] = compose_fee_post(rows[t])
                /\ rows[t].status = "settled" => DOMAIN ledger[t] = {rows[t].fee_post_id}
                /\ rows[t].status = "refunded" /\ DedupKey # "source_id" =>
                      \E j : /\ j # rows[t].fee_post_id
                             /\ DOMAIN ledger[t] = {rows[t].fee_post_id, j}
                             /\ ledger[t][j] = compose_fee_reversal(rows[t])
<1> DEFINE i == rows[t].fee_post_id
<1>1. DOMAIN ledger[t] = Booked(t, "original") \cup Booked(t, "reversal")
  BY FeeNetIs DEF Known
<1>2. Booked(t, "original") = IF HasFeePost(rows[t]) THEN {i} ELSE {}
  BY DEF Known, FeeBookedOnce
<1>3. CASE ~HasFeePost(rows[t])
  BY <1>1, <1>2, <1>3 DEF Known, RefundInv, ReversalsCurrent
<1>4. CASE HasFeePost(rows[t])
  <2>1. ledger[t][i] = compose_fee_post(rows[t])
    BY <1>2, <1>4 DEF Known, RefundInv, FeeJournalsCurrent
  <2>2. ASSUME rows[t].status = "settled" PROVE DOMAIN ledger[t] = {i}
    <3>1. ~\E w \in Worker : InTransition(w, "refund", t)
      BY DEF Drained, AtRest, InTransition, Idle
    <3>2. Booked(t, "reversal") = {}
      BY <2>2, <3>1 DEF Known, HeldInv, HalfRefundIsHeld
    <3>3. QED
      BY <1>1, <1>2, <1>4, <3>2
  <2>3. ASSUME rows[t].status = "refunded", DedupKey # "source_id"
        PROVE  \E j : j # i /\ DOMAIN ledger[t] = {i, j}
                      /\ ledger[t][j] = compose_fee_reversal(rows[t])
    <3>1. PICK j \in Booked(t, "reversal") : TRUE
      BY <1>4, <2>3 DEF Known, RefundInv, RefundedReversed
    <3>2. Booked(t, "reversal") = {j}
      BY <3>1 DEF Known, ReversalInv, OneReversal
    <3>3. ledger[t][j] = compose_fee_reversal(rows[t])
      BY <3>1 DEF Known, RefundInv, ReversalsCurrent
    <3>4. j # i
      BY <2>1, <3>3 DEF compose_fee_post, compose_fee_reversal
    <3>5. QED
      BY <1>1, <1>2, <1>4, <3>2, <3>3, <3>4
  <2>4. QED
    BY <1>4, <2>1, <2>2, <2>3
<1>5. QED
  BY <1>3, <1>4

\* The entry of a row that left the open states is posted, and stays so unless
\* the row's refund named it.
LEMMA GrossStands ==
    ASSUME Known, NEW t \in Txn, Drained(t), rows[t].status \in Terminal,
           ~RefundNamesAnEntry(t), NEW a
    PROVE  PaymentNet(t, a) = Moves(Bank, Receivable, rows[t].gross_amount, a)
<1> DEFINE S == {d \in EntriesOf(t) : entries[d].state = "posted"}
<1>1. PICK e \in EntriesOf(t) : entries[e].state # "draft"
  <2>1. \A w \in Worker : ~AboutToPublish(w, t, "settled")
    BY DEF Drained, AtRest, AboutToPublish, Idle
  <2>2. PICK i \in 1 .. Len(published[t]) : published[t][i].kind = "settled"
    BY <2>1 DEF Known, TransitionIsAnnounced, Announced
  <2>3. QED
    BY <2>2 DEF Drained, Known, AclInv, SettledIsPosted
<1>2. e \in PaymentEntry /\ entries[e] \in Entry /\ entries[e].txn = t
  BY <1>1 DEF EntriesOf, Known, BooksInv, BooksTypeOK
<1>3. entries[e].state # "reversed"
  BY <1>1, <1>2 DEF Known, AclInv, ReversedIsTold, EntriesOf
<1>4. S = {e}
  BY <1>1, <1>2, <1>3 DEF Known, AclInv, OneEntry, Entry
<1>5. entries[e].amount = rows[t].gross_amount
  BY <1>1, <1>2 DEF Known, BooksInv, EntryOfGross, EntriesOf
<1>6. QED
  BY <1>4, <1>5, PaymentNetIs DEF Known, BooksInv, PaymentMoves

LEMMA SettledReconciles ==
    ASSUME Known, SinkDedups, NEW t \in Txn, Drained(t), rows[t].status = "settled"
    PROVE  LET fee == IF HasFeePost(rows[t]) THEN rows[t].fee_amount ELSE 0 IN
           /\ Net(t, Bank) = rows[t].gross_amount - fee
           /\ Net(t, Receivable) = 0 - rows[t].gross_amount
           /\ HasFeePost(rows[t]) => Net(t, accounts.fee) = fee
<1> DEFINE gross == rows[t].gross_amount
<1>1. ~RefundNamesAnEntry(t)
  <2>1. ~Announced(t, "refunded")
    BY DEF Known, SeamInv, Reached, Kind
  <2>2. QED
    BY <2>1 DEF RefundNamesAnEntry, Announced
<1>2. \A a : PaymentNet(t, a) = Moves(Bank, Receivable, gross, a)
  BY <1>1, GrossStands DEF Terminal
<1>3. gross \in Nat /\ rows[t].fee_amount \in Nat
  BY Charges
<1>4. CASE ~HasFeePost(rows[t])
  <2>1. DOMAIN ledger[t] = {}
    BY <1>4, JournalsOf DEF Terminal
  <2>2. \A a : FeeNet(t, a) = 0
    BY <2>1, FeeNetIs DEF Known
  <2>3. QED
    BY <1>2, <1>3, <1>4, <2>2, BooksAssumption DEF Net, Moves
<1>5. CASE HasFeePost(rows[t])
  <2>1. /\ ledger[t][rows[t].fee_post_id] = compose_fee_post(rows[t])
        /\ DOMAIN ledger[t] = {rows[t].fee_post_id}
    BY <1>5, JournalsOf DEF Terminal
  <2>2. \A a : FeeNet(t, a) = FeeMoves(t, a, rows[t].fee_post_id)
    BY <2>1, FeeNetIs DEF Known
  <2>3. accounts.settlement = Bank /\ accounts.fee \notin {Bank, Receivable}
    BY <1>5, Charges
  <2>4. \A a : FeeNet(t, a) = Moves(accounts.fee, Bank, rows[t].fee_amount, a)
    BY <2>1, <2>2, <2>3 DEF FeeMoves, compose_fee_post
  <2>5. QED
    BY <1>2, <1>3, <1>5, <2>3, <2>4, BooksAssumption DEF Net, Moves
<1>6. QED
  BY <1>4, <1>5

LEMMA RefundedReconciles ==
    ASSUME Known, DedupKey = "idempotency_key", NEW t \in Txn, Drained(t),
           rows[t].status = "refunded", NEW a
    PROVE  /\ FeeNet(t, a) = 0
           /\ PaymentNet(t, a) = IF RefundNamesAnEntry(t) THEN 0
                                 ELSE Moves(Bank, Receivable, rows[t].gross_amount, a)
<1> SinkDedups
  BY DEF SinkDedups
<1>1. FeeNet(t, a) = 0
  <2>1. CASE ~HasFeePost(rows[t])
    BY <2>1, JournalsOf, FeeNetIs DEF Terminal, Known
  <2>2. CASE HasFeePost(rows[t])
    <3> DEFINE i == rows[t].fee_post_id
    <3>1. PICK j : /\ ledger[t][i] = compose_fee_post(rows[t])
                   /\ j # i /\ DOMAIN ledger[t] = {i, j}
                   /\ ledger[t][j] = compose_fee_reversal(rows[t])
      BY <2>2, JournalsOf DEF Terminal
    <3>2. FeeNet(t, a) = FeeMoves(t, a, i) + FeeMoves(t, a, j)
      BY <3>1, FeeNetIs DEF Known
    <3>3. /\ FeeMoves(t, a, i) = Moves(accounts.fee, accounts.settlement, rows[t].fee_amount, a)
          /\ FeeMoves(t, a, j) = Moves(accounts.settlement, accounts.fee, rows[t].fee_amount, a)
      BY <3>1 DEF FeeMoves, compose_fee_post, compose_fee_reversal
    <3>4. QED
      BY <3>2, <3>3, Charges, MirrorCancels
  <2>3. QED
    BY <2>1, <2>2
<1>2. ASSUME RefundNamesAnEntry(t) PROVE PaymentNet(t, a) = 0
  <2>1. PICK i \in 1 .. Len(published[t]) :
            published[t][i].kind = "refunded" /\ published[t][i].payment_entry_id # None
    BY <1>2 DEF RefundNamesAnEntry
  <2> DEFINE e == published[t][i].payment_entry_id
  <2>2. e \in EntriesOf(t)
    BY <2>1 DEF Known, BooksInv, RefundFindsItsEntry
  <2>3. entries[e].state = "reversed"
    BY <2>1 DEF Drained, Known, AclInv, RefundIsReversed
  <2>4. {d \in EntriesOf(t) : entries[d].state = "posted"} = {}
    BY <2>2, <2>3 DEF Known, AclInv, OneEntry
  <2>5. QED
    BY <2>4, PaymentNetIs DEF Known, BooksInv
<1>3. ASSUME ~RefundNamesAnEntry(t)
      PROVE  PaymentNet(t, a) = Moves(Bank, Receivable, rows[t].gross_amount, a)
  BY <1>3, GrossStands DEF Terminal
<1>4. QED
  BY <1>1, <1>2, <1>3

LEMMA KnownInvariant == BooksSpec => []Known
<1>1. BooksSpec => Spec
  BY BooksRunEngine, UninterruptedRuns, PTL
<1>2. Spec => [](TypeOK /\ SeamInv)
  BY TypeCorrect, InitSeam, StepSeam, PTL DEF Spec
<1>3. Spec => [](FeeInv /\ AckInv /\ RefundInv /\ ReversalInv /\ FeeBookedOnce)
  BY AckInvariant, RefundInvariant, ReversalInvariant, FeeIsBookedOnce, PTL
<1>4. BooksSpec => [](HeldInv /\ TransitionIsAnnounced)
  BY BooksRunEngine, HeldInvariant, NothingIsLost, PTL
<1>5. QED
  BY <1>1, <1>2, <1>3, <1>4, BooksInvariant, AclInvariant, AccountsInvariant, PTL DEF Known

\* The journals of a charge reconcile whenever nothing is under way for it, if
\* accounting dedups on idempotency_key: an open row has left nothing, a settled
\* one the gross less the fee in the bank; a refund takes back the fee, and
\* either the whole gross or, when its event named no entry, nothing of it.
THEOREM BooksAlwaysReconcile ==
    ASSUME DedupKey = "idempotency_key" PROVE BooksSpec => []BooksReconcile
<1>1. Known => BooksReconcile
  <2> SUFFICES ASSUME Known, NEW t \in Txn, Drained(t)
               PROVE  LET fee == IF HasFeePost(rows[t]) THEN rows[t].fee_amount ELSE 0 IN
                      /\ rows[t].status \in OpenStatus => \A a \in Account : Net(t, a) = 0
                      /\ rows[t].status = "settled" =>
                            /\ Net(t, Bank) = rows[t].gross_amount - fee
                            /\ Net(t, Receivable) = 0 - rows[t].gross_amount
                            /\ HasFeePost(rows[t]) => Net(t, accounts.fee) = fee
                      /\ rows[t].status = "refunded" =>
                            /\ \A a \in Account : FeeNet(t, a) = 0
                            /\ IF RefundNamesAnEntry(t) THEN GrossIsReversed(t)
                               ELSE GrossIsBooked(t)
    BY DEF BooksReconcile
  <2>1. SinkDedups
    BY DEF SinkDedups
  <2>2. CASE rows[t].status = "refunded"
    BY <2>2, RefundedReconciles DEF GrossIsReversed, GrossIsBooked, OpenStatus
  <2>3. CASE rows[t].status # "refunded"
    BY <2>1, <2>3, OpenReconciles, SettledReconciles
  <2>4. QED
    BY <2>2, <2>3
<1>2. QED
  BY <1>1, KnownInvariant, PTL

\* Beside an ACL too, a refund whose request does not vanish is all or nothing.
THEOREM BooksRefundWhole == BooksSpec => []RefundIsAllOrNothing
  BY BooksRunEngine, RefundIsWhole, PTL

=============================================================================
