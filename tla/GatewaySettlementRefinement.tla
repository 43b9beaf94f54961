--------------------- MODULE GatewaySettlementRefinement --------------------
(***************************************************************************)
(* The settlement engine implements the seam: under the mapping of         *)
(* GatewaySettlement every step of the engine is a step of SettlementSeam  *)
(* or leaves the seam unchanged.                                           *)
(***************************************************************************)
EXTENDS GatewaySettlementProofs

LEMMA OwedPairs ==
    /\ Owed \subseteq Txn \X Kind
    /\ \A t \in Txn, k \in Kind :
          <<t, k>> \in Owed <=> \E w \in Worker : AboutToPublish(w, t, k)
  BY DEF Owed, Kind

\* Only the publish itself ends a request's time to publish, or a crash, which
\* is no step of EngineNext.
LEMMA PublishingStays ==
    ASSUME TypeOK, [EngineNext]_vars
    PROVE  \/ \A w \in Worker : job[w].pc = "publish" => job'[w] = job[w]
           \/ \E w \in Worker : Publish(w)
<1>1. CASE \E w \in Worker, t \in Txn : SettleRead(w, t) \/ RefundRead(w, t)
  BY <1>1 DEF TypeOK, SettleRead, RefundRead, Enter, Finish, Goto, Idle
<1>2. CASE \E w \in Worker : PostBooked(w) \/ PostReused(w) \/ PostRejected(w)
  BY <1>2 DEF TypeOK, PostBooked, PostReused, PostRejected, Acknowledge, Goto
<1>3. CASE \E w \in Worker : MarkFeeFailed(w) \/ Reply(w)
  BY <1>3 DEF TypeOK, MarkFeeFailed, Reply, Finish, Goto
<1>4. CASE \E w \in Worker : TransitionToSettled(w) \/ TransitionToRefunded(w)
  BY <1>4 DEF TypeOK, TransitionToSettled, TransitionToRefunded, Finish, Goto
<1>5. CASE UNCHANGED job
  BY <1>5
<1>6. QED
  BY <1>1, <1>2, <1>3, <1>4, <1>5
  DEF EngineNext, WorkerStep, Proceeds, LinkPaymentEntry, vars

\* Rows that have not settled, workers that do nothing and no events: the seam
\* at its start.
LEMMA StartMaps ==
    ASSUME \A t \in Txn : rows[t].status \notin Terminal,
           job = [w \in Worker |-> Idle],
           published = [t \in Txn |-> <<>>]
    PROVE  Seam!Init
<1>1. Phase = [t \in Txn |-> "open"]
  BY DEF Phase
<1>2. Owed = {}
  BY DEF Owed, AboutToPublish, Idle
<1>3. Stream = [t \in Txn |-> <<>>]
  <2>1. ASSUME NEW t \in Txn
        PROVE  [i \in 1 .. Len(published[t]) |-> published[t][i].kind] = <<>>
    <3>1. published[t] = <<>>
      OBVIOUS
    <3>2. 1 .. Len(published[t]) = {}
      BY <3>1
    <3>3. QED
      BY <3>2
  <2>2. QED
    BY <2>1 DEF Stream
<1>4. QED
  BY <1>1, <1>2, <1>3 DEF Seam!Init

LEMMA InitMaps == Init => Seam!Init
<1> SUFFICES ASSUME Init PROVE Seam!Init
  OBVIOUS
<1>1. \A t \in Txn : rows[t] \in NewRow
  BY DEF Init
<1>2. \A t \in Txn : rows[t].status \notin Terminal
  BY <1>1, NewRowAssumption DEF OpenStatus, Terminal
<1>3. QED
  BY <1>2, StartMaps DEF Init

\* Nothing about to be published or published changes, and no row settles or is
\* refunded: the seam stands still.
LEMMA StillMaps ==
    ASSUME \A t \in Txn : \/ rows'[t].status = rows[t].status
                          \/ {rows[t].status, rows'[t].status} \cap Terminal = {},
           \A w \in Worker, t \in Txn, k \in Kind :
              AboutToPublish(w, t, k)' <=> AboutToPublish(w, t, k),
           published' = published
    PROVE  UNCHANGED Seam!vars
<1>1. Phase' = Phase
  BY DEF Phase
<1>2. Owed' = Owed
  BY DEF Owed, Kind
<1>3. Stream' = Stream
  BY DEF Stream
<1>4. QED
  BY <1>1, <1>2, <1>3 DEF Seam!vars

\* Neither a status, nor a published event, nor a request about to publish
\* changes.
LEMMA QuietMaps ==
    ASSUME Quiet, \A w \in Worker : job[w].pc = "publish" => job'[w] = job[w]
    PROVE  UNCHANGED Seam!vars
<1>1. \A w \in Worker, t \in Txn, k \in Kind :
        AboutToPublish(w, t, k)' <=> AboutToPublish(w, t, k)
  BY DEF Quiet, AboutToPublish
<1>2. QED
  BY <1>1, StillMaps DEF Quiet

\* The two transitions are the two commits of the seam.
LEMMA MoveMaps ==
    ASSUME NEW w \in Worker, NEW t \in Txn, NEW k \in Kind,
           job'[w].pc = "publish", job'[w].txn = t, job'[w].event.kind = k,
           job[w].pc # "publish",
           \A v \in Worker \ {w} : job'[v] = job[v],
           rows'[t].status = k,
           \A u \in Txn \ {t} : rows'[u] = rows[u],
           published' = published
    PROVE  Seam!Commit(t, Phase[t], k)
<1>1. Phase' = [Phase EXCEPT ![t] = k]
  BY DEF Phase, Terminal, Kind
<1>2. Owed' = Owed \cup {<<t, k>>}
  <2>1. \A v \in Worker, u \in Txn, l \in Kind :
          AboutToPublish(v, u, l)' <=> AboutToPublish(v, u, l) \/ (v = w /\ u = t /\ l = k)
    BY DEF AboutToPublish
  <2>2. QED
    BY <2>1 DEF Owed, Kind
<1>3. Stream' = Stream
  BY DEF Stream
<1>4. QED
  BY <1>1, <1>2, <1>3 DEF Seam!Commit

LEMMA PublishMaps ==
    ASSUME TypeOK, SeamInv, NEW w \in Worker, Publish(w)
    PROVE  \E t \in Txn, k \in Kind : Seam!Deliver(t, k)
<1>1. PICK t \in Txn, ev \in Event : job[w].txn = t /\ job[w].event = ev
  BY JobAt DEF TypeOK, Publish, Publishing
<1>2. PICK k \in Kind : ev.kind = k
  BY DEF Event, Kind
<1>3. /\ published' = [published EXCEPT ![t] = Append(published[t], ev)]
      /\ rows' = rows
      /\ job[w].pc = "publish" /\ job'[w].pc = "done"
      /\ \A v \in Worker \ {w} : job'[v] = job[v]
  BY <1>1 DEF TypeOK, Publish, Finish, Goto
<1>4. AboutToPublish(w, t, k)
  BY <1>1, <1>2, <1>3 DEF AboutToPublish
<1>5. <<t, k>> \in Owed
  BY <1>4, OwedPairs
<1>6. Owed' = Owed \ {<<t, k>>}
  <2>1. \A v \in Worker, u \in Txn, l \in Kind :
          AboutToPublish(v, u, l)' <=> AboutToPublish(v, u, l) /\ v # w
    BY <1>3 DEF AboutToPublish
  <2>2. \A u \in Txn, l \in Kind : AboutToPublish(w, u, l) <=> u = t /\ l = k
    BY <1>1, <1>2, <1>3 DEF AboutToPublish
  <2>3. \A v \in Worker : AboutToPublish(v, t, k) => v = w
    BY <1>4 DEF SeamInv
  <2>4. \A u \in Txn, l \in Kind :
          (\E v \in Worker : AboutToPublish(v, u, l)') <=>
             (\E v \in Worker : AboutToPublish(v, u, l)) /\ ~(u = t /\ l = k)
    BY <2>1, <2>2, <2>3
  <2>5. QED
    BY <2>4 DEF Owed, Kind
<1>7. Stream' = [Stream EXCEPT ![t] = Append(Stream[t], k)]
  <2> DEFINE n == Len(published[t])
  <2>1. published[t] \in Seq(Event) /\ published'[t] = Append(published[t], ev)
    BY <1>3 DEF TypeOK
  <2>2. /\ n \in Nat /\ Len(published'[t]) = n + 1
        /\ \A i \in 1 .. n : published'[t][i] = published[t][i]
        /\ published'[t][n + 1] = ev
    BY <2>1, Appended
  <2>3. Stream[t] = [i \in 1 .. n |-> published[t][i].kind]
    BY DEF Stream
  <2>4. Stream'[t] = [i \in 1 .. n + 1 |-> published'[t][i].kind]
    BY <2>2 DEF Stream
  <2>5. \A i \in 1 .. n : published[t][i] \in Event
    BY <2>1
  <2>6. Stream[t] \in Seq(Kind) /\ Len(Stream[t]) = n
    BY <2>2, <2>3, <2>5 DEF Event, Kind
  <2>7. Stream'[t] = Append(Stream[t], k)
    BY <1>2, <2>2, <2>3, <2>4, <2>6
  <2>8. \A u \in Txn \ {t} : Stream'[u] = Stream[u]
    BY <1>3 DEF Stream
  <2>9. QED
    BY <2>7, <2>8 DEF Stream
<1>8. Phase' = Phase
  BY <1>3 DEF Phase
<1>9. QED
  BY <1>5, <1>6, <1>7, <1>8 DEF Seam!Deliver

\* A crash between the commit and the publish loses the event, and only that.
LEMMA AbandonMaps ==
    ASSUME TypeOK, SeamInv, NEW w \in Worker, Abandon(w), job[w].pc = "publish"
    PROVE  \E t \in Txn, k \in Kind : Seam!Lose(t, k)
<1>1. PICK t \in Txn, ev \in Event : job[w].txn = t /\ job[w].event = ev
  BY JobAt DEF TypeOK, Publishing
<1>2. PICK k \in Kind : ev.kind = k
  BY DEF Event, Kind
<1>3. /\ job'[w].pc = "idle" /\ \A v \in Worker \ {w} : job'[v] = job[v]
      /\ rows' = rows /\ published' = published
  BY DEF TypeOK, Abandon, Goto, Idle
<1>4. AboutToPublish(w, t, k)
  BY <1>1, <1>2 DEF AboutToPublish
<1>5. Owed' = Owed \ {<<t, k>>}
  <2>1. \A v \in Worker, u \in Txn, l \in Kind :
          AboutToPublish(v, u, l)' <=> AboutToPublish(v, u, l) /\ v # w
    BY <1>3 DEF AboutToPublish
  <2>2. \A u \in Txn, l \in Kind : AboutToPublish(w, u, l) <=> u = t /\ l = k
    BY <1>1, <1>2 DEF AboutToPublish
  <2>3. \A v \in Worker : AboutToPublish(v, t, k) => v = w
    BY <1>4 DEF SeamInv
  <2>4. \A u \in Txn, l \in Kind :
          (\E v \in Worker : AboutToPublish(v, u, l)') <=>
             (\E v \in Worker : AboutToPublish(v, u, l)) /\ ~(u = t /\ l = k)
    BY <2>1, <2>2, <2>3
  <2>5. QED
    BY <2>4 DEF Owed, Kind
<1>6. Phase' = Phase /\ Stream' = Stream
  BY <1>3 DEF Phase, Stream
<1>7. <<t, k>> \in Owed
  BY <1>4, OwedPairs
<1>8. QED
  BY <1>5, <1>6, <1>7 DEF Seam!Lose

LEMMA ReliableStepMaps ==
    TypeOK /\ SeamInv /\ [EngineNext]_vars => [Seam!ReliableNext]_Seam!vars
<1> SUFFICES ASSUME TypeOK, SeamInv, [EngineNext]_vars
             PROVE  [Seam!ReliableNext]_Seam!vars
  OBVIOUS
<1>1. CASE \E w \in Worker : TransitionToSettled(w) /\ MaySettle(job[w].txn)
  <2>1. PICK w \in Worker : TransitionToSettled(w) /\ MaySettle(job[w].txn)
    BY <1>1
  <2>2. PICK t \in Txn : job[w].txn = t
    BY <2>1, SettledMoves
  <2>3. Phase[t] = "open"
    BY <2>1, <2>2, SettledMoves DEF Phase, OpenStatus, Terminal
  <2>4. Seam!Commit(t, Phase[t], "settled")
    BY <2>1, <2>2, SettledMoves, MoveMaps DEF Kind, TransitionToSettled
  <2>5. QED
    BY <2>3, <2>4 DEF Seam!ReliableNext, Seam!Settle
<1>2. CASE \E w \in Worker : TransitionToRefunded(w) /\ MayRefund(job[w].txn)
  <2>1. PICK w \in Worker : TransitionToRefunded(w) /\ MayRefund(job[w].txn)
    BY <1>2
  <2>2. PICK t \in Txn : job[w].txn = t
    BY <2>1, RefundedMoves
  <2>3. Phase[t] = "settled"
    BY <2>1, <2>2, RefundedMoves DEF Phase, Terminal
  <2>4. Seam!Commit(t, Phase[t], "refunded")
    BY <2>1, <2>2, RefundedMoves, MoveMaps DEF Kind, TransitionToRefunded
  <2>5. QED
    BY <2>3, <2>4 DEF Seam!ReliableNext, Seam!Refund
<1>3. CASE \E w \in Worker : Publish(w)
  BY <1>3, PublishMaps DEF Seam!ReliableNext, Seam!Kind, Kind
<1>4. CASE Quiet /\ \A w \in Worker : job[w].pc = "publish" => job'[w] = job[w]
  BY <1>4, QuietMaps
<1>5. [Next]_vars
  BY DEF Next
<1>6. QED
  BY <1>1, <1>2, <1>3, <1>4, <1>5, QuietSteps, PublishingStays

LEMMA StepMaps == TypeOK /\ SeamInv /\ [Next]_vars => [Seam!Next]_Seam!vars
<1> SUFFICES ASSUME TypeOK, SeamInv, [Next]_vars PROVE [Seam!Next]_Seam!vars
  OBVIOUS
<1>1. CASE [EngineNext]_vars
  BY <1>1, ReliableStepMaps DEF Seam!Next
<1>2. CASE \E w \in Worker : Abandon(w) /\ job[w].pc = "publish"
  BY <1>2, AbandonMaps DEF Seam!Next, Seam!Kind, Kind
<1>3. CASE \E w \in Worker : Abandon(w) /\ job[w].pc # "publish"
  <2>1. PICK w \in Worker : Abandon(w) /\ job[w].pc # "publish"
    BY <1>3
  <2>2. Quiet /\ \A v \in Worker : job[v].pc = "publish" => job'[v] = job[v]
    BY <2>1 DEF TypeOK, Abandon, Goto, Idle, Quiet
  <2>3. QED
    BY <2>2, QuietMaps
<1>4. QED
  BY <1>1, <1>2, <1>3 DEF Next

LEMMA SeamInvariant == Spec => [](TypeOK /\ SeamInv)
  BY TypeCorrect, InitSeam, StepSeam, PTL DEF Spec

\* Whatever the interleaving, the ACL sees a behaviour it was promised: rows
\* settle at most once, are refunded only afterwards, and each transition owes
\* one event, delivered at most once or lost in a crash.
THEOREM EngineImplementsSeam == Spec => ImplementsSeam
  BY SeamInvariant, InitMaps, StepMaps, PTL DEF Spec, ImplementsSeam, Seam!Spec

\* While no request vanishes, every step of the engine is one of the seam that
\* loses nothing; that what is owed is delivered in the end is liveness.
THEOREM EngineLosesNothing == UninterruptedSpec => Seam!ReliableSafety
<1>1. UninterruptedSpec => Spec
  <2>1. [EngineNext]_vars => [Next]_vars
    BY DEF Next
  <2>2. QED
    BY <2>1, PTL DEF UninterruptedSpec, Spec
<1>2. QED
  BY <1>1, SeamInvariant, InitMaps, ReliableStepMaps, PTL
  DEF UninterruptedSpec, Seam!ReliableSafety

=============================================================================
