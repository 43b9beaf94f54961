--------------------------- MODULE SettlementSeam ---------------------------
(***************************************************************************)
(* What the settlement engine promises to the accounting control layer     *)
(* (ACL) on the other side of the seam: a gateway transaction settles at   *)
(* most once and is refunded at most once, only after it settled; each of  *)
(* the two transitions owes the ACL one event; an owed event is delivered  *)
(* at most once, or lost when the process dies between the commit and the  *)
(* in-process publish.  How the transition is decided -- webhooks,         *)
(* retries, concurrent requests, the fee post -- is left to the detailed   *)
(* module GatewaySettlement, which implements this one.                    *)
(***************************************************************************)
EXTENDS Sequences

CONSTANT Txn            \* the gateway transactions

VARIABLES
    phase,              \* phase[t]: how far the life of t has come
    owed,               \* the events whose transition committed, not yet published
    stream              \* stream[t]: the kinds of the events published for t, in order

vars == <<phase, owed, stream>>

Kind == {"settled", "refunded"}

Init ==
    /\ phase = [t \in Txn |-> "open"]
    /\ owed = {}
    /\ stream = [t \in Txn |-> <<>>]

\* t goes from one phase to the next and owes the event of the new phase.
Commit(t, from, to) ==
    /\ phase[t] = from
    /\ phase' = [phase EXCEPT ![t] = to]
    /\ owed' = owed \cup {<<t, to>>}
    /\ UNCHANGED stream

Settle(t) == Commit(t, "open", "settled")

Refund(t) == Commit(t, "settled", "refunded")

Deliver(t, k) ==
    /\ <<t, k>> \in owed
    /\ owed' = owed \ {<<t, k>>}
    /\ stream' = [stream EXCEPT ![t] = Append(@, k)]
    /\ UNCHANGED phase

Lose(t, k) ==
    /\ <<t, k>> \in owed
    /\ owed' = owed \ {<<t, k>>}
    /\ UNCHANGED <<phase, stream>>

ReliableNext ==
    \E t \in Txn :
        \/ Settle(t)
        \/ Refund(t)
        \/ \E k \in Kind : Deliver(t, k)

Next == ReliableNext \/ \E t \in Txn, k \in Kind : Lose(t, k)

Spec == Init /\ [][Next]_vars

\* As long as no process dies, nothing that is owed is lost.
ReliableSafety == Init /\ [][ReliableNext]_vars

ReliableSpec ==
    /\ ReliableSafety
    /\ \A t \in Txn, k \in Kind : WF_vars(Deliver(t, k))

=============================================================================
