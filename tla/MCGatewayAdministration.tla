---------------------- MODULE MCGatewayAdministration ----------------------
(* Small instances of the engine under administration for TLC. *)
EXTENDS GatewayAdministration, TLC

CONSTANTS t1, t2, k1, a1, a2

\* Two rows of the same provider transaction: at most one of them is live.
MCKeyOf == [t \in {t1, t2} |-> k1]

MCNewRow ==
    {[status |-> "pending", posting_state |-> "pending", fee_post_id |-> 0,
      payment_entry_id |-> None, gross_amount |-> 10, fee_amount |-> 3,
      currency |-> "IDR", deleted |-> FALSE]}

\* Not configured yet, and configured in two ways.
MCAccounts ==
    {[fee |-> None, settlement |-> a2],
     [fee |-> a1, settlement |-> a2], [fee |-> a2, settlement |-> a1]}

Symmetry == Permutations(Worker) \cup Permutations(Txn)

=============================================================================
