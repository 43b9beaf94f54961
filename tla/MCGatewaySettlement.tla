------------------------ MODULE MCGatewaySettlement -------------------------
(* Small instances of the settlement engine for TLC. *)
EXTENDS GatewaySettlement, TLC

\* A row as charge creation leaves it.
FreshRow(st, fee, cur) ==
    [status |-> st, posting_state |-> "pending", fee_post_id |-> 0,
     payment_entry_id |-> None, gross_amount |-> 10, fee_amount |-> fee,
     currency |-> cur, deleted |-> FALSE]

\* With and without a fee, in every open status, in rupiah or not.
MCNewRow ==
    {FreshRow("pending", fee, "IDR") : fee \in {0, 3}}
        \cup {FreshRow(st, 3, "IDR") : st \in {"authorized", "captured"}}
        \cup {FreshRow("pending", 3, "other")}

\* A rupiah charge with a fee.
MCFeeRow == {FreshRow("pending", 3, "IDR")}

\* The provider with two different GL accounts: every fee is posted.
MCConfigured ==
    {acc \in [fee: Account, settlement: Account] : acc.fee # acc.settlement}

\* The provider with its two GL accounts, or with either one missing.
MCAccounts ==
    {acc \in Accounts : acc.fee = None \/ acc.settlement = None \/ acc.fee # acc.settlement}

Symmetry == Permutations(Worker) \cup Permutations(PaymentEntry)
                \cup Permutations(Account)

=============================================================================
