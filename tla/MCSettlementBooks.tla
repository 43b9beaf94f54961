------------------------- MODULE MCSettlementBooks --------------------------
(* Small instances of the engine with the ACL and the ledger for TLC. *)
EXTENDS SettlementBooks

CONSTANT FeeAccount

\* A row as charge creation leaves it.
FreshRow(st, fee, cur) ==
    [status |-> st, posting_state |-> "pending", fee_post_id |-> 0,
     payment_entry_id |-> None, gross_amount |-> 10, fee_amount |-> fee,
     currency |-> cur, deleted |-> FALSE]

\* With and without a fee, captured or not, in rupiah or not.
MCNewRow ==
    {FreshRow("pending", 0, "IDR"), FreshRow("pending", 3, "IDR"),
     FreshRow("captured", 3, "IDR"), FreshRow("pending", 3, "other")}

\* The provider fully configured, and without its fee account.
MCAccounts == [fee: {FeeAccount, None}, settlement: {Bank}]

=============================================================================
