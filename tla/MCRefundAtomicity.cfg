SPECIFICATION Spec
CONSTANTS
    Txn = {t1}
    Worker = {w1}
    PaymentEntry = {e1}
    None = None
    NewRow <- MCFeeRow
    Account = {a1, a2}
    NewAccounts <- MCAccounts
    DedupKey = "idempotency_key"
    MaxJournals = 2
INVARIANT RefundIsAllOrNothing
