SPECIFICATION UninterruptedSpec
CONSTANTS
    Txn = {t1}
    Worker = {w1}
    PaymentEntry = {e1}
    None = None
    NewRow <- MCFeeRow
    Account = {a1, a2}
    NewAccounts <- MCConfigured
    DedupKey = "source_id"
    MaxJournals = 2
INVARIANT RefundReversesFee
