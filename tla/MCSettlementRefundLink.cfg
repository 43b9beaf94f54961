SPECIFICATION UninterruptedSpec
CONSTANTS
    Txn = {t1}
    Worker = {w1, w2}
    PaymentEntry = {e1}
    None = None
    NewRow <- MCFeeRow
    Account = {a1, a2}
    NewAccounts <- MCConfigured
    DedupKey = "idempotency_key"
    MaxJournals = 2
PROPERTY RefundNamesTheEntry
