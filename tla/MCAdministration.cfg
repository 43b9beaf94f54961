SPECIFICATION AdminSpec
CONSTANTS
    t1 = t1
    t2 = t2
    k1 = k1
    a1 = a1
    a2 = a2
    Txn = {t1, t2}
    Worker = {w1, w2}
    PaymentEntry = {}
    None = None
    NewRow <- MCNewRow
    Account = {a1, a2}
    NewAccounts <- MCAccounts
    DedupKey = "idempotency_key"
    MaxJournals = 1
    MaxEdits = 2
    Key = {k1}
    KeyOf <- MCKeyOf
SYMMETRY Symmetry
INVARIANT OnceUnlessReopened
PROPERTY PostedFeeIsBooked
PROPERTY FailedStaysFailed
PROPERTY DeletedDoesNotMove
