SPECIFICATION BooksSpec
CONSTANTS
    Txn = {t1}
    Worker = {w1, w2}
    PaymentEntry = {e1}
    None = None
    Bank = bank
    Receivable = receivable
    FeeAccount = fee_expense
    Account = {bank, receivable, fee_expense}
    NewRow <- MCNewRow
    NewAccounts <- MCAccounts
    DedupKey = "idempotency_key"
    MaxJournals = 2
INVARIANT BooksTypeOK
INVARIANT TransitionIsAnnounced
INVARIANT BooksReconcile
INVARIANT RefundFindsItsEntry
INVARIANT RefundIsAllOrNothing
PROPERTY EventuallyBooked
PROPERTY ImplementsReliableSeam
