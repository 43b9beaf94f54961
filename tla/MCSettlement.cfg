SPECIFICATION Spec
CONSTANTS
    Txn = {t1}
    Worker = {w1, w2, w3}
    PaymentEntry = {e1, e2}
    None = None
    NewRow <- MCNewRow
    Account = {a1, a2}
    NewAccounts <- MCAccounts
    DedupKey = "idempotency_key"
    MaxJournals = 2
SYMMETRY Symmetry
INVARIANT TypeOK
INVARIANT FeeBookedOnce
INVARIANT RefundReversesFee
INVARIANT ReversalFollowsFee
INVARIANT AcknowledgedMeansSettled
INVARIANT RefundNamesLinkedEntry
