SPECIFICATION Spec
CONSTANTS
    Txn = {t1}
    Worker = {w1, w2, w3}
    PaymentEntry = {e1}
    None = None
    NewRow <- MCFeeRow
    Account = {a1, a2}
    NewAccounts <- MCAccounts
    DedupKey = "none"
    MaxJournals = 3
SYMMETRY Symmetry
INVARIANT AtMostOneEventPerKind
INVARIANT FeeBookedWhenSettled
PROPERTY ImplementsSeam
