SPECIFICATION IngestFairSpec
CONSTANTS
    t1 = t1
    k1 = k1
    a1 = a1
    a2 = a2
    Txn = {t1}
    Worker = {w1, w2}
    PaymentEntry = {}
    None = None
    NewRow <- MCNewRow
    Account = {a1, a2}
    NewAccounts <- MCAccounts
    DedupKey = "source_id"
    MaxJournals = 2
    Inbox <- MCInbox
    Key = {k1}
    KeyOf <- MCKeyOf
    Gross = {7, 10}
    Fee = {12}
    Code = {"doku", "midtrans", "xendit", "stripe"}
PROPERTY NotificationSettlesInTheEnd
