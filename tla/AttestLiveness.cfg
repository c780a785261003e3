SPECIFICATION FairSpec
CONSTANTS
    t1 = t1
    k1 = k1
    NoTx = NoTx
    NoPayer = NoPayer
    Callers = {c1, c2}
    Txs = {t1}
    Keys = {k1}
    Invoices = {i1}
    QuotedFor <- MCQuotedFor
    Limit <- MCLimit
    MaxLimit = 1
    Periods = {1}
    Pollers = {q1, q2}
    MaxPollAttempts = 1
    OnChain = TRUE
    MaxCrashes = 0
    MaxStoreErrors = 0
PROPERTIES
    EveryCallAnswered
    PaymentResolved
    PendingEnds
