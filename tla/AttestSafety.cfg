SPECIFICATION Spec
CONSTANTS
    t1 = t1
    k1 = k1
    NoTx = NoTx
    NoPayer = NoPayer
    Callers = {c1, c2}
    Txs = {t1}
    Keys = {k1}
    Invoices = {}
    QuotedFor <- MCQuotedFor
    Limit <- MCLimit
    MaxLimit = 1
    Periods = {1, 2}
    Pollers = {q1}
    MaxPollAttempts = 1
    OnChain = TRUE
    MaxCrashes = 1
    MaxStoreErrors = 2
SYMMETRY CallerSymmetry
INVARIANTS
    NeverUndercounted
    LimitKept
    CountExact
PROPERTY ImplementsQuota
