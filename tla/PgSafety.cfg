SPECIFICATION Spec
CONSTANTS
    k1 = k1
    k2 = k2
    month = month
    epoch = epoch
    NoClient = NoClient
    NoKey = NoKey
    NoTx = NoTx
    Clients = {c1, c2}
    Txs = {t1}
    Keys = {k1, k2}
    FirstKey = k1
    StoredAs = "plain"
    Periods = {month, epoch}
    Width <- MCWidth
    Limit = 1
    PoolSize = 1
    MaxErrors = 1
    MaxCrashes = 1
    MaxRuns = 1
SYMMETRY MCSymmetry
INVARIANTS
    NothingUncounted
    LimitPerCounter
    OneCounter
    GoneStaysOut
    ListedKeyWorks
    NoStandstill
