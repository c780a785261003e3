SPECIFICATION Spec
CONSTANTS
    k1 = k1
    k2 = k2
    month = month
    epoch = epoch
    NoClient = NoClient
    NoKey = NoKey
    NoTx = NoTx
    Clients = {c1}
    Txs = {t1}
    Keys = {k1, k2}
    FirstKey = k1
    StoredAs = "plain"
    Periods = {month, epoch}
    Width <- MCWidth
    Limit = 1
    PoolSize = 1
    MaxErrors = 0
    MaxCrashes = 0
    MaxRuns = 0
INVARIANT RotatedKeyRejected
