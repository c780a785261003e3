SPECIFICATION FairSpec
CONSTANTS
    i1 = i1
    i2 = i2
    p1 = p1
    p2 = p2
    p3 = p3
    p4 = p4
    p5 = p5
    NoTx = NoTx
    NoPayload = NoPayload
    Invoices = {i1}
    Txs = {t1}
    Payloads = {p1, p5}
    Requests = {r1, r2, r3}
    Assets <- MCAssets
    Accepts <- MCAccepts
    ClaimOf <- MCClaimOf
    AssetOf <- MCAssetOf
    Matching <- MCMatching
    MaxAttested = 1
    MaxCrashes = 0
    MaxDiskErrors = 1
PROPERTY EveryRequestAnswered
