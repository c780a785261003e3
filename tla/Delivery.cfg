SPECIFICATION Spec
SYMMETRY MCSymmetry
CONSTANTS
    k1 = k1
    NoTx = NoTx
    NoKey = NoKey
    Txs = {t1}
    Kinds = {"absent", "proposed", "payment", "other", "issued", "old"}
    Endpoints <- MCEndpoints
    Keys = {k1, k2}
    Owner <- MCOwner
    Pollers = {q1, q2}
    Hooks = {h1, h2}
    Requests = {r1, r2}
    Answers <- MCAnswers
    HookLimit = 1
    MaxPollAttempts = 2
    OnChain = TRUE
    MaxRetries = 2
    MaxRounds = 2
    MaxFaults = 1
INVARIANTS
    PreflightSound
    VerifiedIsProcessed
    ProofStays
    PayloadComplete
    NoHookForgotten
    HookLimitKept
    ReservedOnlyRebound
