SPECIFICATION Spec
SYMMETRY MCSymmetry
CONSTANTS
    e1 = e1
    NoKey = NoKey
    NoEmail = NoEmail
    Tight = 1
    Wide = 2
    Envs <- MCEnvs
    Explored <- MCExplored
    Ips = {i1, i2}
    Keys = {k1}
    Emails = {e1, e2}
    User = e1
    Limits <- MCLimits
    TierLimits <- MCTierLimits
    Minute = 2
    Hour = 3
    Traffics = {"verify", "signup", "login", "reset", "contact", "receipt", "status"}
    MaxTokens = 2
    MaxCrashes = 1
    MaxDiskErrors = 1
INVARIANTS
    StartIsSound
    SpanBounded
    MinuteBounded
    TokenGoodOnce
