SPECIFICATION Spec
SYMMETRY MCSymmetry
CONSTANTS
    Requests = {r1, r2}
    Rates <- MCRates
    Fees = {0, 4}
    EnvFee = 1
    Configs <- MCConfigs
    DropsPerXrp = 7
    QuoteTtl = 1
    MaxTime = 3
INVARIANTS
    QuoteIsRight
    QuotedRateAge
    PayablePriceAge
    QuotedFeeAge
