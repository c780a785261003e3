SPECIFICATION Spec
CONSTANTS
    NoKey = NoKey
    NoSub = NoSub
    NoEvent = NoEvent
    Handlers = {h1, h2}
    Keys = {k1, k2}
    Subs = {s1}
    Plans = {"paid", "pro"}
    Limit <- MCLimit
    MaxLimit = 1
    MaxPeriod = 2
    MaxVersion = 2
    MaxDue = 2
    Ordered = TRUE
    MaxCrashes = 1
    MaxDiskErrors = 1
    MaxApiErrors = 1
SYMMETRY MCSymmetry
INVARIANTS
    OneWorkingKey
    EntitlementFollowsStripe
    RevokedStaysRevoked
    UsageKept
