SPECIFICATION Spec
CONSTANTS
    NoKey = NoKey
    NoSub = NoSub
    NoEvent = NoEvent
    Handlers = {h1, h2}
    Keys = {k1}
    Subs = {s1}
    Plans = {"paid"}
    Limit <- MCLimit
    MaxLimit = 1
    MaxPeriod = 1
    MaxVersion = 1
    MaxDue = 2
    Ordered = FALSE
    MaxCrashes = 0
    MaxDiskErrors = 0
    MaxApiErrors = 0
SYMMETRY MCSymmetry
INVARIANT SubscriptionEndsFree
