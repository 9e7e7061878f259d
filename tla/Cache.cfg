SPECIFICATION FairSpec
CONSTANTS
    k1 = k1
    k2 = k2
    k3 = k3
    s1 = s1
    s2 = s2
    Keys = {k1, k2}
    NoKey = NoKey
    Threads = {t1, t2}
    NoThread = NoThread
    Stripes = {s1, s2}
    Stripe <- MCStripe
    Weight <- UnequalWeight
    MaxBytes = 2
    Expiring = TRUE
    MaxCalls = 5
CHECK_DEADLOCK FALSE
INVARIANTS
    LeasedFileStays
    DeletedIsUncached
    LimitKept
PROPERTIES
    CallsEnd
