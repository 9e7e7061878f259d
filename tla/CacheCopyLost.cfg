SPECIFICATION Spec
CONSTANTS
    k1 = k1
    k2 = k2
    k3 = k3
    s1 = s1
    s2 = s2
    Keys = {k1, k2, k3}
    NoKey = NoKey
    Threads = {t1, t2}
    NoThread = NoThread
    Stripes = {s1, s2}
    Stripe <- MCStripe
    Weight <- EqualWeight
    MaxBytes = 1
    Expiring = FALSE
    MaxCalls = 3
SYMMETRY Symmetry
CHECK_DEADLOCK FALSE
INVARIANTS
    CopyInSeesItsFile
