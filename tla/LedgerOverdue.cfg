SPECIFICATION Spec
CONSTANTS
    g1 = g1
    g2 = g2
    k1 = k1
    k2 = k2
    r1 = r1
    r2 = r2
    r3 = r3
    Grants <- OneGrant
    Keys = {k1, k2}
    Requests = {r1, r2, r3}
    Prices = {1}
    MaxUses <- OneUse
    MaxSpend <- NoSpendLimit
    ExpiresAt <- SameExpiry
    NoLimit = NoLimit
    NoGrant = NoGrant
    NoKey = NoKey
    ReservationTtl = 2
    HandlerTime = 5
    MaxTime = 5
    Transactional = TRUE
    Pruning = FALSE
SYMMETRY KeyRequestSymmetry
INVARIANT NoOversubscription
CHECK_DEADLOCK FALSE
