SPECIFICATION EachDeployment
CONSTANTS
    g1 = g1
    g2 = g2
    k1 = k1
    k2 = k2
    r1 = r1
    r2 = r2
    r3 = r3
    Grants <- TwoGrants
    Keys = {k1, k2}
    Requests = {r1, r2}
    Prices = {1, 2}
    MaxUses <- MixedUses
    MaxSpend <- MixedSpend
    ExpiresAt <- StaggeredExpiry
    NoLimit = NoLimit
    NoGrant = NoGrant
    NoKey = NoKey
    ReservationTtl = 2
    HandlerTime = 1
    MaxTime = 5
    Transactional = TRUE
    Pruning = FALSE
SYMMETRY KeyRequestSymmetry
INVARIANTS
    CallCountersAgree
    CallsWithinLimit
    SpendWithinBudget
    OneHolderPerKey
    NoOversubscription
PROPERTIES
    BudgetImplemented
CHECK_DEADLOCK FALSE
