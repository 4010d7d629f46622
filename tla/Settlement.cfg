SPECIFICATION BothStores
CONSTANTS
    Calls = {c1, c2, c3}
    Claims = {p, q}
    NoClaim = NoClaim
    Durable = TRUE
    MaxCrashes = 1
INVARIANTS
    OneClaimOnPostgres
    FreshOnce
PROPERTIES
    ConsumptionIsFinal
    PaidIsSettled
