SPECIFICATION EachProcesses
CONSTANTS
    r1 = r1
    r2 = r2
    b1 = b1
    b2 = b2
    i1 = i1
    i2 = i2
    Bindings = {b1, b2}
    Requests = {r1, r2}
    Instances = {i1}
    RunsOn <- OneProcess
    Nobody = Nobody
    Actions = {b1}
    Postgres = FALSE
    QuoteTtl = 1
    MaxHashes = 1
    MaxTime = 1
    MaxFailures = 1
CHECK_DEADLOCK FALSE
INVARIANTS
    PaymentServesItsRequest
    DeliveredIsPaid
    RecoverableWhileQuoted
    ReceiptIsEarned
PROPERTY ConsumedIsServed
