SPECIFICATION BothRegimes
CONSTANTS
    Workers = {w1, w2, w3}
    Results = {x, y}
    Tokens = {t1, t2, t3, t4, t5}
    OverrunTokens = {t1, t2, t3, t4}
    NoResult = NoResult
    NoToken = NoToken
    Timely = TRUE
    MaxFailures = 1
INVARIANTS
    OneExecutionWhenTimely
    ReceiptAgreesWhenTimely
    PaidResultIsDurable
PROPERTIES
    OneResultWhenTimely
    DeliveredWhenTimely
    StatesOnlyAdvance
