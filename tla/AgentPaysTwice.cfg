SPECIFICATION Spec
CHECK_DEADLOCK FALSE
CONSTANTS
    MaxCalls = 2
    HandlerTime = 1
    LeaseTime = 2
    Ttl = 1
    Skew = 1
    MaxTime = 4
PROPERTY NoSecondPayment
