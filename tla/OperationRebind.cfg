SPECIFICATION Spec
CHECK_DEADLOCK FALSE
CONSTANTS
    Callers = {c1, c2, c3}
    Payloads = {p, q}
    HidesExpired = TRUE
    PaymentsOn = TRUE
    TTL = 1
    MaxTime = 1
    MaxCrashes = 0
INVARIANT OneOperationOnePayload
