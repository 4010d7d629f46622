SPECIFICATION Spec
CONSTANTS
    r1 = r1
    r2 = r2
    b1 = b1
    b2 = b2
    i1 = i1
    i2 = i2
    Bindings = {b1}
    Requests = {r1, r2}
    Instances = {i1}
    RunsOn <- OneProcess
    Nobody = Nobody
    Actions = {}
    Postgres = TRUE
    QuoteTtl = 2
    MaxHashes = 2
    MaxTime = 1
    MaxFailures = 0

CHECK_DEADLOCK FALSE
INVARIANT RetryIsServed
