SPECIFICATION EachStore
CHECK_DEADLOCK FALSE
CONSTANTS
    FileKeys = {k1, k2}
    Calls = {a1, a2}
    MaxChanges = 2
    MaxFaults = 1
    Callers = {c1, c2}
    Payloads = {p, q}
    Replicas = {r1, r2}
    Subjects = {s1, s2}
    Handlers = {h1, h2}
    PerIp = 1
    SharedGlobal = 3
    OwnGlobal = 2
    Window = 2
    Burst = 2
    Capacity = 2
    Wait = 1
    MaxRequests = 4
    Servers = {"gateway", "facilitator", "older"}
    Nobody = "nobody"
    Release <- SomeReleases
    Probes = {p1, p2}
    Dependencies = 3
    CacheTime = 2
    Timeout = 1
    HealthTime = 6
    HidesExpired = TRUE
    PaymentsOn = TRUE
    TTL = 1
    MaxTime = 2
    MaxCrashes = 1
INVARIANTS
    OneInterpretationOnBoth
    StartsOnTrueState
    AtMostTwice
    OneSubjectCannotClose
PROPERTIES
    RecordsImplemented
    EventuallyBegunOnPostgres
