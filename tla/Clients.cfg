SPECIFICATION EachClient
CHECK_DEADLOCK FALSE
CONSTANTS
    Wallets = {alice, bob}
    Honest = {alice}
    Accounts = {alice, bob}
    Owners = {alice, bob}
    Alice = alice
    Decisions = {request}
    Capabilities <- SomePasses
    Policies <- SomePolicies
    MinConfirmations = 2
    MaxMoves = 3
    Passes = {p1, p2}
    p1 = p1
    p2 = p2
    CallService = calls
    JobService = jobs
    Typed = {x, y}
    Nobody = Nobody
    Contents <- SomeContents
    MaxTx = 3
    FewTasks = 3
    MaxTasks = 5
    MaxSwitches = 2
    MaxCalls = 2
    HandlerTime = 1
    LeaseTime = 2
    Ttl = 1
    Skew = 1
    CallTime = 4
    MaxRuntimes = 2
    MaxCells = 3
    MaxChallenges = 1
    MaxQuotes = 1
INVARIANTS
    NothingLost
    PaymentForItsRequest
    OneAnswerPerPayment
    PaidIsKept
    AnswersAreTrue
    OwnedRecently
    DecidedForHolder
PROPERTY
    RegistryImplemented
