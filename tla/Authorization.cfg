SPECIFICATION BothStores
CONSTANTS
    alice = alice
    bob = bob
    direct = direct
    r1 = r1
    r2 = r2
    r3 = r3
    input1 = input1
    input2 = input2
    Addresses = {alice, bob}
    NoOne = NoOne
    InitialOwner = alice
    Intents <- AllCalls
    Grants <- OneGrant
    Direct = direct
    Requests = {r1}
    Local = FALSE
    Capacity = 2
    ChallengeTtl = 2
    MinConfirmations = 2
    TipLag = 1
    Expires = 3
    MaxCells = 3
    MaxNonces = 1
    MaxTime = 3
CHECK_DEADLOCK FALSE
INVARIANTS
    OwnedDuringRequest
    UnrevokedDuringRequest
    ConfirmedCell
    GrantedDuringRequest
    OneRequestPerNonceInProcess
