----------------------- MODULE MCAuthorizationStores -----------------------
\* Both kinds of challenge store in one run: the constants describe PostgreSQL or Redis and one
\* delegated request, InProcess the store of one process, at its capacity, and two requests.
EXTENDS MCAuthorization

VARIABLE inProcess

InProcess == INSTANCE Authorization WITH
    Local <- TRUE, Capacity <- 1, Requests <- {r1, r2}, Intents <- OneCall, Grants <- {},
    ChallengeTtl <- 1, MaxCells <- 1, MaxNonces <- 3, MaxTime <- 1

BothInit == inProcess \in BOOLEAN /\ IF inProcess THEN InProcess!Init ELSE Init

BothNext ==
    /\ UNCHANGED inProcess
    /\ \/ inProcess /\ InProcess!Next
       \/ ~inProcess /\ Next

BothStores == BothInit /\ [][BothNext]_<<vars, inProcess>>

\* A challenge authorizes one request: of requests that carry the same nonce, at most one
\* passes, although the store drops challenges and loses all of them in a restart.
OneRequestPerNonceInProcess == inProcess => InProcess!OneRequestPerNonce
=============================================================================
