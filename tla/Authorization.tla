---------------------------- MODULE Authorization ----------------------------
(***************************************************************************)
(* How the live service authenticates a protected request: the signed      *)
(* challenge, the delegation grant, the live Capability Cell, revocation   *)
(* and finality.  Every check reads another store or the chain and awaits  *)
(* the answer, while cells are transferred, licenses revoked and time      *)
(* passes.                                                                 *)
(*                                                                         *)
(* One capability.  Its cells (outpoints) are numbered in the order the    *)
(* transfers create them, nonces in the order they are issued; the chain   *)
(* makes one block per unit of time.  An intent is what a challenge        *)
(* message binds beside nonce and address.                                 *)
(***************************************************************************)
EXTENDS Naturals, FiniteSets

CONSTANTS
    Addresses, NoOne,
    InitialOwner,
    Intents,            \* set of [cell, grant, input]
    Grants,             \* set of [owner, delegate, cell, expires]: signed grants
    Direct,             \* no grant: the caller is the owner
    Requests,
    Local,              \* TRUE: challenges in the process; FALSE: PostgreSQL, Redis
    Capacity,           \* of the local challenge store
    ChallengeTtl,
    MinConfirmations,
    TipLag,             \* how old the cached chain tip may be
    Expires,            \* expiry of the capability
    MaxCells, MaxNonces, MaxTime   \* bounds

Cells == 1 .. MaxCells
Nonces == 1 .. MaxNonces
NoChallenge == [identity |-> NoOne, expires |-> 0]

ASSUME AuthorizationAssumption ==
    /\ InitialOwner \in Addresses
    /\ NoOne \notin Addresses
    /\ Direct \notin Grants
    /\ Local \in BOOLEAN
    /\ \A n \in {Capacity, ChallengeTtl, MinConfirmations, TipLag, Expires,
                 MaxCells, MaxNonces, MaxTime} : n \in Nat
    /\ MaxCells > 0 /\ ChallengeTtl > 0
    /\ \A g \in Grants : g.owner \in Addresses /\ g.delegate \in Addresses
                            /\ g.cell \in Cells /\ g.expires \in Nat
    /\ \A i \in Intents : i.cell \in Cells /\ i.grant \in Grants \cup {Direct}

VARIABLES
    now,        \* time, and the height of the chain
    live,       \* the live cell of the capability, 0 when it was surrendered
    owner,      \* the lock of each cell, NoOne before the cell exists
    born,       \* the block that created it
    revoked,    \* the provider's revocation record
    issued,     \* the challenge each nonce was issued with
    next,       \* the next nonce
    pending,    \* the nonces the challenge store holds
    req,
    witnessed   \* history: what was true at some moment of each request

chain == <<live, owner, born>>
store == <<issued, next, pending>>
vars == <<now, chain, revoked, store, req, witnessed>>

NoIntent == [cell |-> 0, grant |-> Direct]
Idle == [stage |-> "idle", nonce |-> 0, address |-> NoOne, signer |-> NoOne,
         intent |-> NoIntent, lock |-> NoOne, born |-> 0]
Stages == {"idle", "consume", "signature", "grant", "cell", "revocation", "finality",
           "authorized", "refused"}
Nothing == [owners |-> {}, unrevoked |-> FALSE, since |-> 0]

RequestType == [stage: Stages, nonce: Nonces \cup {0}, address: Addresses \cup {NoOne},
                signer: Addresses \cup {NoOne}, intent: Intents \cup {NoIntent},
                lock: Addresses \cup {NoOne}, born: Nat]
WitnessType == [owners: SUBSET (Cells \X Addresses), unrevoked: BOOLEAN, since: Nat]

TypeOK ==
    /\ now \in Nat
    /\ live \in Cells \cup {0}
    /\ owner \in [Cells -> Addresses \cup {NoOne}]
    /\ born \in [Cells -> Nat]
    /\ revoked \in BOOLEAN
    /\ issued \in [Nonces -> [identity: Addresses, intent: Intents, expires: Nat]
                             \cup {NoChallenge}]
    /\ next \in 1 .. MaxNonces + 1
    /\ pending \subseteq 1 .. next - 1
    /\ \A n \in 1 .. next - 1 : issued[n] # NoChallenge
    /\ req \in [Requests -> RequestType]
    /\ \A r \in Requests :
          /\ req[r].stage \notin {"idle", "refused"} =>
                req[r].nonce # 0 /\ req[r].intent \in Intents
          /\ req[r].stage \in {"revocation", "finality", "authorized"} => req[r].lock # NoOne
    /\ witnessed \in [Requests -> WitnessType]

Init ==
    /\ now = 0
    /\ live = 1
    /\ owner = [c \in Cells |-> IF c = 1 THEN InitialOwner ELSE NoOne]
    /\ born = [c \in Cells |-> 0]
    /\ revoked = FALSE
    /\ issued = [n \in Nonces |-> NoChallenge]
    /\ next = 1
    /\ pending = {}
    /\ req = [r \in Requests |-> Idle]
    /\ witnessed = [r \in Requests |-> Nothing]

-----------------------------------------------------------------------------
(***************************************************************************)
(* Challenges                                                              *)
(***************************************************************************)
Expired(n) == now >= issued[n].expires

\* (slip) the store drops its youngest entries when it is full
YoungestEvicted(kept) ==
    {n \in kept : Cardinality({m \in kept : m < n}) < Capacity}

\* At most Capacity of the kept entries stay, the youngest.
Evicted(kept) == {n \in kept : Cardinality({m \in kept : m > n}) < Capacity}

\* #prune of the local store; the shared stores drop what has expired at leisure.
Pruned == IF Local THEN Evicted({n \in pending : ~Expired(n)}) ELSE pending

Issue(a, intent) ==
    /\ next \in Nonces
    /\ issued' = [issued EXCEPT ![next] = [identity |-> a, intent |-> intent,
                                           expires |-> now + ChallengeTtl]]
    /\ pending' = Pruned \cup {next}
    /\ next' = next + 1
    /\ UNCHANGED <<now, chain, revoked, req, witnessed>>

\* Redis expires the key, PostgreSQL deletes rows ten minutes after their expiry.
CleanUp(n) ==
    /\ ~Local
    /\ n \in pending /\ Expired(n)
    /\ pending' = pending \ {n}
    /\ UNCHANGED <<now, chain, revoked, issued, next, req, witnessed>>

-----------------------------------------------------------------------------
(***************************************************************************)
(* A protected request                                                     *)
(***************************************************************************)
At(r, stage) == req[r].stage = stage
Refused == [Idle EXCEPT !.stage = "refused"]
Refuse(r) == /\ req' = [req EXCEPT ![r] = Refused]
             /\ witnessed' = [witnessed EXCEPT ![r] = Nothing]
Pass(r, stage) == req' = [req EXCEPT ![r].stage = stage] /\ UNCHANGED witnessed
Intent(r) == req[r].intent
Grant(r) == Intent(r).grant
Delegated(r) == Grant(r) # Direct

\* A request names a nonce, an address, a signature and what it asks for; a client may
\* get any of them wrong or send the same twice.
Send(r, n, a, signer, intent) ==
    /\ At(r, "idle")
    /\ n < next
    /\ req' = [req EXCEPT ![r] = [stage |-> "consume", nonce |-> n, address |-> a,
                                  signer |-> signer, intent |-> intent,
                                  lock |-> NoOne, born |-> 0]]
    /\ witnessed' = [witnessed EXCEPT ![r] =
          [owners |-> IF live = 0 THEN {} ELSE {<<live, owner[live]>>},
           unrevoked |-> ~revoked, since |-> now]]
    /\ UNCHANGED <<now, chain, revoked, store>>

\* (slip) a challenge stays in the store when it is read
NotConsumed(n) == pending

\* DELETE ... RETURNING, GETDEL, or get and delete in one turn
Consumed(n) == pending \ {n}

\* (slip) the address is not compared
AnyIdentity(r) == TRUE

IdentityMatches(r) == issued[req[r].nonce].identity = req[r].address

\* (slip) the signed message is not compared with the request
AnyIntent(r) == TRUE

\* challengeMatchesRequest
MatchesRequest(r) == issued[req[r].nonce].intent = Intent(r)

\* The nonce is gone whatever is found wrong with it.
Consume(r) ==
    LET n == req[r].nonce IN
    /\ At(r, "consume")
    /\ pending' = Consumed(n)
    /\ IF n \in pending /\ ~Expired(n) /\ IdentityMatches(r) /\ MatchesRequest(r)
       THEN Pass(r, "signature") ELSE Refuse(r)
    /\ UNCHANGED <<now, chain, revoked, issued, next>>

\* (slip) the signature is not verified
AnySignature(r) == TRUE

\* The wallet of the address signed the challenge.
SignatureValid(r) == req[r].signer = req[r].address

VerifySignature(r) ==
    /\ At(r, "signature")
    /\ IF SignatureValid(r) THEN Pass(r, IF Delegated(r) THEN "grant" ELSE "cell")
       ELSE Refuse(r)
    /\ UNCHANGED <<now, chain, revoked, store>>

\* (slip) a grant may be used with any cell of the owner
AnyCellScope(r) == Grant(r).delegate = req[r].address /\ now < Grant(r).expires

\* assertDelegationScope
InScope(r) ==
    /\ Grant(r).delegate = req[r].address
    /\ Grant(r).cell = Intent(r).cell
    /\ now < Grant(r).expires

CheckGrant(r) ==
    /\ At(r, "grant")
    /\ IF InScope(r) THEN Pass(r, "cell") ELSE Refuse(r)
    /\ UNCHANGED <<now, chain, revoked, store>>

\* (slip) what the chain answers is not looked at
AnyCell(r) == TRUE

\* getCellLive finds the cell
CellLive(r) == live = Intent(r).cell

\* The chain is asked for the cell; policy and expiry are checked on what it says.
ReadCell(r) ==
    LET c == Intent(r).cell IN
    /\ At(r, "cell")
    /\ IF CellLive(r) /\ now < Expires
       THEN /\ req' = [req EXCEPT ![r].stage = "revocation", ![r].lock = owner[c],
                                  ![r].born = born[c]]
            /\ UNCHANGED witnessed
       ELSE Refuse(r)
    /\ UNCHANGED <<now, chain, revoked, store>>

\* (slip) revocation is never looked up
NeverRevoked == FALSE

Revoked == revoked

ReadRevocation(r) ==
    /\ At(r, "revocation")
    /\ IF Revoked THEN Refuse(r) ELSE Pass(r, "finality")
    /\ UNCHANGED <<now, chain, revoked, store>>

\* (slip) the block after the tip is counted too
OneShort(r, tip) == tip + 2 - req[r].born >= MinConfirmations

\* Confirmations count the block that holds the cell; a tip below it gives none.
Final(r, tip) ==
    IF tip >= req[r].born THEN tip - req[r].born + 1 >= MinConfirmations
    ELSE MinConfirmations = 0

\* (slip) any caller passes
AnyOwner(r) == TRUE

\* requesterLockHash: the caller, or the owner who signed the grant
OwnerMatches(r) ==
    req[r].lock = IF Delegated(r) THEN Grant(r).owner ELSE req[r].address

\* currentChainTipEvidence: a cached tip of this replica, or one in flight
Tips == {t \in 0 .. now : now - t <= TipLag}

\* The owner read before is compared last.
Authorize(r) ==
    /\ At(r, "finality")
    /\ \E tip \in Tips :
          IF Final(r, tip) /\ OwnerMatches(r) /\ now < Expires
          THEN Pass(r, "authorized") ELSE Refuse(r)
    /\ UNCHANGED <<now, chain, revoked, store>>

-----------------------------------------------------------------------------
(***************************************************************************)
(* The rest of the world                                                   *)
(***************************************************************************)
Active(r) == ~At(r, "idle") /\ ~At(r, "authorized") /\ ~At(r, "refused")

\* The owner transfers the cell: it is consumed and a new one created.
Transfer(a) ==
    /\ live \in 1 .. MaxCells - 1
    /\ live' = live + 1
    /\ owner' = [owner EXCEPT ![live + 1] = a]
    /\ born' = [born EXCEPT ![live + 1] = now]
    /\ witnessed' = [r \in Requests |->
          IF Active(r) THEN [witnessed[r] EXCEPT !.owners = @ \cup {<<live + 1, a>>}]
          ELSE witnessed[r]]
    /\ UNCHANGED <<now, revoked, store, req>>

\* The owner surrenders the capability.
Burn ==
    /\ live # 0
    /\ live' = 0
    /\ UNCHANGED <<now, owner, born, revoked, store, req, witnessed>>

\* The provider revokes the license or restores it; the handler looked the live cell up
\* some time before.
Revoke ==
    /\ ~revoked
    /\ revoked' = TRUE
    /\ UNCHANGED <<now, chain, store, req, witnessed>>

Restore ==
    /\ revoked
    /\ revoked' = FALSE
    /\ witnessed' = [r \in Requests |->
          IF Active(r) THEN [witnessed[r] EXCEPT !.unrevoked = TRUE] ELSE witnessed[r]]
    /\ UNCHANGED <<now, chain, store, req>>

\* The process dies: its requests, and the challenges it holds, are gone.
Restart ==
    /\ Local
    /\ pending' = {}
    /\ req' = [r \in Requests |-> IF Active(r) THEN Refused ELSE req[r]]
    /\ witnessed' = [r \in Requests |-> IF Active(r) THEN Nothing ELSE witnessed[r]]
    /\ UNCHANGED <<now, chain, revoked, issued, next>>

Tick ==
    /\ now < MaxTime
    /\ now' = now + 1
    /\ UNCHANGED <<chain, revoked, store, req, witnessed>>

Handle(r) == \/ Consume(r) \/ VerifySignature(r) \/ CheckGrant(r) \/ ReadCell(r)
             \/ ReadRevocation(r) \/ Authorize(r)

Next ==
    \/ \E a \in Addresses : Transfer(a) \/ \E i \in Intents : Issue(a, i)
    \/ \E r \in Requests :
          \/ \E n \in Nonces, a, s \in Addresses, i \in Intents : Send(r, n, a, s, i)
          \/ Handle(r)
    \/ \E n \in Nonces : CleanUp(n)
    \/ Burn \/ Revoke \/ Restore \/ Restart \/ Tick

Spec == Init /\ [][Next]_vars

-----------------------------------------------------------------------------
(***************************************************************************)
(* Properties                                                              *)
(***************************************************************************)
\* A challenge authorizes one request: of requests that carry the same nonce, on
\* whatever replica, at most one passes.
OneRequestPerNonce ==
    \A r, s \in Requests :
        At(r, "authorized") /\ At(s, "authorized") /\ req[r].nonce = req[s].nonce => r = s

\* What runs is what was signed: the caller's wallet signed a challenge for exactly this
\* cell, grant and input.
SignedIntent ==
    \A r \in Requests : At(r, "authorized") =>
        /\ req[r].signer = req[r].address
        /\ issued[req[r].nonce].identity = req[r].address
        /\ issued[req[r].nonce].intent = req[r].intent

\* A request passes only for an address that owned the live cell it names at some moment
\* while the request was served; a cell that was transferred before never passes.
OwnedDuringRequest ==
    \A r \in Requests : At(r, "authorized") /\ ~Delegated(r) =>
        <<Intent(r).cell, req[r].address>> \in witnessed[r].owners

\* A delegate passes only with a grant for it, not expired when the request came, whose
\* signer owned the granted cell while the request was served: a transfer ends all grants.
GrantedDuringRequest ==
    \A r \in Requests : At(r, "authorized") /\ Delegated(r) =>
        /\ Grant(r).delegate = req[r].address
        /\ witnessed[r].since < Grant(r).expires
        /\ <<Grant(r).cell, Grant(r).owner>> \in witnessed[r].owners

\* No request passes that was served entirely under a revocation.
UnrevokedDuringRequest ==
    \A r \in Requests : At(r, "authorized") => witnessed[r].unrevoked

\* An authorized cell is as deep in the chain as the provider asks, whatever the age of
\* the cached tip.
ConfirmedCell ==
    \A r \in Requests : At(r, "authorized") =>
        now + 1 >= born[Intent(r).cell] + MinConfirmations

\* A challenge that has not expired leaves the store only for a request, or because the
\* local store holds more than Capacity entries, and then never before an older one.
OnlyOldestEvicted ==
    [][ \A n \in pending \ pending' :
          \/ Expired(n)
          \/ \E r \in Requests : At(r, "consume") /\ req[r].nonce = n /\ ~At(r, "consume")'
          \/ pending' = {}
          \/ /\ Cardinality(pending) > Capacity
             /\ \A m \in pending \cap pending' : m > n ]_vars
=============================================================================
