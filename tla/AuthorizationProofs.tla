------------------------- MODULE AuthorizationProofs -------------------------
(***************************************************************************)
(* Proofs about Authorization, for any addresses, grants, requests and     *)
(* numbers of challenges and transfers, and about its instance for the     *)
(* challenge store of one process in MCAuthorizationStores.                *)
(***************************************************************************)
EXTENDS MCAuthorizationStores, TLAPS

\* Eviction drops entries and adds none.
LEMMA EvictedSubset == \A kept : Evicted(kept) \subseteq kept
BY DEF Evicted

LEMMA PrunedSubset == Pruned \subseteq pending
BY EvictedSubset DEF Pruned

-----------------------------------------------------------------------------
(***************************************************************************)
(* Types                                                                   *)
(***************************************************************************)
LEMMA ConstantTypes ==
    /\ Refused \in RequestType /\ Idle \in RequestType
    /\ Nothing \in WitnessType
    /\ 1 \in Cells
BY AuthorizationAssumption
   DEF Refused, Idle, RequestType, Stages, Nothing, WitnessType, NoIntent, Cells

\* The parts of TypeOK that a request's own steps change.
RequestOK ==
    /\ req \in [Requests -> RequestType]
    /\ \A r \in Requests :
          /\ req[r].stage \notin {"idle", "refused"} =>
                req[r].nonce # 0 /\ req[r].intent \in Intents
          /\ req[r].stage \in {"revocation", "finality", "authorized"} => req[r].lock # NoOne
    /\ witnessed \in [Requests -> WitnessType]

\* Refusing a request, or letting it go on, keeps the types.
LEMMA RefuseType ==
    ASSUME RequestOK, NEW r \in Requests, Refuse(r) PROVE RequestOK'
<1>1. Refused.stage = "refused"
  BY DEF Refused, Idle
<1>2. req' \in [Requests -> RequestType] /\ witnessed' \in [Requests -> WitnessType]
  BY ConstantTypes DEF Refuse, RequestOK
<1>3. \A s \in Requests : req'[s] = req[s] \/ req'[s].stage = "refused"
  BY <1>1 DEF Refuse, RequestOK
<1>4. QED
  BY <1>2, <1>3 DEF RequestOK

LEMMA PassType ==
    ASSUME RequestOK, NEW r \in Requests, NEW stage \in Stages, Pass(r, stage),
           req[r].stage \notin {"idle", "refused"},
           stage \in {"revocation", "finality", "authorized"} => req[r].lock # NoOne
    PROVE  RequestOK'
<1> DEFINE moved == [req[r] EXCEPT !.stage = stage]
<1>1. /\ moved \in RequestType /\ moved.stage = stage /\ moved.nonce = req[r].nonce
      /\ moved.lock = req[r].lock /\ moved.intent = req[r].intent
  BY DEF RequestOK, RequestType
<1>2. req' = [req EXCEPT ![r] = moved] /\ witnessed' = witnessed
  BY DEF Pass
<1> HIDE DEF moved
<1>3. req' \in [Requests -> RequestType]
  BY <1>1, <1>2 DEF RequestOK
<1>4. \A s \in Requests : IF s = r THEN req'[s] = moved ELSE req'[s] = req[s]
  BY <1>2 DEF RequestOK
<1>5. QED
  BY <1>1, <1>2, <1>3, <1>4 DEF RequestOK

\* The parts that the chain, the provider and the challenge store change.
WorldOK ==
    /\ now \in Nat
    /\ live \in Cells \cup {0}
    /\ owner \in [Cells -> Addresses \cup {NoOne}]
    /\ \A c \in Cells : c <= live => owner[c] # NoOne
    /\ born \in [Cells -> Nat]
    /\ revoked \in BOOLEAN
    /\ issued \in [Nonces -> [identity: Addresses, intent: Intents, expires: Nat]
                             \cup {NoChallenge}]
    /\ next \in 1 .. MaxNonces + 1
    /\ pending \subseteq 1 .. next - 1
    /\ \A n \in 1 .. next - 1 : issued[n] # NoChallenge

TypeInv == RequestOK /\ WorldOK

LEMMA TypeInit == Init => TypeInv
<1> SUFFICES ASSUME Init PROVE TypeInv
  OBVIOUS
<1> USE AuthorizationAssumption DEF Init
<1>1. RequestOK
  <2>1. \A r \in Requests : req[r].stage = "idle"
    BY DEF Idle
  <2>2. QED
    BY <2>1, ConstantTypes DEF RequestOK
<1>2. WorldOK
  <2>1. \A c \in Cells : c <= live => owner[c] # NoOne
    BY DEF Cells
  <2>2. owner \in [Cells -> Addresses \cup {NoOne}] /\ born \in [Cells -> Nat]
    OBVIOUS
  <2>3. live \in Cells \cup {0}
    BY ConstantTypes
  <2>4. issued \in [Nonces -> [identity: Addresses, intent: Intents, expires: Nat]
                              \cup {NoChallenge}]
    OBVIOUS
  <2>5. now \in Nat /\ revoked \in BOOLEAN /\ pending = {} /\ next = 1
    OBVIOUS
  <2>6. next \in 1 .. MaxNonces + 1 /\ 1 .. next - 1 = {}
    <3>1. MaxNonces \in Nat
      OBVIOUS
    <3> HIDE AuthorizationAssumption DEF Init
    <3>2. QED
      BY <2>5, <3>1
  <2>7. QED
    BY <2>1, <2>2, <2>3, <2>4, <2>5, <2>6 DEF WorldOK
<1>3. QED
  BY <1>1, <1>2 DEF TypeInv

\* A request's own steps leave the world alone, but for the challenge it takes.
LEMMA HandleType == ASSUME TypeInv, NEW r \in Requests, Handle(r) PROVE TypeInv'
<1> USE DEF TypeInv
<1>1. CASE Consume(r)
  <2>1. WorldOK'
    BY <1>1 DEF Consume, Consumed, WorldOK, chain
  <2>2. Refuse(r) \/ Pass(r, "signature")
    BY <1>1 DEF Consume
  <2>3. QED
    BY <1>1, <2>1, <2>2, RefuseType, PassType DEF Consume, At, Stages
<1>2. ASSUME VerifySignature(r) \/ CheckGrant(r) \/ ReadCell(r) \/ ReadRevocation(r) \/ Authorize(r)
      PROVE  TypeInv'
  <2>1. WorldOK'
    <3>1. UNCHANGED <<now, chain, revoked, store>>
      BY <1>2 DEF VerifySignature, CheckGrant, ReadCell, ReadRevocation, Authorize
    <3>2. QED
      BY <3>1 DEF WorldOK, chain, store
  <2>2. CASE VerifySignature(r)
    BY <2>1, <2>2, RefuseType, PassType DEF VerifySignature, At, Stages
  <2>3. CASE CheckGrant(r)
    BY <2>1, <2>3, RefuseType, PassType DEF CheckGrant, At, Stages
  <2>4. CASE ReadCell(r)
    <3>1. CASE Refuse(r)
      BY <2>1, <3>1, RefuseType
    <3>2. CASE ~Refuse(r)
      <4> DEFINE c == Intent(r).cell
                 read == [req[r] EXCEPT !.stage = "revocation", !.lock = owner[c],
                                        !.born = born[c]]
      <4>1. /\ req' = [req EXCEPT ![r] = read] /\ witnessed' = witnessed
            /\ live = c
        BY <2>4, <3>2 DEF ReadCell, CellLive
      <4>2. req[r].stage = "cell" /\ req[r].nonce # 0 /\ req[r] \in RequestType
        BY <2>4 DEF ReadCell, At, RequestOK
      <4>3. c \in Cells
        BY <2>4, AuthorizationAssumption DEF ReadCell, At, RequestOK, Intent
      <4>4. owner[c] \in Addresses /\ born[c] \in Nat
        BY <4>1, <4>3 DEF WorldOK, Cells
      <4>5. /\ read \in RequestType /\ read.stage = "revocation" /\ read.nonce = req[r].nonce
            /\ read.lock = owner[c] /\ read.intent = req[r].intent
        BY <4>2, <4>4 DEF RequestType, Stages
      <4> HIDE DEF read, c
      <4>6. owner[c] # NoOne
        BY <4>4, AuthorizationAssumption
      <4>7. req' \in [Requests -> RequestType]
        BY <4>1, <4>5 DEF RequestOK
      <4>8. \A s \in Requests : IF s = r THEN req'[s] = read ELSE req'[s] = req[s]
        BY <4>1 DEF RequestOK
      <4>9. QED
        BY <2>1, <4>1, <4>2, <4>5, <4>6, <4>7, <4>8 DEF RequestOK
    <3>3. QED
      BY <3>1, <3>2
  <2>5. CASE ReadRevocation(r)
    BY <2>1, <2>5, RefuseType, PassType DEF ReadRevocation, At, Stages, RequestOK
  <2>6. CASE Authorize(r)
    BY <2>1, <2>6, RefuseType, PassType DEF Authorize, At, Stages, RequestOK
  <2>7. QED
    BY <1>2, <2>2, <2>3, <2>4, <2>5, <2>6
<1>3. QED
  BY <1>1, <1>2 DEF Handle

\* Every other step.
LEMMA WorldType ==
    ASSUME TypeInv, [Next]_vars, \A r \in Requests : ~Handle(r) PROVE TypeInv'
<1> USE AuthorizationAssumption DEF TypeInv
<1>1. ASSUME NEW a \in Addresses, NEW i \in Intents, Issue(a, i) PROVE TypeInv'
  <2>1. RequestOK'
    BY <1>1 DEF Issue, RequestOK
  <2> DEFINE challenge == [identity |-> a, intent |-> i, expires |-> now + ChallengeTtl]
  <2>2. /\ next \in Nonces /\ issued' = [issued EXCEPT ![next] = challenge]
        /\ pending' \subseteq pending \cup {next} /\ next' = next + 1
        /\ UNCHANGED <<now, live, owner, born, revoked>>
    BY <1>1, PrunedSubset DEF Issue, chain
  <2>3. challenge \in [identity: Addresses, intent: Intents, expires: Nat]
    BY DEF WorldOK
  <2>4. challenge # NoChallenge
    <3>1. challenge.identity # NoChallenge.identity
      BY DEF NoChallenge
    <3>2. QED
      BY <3>1
  <2> HIDE DEF challenge
  <2>5. next' \in 1 .. MaxNonces + 1 /\ 1 .. next' - 1 = (1 .. next - 1) \cup {next}
    BY <2>2 DEF WorldOK, Nonces
  <2>6. \A n \in 1 .. next' - 1 : issued'[n] # NoChallenge
    <3>1. 1 .. next' - 1 \subseteq Nonces
      BY <2>2, <2>5 DEF Nonces, WorldOK
    <3>2. QED
      BY <3>1, <2>2, <2>4, <2>5 DEF WorldOK
  <2>7. QED
    BY <2>1, <2>2, <2>3, <2>5, <2>6 DEF WorldOK
<1>2. ASSUME NEW n \in Nonces, CleanUp(n) PROVE TypeInv'
  BY <1>2 DEF CleanUp, RequestOK, WorldOK, chain
<1>3. ASSUME NEW r \in Requests, NEW n \in Nonces, NEW a \in Addresses, NEW s \in Addresses,
             NEW i \in Intents, Send(r, n, a, s, i)
      PROVE  TypeInv'
  <2>1. WorldOK'
    BY <1>3 DEF Send, WorldOK, chain, store
  <2> DEFINE sent == [stage |-> "consume", nonce |-> n, address |-> a, signer |-> s,
                      intent |-> i, lock |-> NoOne, born |-> 0]
             seen == [owners |-> IF live = 0 THEN {} ELSE {<<live, owner[live]>>},
                      unrevoked |-> ~revoked, since |-> now]
  <2>2. req' = [req EXCEPT ![r] = sent] /\ witnessed' = [witnessed EXCEPT ![r] = seen]
    BY <1>3 DEF Send
  <2>3. sent \in RequestType /\ sent.stage = "consume" /\ sent.nonce # 0 /\ sent.intent \in Intents
    BY DEF RequestType, Stages, Nonces
  <2>4. seen \in WitnessType
    <3>1. live # 0 => live \in Cells /\ owner[live] \in Addresses
      BY DEF WorldOK, Cells
    <3>2. QED
      BY <3>1 DEF WitnessType, WorldOK
  <2> HIDE DEF sent, seen
  <2>5. QED
    BY <2>1, <2>2, <2>3, <2>4 DEF RequestOK
<1>4. ASSUME NEW a \in Addresses, Transfer(a) PROVE TypeInv'
  <2>1. /\ live \in 1 .. MaxCells - 1 /\ live' = live + 1
        /\ owner' = [owner EXCEPT ![live + 1] = a] /\ born' = [born EXCEPT ![live + 1] = now]
        /\ UNCHANGED <<now, revoked, issued, next, pending, req>>
    BY <1>4 DEF Transfer, store
  <2>2. live' \in Cells /\ \A c \in Cells : c <= live' => c <= live \/ c = live'
    BY <2>1 DEF Cells, WorldOK
  <2>3. WorldOK'
    BY <2>1, <2>2 DEF WorldOK
  <2>4. witnessed' \in [Requests -> WitnessType]
    <3>1. ASSUME NEW r \in Requests
          PROVE  [witnessed[r] EXCEPT !.owners = @ \cup {<<live + 1, a>>}] \in WitnessType
      BY <2>1, <2>2 DEF RequestOK, WitnessType
    <3>2. QED
      BY <1>4, <3>1 DEF Transfer, RequestOK
  <2>5. QED
    BY <2>1, <2>3, <2>4 DEF RequestOK
<1>5. ASSUME Burn PROVE TypeInv'
  BY <1>5 DEF Burn, RequestOK, WorldOK, store, Cells
<1>6. ASSUME Revoke PROVE TypeInv'
  BY <1>6 DEF Revoke, RequestOK, WorldOK, store, chain
<1>7. ASSUME Restore PROVE TypeInv'
  <2>1. WorldOK'
    BY <1>7 DEF Restore, WorldOK, store, chain
  <2>2. witnessed' \in [Requests -> WitnessType]
    <3>1. ASSUME NEW r \in Requests
          PROVE  [witnessed[r] EXCEPT !.unrevoked = TRUE] \in WitnessType
      BY DEF RequestOK, WitnessType
    <3>2. QED
      BY <1>7, <3>1 DEF Restore, RequestOK
  <2>3. QED
    BY <1>7, <2>1, <2>2 DEF Restore, RequestOK
<1>8. ASSUME Restart PROVE TypeInv'
  <2>1. WorldOK'
    BY <1>8 DEF Restart, WorldOK, chain
  <2>2. \A r \in Requests : req'[r] = Refused \/ req'[r] = req[r]
    BY <1>8 DEF Restart
  <2>3. Refused.stage = "refused"
    BY DEF Refused, Idle
  <2>4. req' \in [Requests -> RequestType] /\ witnessed' \in [Requests -> WitnessType]
    BY <1>8, ConstantTypes DEF Restart, RequestOK
  <2>5. QED
    BY <2>1, <2>2, <2>3, <2>4 DEF RequestOK
<1>9. ASSUME Tick PROVE TypeInv'
  BY <1>9 DEF Tick, RequestOK, WorldOK, store, chain
<1>10. ASSUME UNCHANGED vars PROVE TypeInv'
  BY <1>10 DEF vars, RequestOK, WorldOK, store, chain
<1>11. QED
  BY <1>1, <1>2, <1>3, <1>4, <1>5, <1>6, <1>7, <1>8, <1>9, <1>10 DEF Next

LEMMA TypeStep == TypeInv /\ [Next]_vars => TypeInv'
BY HandleType, WorldType

\* Values keep their types through every request, transfer, revocation and restart.
THEOREM TypeCorrect == Spec => []TypeOK
<1>1. TypeInv => TypeOK
  BY DEF TypeInv, RequestOK, WorldOK, TypeOK
<1>2. QED
  BY <1>1, TypeInit, TypeStep, PTL DEF Spec

-----------------------------------------------------------------------------
(***************************************************************************)
(* Nonces                                                                  *)
(***************************************************************************)
\* The stages a request reaches when its challenge was consumed for it.
Consuming == {"signature", "grant", "cell", "revocation", "finality", "authorized"}
Past(r) == req[r].stage \in Consuming

NonceInv ==
    /\ \A r \in Requests : Past(r) =>
          /\ req[r].nonce < next
          /\ req[r].nonce \notin pending
          /\ issued[req[r].nonce].identity = req[r].address
          /\ issued[req[r].nonce].intent = req[r].intent
    /\ \A r, s \in Requests : Past(r) /\ Past(s) /\ req[r].nonce = req[s].nonce => r = s
    /\ \A r \in Requests : Past(r) /\ ~At(r, "signature") => req[r].signer = req[r].address

\* What a request's later steps do to its nonce: they keep it or drop the request.
LEMMA LaterStep ==
    ASSUME TypeInv, NEW r \in Requests,
           VerifySignature(r) \/ CheckGrant(r) \/ ReadCell(r) \/ ReadRevocation(r) \/ Authorize(r)
    PROVE  /\ UNCHANGED <<now, live, owner, born, revoked, issued, next, pending>>
           /\ \A s \in Requests \ {r} : req'[s] = req[s] /\ witnessed'[s] = witnessed[s]
           /\ Past(r)
           /\ \/ req'[r].stage = "refused"
              \/ /\ req'[r].nonce = req[r].nonce /\ req'[r].address = req[r].address
                 /\ req'[r].intent = req[r].intent /\ req'[r].signer = req[r].signer
                 /\ witnessed'[r] = witnessed[r]
                 /\ VerifySignature(r) => req[r].signer = req[r].address
                 /\ ~VerifySignature(r) => ~At(r, "signature")
<1> USE DEF TypeInv, RequestOK
<1>0. Refused.stage = "refused"
  BY DEF Refused, Idle
<1>1. /\ UNCHANGED <<now, live, owner, born, revoked, issued, next, pending>>
      /\ Past(r)
  BY DEF VerifySignature, CheckGrant, ReadCell, ReadRevocation, Authorize, Past, Consuming, At,
         chain, store
<1>2. \/ Refuse(r)
      \/ \E stage \in Stages : Pass(r, stage)
      \/ ReadCell(r) /\ req' = [req EXCEPT ![r].stage = "revocation",
                    ![r].lock = owner[Intent(r).cell], ![r].born = born[Intent(r).cell]]
                     /\ UNCHANGED witnessed
  BY DEF VerifySignature, CheckGrant, ReadCell, ReadRevocation, Authorize, Stages
<1>3. /\ \A s \in Requests \ {r} : req'[s] = req[s] /\ witnessed'[s] = witnessed[s]
      /\ \/ req'[r].stage = "refused"
         \/ /\ req'[r].nonce = req[r].nonce /\ req'[r].address = req[r].address
            /\ req'[r].intent = req[r].intent /\ req'[r].signer = req[r].signer
            /\ witnessed'[r] = witnessed[r]
  <2>1. CASE Refuse(r)
    BY <1>0, <2>1 DEF Refuse
  <2>2. ASSUME NEW stage \in Stages, Pass(r, stage) PROVE <1>3!1 /\ <1>3!2
    <3>1. /\ \A s \in Requests \ {r} : req'[s] = req[s] /\ witnessed'[s] = witnessed[s]
          /\ req'[r].nonce = req[r].nonce /\ req'[r].address = req[r].address
          /\ req'[r].intent = req[r].intent /\ req'[r].signer = req[r].signer
          /\ witnessed'[r] = witnessed[r]
      BY <2>2 DEF Pass, RequestType
    <3>2. QED
      BY <3>1
  <2>3. CASE /\ req' = [req EXCEPT ![r].stage = "revocation",
                    ![r].lock = owner[Intent(r).cell], ![r].born = born[Intent(r).cell]]
             /\ UNCHANGED witnessed
    <3>1. /\ \A s \in Requests \ {r} : req'[s] = req[s] /\ witnessed'[s] = witnessed[s]
          /\ req'[r].nonce = req[r].nonce /\ req'[r].address = req[r].address
          /\ req'[r].intent = req[r].intent /\ req'[r].signer = req[r].signer
          /\ witnessed'[r] = witnessed[r]
      BY <2>3 DEF RequestType
    <3>2. QED
      BY <3>1
  <2>4. QED
    BY <1>2, <2>1, <2>2, <2>3
<1>4. /\ VerifySignature(r) => req'[r].stage = "refused" \/ req[r].signer = req[r].address
      /\ ~VerifySignature(r) => ~At(r, "signature")
  <2>1. CASE VerifySignature(r)
    BY <2>1, <1>0 DEF VerifySignature, SignatureValid, Refuse
  <2>2. CASE ~VerifySignature(r)
    BY <2>2 DEF CheckGrant, ReadCell, ReadRevocation, Authorize, At
  <2>3. QED
    BY <2>1, <2>2
<1>5. QED
  BY <1>1, <1>3, <1>4

LEMMA NonceInit == Init => NonceInv
<1> SUFFICES ASSUME Init PROVE NonceInv
  OBVIOUS
<1>1. \A r \in Requests : ~Past(r)
  BY DEF Init, Idle, Past, Consuming
<1>2. QED
  BY <1>1 DEF NonceInv

LEMMA NonceStep == TypeInv /\ NonceInv /\ [Next]_vars => NonceInv'
<1> SUFFICES ASSUME TypeInv, NonceInv, [Next]_vars PROVE NonceInv'
  OBVIOUS
<1>0. TypeInv'
  BY TypeStep
<1>a. Refused.stage = "refused"
  BY DEF Refused, Idle
<1> USE DEF Past, Consuming, At
<1>1. ASSUME NEW r \in Requests,
             VerifySignature(r) \/ CheckGrant(r) \/ ReadCell(r) \/ ReadRevocation(r) \/ Authorize(r)
      PROVE  NonceInv'
  BY <1>1, LaterStep DEF NonceInv
<1>2. ASSUME NEW r \in Requests, Consume(r) PROVE NonceInv'
  <2> DEFINE n == req[r].nonce
  <2>1. /\ pending' = pending \ {n} /\ UNCHANGED <<issued, next>>
        /\ \A s \in Requests \ {r} : req'[s] = req[s]
    BY <1>2 DEF Consume, Consumed, Refuse, Pass, TypeInv, RequestOK
  <2>2. \/ req'[r].stage = "refused"
        \/ /\ n \in pending /\ issued[n].identity = req[r].address
           /\ issued[n].intent = req[r].intent
           /\ req'[r].stage = "signature" /\ req'[r].nonce = n
           /\ req'[r].address = req[r].address /\ req'[r].intent = req[r].intent
    <3>1. CASE Refuse(r)
      BY <3>1, <1>a DEF Refuse, TypeInv, RequestOK
    <3>2. CASE ~Refuse(r)
      <4>1. n \in pending /\ IdentityMatches(r) /\ MatchesRequest(r) /\ Pass(r, "signature")
        BY <1>2, <3>2 DEF Consume
      <4>2. QED
        BY <4>1 DEF IdentityMatches, MatchesRequest, Pass, Intent, TypeInv, RequestOK, RequestType
    <3>3. QED
      BY <3>1, <3>2
  <2>3. n \in pending => n < next
    <3>1. MaxNonces \in Nat /\ next \in 1 .. MaxNonces + 1 /\ pending \subseteq 1 .. next - 1
      BY AuthorizationAssumption DEF TypeInv, WorldOK
    <3> HIDE DEF n
    <3>2. QED
      BY <3>1
  <2>4. \A s \in Requests \ {r} : Past(s)' => Past(s) /\ (req[s].nonce # n \/ n \notin pending)
    BY <2>1 DEF NonceInv
  <2>5. QED
    BY <2>1, <2>2, <2>3, <2>4 DEF NonceInv
<1>3. ASSUME NEW a \in Addresses, NEW i \in Intents, Issue(a, i) PROVE NonceInv'
  <2>1. /\ next' = next + 1 /\ pending' \subseteq pending \cup {next} /\ req' = req
        /\ \A n \in Nonces : n # next => issued'[n] = issued[n]
    BY <1>3, PrunedSubset DEF Issue, TypeInv, WorldOK
  <2>2. ASSUME NEW r \in Requests, Past(r)
        PROVE  /\ req[r].nonce \in Nonces /\ req[r].nonce < next' /\ req[r].nonce # next
               /\ req[r].nonce \notin pending' /\ issued'[req[r].nonce] = issued[req[r].nonce]
    <3>1. req[r].nonce \in Nonces /\ next \in Nat
      BY <2>2 DEF TypeInv, RequestOK, WorldOK, RequestType
    <3>2. req[r].nonce < next /\ req[r].nonce \notin pending
      BY <2>2 DEF NonceInv
    <3>3. req[r].nonce < next' /\ req[r].nonce # next
      BY <3>1, <3>2, <2>1 DEF Nonces
    <3>4. QED
      BY <3>1, <3>2, <3>3, <2>1
  <2>3. QED
    BY <2>1, <2>2 DEF NonceInv
<1>4. ASSUME NEW r \in Requests, NEW n \in Nonces, NEW a \in Addresses, NEW s \in Addresses,
             NEW i \in Intents, Send(r, n, a, s, i)
      PROVE  NonceInv'
  <2>1. /\ ~Past(r)' /\ \A q \in Requests \ {r} : req'[q] = req[q]
        /\ UNCHANGED <<issued, next, pending>>
    BY <1>4 DEF Send, store, TypeInv, RequestOK
  <2>2. QED
    BY <2>1 DEF NonceInv
<1>5. ASSUME UNCHANGED <<req, issued, next>>, pending' \subseteq pending PROVE NonceInv'
  BY <1>5 DEF NonceInv
<1>6. ASSUME Restart PROVE NonceInv'
  <2>1. /\ pending' = {} /\ UNCHANGED <<issued, next>>
        /\ \A r \in Requests : req'[r].stage = "refused" \/ req'[r] = req[r]
    BY <1>6, <1>a DEF Restart
  <2>2. QED
    BY <2>1 DEF NonceInv
<1>7. ASSUME \/ \E a \in Addresses : Transfer(a)
             \/ \E n \in Nonces : CleanUp(n)
             \/ Burn \/ Revoke \/ Restore \/ Tick \/ UNCHANGED vars
      PROVE  NonceInv'
  <2>1. UNCHANGED <<req, issued, next>> /\ pending' \subseteq pending
    BY <1>7 DEF Transfer, CleanUp, Burn, Revoke, Restore, Tick, vars, store
  <2>2. QED
    BY <1>5, <2>1
<1>8. QED
  BY <1>1, <1>2, <1>3, <1>4, <1>6, <1>7 DEF Next, Handle

\* A challenge authorizes one request, on whatever replica and store, because it is deleted
\* by the call that reads it and no nonce is issued twice.
THEOREM OneRequest == Spec => []OneRequestPerNonce
<1>1. NonceInv => OneRequestPerNonce
  BY DEF NonceInv, OneRequestPerNonce, Past, Consuming, At
<1>2. QED
  BY <1>1, NonceInit, NonceStep, TypeInit, TypeStep, PTL DEF Spec

\* Only what the wallet of the caller signed is executed.
THEOREM OnlySigned == Spec => []SignedIntent
<1>1. NonceInv => SignedIntent
  BY DEF NonceInv, SignedIntent, Past, Consuming, At
<1>2. QED
  BY <1>1, NonceInit, NonceStep, TypeInit, TypeStep, PTL DEF Spec

-----------------------------------------------------------------------------
(***************************************************************************)
(* What was true while the request was served                              *)
(***************************************************************************)
Holder(r) == IF Delegated(r) THEN Grant(r).owner ELSE req[r].address

WitnessOf(r) ==
    /\ Active(r) => /\ live # 0 => <<live, owner[live]>> \in witnessed[r].owners
                    /\ ~revoked => witnessed[r].unrevoked
                    /\ witnessed[r].since <= now
    /\ At(r, "revocation") \/ At(r, "finality") \/ At(r, "authorized") =>
          <<Intent(r).cell, req[r].lock>> \in witnessed[r].owners
    /\ At(r, "finality") \/ At(r, "authorized") => witnessed[r].unrevoked
    /\ At(r, "authorized") => req[r].lock = Holder(r)
    /\ /\ Delegated(r)
       /\ At(r, "cell") \/ At(r, "revocation") \/ At(r, "finality") \/ At(r, "authorized")
       => /\ Grant(r).delegate = req[r].address
          /\ Grant(r).cell = Intent(r).cell
          /\ witnessed[r].since < Grant(r).expires

WitnessInv == \A r \in Requests : WitnessOf(r)

LEMMA WitnessInit == Init => WitnessInv
BY DEF Init, Idle, WitnessInv, WitnessOf, Active, At

\* A request that is refused or untouched keeps the invariant.
LEMMA RefusedWitness ==
    ASSUME NEW r \in Requests, TypeInv, WitnessInv, Refuse(r),
           UNCHANGED <<now, live, owner, revoked>>
    PROVE  WitnessInv'
<1>1. /\ req'[r].stage = "refused"
      /\ \A s \in Requests \ {r} : req'[s] = req[s] /\ witnessed'[s] = witnessed[s]
  BY DEF Refuse, Refused, Idle, TypeInv, RequestOK
<1>2. QED
  BY <1>1 DEF WitnessInv, WitnessOf, Active, At, Intent, Grant, Delegated, Holder

\* So does one that moves on, when what its new stage claims holds.
LEMMA PassedWitness ==
    ASSUME NEW r \in Requests, NEW stage \in Stages, TypeInv, WitnessInv, Pass(r, stage),
           UNCHANGED <<now, live, owner, revoked>>,
           Active(r), stage \notin {"idle", "refused"},
           stage \in {"revocation", "finality", "authorized"} =>
              <<Intent(r).cell, req[r].lock>> \in witnessed[r].owners,
           stage \in {"finality", "authorized"} => witnessed[r].unrevoked,
           stage = "authorized" => req[r].lock = Holder(r),
           Delegated(r) /\ stage \in {"cell", "revocation", "finality", "authorized"} =>
              /\ Grant(r).delegate = req[r].address
              /\ Grant(r).cell = Intent(r).cell
              /\ witnessed[r].since < Grant(r).expires
    PROVE  WitnessInv'
<1>1. /\ req'[r].stage = stage /\ req'[r].intent = req[r].intent
      /\ req'[r].lock = req[r].lock /\ req'[r].address = req[r].address
      /\ witnessed' = witnessed
      /\ \A s \in Requests \ {r} : req'[s] = req[s]
  BY DEF Pass, TypeInv, RequestOK, RequestType
<1>2. QED
  BY <1>1 DEF WitnessInv, WitnessOf, Active, At, Intent, Grant, Delegated, Holder

LEMMA WitnessHandle ==
    ASSUME TypeInv, WitnessInv, NEW r \in Requests, Handle(r) PROVE WitnessInv'
<1>1. CASE Consume(r)
  <2>1. Refuse(r) \/ Pass(r, "signature")
    BY <1>1 DEF Consume
  <2>2. Active(r) /\ UNCHANGED <<now, live, owner, revoked>>
    BY <1>1 DEF Consume, Active, At, chain
  <2>3. ASSUME Pass(r, "signature") PROVE WitnessInv'
    <3>1. "signature" \in Stages
      BY DEF Stages
    <3>2. QED
      BY <2>2, <2>3, <3>1, PassedWitness
  <2>4. QED
    BY <2>1, <2>2, <2>3, RefusedWitness
<1>2. CASE VerifySignature(r)
  <2>1. \/ Refuse(r)
        \/ Delegated(r) /\ Pass(r, "grant")
        \/ ~Delegated(r) /\ Pass(r, "cell")
    BY <1>2 DEF VerifySignature
  <2>2. Active(r) /\ UNCHANGED <<now, live, owner, revoked>>
    BY <1>2 DEF VerifySignature, Active, At, chain
  <2>3. QED
    BY <2>1, <2>2, RefusedWitness, PassedWitness DEF Stages
<1>3. CASE CheckGrant(r)
  <2>1. Refuse(r) \/ (InScope(r) /\ Pass(r, "cell"))
    BY <1>3 DEF CheckGrant
  <2>2. Active(r) /\ UNCHANGED <<now, live, owner, revoked>>
    BY <1>3 DEF CheckGrant, Active, At, chain
  <2>3. Delegated(r) /\ InScope(r) => witnessed[r].since < Grant(r).expires
    <3>1. witnessed[r].since <= now /\ witnessed[r].since \in Nat /\ now \in Nat
      BY <2>2 DEF WitnessInv, WitnessOf, TypeInv, RequestOK, WorldOK, WitnessType
    <3>2. Delegated(r) => Grant(r) \in Grants
      BY <1>3, AuthorizationAssumption
         DEF CheckGrant, At, Delegated, Grant, Intent, TypeInv, RequestOK
    <3>3. Delegated(r) => Grant(r).expires \in Nat
      BY <3>2, AuthorizationAssumption
    <3>4. QED
      BY <3>1, <3>3 DEF InScope
  <2>4. QED
    BY <2>1, <2>2, <2>3, RefusedWitness, PassedWitness DEF Stages, InScope
<1>4. CASE ReadCell(r)
  <2>1. Active(r) /\ At(r, "cell") /\ UNCHANGED <<now, live, owner, revoked>>
    BY <1>4 DEF ReadCell, Active, At, chain
  <2>2. CASE Refuse(r)
    BY <2>1, <2>2, RefusedWitness
  <2>3. CASE ~Refuse(r)
    <3>1. /\ req' = [req EXCEPT ![r].stage = "revocation", ![r].lock = owner[Intent(r).cell],
                               ![r].born = born[Intent(r).cell]]
          /\ witnessed' = witnessed /\ live = Intent(r).cell
      BY <1>4, <2>3 DEF ReadCell, CellLive
    <3>2. /\ req'[r].stage = "revocation" /\ req'[r].intent = req[r].intent
          /\ req'[r].lock = owner[live] /\ req'[r].address = req[r].address
          /\ \A s \in Requests \ {r} : req'[s] = req[s]
      BY <3>1 DEF TypeInv, RequestOK, RequestType
    <3>3. live # 0
      <4>1. live \in Cells
        BY <2>1, <3>1, AuthorizationAssumption DEF TypeInv, RequestOK, At, Intent
      <4>2. QED
        BY <4>1 DEF Cells
    <3>4. <<live, owner[live]>> \in witnessed[r].owners
      BY <2>1, <3>3 DEF WitnessInv, WitnessOf
    <3>5. /\ At(r, "revocation")' /\ Intent(r)' = Intent(r) /\ Grant(r)' = Grant(r)
          /\ Delegated(r)' = Delegated(r)
          /\ <<Intent(r)', req'[r].lock>> = <<Intent(r), owner[live]>>
      BY <3>2 DEF At, Intent, Grant, Delegated
    <3>6. ASSUME NEW s \in Requests \ {r} PROVE WitnessOf(s)'
      <4>1. WitnessOf(s) /\ req'[s] = req[s] /\ witnessed'[s] = witnessed[s]
        BY <3>1, <3>2 DEF WitnessInv
      <4>2. UNCHANGED <<now, live, owner, revoked>>
        BY <2>1
      <4>3. QED
        BY <4>1, <4>2 DEF WitnessOf, Active, At, Intent, Grant, Delegated, Holder
    <3>7. WitnessOf(r)'
      <4>1. WitnessOf(r)
        BY DEF WitnessInv
      <4>2. <<Intent(r)'.cell, req'[r].lock>> \in witnessed'[r].owners
        BY <3>1, <3>2, <3>4 DEF Intent
      <4>3. /\ Active(r)' /\ Active(r) /\ ~At(r, "finality")' /\ ~At(r, "authorized")'
            /\ At(r, "cell") /\ witnessed'[r] = witnessed[r] /\ req'[r].address = req[r].address
        BY <2>1, <3>1, <3>2 DEF Active, At
      <4>4. QED
        BY <2>1, <3>5, <4>1, <4>2, <4>3 DEF WitnessOf
    <3>8. QED
      BY <3>6, <3>7 DEF WitnessInv
  <2>4. QED
    BY <2>2, <2>3
<1>5. CASE ReadRevocation(r)
  <2>1. Refuse(r) \/ (~revoked /\ Pass(r, "finality"))
    BY <1>5 DEF ReadRevocation, Revoked
  <2>2. Active(r) /\ At(r, "revocation") /\ UNCHANGED <<now, live, owner, revoked>>
    BY <1>5 DEF ReadRevocation, Active, At, chain
  <2>3. QED
    BY <2>1, <2>2, RefusedWitness, PassedWitness DEF Stages, WitnessInv, WitnessOf
<1>6. CASE Authorize(r)
  <2>1. Refuse(r) \/ (OwnerMatches(r) /\ Pass(r, "authorized"))
    BY <1>6 DEF Authorize
  <2>2. Active(r) /\ At(r, "finality") /\ UNCHANGED <<now, live, owner, revoked>>
    BY <1>6 DEF Authorize, Active, At, chain
  <2>3. QED
    BY <2>1, <2>2, RefusedWitness, PassedWitness DEF Stages, WitnessInv, WitnessOf, OwnerMatches, Holder
<1>7. QED
  BY <1>1, <1>2, <1>3, <1>4, <1>5, <1>6 DEF Handle

\* A transfer or a restoration is witnessed by every request that is being served.
LEMMA WitnessWorld ==
    ASSUME TypeInv, WitnessInv, [Next]_vars, \A r \in Requests : ~Handle(r) PROVE WitnessInv'
<1> USE DEF Active, At, Intent, Grant, Delegated, Holder
<1>1. ASSUME NEW r \in Requests, NEW n \in Nonces, NEW a \in Addresses, NEW s \in Addresses,
             NEW i \in Intents, Send(r, n, a, s, i)
      PROVE  WitnessInv'
  <2>1. /\ req'[r].stage = "consume"
        /\ witnessed'[r] = [owners |-> IF live = 0 THEN {} ELSE {<<live, owner[live]>>},
                            unrevoked |-> ~revoked, since |-> now]
        /\ UNCHANGED <<now, live, owner, revoked>>
        /\ \A q \in Requests \ {r} : req'[q] = req[q] /\ witnessed'[q] = witnessed[q]
    BY <1>1 DEF Send, chain, TypeInv, RequestOK
  <2>2. WitnessOf(r)'
    <3>1. /\ live # 0 => <<live, owner[live]>> \in witnessed'[r].owners
          /\ witnessed'[r].since = now
      BY <2>1
    <3>2. ~revoked => witnessed'[r].unrevoked
      <4> DEFINE seen(free) == [owners |-> IF live = 0 THEN {} ELSE {<<live, owner[live]>>},
                                unrevoked |-> free, since |-> now]
      <4>1. witnessed'[r] = seen(~revoked)
        BY <2>1
      <4>2. \A free : seen(free).unrevoked = free
        OBVIOUS
      <4> HIDE DEF seen
      <4>3. witnessed'[r].unrevoked = ~revoked
        BY <4>1, <4>2, Zenon
      <4>4. QED
        BY <4>3
    <3>3. /\ live' # 0 => <<live', owner'[live']>> \in witnessed'[r].owners
          /\ witnessed'[r].since <= now'
      BY <2>1, <3>1 DEF TypeInv, WorldOK
    <3>4. ~revoked' => witnessed'[r].unrevoked
      BY <2>1, <3>2
    <3>5. req'[r].stage = "consume"
      BY <2>1
    <3>6. QED
      BY <3>3, <3>4, <3>5 DEF WitnessOf
  <2>3. ASSUME NEW q \in Requests \ {r} PROVE WitnessOf(q)'
    <3>1. WitnessOf(q)
      BY DEF WitnessInv
    <3>2. QED
      BY <2>1, <3>1 DEF WitnessOf
  <2>4. QED
    BY <2>2, <2>3 DEF WitnessInv
<1>2. ASSUME NEW a \in Addresses, Transfer(a) PROVE WitnessInv'
  <2>1. /\ live' = live + 1 /\ owner'[live + 1] = a /\ live \in Nat
        /\ UNCHANGED <<now, revoked, req>>
    <3>1. live \in 1 .. MaxCells - 1 /\ MaxCells \in Nat
      BY <1>2, AuthorizationAssumption DEF Transfer
    <3>2. live \in Nat /\ live + 1 \in Cells
      BY <3>1 DEF Cells
    <3>3. QED
      BY <1>2, <3>2 DEF Transfer, TypeInv, WorldOK
  <2>2. ASSUME NEW r \in Requests PROVE WitnessOf(r)'
    <3>1. WitnessOf(r) /\ witnessed[r] \in WitnessType
      BY DEF WitnessInv, TypeInv, RequestOK
    <3>2. /\ witnessed[r].owners \subseteq witnessed'[r].owners
          /\ witnessed'[r].unrevoked = witnessed[r].unrevoked
          /\ witnessed'[r].since = witnessed[r].since
          /\ Active(r) => <<live + 1, a>> \in witnessed'[r].owners
      BY <1>2, <3>1 DEF Transfer, WitnessType
    <3>3. QED
      BY <2>1, <3>1, <3>2 DEF WitnessOf
  <2>3. QED
    BY <2>2 DEF WitnessInv
<1>3. ASSUME Restore PROVE WitnessInv'
  <2>1. ASSUME NEW r \in Requests PROVE WitnessOf(r)'
    <3>1. WitnessOf(r) /\ witnessed[r] \in WitnessType
      BY DEF WitnessInv, TypeInv, RequestOK
    <3>2. /\ witnessed'[r].owners = witnessed[r].owners
          /\ witnessed[r].unrevoked => witnessed'[r].unrevoked
          /\ witnessed'[r].since = witnessed[r].since
          /\ Active(r) => witnessed'[r].unrevoked
      BY <1>3, <3>1 DEF Restore, WitnessType
    <3>3. UNCHANGED <<now, live, owner, req>>
      BY <1>3 DEF Restore, chain
    <3>4. QED
      BY <3>1, <3>2, <3>3 DEF WitnessOf
  <2>2. QED
    BY <2>1 DEF WitnessInv
<1>4. ASSUME Restart PROVE WitnessInv'
  <2>1. ASSUME NEW r \in Requests PROVE WitnessOf(r)'
    <3>1. WitnessOf(r) /\ UNCHANGED <<now, live, owner, revoked>>
      BY <1>4 DEF WitnessInv, Restart, chain
    <3>2. \/ req'[r].stage = "refused"
          \/ req'[r] = req[r] /\ witnessed'[r] = witnessed[r]
      BY <1>4 DEF Restart, Refused, Idle
    <3>3. QED
      BY <3>1, <3>2 DEF WitnessOf
  <2>2. QED
    BY <2>1 DEF WitnessInv
<1>5. ASSUME UNCHANGED <<owner, req, witnessed>>, live' \in {0, live},
             now' \in {now, now + 1}, revoked => revoked'
      PROVE  WitnessInv'
  <2>1. ASSUME NEW r \in Requests PROVE WitnessOf(r)'
    <3>1. WitnessOf(r) /\ witnessed[r].since \in Nat /\ now \in Nat
      BY DEF WitnessInv, TypeInv, RequestOK, WitnessType, WorldOK
    <3>2. witnessed[r].since <= now => witnessed[r].since <= now'
      BY <1>5, <3>1
    <3>3. QED
      BY <1>5, <3>1, <3>2 DEF WitnessOf
  <2>2. QED
    BY <2>1 DEF WitnessInv
<1>6. ASSUME \/ \E a \in Addresses, i \in Intents : Issue(a, i)
             \/ \E n \in Nonces : CleanUp(n)
             \/ Burn \/ Revoke \/ Tick \/ UNCHANGED vars
      PROVE  WitnessInv'
  <2>1. /\ UNCHANGED <<owner, req, witnessed>> /\ live' \in {0, live}
        /\ now' \in {now, now + 1} /\ (revoked => revoked')
    BY <1>6 DEF Issue, CleanUp, Burn, Revoke, Tick, vars, chain
  <2>2. QED
    BY <1>5, <2>1
<1>7. QED
  BY <1>1, <1>2, <1>3, <1>4, <1>6 DEF Next

LEMMA WitnessStep == TypeInv /\ WitnessInv /\ [Next]_vars => WitnessInv'
BY WitnessHandle, WitnessWorld

\* Whoever passes without a grant owned the live cell it named while it was served.
THEOREM OnlyOwners == Spec => []OwnedDuringRequest
<1>1. WitnessInv => OwnedDuringRequest
  BY DEF WitnessInv, WitnessOf, OwnedDuringRequest, Holder
<1>2. QED
  BY <1>1, WitnessInit, WitnessStep, TypeInit, TypeStep, PTL DEF Spec

\* Whoever passes with a grant holds one of the owner of the granted cell at that time.
THEOREM OnlyGranted == Spec => []GrantedDuringRequest
<1>1. WitnessInv => GrantedDuringRequest
  BY DEF WitnessInv, WitnessOf, GrantedDuringRequest, Holder
<1>2. QED
  BY <1>1, WitnessInit, WitnessStep, TypeInit, TypeStep, PTL DEF Spec

\* Nobody passes who was served entirely under a revocation.
THEOREM OnlyUnrevoked == Spec => []UnrevokedDuringRequest
<1>1. WitnessInv => UnrevokedDuringRequest
  BY DEF WitnessInv, WitnessOf, UnrevokedDuringRequest
<1>2. QED
  BY <1>1, WitnessInit, WitnessStep, TypeInit, TypeStep, PTL DEF Spec

-----------------------------------------------------------------------------
(***************************************************************************)
(* Depth in the chain                                                      *)
(***************************************************************************)
\* The stages in which a request knows the block of its cell.
Located(r) == req[r].stage \in {"revocation", "finality", "authorized"}

\* What makes a cached tip enough: the block that was read is that of the cell, which is never
\* created again, and no cell is younger than the chain.
DepthInv ==
    /\ \A c \in Cells : born[c] <= now
    /\ \A r \in Requests : Located(r) =>
          /\ req[r].born = born[Intent(r).cell]
          /\ live # 0 => Intent(r).cell <= live
    /\ \A r \in Requests : At(r, "authorized") =>
          now + 1 >= born[Intent(r).cell] + MinConfirmations

LEMMA DepthInit == Init => DepthInv
<1> SUFFICES ASSUME Init PROVE DepthInv
  OBVIOUS
<1>1. \A r \in Requests : ~Located(r) /\ ~At(r, "authorized")
  BY DEF Init, Idle, Located, At
<1>2. QED
  BY <1>1 DEF Init, DepthInv

\* A tip that is not above the chain proves the depth of the cell it was computed for.
LEMMA TipEnough ==
    ASSUME TypeInv, DepthInv, NEW r \in Requests, At(r, "finality"), NEW tip \in Tips, Final(r, tip)
    PROVE  now + 1 >= born[Intent(r).cell] + MinConfirmations
<1>1. /\ now \in Nat /\ MinConfirmations \in Nat /\ tip \in 0 .. now
      /\ req[r].born \in Nat
  BY AuthorizationAssumption DEF TypeInv, WorldOK, RequestOK, RequestType, Tips
<1>2. Intent(r).cell \in Cells
  BY AuthorizationAssumption DEF TypeInv, RequestOK, At, Intent
<1>3. req[r].born = born[Intent(r).cell] /\ req[r].born <= now
  BY <1>2 DEF DepthInv, Located, At
<1>4. QED
  BY <1>1, <1>3 DEF Final

\* What a request's own step does to the block it knows: it keeps it, or reads it of the live
\* cell, and passes for good only with a tip that is deep enough.
LEMMA LocatedStep ==
    ASSUME TypeInv, DepthInv, NEW r \in Requests,
           VerifySignature(r) \/ CheckGrant(r) \/ ReadCell(r) \/ ReadRevocation(r) \/ Authorize(r)
    PROVE  /\ Located(r)' => /\ req'[r].born = born[req'[r].intent.cell]
                             /\ live # 0 => req'[r].intent.cell <= live
           /\ At(r, "authorized")' => now + 1 >= born[req'[r].intent.cell] + MinConfirmations
<1> USE DEF TypeInv, RequestOK
<1>0. Refused.stage = "refused"
  BY DEF Refused, Idle
<1>1. CASE Refuse(r)
  BY <1>0, <1>1 DEF Refuse, Located, At
<1>2. ASSUME NEW stage \in Stages, Pass(r, stage),
             Located(r) \/ stage \notin {"revocation", "finality", "authorized"}
      PROVE  Located(r)' => /\ req'[r].born = born[req'[r].intent.cell]
                            /\ live # 0 => req'[r].intent.cell <= live
  <2>1. req'[r].stage = stage /\ req'[r].born = req[r].born /\ req'[r].intent = req[r].intent
    BY <1>2 DEF Pass, RequestType
  <2>2. QED
    BY <1>2, <2>1 DEF DepthInv, Located, Intent
<1>3. CASE VerifySignature(r) \/ CheckGrant(r)
  <2>1. Refuse(r) \/ \E stage \in {"grant", "cell"} : Pass(r, stage)
    BY <1>3 DEF VerifySignature, CheckGrant
  <2>2. ASSUME NEW stage \in {"grant", "cell"}, Pass(r, stage)
        PROVE  req'[r].stage = stage
    BY <2>2 DEF Pass, RequestType
  <2>3. QED
    BY <1>1, <2>1, <2>2 DEF Located, At
<1>4. CASE ReadCell(r)
  <2>1. CASE ~Refuse(r)
    <3>1. /\ req' = [req EXCEPT ![r].stage = "revocation", ![r].lock = owner[Intent(r).cell],
                                ![r].born = born[Intent(r).cell]]
          /\ live = Intent(r).cell
      BY <1>4, <2>1 DEF ReadCell, CellLive
    <3>2. /\ req'[r].born = born[Intent(r).cell] /\ req'[r].intent = req[r].intent
          /\ req'[r].stage = "revocation"
      BY <3>1 DEF RequestType
    <3>3. live \in Nat
      BY AuthorizationAssumption DEF WorldOK, Cells
    <3>4. QED
      BY <3>1, <3>2, <3>3 DEF Located, At, Intent
  <2>2. QED
    BY <1>1, <2>1
<1>5. CASE ReadRevocation(r)
  <2>1. CASE Pass(r, "finality")
    <3>1. req'[r].stage = "finality"
      BY <2>1 DEF Pass, RequestType
    <3>2. QED
      BY <1>2, <1>5, <2>1, <3>1 DEF ReadRevocation, Located, At, Stages
  <2>2. QED
    BY <1>1, <1>5, <2>1 DEF ReadRevocation
<1>6. CASE Authorize(r)
  <2>1. ASSUME NEW tip \in Tips, Final(r, tip), Pass(r, "authorized")
        PROVE  /\ Located(r)' => /\ req'[r].born = born[req'[r].intent.cell]
                                 /\ live # 0 => req'[r].intent.cell <= live
               /\ now + 1 >= born[req'[r].intent.cell] + MinConfirmations
    <3>1. req'[r].intent = req[r].intent
      BY <2>1 DEF Pass, RequestType
    <3>2. now + 1 >= born[Intent(r).cell] + MinConfirmations
      BY <1>6, <2>1, TipEnough DEF Authorize
    <3>3. QED
      BY <1>2, <1>6, <2>1, <3>1, <3>2 DEF Authorize, Located, At, Stages, Intent
  <2>2. QED
    BY <1>1, <1>6, <2>1 DEF Authorize
<1>7. QED
  BY <1>3, <1>4, <1>5, <1>6

LEMMA DepthStep == TypeInv /\ DepthInv /\ [Next]_vars => DepthInv'
<1> SUFFICES ASSUME TypeInv, DepthInv, [Next]_vars PROVE DepthInv'
  OBVIOUS
<1>a. Refused.stage = "refused"
  BY DEF Refused, Idle
<1>t. /\ now \in Nat /\ live \in Nat /\ live <= MaxCells /\ MaxCells \in Nat
      /\ MinConfirmations \in Nat /\ \A c \in Cells : born[c] \in Nat
  BY AuthorizationAssumption DEF TypeInv, WorldOK, Cells
<1>c. \A r \in Requests : Located(r) => Intent(r).cell \in Cells
  BY AuthorizationAssumption DEF Located, TypeInv, RequestOK, Intent
<1>1. ASSUME NEW r \in Requests,
             VerifySignature(r) \/ CheckGrant(r) \/ ReadCell(r) \/ ReadRevocation(r) \/ Authorize(r)
      PROVE  DepthInv'
  <2>1. /\ UNCHANGED <<now, live, born>>
        /\ \A s \in Requests \ {r} : req'[s] = req[s]
    BY <1>1, LaterStep
  <2>2. /\ Located(r)' => /\ req'[r].born = born[req'[r].intent.cell]
                          /\ live # 0 => req'[r].intent.cell <= live
        /\ At(r, "authorized")' => now + 1 >= born[req'[r].intent.cell] + MinConfirmations
    BY <1>1, LocatedStep
  <2>3. QED
    BY <2>1, <2>2 DEF DepthInv, Located, At, Intent
<1>2. ASSUME \A r \in Requests : req'[r] = req[r] \/ ~Located(r)',
             UNCHANGED <<live, born>>, now' >= now, now' \in Nat
      PROVE  DepthInv'
  <2>1. \A c \in Cells : born'[c] <= now'
    BY <1>2, <1>t DEF DepthInv
  <2>2. ASSUME NEW r \in Requests, At(r, "authorized")'
        PROVE  now' + 1 >= born'[Intent(r)'.cell] + MinConfirmations
    <3>1. req'[r] = req[r] /\ Located(r)
      BY <1>2, <2>2 DEF Located, At
    <3>2. now + 1 >= born[Intent(r).cell] + MinConfirmations /\ Intent(r).cell \in Cells
      BY <2>2, <3>1, <1>c DEF DepthInv, At
    <3>3. QED
      BY <1>2, <1>t, <3>1, <3>2 DEF Intent
  <2>3. QED
    BY <1>2, <2>1, <2>2 DEF DepthInv, Located, Intent
<1>3. ASSUME NEW a \in Addresses, Transfer(a) PROVE DepthInv'
  <2>1. /\ live' = live + 1 /\ live + 1 \in Cells /\ live \in 1 .. MaxCells - 1
        /\ born' = [born EXCEPT ![live + 1] = now] /\ UNCHANGED <<now, req>>
    BY <1>3, <1>t DEF Transfer, store, Cells
  <2>2. \A c \in Cells : born'[c] = IF c = live + 1 THEN now ELSE born[c]
    BY <2>1 DEF TypeInv, WorldOK
  <2>3. ASSUME NEW r \in Requests, Located(r)
        PROVE  Intent(r).cell \in Cells /\ Intent(r).cell <= live
    BY <1>c, <2>1, <2>3 DEF DepthInv
  <2>4. ASSUME NEW r \in Requests, Located(r)
        PROVE  born'[Intent(r).cell] = born[Intent(r).cell] /\ Intent(r).cell <= live'
    BY <1>t, <2>1, <2>2, <2>3, <2>4 DEF Cells
  <2>5. \A c \in Cells : born'[c] <= now'
    BY <1>t, <2>1, <2>2 DEF DepthInv
  <2>6. \A r \in Requests : At(r, "authorized") => Located(r)
    BY DEF At, Located
  <2>7. QED
    BY <2>1, <2>4, <2>5, <2>6 DEF DepthInv, Located, At, Intent
<1>4. CASE Burn
  BY <1>4 DEF Burn, store, DepthInv, Located, At, Intent
<1>5. ASSUME NEW r \in Requests, Consume(r) PROVE DepthInv'
  <2>1. UNCHANGED <<now, live, born>>
    BY <1>5 DEF Consume, chain
  <2>2. \A s \in Requests : req'[s] = req[s] \/ req'[s].stage \in {"refused", "signature"}
    BY <1>5, <1>a DEF Consume, Refuse, Pass, TypeInv, RequestOK, RequestType
  <2>3. QED
    BY <1>2, <1>t, <2>1, <2>2 DEF Located
<1>6. ASSUME NEW r \in Requests, NEW n \in Nonces, NEW a \in Addresses, NEW s \in Addresses,
             NEW i \in Intents, Send(r, n, a, s, i)
      PROVE  DepthInv'
  <2>1. UNCHANGED <<now, live, born>>
    BY <1>6 DEF Send, chain
  <2>2. \A q \in Requests : req'[q] = req[q] \/ req'[q].stage = "consume"
    BY <1>6 DEF Send, TypeInv, RequestOK
  <2>3. QED
    BY <1>2, <1>t, <2>1, <2>2 DEF Located
<1>7. CASE Restart
  <2>1. UNCHANGED <<now, live, born>>
    BY <1>7 DEF Restart, chain
  <2>2. \A r \in Requests : req'[r] = req[r] \/ req'[r].stage = "refused"
    BY <1>7, <1>a DEF Restart
  <2>3. QED
    BY <1>2, <1>t, <2>1, <2>2 DEF Located
<1>8. ASSUME \/ \E a \in Addresses, i \in Intents : Issue(a, i)
             \/ \E n \in Nonces : CleanUp(n)
             \/ Revoke \/ Restore \/ Tick \/ UNCHANGED vars
      PROVE  DepthInv'
  <2>1. UNCHANGED <<live, born, req>> /\ now' \in {now, now + 1}
    BY <1>8 DEF Issue, CleanUp, Revoke, Restore, Tick, vars, chain
  <2>2. QED
    BY <1>2, <1>t, <2>1
<1>9. QED
  BY <1>1, <1>3, <1>4, <1>5, <1>6, <1>7, <1>8 DEF Next, Handle

\* The cell of an authorized request has the confirmations the provider asks for, for any age
\* of the cached tip and any number of transfers.
THEOREM DeepEnough == Spec => []ConfirmedCell
<1>1. DepthInv => ConfirmedCell
  BY DEF DepthInv, ConfirmedCell
<1>2. QED
  BY <1>1, DepthInit, DepthStep, TypeInit, TypeStep, PTL DEF Spec

-----------------------------------------------------------------------------
(***************************************************************************)
(* The challenge store of one process                                      *)
(***************************************************************************)
Both == {r1, r2}

HasFields(q) ==
    q = [stage |-> q.stage, nonce |-> q.nonce, address |-> q.address, signer |-> q.signer,
         intent |-> q.intent, lock |-> q.lock, born |-> q.born]

\* A nonce in the store was issued, and the one of a request that passed the store is not in it.
ChallengeInv ==
    /\ next \in Nat /\ \A n \in pending : n \in Nat /\ n < next
    /\ req = [r \in Both |-> req[r]]
    /\ \A r \in Both : HasFields(req[r])
    /\ \A r \in Both : Past(r) =>
          req[r].nonce \in Nat /\ req[r].nonce < next /\ req[r].nonce \notin pending
    /\ \A r, s \in Both : Past(r) /\ Past(s) /\ req[r].nonce = req[s].nonce => r = s

LEMMA RefusedHere ==
    /\ InProcess!Refused.stage = "refused" /\ HasFields(InProcess!Refused)
    /\ InProcess!Idle.stage = "idle" /\ HasFields(InProcess!Idle)
    /\ "refused" \notin Consuming /\ "idle" \notin Consuming /\ "consume" \notin Consuming
BY DEF InProcess!Refused, InProcess!Idle, HasFields, Consuming

LEMMA ChallengeInit == InProcess!Init => ChallengeInv
<1> SUFFICES ASSUME InProcess!Init PROVE ChallengeInv
  OBVIOUS
<1>1. next = 1 /\ pending = {} /\ req = [r \in Both |-> InProcess!Idle]
  BY DEF InProcess!Init, Both
<1>2. \A r \in Both : ~Past(r) /\ HasFields(req[r])
  BY <1>1, RefusedHere DEF Past
<1> QED
  BY <1>1, <1>2 DEF ChallengeInv

\* A request that passed the store goes on with its nonce, or is refused.
LEMMA LaterHere ==
    ASSUME ChallengeInv, NEW r \in Both,
           \/ InProcess!VerifySignature(r) \/ InProcess!CheckGrant(r) \/ InProcess!ReadCell(r)
           \/ InProcess!ReadRevocation(r) \/ InProcess!Authorize(r)
    PROVE  ChallengeInv'
<1>1. Past(r) /\ UNCHANGED <<next, pending>>
  BY DEF InProcess!VerifySignature, InProcess!CheckGrant, InProcess!ReadCell,
         InProcess!ReadRevocation, InProcess!Authorize, InProcess!At, InProcess!store,
         Past, Consuming
<1>2. \/ req' = [req EXCEPT ![r] = InProcess!Refused]
      \/ \E stage : req' = [req EXCEPT ![r].stage = stage]
      \/ \E lock, height : req' = [req EXCEPT ![r].stage = "revocation", ![r].lock = lock,
                                              ![r].born = height]
  BY DEF InProcess!VerifySignature, InProcess!CheckGrant, InProcess!ReadCell,
         InProcess!ReadRevocation, InProcess!Authorize, InProcess!Refuse, InProcess!Pass
<1>3. PICK q : /\ req' = [req EXCEPT ![r] = q] /\ HasFields(q)
               /\ q.stage \notin Consuming \/ q.nonce = req[r].nonce
  <2>1. HasFields(req[r]) /\ req = [s \in Both |-> req[s]]
    BY DEF ChallengeInv
  <2>2. CASE req' = [req EXCEPT ![r] = InProcess!Refused]
    BY <2>2, RefusedHere
  <2>3. ASSUME NEW stage, req' = [req EXCEPT ![r].stage = stage]
        PROVE  \E q : /\ req' = [req EXCEPT ![r] = q] /\ HasFields(q)
                      /\ q.stage \notin Consuming \/ q.nonce = req[r].nonce
    <3>1. PICK q : q = [req[r] EXCEPT !.stage = stage]
      OBVIOUS
    <3>2. HasFields(q) /\ q.nonce = req[r].nonce
      BY <2>1, <3>1 DEF HasFields
    <3> QED
      BY <2>1, <2>3, <3>1, <3>2
  <2>4. ASSUME NEW lock, NEW height,
               req' = [req EXCEPT ![r].stage = "revocation", ![r].lock = lock, ![r].born = height]
        PROVE  \E q : /\ req' = [req EXCEPT ![r] = q] /\ HasFields(q)
                      /\ q.stage \notin Consuming \/ q.nonce = req[r].nonce
    <3>1. PICK q : q = [req[r] EXCEPT !.stage = "revocation", !.lock = lock, !.born = height]
      OBVIOUS
    <3>2. HasFields(q) /\ q.nonce = req[r].nonce
      BY <2>1, <3>1 DEF HasFields
    <3> QED
      BY <2>1, <2>4, <3>1, <3>2
  <2> QED
    BY <1>2, <2>2, <2>3, <2>4
<1>4. /\ req' = [s \in Both |-> req'[s]]
      /\ req'[r] = q /\ \A s \in Both : s # r => req'[s] = req[s]
  BY <1>3 DEF ChallengeInv
<1> QED
  BY <1>1, <1>3, <1>4 DEF ChallengeInv, Past

\* The store gives a challenge to one request only.
LEMMA ConsumeHere ==
    ASSUME ChallengeInv, NEW r \in Both, InProcess!Consume(r)
    PROVE  ChallengeInv'
<1>1. PICK n : n = req[r].nonce
  OBVIOUS
<1>2. pending' = pending \ {n} /\ next' = next
  BY <1>1 DEF InProcess!Consume, InProcess!Consumed
<1>3. HasFields(req[r]) /\ req = [s \in Both |-> req[s]]
  BY DEF ChallengeInv
<1>4. PICK q : /\ req' = [req EXCEPT ![r] = q] /\ HasFields(q)
               /\ q.stage \notin Consuming \/ (n \in pending /\ q.nonce = n)
  <2>1. CASE InProcess!Refuse(r)
    BY <2>1, RefusedHere DEF InProcess!Refuse
  <2>2. CASE n \in pending /\ InProcess!Pass(r, "signature")
    <3>1. PICK q : q = [req[r] EXCEPT !.stage = "signature"]
      OBVIOUS
    <3>2. HasFields(q) /\ q.nonce = n
      BY <1>1, <1>3, <3>1 DEF HasFields
    <3>3. req' = [req EXCEPT ![r] = q]
      BY <1>3, <2>2, <3>1 DEF InProcess!Pass
    <3> QED
      BY <2>2, <3>2, <3>3
  <2> QED
    BY <1>1, <2>1, <2>2 DEF InProcess!Consume
<1>5. /\ req' = [s \in Both |-> req'[s]]
      /\ req'[r] = q /\ \A s \in Both : s # r => req'[s] = req[s]
  BY <1>3, <1>4
<1> QED
  BY <1>2, <1>4, <1>5 DEF ChallengeInv, Past

LEMMA ChallengeStep ==
    ASSUME ChallengeInv, InProcess!Next
    PROVE  ChallengeInv'
<1>1. ASSUME NEW r \in Both, InProcess!Handle(r) PROVE ChallengeInv'
  BY <1>1, LaterHere, ConsumeHere DEF InProcess!Handle
<1>2. ASSUME NEW a, NEW i, InProcess!Issue(a, i) PROVE ChallengeInv'
  <2>1. /\ next' = next + 1 /\ req' = req
        /\ pending' \subseteq pending \cup {next}
    BY <1>2 DEF InProcess!Issue, InProcess!Pruned, InProcess!Evicted
  <2> QED
    BY <2>1 DEF ChallengeInv, Past
<1>3. ASSUME NEW r \in Both, NEW n \in InProcess!Nonces, NEW a, NEW s, NEW i,
             InProcess!Send(r, n, a, s, i)
      PROVE  ChallengeInv'
  <2>1. PICK q : /\ req' = [req EXCEPT ![r] = q]
                 /\ q = [stage |-> "consume", nonce |-> n, address |-> a, signer |-> s,
                         intent |-> i, lock |-> NoOne, born |-> 0]
    BY <1>3 DEF InProcess!Send
  <2>2. UNCHANGED <<next, pending>>
    BY <1>3 DEF InProcess!Send, InProcess!store
  <2>3. HasFields(q) /\ q.stage \notin Consuming
    BY <2>1, RefusedHere DEF HasFields
  <2>4. /\ req' = [t \in Both |-> req'[t]]
        /\ req'[r] = q /\ \A t \in Both : t # r => req'[t] = req[t]
    BY <2>1 DEF ChallengeInv
  <2> QED
    BY <2>2, <2>3, <2>4 DEF ChallengeInv, Past
<1>4. CASE InProcess!Restart
  <2>1. /\ pending' = {} /\ next' = next
        /\ req' = [r \in Both |-> IF InProcess!Active(r) THEN InProcess!Refused ELSE req[r]]
    BY <1>4 DEF InProcess!Restart, Both
  <2>2. /\ req' = [r \in Both |-> req'[r]]
        /\ \A r \in Both : req'[r] = InProcess!Refused \/ req'[r] = req[r]
    BY <2>1
  <2> QED
    BY <2>1, <2>2, RefusedHere DEF ChallengeInv, Past
<1>5. ASSUME \/ \E a \in Addresses : InProcess!Transfer(a)
             \/ \E n \in InProcess!Nonces : InProcess!CleanUp(n)
             \/ InProcess!Burn \/ InProcess!Revoke \/ InProcess!Restore \/ InProcess!Tick
      PROVE  ChallengeInv'
  <2>1. UNCHANGED <<req, next>> /\ pending' \subseteq pending
    BY <1>5 DEF InProcess!Transfer, InProcess!CleanUp, InProcess!Burn, InProcess!Revoke,
                InProcess!Restore, InProcess!Tick, InProcess!store
  <2> QED
    BY <2>1 DEF ChallengeInv, Past
<1> QED
  BY <1>1, <1>2, <1>3, <1>4, <1>5 DEF InProcess!Next, Both

\* A challenge authorizes one request, also where the store of one process drops challenges to
\* stay within its capacity and loses all of them in a restart.
THEOREM OneRequestInProcess == BothStores => []OneRequestPerNonceInProcess
<1> DEFINE Kept == inProcess => ChallengeInv
<1>1. BothInit => Kept
  BY ChallengeInit DEF BothInit
<1>2. Kept /\ [BothNext]_<<vars, inProcess>> => Kept'
  <2> SUFFICES ASSUME ChallengeInv, inProcess, [BothNext]_<<vars, inProcess>>, inProcess'
               PROVE  ChallengeInv'
    BY DEF BothNext
  <2>1. CASE BothNext
    BY <2>1, ChallengeStep DEF BothNext
  <2>2. CASE UNCHANGED <<vars, inProcess>>
    BY <2>2 DEF vars, store, ChallengeInv, Past
  <2> QED
    BY <2>1, <2>2
<1>3. Kept => OneRequestPerNonceInProcess
  BY DEF ChallengeInv, OneRequestPerNonceInProcess, InProcess!OneRequestPerNonce, InProcess!At,
         Past, Consuming, Both
<1> QED
  BY <1>1, <1>2, <1>3, PTL DEF BothStores
=============================================================================
