----------------------- MODULE DelegationLedgerProofs -----------------------
(***************************************************************************)
(* Proofs about DelegationLedger for every set of grants, keys, requests   *)
(* and prices, every limit and every expiry.                               *)
(***************************************************************************)
EXTENDS DelegationLedger, FiniteSetTheorems, WellFoundedInduction, TLAPS

(***************************************************************************)
(* Typing                                                                  *)
(***************************************************************************)
RowType == [grant: Grants \cup {NoGrant}, usedCalls: Nat, usedSpend: Nat,
            reservedCalls: Nat, reservedSpend: Nat]
InvType == [Keys -> [status: Statuses, spend: Nat, updatedAt: Nat]]
ReqType == [stage: Stages, grant: Grants \cup {NoGrant}, key: Keys \cup {NoKey},
            spend: Nat, since: Nat, owns: BOOLEAN]

\* What each row operation of the ledger does to each field.
LEMMA RowOperations ==
  ASSUME NEW rw \in RowType, NEW spend \in Nat
  PROVE  /\ WithoutReservation(rw, spend) \in RowType
         /\ WithoutReservation(rw, spend).grant = rw.grant
         /\ WithoutReservation(rw, spend).usedCalls = rw.usedCalls
         /\ WithoutReservation(rw, spend).reservedCalls = Less(rw.reservedCalls, 1)
         /\ WithReservation(rw, spend) \in RowType
         /\ WithReservation(rw, spend).grant = rw.grant
         /\ WithReservation(rw, spend).usedCalls = rw.usedCalls
         /\ WithReservation(rw, spend).reservedCalls = rw.reservedCalls + 1
         /\ WithCharge(rw, spend) \in RowType
         /\ WithCharge(rw, spend).grant = rw.grant
         /\ WithCharge(rw, spend).usedCalls = rw.usedCalls + 1
         /\ WithCharge(rw, spend).reservedCalls = Less(rw.reservedCalls, 1)
  <1>1. /\ rw.usedCalls \in Nat /\ rw.usedSpend \in Nat
        /\ rw.reservedCalls \in Nat /\ rw.reservedSpend \in Nat
    BY DEF RowType
  <1> DEFINE c == Less(rw.reservedCalls, 1)
             d == Less(rw.reservedSpend, spend)
             less == [rw EXCEPT !.reservedCalls = c, !.reservedSpend = d]
             cc == rw.reservedCalls + 1
             dd == rw.reservedSpend + spend
             more == [rw EXCEPT !.reservedCalls = cc, !.reservedSpend = dd]
             u == less.usedCalls + 1
             v == less.usedSpend + spend
             paid == [less EXCEPT !.usedCalls = u, !.usedSpend = v]
  <1>2. /\ WithoutReservation(rw, spend) = less
        /\ WithReservation(rw, spend) = more
        /\ WithCharge(rw, spend) = paid
    BY DEF WithoutReservation, WithReservation, WithCharge
  <1>3. /\ c \in Nat /\ d \in Nat
        /\ cc \in Nat /\ dd \in Nat
    BY <1>1 DEF Less
  <1> HIDE DEF c, d, cc, dd
  <1>4. /\ less \in RowType
        /\ less.grant = rw.grant
        /\ less.usedCalls = rw.usedCalls
        /\ less.usedSpend = rw.usedSpend
        /\ less.reservedCalls = c
    BY <1>3 DEF RowType
  <1>5. /\ more \in RowType
        /\ more.grant = rw.grant
        /\ more.usedCalls = rw.usedCalls
        /\ more.reservedCalls = cc
    BY <1>3 DEF RowType
  <1> HIDE DEF less
  <1>6. u \in Nat /\ v \in Nat /\ u = rw.usedCalls + 1
    BY <1>1, <1>4
  <1> HIDE DEF u, v
  <1>7. /\ paid \in RowType
        /\ paid.grant = less.grant
        /\ paid.usedCalls = u
        /\ paid.reservedCalls = less.reservedCalls
    BY <1>4, <1>6 DEF RowType
  <1> QED
    BY <1>2, <1>4, <1>5, <1>6, <1>7 DEF c, cc

\* The row a call works on, and what reclaiming or an error leaves of it.
LEMMA LockedRowType ==
  ASSUME TypeOK, NEW g \in Grants, NEW k \in Keys
  PROVE  /\ LockedRow(g) \in RowType
         /\ Reclaimed(g, k) \in RowType
         /\ \A rw \in RowType : KeptRow(rw) \in RowType
  <1>1. LockedRow(g) \in RowType
    BY DEF TypeOK, LockedRow, NoRow, RowType
  <1>2. inv[k].spend \in Nat
    BY DEF TypeOK
  <1>3. Reclaimed(g, k) \in RowType
    BY <1>1, <1>2, RowOperations DEF Reclaimed
  <1>4. row \in RowType
    BY DEF TypeOK, RowType
  <1> QED
    BY <1>1, <1>3, <1>4 DEF KeptRow

\* TypeOK in the next state, from the parts an action changes.
LEMMA TypeFromParts ==
  ASSUME now' \in Nat, row' \in RowType, inv' \in InvType, sweep' \in BOOLEAN,
         req' \in [Requests -> ReqType],
         \A r \in Requests : req'[r].stage # "idle"
                               => req'[r].grant \in Grants /\ req'[r].key \in Keys,
         charged' \in [Grants -> [Keys -> Nat]]
  PROVE  TypeOK'
  BY DEF TypeOK, RowType, InvType, ReqType

LEMMA InitType == Init => TypeOK
  <1> SUFFICES ASSUME Init PROVE TypeOK
    OBVIOUS
  <1>1. charged \in [Grants -> [Keys -> Nat]]
    BY DEF Init
  <1>2. inv \in [Keys -> [status: Statuses, spend: Nat, updatedAt: Nat]]
    BY DEF Init, NoInvocation, Statuses
  <1>3. IdleRequest \in ReqType
    BY LedgerAssumption DEF IdleRequest, ReqType, Stages
  <1> QED
    BY <1>1, <1>2, <1>3 DEF Init, TypeOK, ReqType, NoRow, IdleRequest

\* A request may always become idle, held by a known grant and key, or move on.
LEMMA RequestUpdate ==
  ASSUME TypeOK, NEW r \in Requests, NEW v \in ReqType,
         v.stage # "idle" => v.grant \in Grants /\ v.key \in Keys,
         req' = [req EXCEPT ![r] = v]
  PROVE  /\ req' \in [Requests -> ReqType]
         /\ \A q \in Requests : req'[q].stage # "idle"
                                  => req'[q].grant \in Grants /\ req'[q].key \in Keys
  BY DEF TypeOK, ReqType

LEMMA IdleType == IdleRequest \in ReqType /\ IdleRequest.stage = "idle"
  BY LedgerAssumption DEF IdleRequest, ReqType, Stages

LEMMA StageUpdate ==
  ASSUME TypeOK, NEW r \in Requests, req[r].stage # "idle", NEW st \in Stages,
         req' = [req EXCEPT ![r].stage = st]
  PROVE  /\ req' \in [Requests -> ReqType]
         /\ \A q \in Requests : req'[q].stage # "idle"
                                  => req'[q].grant \in Grants /\ req'[q].key \in Keys
  BY DEF TypeOK, ReqType

LEMMA ReserveType ==
  ASSUME TypeOK, NEW r \in Requests, NEW g \in Grants, NEW k \in Keys, NEW s \in Nat,
         ReserveBody(r, g, k, s)
  PROVE  TypeOK'
  <1> DEFINE held(o) == [stage |-> "held", grant |-> g, key |-> k, spend |-> s,
                         since |-> now, owns |-> o]
  <1>1. \A o \in BOOLEAN : held(o) \in ReqType /\ held(o).grant \in Grants /\ held(o).key \in Keys
    BY DEF TypeOK, ReqType, Stages
  <1>2. LockedRow(g) \in RowType /\ Reclaimed(g, k) \in RowType
        /\ KeptRow(LockedRow(g)) \in RowType /\ KeptRow(Reclaimed(g, k)) \in RowType
    BY LockedRowType
  <1>3. now \in Nat /\ inv \in InvType /\ sweep \in BOOLEAN
        /\ charged \in [Grants -> [Keys -> Nat]]
    BY DEF TypeOK, InvType
  <1>4. CASE ReserveRejected(r, g, k, s)
    BY <1>2, <1>3, <1>4, IdleType, RequestUpdate, TypeFromParts DEF ReserveRejected
  <1>5. CASE ReserveReplayed(r, g, k, s)
    BY <1>1, <1>2, <1>3, <1>5, RequestUpdate, TypeFromParts DEF ReserveReplayed
  <1>6. CASE ReserveExhausted(r, g, k, s)
    <2>1. inv' \in InvType
      BY <1>3, <1>6 DEF ReserveExhausted, InvType, Statuses
    <2> QED
      BY <1>2, <1>3, <1>6, <2>1, IdleType, RequestUpdate, TypeFromParts DEF ReserveExhausted
  <1>7. CASE ReserveGranted(r, g, k, s)
    <2>1. inv' \in InvType
      BY <1>3, <1>7 DEF ReserveGranted, InvType, Statuses
    <2>2. row' \in RowType
      BY <1>2, <1>7, RowOperations DEF ReserveGranted
    <2> QED
      BY <1>1, <1>3, <1>7, <2>1, <2>2, RequestUpdate, TypeFromParts DEF ReserveGranted
  <1> QED
    BY <1>4, <1>5, <1>6, <1>7 DEF ReserveBody

LEMMA CommitType ==
  ASSUME TypeOK, NEW r \in Requests, req[r].stage # "idle",
         CommitBody(r, req[r].grant, req[r].key, req[r].spend)
  PROVE  TypeOK'
  <1> DEFINE g == req[r].grant
             k == req[r].key
             s == req[r].spend
  <1>1. g \in Grants /\ k \in Keys /\ s \in Nat
    BY DEF TypeOK
  <1> HIDE DEF g, k, s
  <1>2. LockedRow(g) \in RowType /\ KeptRow(LockedRow(g)) \in RowType
    BY <1>1, LockedRowType
  <1>3. now \in Nat /\ inv \in InvType /\ sweep \in BOOLEAN
        /\ charged \in [Grants -> [Keys -> Nat]]
    BY DEF TypeOK, InvType
  <1>4. CASE CommitRefused(r, g, k, s)
    <2>1. "failed" \in Stages
      BY DEF Stages
    <2> QED
      BY <1>2, <1>3, <1>4, <2>1, StageUpdate, TypeFromParts DEF CommitRefused
  <1>5. CASE CommitReplayed(r, g, k, s)
    BY <1>2, <1>3, <1>5, IdleType, RequestUpdate, TypeFromParts DEF CommitReplayed
  <1>6. CASE CommitGranted(r, g, k, s)
    <2>1. inv' \in InvType
      BY <1>1, <1>3, <1>6 DEF CommitGranted, InvType, Statuses
    <2>2. row' \in RowType
      BY <1>1, <1>2, <1>6, RowOperations DEF CommitGranted
    <2>3. charged' \in [Grants -> [Keys -> Nat]]
      BY <1>1, <1>3, <1>6 DEF CommitGranted
    <2> QED
      BY <1>3, <1>6, <2>1, <2>2, <2>3, IdleType, RequestUpdate, TypeFromParts
      DEF CommitGranted
  <1> QED
    BY <1>4, <1>5, <1>6 DEF CommitBody, g, k, s

\* The actions that touch neither the row nor the invocation records through a call.
LEMMA ReleaseType ==
  ASSUME TypeOK, NEW r \in Requests, Release(r)
  PROVE  TypeOK'
  <1> DEFINE k == req[r].key
             s == req[r].spend
  <1>1. k \in Keys /\ s \in Nat
    BY DEF TypeOK, Release
  <1>2. /\ now \in Nat /\ inv \in InvType /\ row \in RowType /\ sweep \in BOOLEAN
        /\ charged \in [Grants -> [Keys -> Nat]]
    BY DEF TypeOK, InvType, RowType
  <1> HIDE DEF k, s
  <1>3. row' \in RowType
    <2>1. WithoutReservation(row, s) \in RowType
      BY <1>1, <1>2, RowOperations
    <2>2. row' = WithoutReservation(row, s) \/ row' = row
      BY DEF Release, k, s
    <2> QED
      BY <1>2, <2>1, <2>2
  <1>4. inv' \in InvType
    <2>1. [inv EXCEPT ![k].status = "released", ![k].updatedAt = now] \in InvType
      BY <1>1, <1>2 DEF InvType, Statuses
    <2> QED
      BY <1>2, <2>1 DEF Release, k
  <1>5. req' = [req EXCEPT ![r] = IdleRequest]
        /\ now' = now /\ sweep' = sweep /\ charged' = charged
    BY DEF Release
  <1> QED
    BY <1>2, <1>3, <1>4, <1>5, IdleType, RequestUpdate, TypeFromParts

LEMMA NextType == TypeOK /\ [Next]_vars => TypeOK'
  <1> SUFFICES ASSUME TypeOK, [Next]_vars PROVE TypeOK'
    OBVIOUS
  <1> USE DEF TypeOK
  <1>1. /\ now \in Nat /\ inv \in InvType /\ row \in RowType /\ sweep \in BOOLEAN
        /\ charged \in [Grants -> [Keys -> Nat]]
        /\ req \in [Requests -> ReqType]
    BY DEF InvType, RowType, ReqType
  <1>2. NoRow \in RowType /\ [k \in Keys |-> NoInvocation] \in InvType
    BY DEF NoRow, RowType, NoInvocation, InvType, Statuses
  <1> HIDE DEF TypeOK
  <1>3. ASSUME NEW r \in Requests, NEW g \in Grants, NEW k \in Keys, NEW s \in Prices,
               ReserveLocal(r, g, k, s)
        PROVE  TypeOK'
    <2>1. s \in Nat
      BY LedgerAssumption
    <2> QED
      BY <1>3, <2>1, ReserveType DEF ReserveLocal
  <1>4. ASSUME NEW r \in Requests, NEW g \in Grants, NEW k \in Keys, NEW s \in Prices,
               ReserveCheck(r, g, k, s)
        PROVE  TypeOK'
    <2> DEFINE v == [stage |-> "reserving", grant |-> g, key |-> k,
                     spend |-> s, since |-> 0, owns |-> FALSE]
    <2>1. v \in ReqType /\ v.grant \in Grants /\ v.key \in Keys
      BY LedgerAssumption DEF ReqType, Stages
    <2>2. req' = [req EXCEPT ![r] = v]
      BY <1>4 DEF ReserveCheck
    <2> HIDE DEF v
    <2> QED
      BY <1>1, <1>4, <2>1, <2>2, RequestUpdate, TypeFromParts DEF ReserveCheck
  <1>5. ASSUME NEW r \in Requests, ReserveTransaction(r) PROVE TypeOK'
    <2>1. req[r].grant \in Grants /\ req[r].key \in Keys /\ req[r].spend \in Nat
      BY <1>5 DEF TypeOK, ReserveTransaction
    <2> QED
      BY <1>5, <2>1, ReserveType DEF ReserveTransaction
  <1>6. ASSUME NEW r \in Requests, CommitLocal(r) \/ CommitTransaction(r) PROVE TypeOK'
    BY <1>6, CommitType DEF CommitLocal, CommitTransaction
  <1>7. ASSUME NEW r \in Requests, CommitCheck(r) \/ Fail(r) PROVE TypeOK'
    <2>1. "failed" \in Stages /\ "committing" \in Stages
      BY DEF Stages
    <2>2. PICK st \in Stages : req' = [req EXCEPT ![r].stage = st]
      BY <1>7, <2>1 DEF CommitCheck, Fail
    <2>3. req[r].stage # "idle"
      BY <1>7 DEF CommitCheck, Fail
    <2> QED
      BY <1>1, <1>7, <2>2, <2>3, StageUpdate, TypeFromParts DEF CommitCheck, Fail
  <1>8. ASSUME NEW r \in Requests, ReplicaCrash(r) PROVE TypeOK'
    BY <1>1, <1>8, IdleType, RequestUpdate, TypeFromParts DEF ReplicaCrash
  <1>9. ASSUME PruneLocal \/ PruneRows \/ PruneInvocations PROVE TypeOK'
    BY <1>1, <1>2, <1>9 DEF PruneLocal, PruneRows, PruneInvocations, TypeOK, RowType, InvType
  <1>10. CASE Tick
    BY <1>1, <1>10 DEF Tick, TypeOK
  <1>11. CASE ProcessRestart
    <2>1. charged' \in [Grants -> [Keys -> Nat]]
      BY <1>11 DEF ProcessRestart
    <2>2. /\ req' \in [Requests -> ReqType]
          /\ \A r \in Requests : req'[r].stage = "idle"
      BY <1>11, IdleType DEF ProcessRestart
    <2> QED
      BY <1>1, <1>2, <1>11, <2>1, <2>2, TypeFromParts DEF ProcessRestart
  <1>12. CASE UNCHANGED vars
    BY <1>12 DEF vars, TypeOK
  <1> QED
    BY <1>3, <1>4, <1>5, <1>6, <1>7, <1>8, <1>9, <1>10, <1>11, <1>12, ReleaseType
    DEF Next, Handler

\* Every variable keeps its type, for every deployment of the ledger.
THEOREM TypeCorrect == Spec => []TypeOK
  BY InitType, NextType, PTL DEF Spec

(***************************************************************************)
(* The inductive invariant.  CallsWithinLimit alone is not inductive: a    *)
(* commit turns a reserved call into a used one, and if no reservation     *)
(* were counted for it the saturating decrement would let the sum grow.    *)
(* So the counters are tied to the invocation records.  Deleting rows and  *)
(* invocations in two statements breaks that tie, hence Stable: the        *)
(* PostgreSQL ledger as the live service runs it, which never prunes it.   *)
(***************************************************************************)
Stable == Pruning => ~Transactional

CountersExact ==
    /\ row.reservedCalls = Cardinality(KeysIn("reserved"))
    /\ row.usedCalls = Cardinality(KeysIn("committed"))

EmptyIsBlank ==
    row.grant = NoGrant => row = NoRow /\ \A k \in Keys : inv[k].status = "none"

Core == TypeOK /\ ~sweep /\ EmptyIsBlank /\ CountersExact /\ CallsWithinLimit

LEMMA KeysInFinite ==
  ASSUME NEW st
  PROVE  IsFiniteSet(KeysIn(st)) /\ Cardinality(KeysIn(st)) \in Nat
  <1>1. KeysIn(st) \subseteq Keys
    BY DEF KeysIn
  <1> QED
    BY <1>1, FS_Subset, FS_CardinalityType, LedgerAssumption

\* One record changes its status: the two counts it is part of move by one.
LEMMA StatusMoves ==
  ASSUME NEW k \in Keys, NEW st,
         \A j \in Keys \ {k} : inv'[j].status = inv[j].status
  PROVE  /\ (inv[k].status = st) = (inv'[k].status = st)
               => KeysIn(st)' = KeysIn(st)
         /\ inv[k].status = st /\ inv'[k].status # st
               => /\ KeysIn(st)' = KeysIn(st) \ {k}
                  /\ Cardinality(KeysIn(st)') = Cardinality(KeysIn(st)) - 1
                  /\ Cardinality(KeysIn(st)) >= 1
         /\ inv[k].status # st /\ inv'[k].status = st
               => /\ KeysIn(st)' = KeysIn(st) \cup {k}
                  /\ Cardinality(KeysIn(st)') = Cardinality(KeysIn(st)) + 1
  <1> DEFINE before == KeysIn(st)
             after == KeysIn(st)'
  <1>1. IsFiniteSet(before) /\ Cardinality(before) \in Nat
    BY KeysInFinite
  <1>2. ASSUME (inv[k].status = st) = (inv'[k].status = st) PROVE after = before
    BY <1>2 DEF KeysIn
  <1>3. ASSUME inv[k].status = st, inv'[k].status # st
        PROVE  /\ after = before \ {k}
               /\ Cardinality(after) = Cardinality(before) - 1
               /\ Cardinality(before) >= 1
    <2>1. after = before \ {k} /\ k \in before
      BY <1>3 DEF KeysIn
    <2> HIDE DEF before, after
    <2>2. Cardinality(after) = Cardinality(before) - 1
      BY <1>1, <2>1, FS_RemoveElement
    <2>3. Cardinality(after) \in Nat
      BY <1>1, <2>1, FS_RemoveElement, FS_CardinalityType
    <2> QED
      BY <1>1, <2>1, <2>2, <2>3
  <1>4. ASSUME inv[k].status # st, inv'[k].status = st
        PROVE  after = before \cup {k} /\ Cardinality(after) = Cardinality(before) + 1
    <2>1. after = before \cup {k} /\ k \notin before
      BY <1>4 DEF KeysIn
    <2> HIDE DEF before, after
    <2> QED
      BY <1>1, <2>1, FS_AddElement
  <1> QED
    BY <1>2, <1>3, <1>4

\* The row a call locks carries the same counts, within the limit of its owner.
LEMMA LockedRowCounts ==
  ASSUME Core, NEW g \in Grants
  PROVE  LET rw == LockedRow(g)
         IN  /\ rw \in RowType
             /\ rw.grant \in Grants
             /\ row.grant # NoGrant => rw = row
             /\ row.grant = NoGrant => rw.grant = g
             /\ rw.reservedCalls = Cardinality(KeysIn("reserved"))
             /\ rw.usedCalls = Cardinality(KeysIn("committed"))
             /\ WithinLimit(rw.usedCalls + rw.reservedCalls, MaxUses[rw.grant])
  <1>1. row \in RowType
    BY DEF Core, TypeOK, RowType
  <1>2. CASE row.grant # NoGrant
    BY <1>1, <1>2 DEF Core, LockedRow, CountersExact, CallsWithinLimit, RowType
  <1>3. CASE row.grant = NoGrant
    <2>1. LockedRow(g) = [NoRow EXCEPT !.grant = g]
      BY <1>3 DEF LockedRow
    <2>2. /\ LockedRow(g) \in RowType
          /\ LockedRow(g).grant = g
          /\ LockedRow(g).reservedCalls = 0
          /\ LockedRow(g).usedCalls = 0
      BY <2>1 DEF NoRow, RowType
    <2>3. KeysIn("reserved") = {} /\ KeysIn("committed") = {}
      BY <1>3 DEF Core, EmptyIsBlank, KeysIn
    <2>4. Cardinality(KeysIn("reserved")) = 0 /\ Cardinality(KeysIn("committed")) = 0
      BY <2>3, FS_EmptySet
    <2>5. MaxUses[g] # NoLimit => MaxUses[g] \in Nat \ {0}
      BY LedgerAssumption
    <2> HIDE DEF LockedRow
    <2> QED
      BY <1>3, <2>2, <2>4, <2>5 DEF WithinLimit
  <1> QED
    BY <1>2, <1>3

\* A call that leaves the records alone may at most create the row.
LEMMA SameRecords ==
  ASSUME Core, TypeOK', ~sweep', inv' = inv,
         row' = row \/ \E g \in Grants : row' = LockedRow(g)
  PROVE  Core'
  <1>1. CASE row' = row
    BY <1>1 DEF Core, EmptyIsBlank, CountersExact, CallsWithinLimit, KeysIn
  <1>2. ASSUME NEW g \in Grants, row' = LockedRow(g) PROVE Core'
    <2>1. KeysIn("reserved")' = KeysIn("reserved") /\ KeysIn("committed")' = KeysIn("committed")
      BY DEF KeysIn
    <2>2. row'.grant # NoGrant
      BY <1>2, LockedRowCounts, LedgerAssumption
    <2> QED
      BY <1>2, <2>1, <2>2, LockedRowCounts
      DEF Core, EmptyIsBlank, CountersExact, CallsWithinLimit
  <1> QED
    BY <1>1, <1>2

\* Nothing is stored any more.
LEMMA Blank ==
  ASSUME TypeOK', ~sweep', row' = NoRow, \A k \in Keys : inv'[k].status = "none"
  PROVE  Core'
  <1>1. KeysIn("reserved")' = {} /\ KeysIn("committed")' = {}
    BY DEF KeysIn
  <1>2. row'.grant = NoGrant /\ row'.reservedCalls = 0 /\ row'.usedCalls = 0
    BY DEF NoRow
  <1> QED
    BY <1>1, <1>2, FS_EmptySet
    DEF Core, EmptyIsBlank, CountersExact, CallsWithinLimit

\* A reserved slot goes back.
LEMMA GivenBack ==
  ASSUME Core, TypeOK', ~sweep', NEW k \in Keys, NEW spend \in Nat,
         inv[k].status = "reserved", inv'[k].status = "released",
         \A j \in Keys \ {k} : inv'[j].status = inv[j].status,
         row' = WithoutReservation(row, spend)
  PROVE  Core'
  <1>1. /\ Cardinality(KeysIn("reserved")') = Cardinality(KeysIn("reserved")) - 1
        /\ Cardinality(KeysIn("reserved")) >= 1
    BY StatusMoves
  <1>2. KeysIn("committed")' = KeysIn("committed")
    BY StatusMoves
  <1>3. row \in RowType
    BY DEF Core, TypeOK, RowType
  <1>4. /\ row'.grant = row.grant
        /\ row'.usedCalls = row.usedCalls
        /\ row'.reservedCalls = Less(row.reservedCalls, 1)
    BY <1>3, RowOperations
  <1>5. row.grant # NoGrant
    BY DEF Core, EmptyIsBlank
  <1>6. /\ row.usedCalls \in Nat /\ row.reservedCalls \in Nat
        /\ MaxUses[row.grant] # NoLimit => MaxUses[row.grant] \in Nat
    BY <1>3, <1>5, LedgerAssumption DEF RowType
  <1>7. row.reservedCalls >= 1 /\ row'.reservedCalls = row.reservedCalls - 1
    BY <1>1, <1>4, <1>6 DEF Core, CountersExact, Less
  <1>8. CallsWithinLimit'
    BY <1>4, <1>5, <1>6, <1>7 DEF Core, CallsWithinLimit, WithinLimit
  <1>9. CountersExact'
    BY <1>1, <1>2, <1>4, <1>7 DEF Core, CountersExact
  <1> QED
    BY <1>4, <1>5, <1>8, <1>9 DEF Core, EmptyIsBlank

\* A stale reservation of the same key is given back before the new one is made,
\* so it is counted once.
LEMMA ReclaimedCounts ==
  ASSUME Core, NEW g \in Grants, NEW k \in Keys, NEW s \in Nat, Reservable(g, k, s)
  PROVE  LET rw == Reclaimed(g, k)
         IN  /\ rw \in RowType
             /\ rw.grant = g
             /\ rw.usedCalls = Cardinality(KeysIn("committed"))
             /\ inv[k].status = "reserved" =>
                   /\ Stale(k) /\ row.grant = g /\ rw = WithoutReservation(row, inv[k].spend)
                   /\ rw.reservedCalls = Cardinality(KeysIn("reserved")) - 1
             /\ inv[k].status # "reserved" =>
                   rw.reservedCalls = Cardinality(KeysIn("reserved"))
  <1>1. TypeOK /\ inv[k].spend \in Nat
    BY DEF Core, TypeOK
  <1>2. LockedRow(g).grant = g
    BY DEF Reservable, Collides
  <1>3. CASE inv[k].status = "reserved"
    <2>1. Stale(k)
      BY <1>3 DEF Reservable
    <2>2. row.grant # NoGrant
      BY <1>3 DEF Core, EmptyIsBlank
    <2>3. Reclaimed(g, k) = WithoutReservation(row, inv[k].spend) /\ row = LockedRow(g)
      BY <2>1, <2>2, LockedRowCounts DEF Reclaimed
    <2>4. k \in KeysIn("reserved")
      BY <1>3 DEF KeysIn
    <2>5. Cardinality(KeysIn("reserved")) \in Nat /\ Cardinality(KeysIn("reserved")) # 0
      BY <2>4, KeysInFinite, FS_EmptySet
    <2>6. Less(row.reservedCalls, 1) = Cardinality(KeysIn("reserved")) - 1
      BY <2>5 DEF Core, CountersExact, Less
    <2>7. row \in RowType
      BY <1>1 DEF TypeOK, RowType
    <2>8. /\ WithoutReservation(row, inv[k].spend) \in RowType
          /\ WithoutReservation(row, inv[k].spend).grant = row.grant
          /\ WithoutReservation(row, inv[k].spend).usedCalls = row.usedCalls
          /\ WithoutReservation(row, inv[k].spend).reservedCalls = Less(row.reservedCalls, 1)
      BY <1>1, <2>7, RowOperations
    <2>9. row.usedCalls = Cardinality(KeysIn("committed")) /\ row.grant = g
      BY <1>2, <2>3 DEF Core, CountersExact
    <2> QED
      BY <1>3, <2>1, <2>3, <2>6, <2>8, <2>9
  <1>4. CASE inv[k].status # "reserved"
    <2>1. Reclaimed(g, k) = LockedRow(g)
      BY <1>4 DEF Reclaimed, Stale
    <2> QED
      BY <1>2, <1>4, <2>1, LockedRowCounts
  <1> QED
    BY <1>3, <1>4

LEMMA ReserveGrantedCore ==
  ASSUME Core, TypeOK', NEW r \in Requests, NEW g \in Grants, NEW k \in Keys, NEW s \in Nat,
         ReserveGranted(r, g, k, s)
  PROVE  Core'
  <1> DEFINE rw == Reclaimed(g, k)
  <1>1. /\ rw \in RowType
        /\ rw.grant = g
        /\ rw.usedCalls = Cardinality(KeysIn("committed"))
        /\ inv[k].status = "reserved" =>
              rw.reservedCalls = Cardinality(KeysIn("reserved")) - 1
        /\ inv[k].status # "reserved" =>
              rw.reservedCalls = Cardinality(KeysIn("reserved"))
    BY ReclaimedCounts DEF ReserveGranted
  <1>2. Fits(rw, g, s) /\ row' = WithReservation(rw, s) /\ sweep' = sweep
    BY DEF ReserveGranted
  <1> HIDE DEF rw
  <1>3. /\ row'.grant = g
        /\ row'.usedCalls = rw.usedCalls
        /\ row'.reservedCalls = rw.reservedCalls + 1
    BY <1>1, <1>2, RowOperations
  <1>4. inv'[k].status = "reserved" /\ \A j \in Keys \ {k} : inv'[j] = inv[j]
    BY DEF ReserveGranted, Core, TypeOK
  <1>5. inv[k].status # "committed"
    BY DEF ReserveGranted, Reservable, Stale
  <1>6. KeysIn("committed")' = KeysIn("committed")
    BY <1>4, <1>5, StatusMoves
  <1>7. row'.reservedCalls = Cardinality(KeysIn("reserved")')
    <2>1. CASE inv[k].status = "reserved"
      <3>1. KeysIn("reserved")' = KeysIn("reserved")
        BY <1>4, <2>1, StatusMoves
      <3>2. Cardinality(KeysIn("reserved")) \in Nat
        BY KeysInFinite
      <3>3. row'.reservedCalls = Cardinality(KeysIn("reserved"))
        BY <1>1, <1>3, <2>1, <3>2
      <3> QED
        BY <3>1, <3>3
    <2>2. CASE inv[k].status # "reserved"
      <3>1. Cardinality(KeysIn("reserved")') = Cardinality(KeysIn("reserved")) + 1
        BY <1>4, <2>2, StatusMoves
      <3> QED
        BY <1>1, <1>3, <2>2, <3>1
    <2> QED
      BY <2>1, <2>2
  <1>8. CallsWithinLimit'
    <2>1. rw.usedCalls \in Nat /\ rw.reservedCalls \in Nat
      BY <1>1 DEF RowType
    <2>2. WithinLimit(rw.usedCalls + rw.reservedCalls + 1, MaxUses[g])
      BY <1>2 DEF Fits
    <2>3. row'.usedCalls + row'.reservedCalls = rw.usedCalls + rw.reservedCalls + 1
      BY <1>3, <2>1
    <2> QED
      BY <1>3, <2>2, <2>3 DEF CallsWithinLimit
  <1>9. row'.grant # NoGrant
    BY <1>3, LedgerAssumption
  <1> QED
    BY <1>1, <1>2, <1>3, <1>6, <1>7, <1>8, <1>9 DEF Core, CountersExact, EmptyIsBlank

LEMMA CommitGrantedCore ==
  ASSUME Core, TypeOK', NEW r \in Requests, NEW g \in Grants, NEW k \in Keys, NEW s \in Nat,
         CommitGranted(r, g, k, s)
  PROVE  /\ Core'
         /\ row.grant = g /\ row'.grant = g
         /\ inv[k].status = "reserved" /\ inv'[k].status = "committed"
         /\ \A j \in Keys \ {k} : inv'[j] = inv[j]
  <1>1. inv[k].status = "reserved" /\ LockedRow(g).grant = g
    BY DEF CommitGranted, Commitable, Collides
  <1>2. row.grant # NoGrant
    BY <1>1 DEF Core, EmptyIsBlank
  <1>3. row.grant = g /\ row' = WithCharge(row, s) /\ sweep' = sweep
    BY <1>1, <1>2, LockedRowCounts DEF CommitGranted
  <1>4. row \in RowType
    BY DEF Core, TypeOK, RowType
  <1>5. /\ row'.grant = g
        /\ row'.usedCalls = row.usedCalls + 1
        /\ row'.reservedCalls = Less(row.reservedCalls, 1)
    BY <1>3, <1>4, RowOperations
  <1>6. inv'[k].status = "committed" /\ \A j \in Keys \ {k} : inv'[j] = inv[j]
    BY DEF CommitGranted, Core, TypeOK
  <1>7. /\ Cardinality(KeysIn("reserved")') = Cardinality(KeysIn("reserved")) - 1
        /\ Cardinality(KeysIn("reserved")) >= 1
    BY <1>1, <1>6, StatusMoves
  <1>8. Cardinality(KeysIn("committed")') = Cardinality(KeysIn("committed")) + 1
    BY <1>1, <1>6, StatusMoves
  <1>9. row.usedCalls \in Nat /\ row.reservedCalls \in Nat
    BY <1>4 DEF RowType
  <1>10. row'.reservedCalls = row.reservedCalls - 1
    BY <1>5, <1>7, <1>9 DEF Core, CountersExact, Less
  <1>11. row'.usedCalls + row'.reservedCalls = row.usedCalls + row.reservedCalls
    BY <1>5, <1>9, <1>10
  <1>12. CallsWithinLimit' /\ CountersExact'
    BY <1>2, <1>3, <1>5, <1>7, <1>8, <1>10, <1>11 DEF Core, CallsWithinLimit, CountersExact
  <1> QED
    BY <1>1, <1>2, <1>3, <1>5, <1>6, <1>12 DEF Core, EmptyIsBlank

LEMMA ReserveCore ==
  ASSUME Core, TypeOK', NEW r \in Requests, NEW g \in Grants, NEW k \in Keys, NEW s \in Nat,
         ReserveBody(r, g, k, s)
  PROVE  Core'
  <1>1. ~sweep' /\ TypeOK
    BY DEF Core, ReserveBody, ReserveRejected, ReserveReplayed, ReserveExhausted, ReserveGranted
  <1>2. CASE ReserveRejected(r, g, k, s) \/ ReserveReplayed(r, g, k, s)
    BY <1>1, <1>2, SameRecords DEF ReserveRejected, ReserveReplayed, KeptRow
  <1>3. CASE ReserveExhausted(r, g, k, s)
    <2>1. CASE Stale(k) /\ ~Transactional
      <3>1. row' = WithoutReservation(row, inv[k].spend) /\ inv[k].status = "reserved"
        BY <1>3, <2>1, ReclaimedCounts DEF ReserveExhausted, KeptRow, Stale
      <3>2. inv'[k].status = "released" /\ \A j \in Keys \ {k} : inv'[j] = inv[j]
        BY <1>1, <1>3, <2>1 DEF ReserveExhausted, TypeOK
      <3>3. inv[k].spend \in Nat
        BY <1>1 DEF TypeOK
      <3> QED
        BY <1>1, <3>1, <3>2, <3>3, GivenBack
    <2>2. CASE Transactional
      <3>1. row' = row /\ inv' = inv
        BY <1>3, <2>2 DEF ReserveExhausted, KeptRow
      <3> QED
        BY <1>1, <3>1, SameRecords
    <2>3. CASE ~Stale(k)
      <3>1. inv' = inv /\ (row' = row \/ row' = LockedRow(g))
        BY <1>3, <2>3 DEF ReserveExhausted, KeptRow, Reclaimed
      <3> QED
        BY <1>1, <3>1, SameRecords
    <2> QED
      BY <2>1, <2>2, <2>3
  <1>4. CASE ReserveGranted(r, g, k, s)
    BY <1>4, ReserveGrantedCore
  <1> QED
    BY <1>2, <1>3, <1>4 DEF ReserveBody

LEMMA CommitCore ==
  ASSUME Core, TypeOK', NEW r \in Requests, NEW g \in Grants, NEW k \in Keys, NEW s \in Nat,
         CommitBody(r, g, k, s)
  PROVE  Core'
  <1>1. CASE CommitRefused(r, g, k, s) \/ CommitReplayed(r, g, k, s)
    <2>1. ~sweep' /\ inv' = inv
      BY <1>1 DEF Core, CommitRefused, CommitReplayed
    <2> QED
      BY <1>1, <2>1, SameRecords DEF CommitRefused, CommitReplayed, KeptRow
  <1>2. CASE CommitGranted(r, g, k, s)
    BY <1>2, CommitGrantedCore
  <1> QED
    BY <1>1, <1>2 DEF CommitBody

LEMMA ReleaseCore ==
  ASSUME Core, TypeOK', NEW r \in Requests, Release(r)
  PROVE  Core'
  <1> DEFINE k == req[r].key
             s == req[r].spend
  <1>1. k \in Keys /\ s \in Nat /\ TypeOK /\ ~sweep'
    BY DEF Core, TypeOK, Release
  <1>2. CASE Releasable(req[r].grant, k, s)
    <2>1. /\ row' = WithoutReservation(row, s)
          /\ inv' = [inv EXCEPT ![k].status = "released", ![k].updatedAt = now]
          /\ inv[k].status = "reserved"
      BY <1>2 DEF Release, Releasable
    <2> HIDE DEF k, s
    <2>2. inv'[k].status = "released" /\ \A j \in Keys \ {k} : inv'[j] = inv[j]
      BY <1>1, <2>1 DEF TypeOK
    <2> QED
      BY <1>1, <2>1, <2>2, GivenBack
  <1>3. CASE ~Releasable(req[r].grant, k, s)
    <2>1. row' = row /\ inv' = inv
      BY <1>3 DEF Release
    <2> QED
      BY <1>1, <2>1, SameRecords
  <1> QED
    BY <1>2, <1>3

\* The core of the ledger is inductive when the PostgreSQL ledger is not pruned.
LEMMA CoreInit == Init => Core
  <1> SUFFICES ASSUME Init PROVE Core
    OBVIOUS
  <1>1. row = NoRow /\ ~sweep /\ \A k \in Keys : inv[k].status = "none"
    BY DEF Init, NoInvocation
  <1>2. KeysIn("reserved") = {} /\ KeysIn("committed") = {}
    BY <1>1 DEF KeysIn
  <1> QED
    BY <1>1, <1>2, InitType, FS_EmptySet
    DEF Core, EmptyIsBlank, CountersExact, CallsWithinLimit, NoRow

LEMMA CoreStep ==
  ASSUME Stable, Core, [Next]_vars
  PROVE  Core'
  <1>1. TypeOK' /\ TypeOK
    BY NextType DEF Core
  <1>2. ASSUME NEW r \in Requests, NEW g \in Grants, NEW k \in Keys, NEW s \in Prices,
               ReserveLocal(r, g, k, s)
        PROVE  Core'
    BY <1>1, <1>2, ReserveCore, LedgerAssumption DEF ReserveLocal
  <1>3. ASSUME NEW r \in Requests, ReserveTransaction(r) PROVE Core'
    <2>1. req[r].grant \in Grants /\ req[r].key \in Keys /\ req[r].spend \in Nat
      BY <1>1, <1>3 DEF TypeOK, ReserveTransaction
    <2> QED
      BY <1>1, <1>3, <2>1, ReserveCore DEF ReserveTransaction
  <1>4. ASSUME NEW r \in Requests, CommitLocal(r) \/ CommitTransaction(r) PROVE Core'
    <2>1. /\ req[r].grant \in Grants /\ req[r].key \in Keys /\ req[r].spend \in Nat
          /\ CommitBody(r, req[r].grant, req[r].key, req[r].spend)
      BY <1>1, <1>4 DEF TypeOK, CommitLocal, CommitTransaction
    <2> QED
      BY <1>1, <2>1, CommitCore
  <1>5. ASSUME PruneLocal \/ ProcessRestart PROVE Core'
    BY <1>1, <1>5, Blank DEF Core, PruneLocal, ProcessRestart, NoInvocation
  <1>6. ~PruneRows /\ ~PruneInvocations
    BY DEF Stable, Core, PruneRows, PruneInvocations, Prunable
  <1>7. ASSUME /\ UNCHANGED <<row, inv, sweep>> PROVE Core'
    BY <1>1, <1>7, SameRecords DEF Core
  <1>8. ASSUME NEW r \in Requests,
               \/ \E g \in Grants, k \in Keys, s \in Prices : ReserveCheck(r, g, k, s)
               \/ CommitCheck(r) \/ Fail(r) \/ ReplicaCrash(r)
        PROVE  Core'
    BY <1>7, <1>8 DEF ReserveCheck, CommitCheck, Fail, ReplicaCrash
  <1>9. CASE Tick \/ UNCHANGED vars
    BY <1>7, <1>9 DEF Tick, vars
  <1> QED
    BY <1>1, <1>2, <1>3, <1>4, <1>5, <1>6, <1>8, <1>9, ReleaseCore DEF Next, Handler

\* For every set of grants, keys and requests, however their calls interleave, the
\* calls used and reserved under a grant never exceed its maxUses.
THEOREM CallsBounded ==
  ASSUME Stable
  PROVE  Spec => []CallsWithinLimit
  <1>1. Core => CallsWithinLimit
    BY DEF Core
  <1>2. Core /\ [Next]_vars => Core'
    BY CoreStep
  <1> QED
    BY <1>1, <1>2, CoreInit, PTL DEF Spec

\* The stored call counters are always what the records add up to.
THEOREM CountersAgree ==
  ASSUME Stable
  PROVE  Spec => []CallCountersAgree
  <1>1. Core => CallCountersAgree
    BY DEF Core, CountersExact, CallCountersAgree
  <1>2. Core /\ [Next]_vars => Core'
    BY CoreStep
  <1> QED
    BY <1>1, <1>2, CoreInit, PTL DEF Spec

-----------------------------------------------------------------------------
(***************************************************************************)
(* Spend                                                                   *)
(*                                                                         *)
(* The counters of amounts, too, must be tied to the records: a refund     *)
(* saturates at zero, so an amount given back twice or at another price    *)
(* would be lost from the budget without a trace.  Total(v, S) is what the *)
(* fold of the community modules adds up over the records of S.            *)
(***************************************************************************)
Total(v, S) == MapThenSumSet(LAMBDA k : v[k].spend, S)

\* Below is the order of the naturals as a relation.
Below == OpToRel(<, Nat)

\* Every set of naturals has a least one.
LEMMA LeastOne == ASSUME NEW T \in SUBSET Nat, T # {} PROVE \E n \in T : \A m \in T : n <= m
  <1>1. IsWellFoundedOn(Below, Nat)
    BY NatLessThanWellFounded DEF Below
  <1>2. T \subseteq Nat
    OBVIOUS
  <1>3. PICK n \in T : \A m \in T : <<m, n>> \notin Below
    BY <1>1, <1>2, WFMin
  <1>4. ASSUME NEW m \in T PROVE n <= m
    <2>1. n \in Nat /\ m \in Nat /\ <<m, n>> \in Nat \X Nat
      OBVIOUS
    <2>2. m < n => <<m, n>> \in Below
      BY <2>1 DEF Below, OpToRel
    <2> QED
      BY <1>3, <2>1, <2>2
  <1> QED
    BY <1>4

\* A family of finite sets that has the empty set, and every set that has one element more
\* than its members, has all.
LEMMA SetInduction ==
  ASSUME NEW K, IsFiniteSet(K), NEW F \in SUBSET (SUBSET K), {} \in F,
         \A S \in SUBSET K : S # {} /\ (\A x \in S : S \ {x} \in F) => S \in F
  PROVE  \A S \in SUBSET K : S \in F
  <1> SUFFICES ASSUME NEW L \in SUBSET K, L \notin F PROVE FALSE
    OBVIOUS
  <1>2. \A S \in SUBSET K : IsFiniteSet(S) /\ Cardinality(S) \in Nat
    BY FS_Subset, FS_CardinalityType
  <1>3. PICK sizes \in SUBSET Nat :
          sizes = {n \in Nat : \E S \in SUBSET K : S \notin F /\ Cardinality(S) = n}
    OBVIOUS
  <1>4. Cardinality(L) \in sizes
    BY <1>2, <1>3
  <1>5. PICK n \in sizes : \A m \in sizes : n <= m
    BY <1>4, LeastOne
  <1>6. PICK S \in SUBSET K : S \notin F /\ Cardinality(S) = n
    BY <1>3
  <1>7. PICK x \in S : S \ {x} \notin F
    BY <1>6
  <1>8. n \in Nat /\ n - 1 \in Nat /\ Cardinality(S \ {x}) = n - 1
    BY <1>2, <1>6, <1>7, FS_RemoveElement
  <1>9. n - 1 \in sizes
    BY <1>3, <1>7, <1>8
  <1> QED
    BY <1>5, <1>8, <1>9

\* total adds up f over the subsets of K.
Adds(total, f, K) ==
    /\ total \in [SUBSET K -> Nat] /\ total[{}] = 0
    /\ \A S \in SUBSET K : \A k \in K \ S : total[S \cup {k}] = total[S] + f[k]

\* Naturals can be added up over every finite set.
LEMMA AddUp ==
  ASSUME NEW K, IsFiniteSet(K), NEW f \in [K -> Nat]
  PROVE   \E total : Adds(total, f, K)
  <1>1. PICK F \in SUBSET (SUBSET K) : F = {L \in SUBSET K : \E total : Adds(total, f, L)}
    OBVIOUS
  <1>2. {} \in F
    <2>1. PICK total : total = [S \in SUBSET {} |-> 0]
      OBVIOUS
    <2>2. Adds(total, f, {})
      BY <2>1 DEF Adds
    <2> QED
      BY <1>1, <2>2
  <1>3. ASSUME NEW L \in SUBSET K, L # {}, \A x \in L : L \ {x} \in F
        PROVE  L \in F
    <2>1. PICK x \in L : TRUE
      BY <1>3
    <2>2. PICK total : Adds(total, f, L \ {x})
      BY <1>1, <1>3
    <2>3. PICK all : all = [S \in SUBSET L |-> IF x \in S THEN total[S \ {x}] + f[x] ELSE total[S]]
      OBVIOUS
    <2>4. f[x] \in Nat
      OBVIOUS
    <2>5. ASSUME NEW S \in SUBSET L
          PROVE  S \ {x} \in SUBSET (L \ {x}) /\ (x \notin S => S \in SUBSET (L \ {x}))
      OBVIOUS
    <2>6. total \in [SUBSET (L \ {x}) -> Nat] /\ total[{}] = 0
      BY <2>2 DEF Adds
    <2>7. all \in [SUBSET L -> Nat] /\ all[{}] = 0
      BY <2>3, <2>4, <2>5, <2>6
    <2>8. ASSUME NEW S \in SUBSET L, NEW k \in L \ S PROVE all[S \cup {k}] = all[S] + f[k]
      <3>1. S \cup {k} \in SUBSET L /\ f[k] \in Nat
        OBVIOUS
      <3>2. CASE k = x
        <4>1. (S \cup {k}) \ {x} = S
          BY <3>2
        <4> QED
          BY <2>3, <3>1, <3>2, <4>1
      <3>3. CASE k # x /\ x \in S
        <4>1. (S \cup {k}) \ {x} = (S \ {x}) \cup {k} /\ k \in (L \ {x}) \ (S \ {x})
          BY <3>3
        <4>2. total[(S \ {x}) \cup {k}] = total[S \ {x}] + f[k]
          BY <2>2, <2>5, <4>1 DEF Adds
        <4>3. total[S \ {x}] \in Nat
          BY <2>5, <2>6
        <4>4. all[S \cup {k}] = total[(S \ {x}) \cup {k}] + f[x]
          BY <2>3, <3>1, <3>3, <4>1
        <4>5. all[S] = total[S \ {x}] + f[x]
          BY <2>3, <3>3
        <4> QED
          BY <2>4, <3>1, <4>2, <4>3, <4>4, <4>5
      <3>4. CASE k # x /\ x \notin S
        <4>1. k \in (L \ {x}) \ S /\ x \notin S \cup {k} /\ S \in SUBSET (L \ {x})
          BY <3>4
        <4>2. total[S \cup {k}] = total[S] + f[k]
          BY <2>2, <4>1 DEF Adds
        <4> QED
          BY <2>3, <3>1, <3>4, <4>1, <4>2
      <3> QED
        BY <3>2, <3>3, <3>4
    <2>9. Adds(all, f, L)
      BY <2>7, <2>8 DEF Adds
    <2> QED
      BY <1>1, <2>9
  <1>4. K \in F
    BY <1>2, <1>3, SetInduction
  <1> QED
    BY <1>1, <1>4

\* What the fold of the community modules computes is that sum.
LEMMA TotalAdds ==
  ASSUME NEW K, IsFiniteSet(K), NEW v, NEW f \in [K -> Nat], \A k \in K : v[k].spend = f[k],
         NEW total, Adds(total, f, K), NEW S \in SUBSET K
  PROVE  Total(v, S) = total[S]
  <1> DEFINE Step(g, s) ==
        IF s = {} THEN 0 ELSE LET x == CHOOSE x \in s : TRUE IN v[x].spend + g[s \ {x}]
  <1>1. Total(v, S) = (CHOOSE g : g = [s \in SUBSET S |-> Step(g, s)])[S]
    BY DEF Total, MapThenSumSet, MapThenFoldSet
  <1>2. ASSUME NEW s \in SUBSET S, s # {}
        PROVE  LET x == CHOOSE x \in s : TRUE
               IN  x \in s /\ s \ {x} \in SUBSET S /\ total[s] = v[x].spend + total[s \ {x}]
    <2>1. PICK x : x = CHOOSE y \in s : TRUE
      OBVIOUS
    <2>2. x \in s
      BY <1>2, <2>1
    <2>3. x \in K /\ s \ {x} \in SUBSET K /\ (s \ {x}) \cup {x} = s /\ x \in K \ (s \ {x})
      BY <2>2
    <2>4. total[s] = total[s \ {x}] + f[x] /\ total[s \ {x}] \in Nat /\ f[x] \in Nat
      BY <2>3 DEF Adds
    <2>5. total[s] = v[x].spend + total[s \ {x}]
      BY <2>3, <2>4
    <2> QED
      BY <2>1, <2>2, <2>5
  <1>3. \E g : g = [s \in SUBSET S |-> Step(g, s)]
    <2>1. PICK h : h = [s \in SUBSET S |-> total[s]]
      OBVIOUS
    <2>2. ASSUME NEW s \in SUBSET S PROVE total[s] = Step(h, s)
      <3>1. CASE s = {}
        BY <3>1 DEF Adds
      <3>2. CASE s # {}
        BY <1>2, <2>1, <3>2
      <3> QED
        BY <3>1, <3>2
    <2>3. h = [s \in SUBSET S |-> Step(h, s)]
      BY <2>1, <2>2
    <2> QED
      BY <2>3
  <1>4. PICK g : g = (CHOOSE h : h = [s \in SUBSET S |-> Step(h, s)])
    OBVIOUS
  <1>5. g = [s \in SUBSET S |-> Step(g, s)]
    BY <1>3, <1>4
  <1>6. PICK F \in SUBSET (SUBSET S) : F = {s \in SUBSET S : g[s] = total[s]}
    OBVIOUS
  <1>7. {} \in F
    BY <1>5, <1>6 DEF Adds
  <1>8. ASSUME NEW s \in SUBSET S, s # {}, \A x \in s : s \ {x} \in F
        PROVE  s \in F
    <2>1. PICK x : x = CHOOSE y \in s : TRUE
      OBVIOUS
    <2>2. x \in s /\ total[s] = v[x].spend + total[s \ {x}]
      BY <1>2, <1>8, <2>1
    <2>3. g[s \ {x}] = total[s \ {x}]
      BY <1>6, <1>8, <2>2
    <2>4. g[s] = v[x].spend + g[s \ {x}]
      BY <1>5, <1>8, <2>1
    <2> QED
      BY <1>6, <2>2, <2>3, <2>4
  <1>9. S \in F
    <2>1. IsFiniteSet(S)
      BY FS_Subset
    <2>2. \A s \in SUBSET S : s # {} /\ (\A x \in s : s \ {x} \in F) => s \in F
      BY <1>8
    <2> HIDE DEF Step
    <2>3. \A s \in SUBSET S : s \in F
      BY <1>7, <2>1, <2>2, SetInduction
    <2> QED
      BY <2>3
  <1> QED
    BY <1>1, <1>4, <1>6, <1>9

\* The total over records is what SpendOf adds up: nothing over none, and the amount of each
\* record once.
LEMMA TotalOfRecords ==
  ASSUME NEW v \in InvType
  PROVE  /\ \A S \in SUBSET Keys : Total(v, S) \in Nat
         /\ Total(v, {}) = 0
         /\ \A S \in SUBSET Keys : \A k \in Keys \ S :
               Total(v, S \cup {k}) = Total(v, S) + v[k].spend
  <1>1. PICK f : f = [k \in Keys |-> v[k].spend]
    OBVIOUS
  <1>2. f \in [Keys -> Nat] /\ \A k \in Keys : v[k].spend = f[k]
    BY <1>1 DEF InvType
  <1>3. IsFiniteSet(Keys)
    BY LedgerAssumption
  <1>4. PICK total : Adds(total, f, Keys)
    BY <1>2, <1>3, AddUp
  <1>5. ASSUME NEW S \in SUBSET Keys PROVE Total(v, S) = total[S]
    BY <1>2, <1>3, <1>4, TotalAdds
  <1>6. \A S \in SUBSET Keys : total[S] \in Nat
    BY <1>4 DEF Adds
  <1>7. Total(v, {}) = 0
    BY <1>4, <1>5 DEF Adds
  <1>8. ASSUME NEW S \in SUBSET Keys, NEW k \in Keys \ S
        PROVE  Total(v, S \cup {k}) = Total(v, S) + v[k].spend
    <2>1. total[S \cup {k}] = total[S] + f[k] /\ S \cup {k} \in SUBSET Keys
      BY <1>4 DEF Adds
    <2> QED
      BY <1>2, <1>5, <2>1
  <1> QED
    BY <1>5, <1>6, <1>7, <1>8

\* The total depends on the amounts of the records only.
LEMMA SameTotal ==
  ASSUME NEW v \in InvType, NEW w \in InvType, NEW S \in SUBSET Keys,
         \A k \in S : v[k].spend = w[k].spend
  PROVE  Total(v, S) = Total(w, S)
  <1>1. PICK f : f = [k \in S |-> v[k].spend]
    OBVIOUS
  <1>2. f \in [S -> Nat] /\ \A k \in S : v[k].spend = f[k] /\ w[k].spend = f[k]
    BY <1>1 DEF InvType
  <1>3. IsFiniteSet(S)
    BY LedgerAssumption, FS_Subset
  <1>4. PICK total : Adds(total, f, S)
    BY <1>2, <1>3, AddUp
  <1>5. Total(v, S) = total[S] /\ Total(w, S) = total[S]
    BY <1>2, <1>3, <1>4, TotalAdds
  <1> QED
    BY <1>5

LEMMA SpendIsTotal ==
  ASSUME NEW st
  PROVE  /\ SpendOf(KeysIn(st)) = Total(inv, KeysIn(st))
         /\ SpendOf(KeysIn(st))' = Total(inv', KeysIn(st)')
  <1>1. SpendOf(KeysIn(st)) = Total(inv, KeysIn(st))
    BY DEF SpendOf, Total
  <1>2. SpendOf(KeysIn(st))' = Total(inv', KeysIn(st)')
    BY DEF SpendOf, Total, MapThenSumSet, MapThenFoldSet
  <1> QED
    BY <1>1, <1>2

\* What a record adds to the spend of those in a status.
Share(rec, st) == IF rec.status = st THEN rec.spend ELSE 0

\* One record changes: of the spend in each status its share moves, and the rest stays.
LEMMA SpendSplits ==
  ASSUME inv \in InvType, inv' \in InvType, NEW k \in Keys, NEW st,
         \A j \in Keys \ {k} : inv'[j] = inv[j]
  PROVE  \E rest \in Nat : /\ SpendOf(KeysIn(st)) = rest + Share(inv[k], st)
                           /\ SpendOf(KeysIn(st))' = rest + Share(inv'[k], st)
  <1>1. PICK A, v, B, w : A = KeysIn(st) /\ v = inv /\ B = KeysIn(st)' /\ w = inv'
    OBVIOUS
  <1>2. SpendOf(KeysIn(st)) = Total(v, A) /\ SpendOf(KeysIn(st))' = Total(w, B)
    BY <1>1, SpendIsTotal
  <1>3. /\ A = {j \in Keys : v[j].status = st} /\ B = {j \in Keys : w[j].status = st}
        /\ v \in InvType /\ w \in InvType /\ \A j \in Keys \ {k} : w[j] = v[j]
    BY <1>1 DEF KeysIn
  <1>4. PICK R \in SUBSET Keys : R = A \ {k}
    BY <1>3
  <1>5. R = B \ {k} /\ \A j \in R : v[j].spend = w[j].spend
    BY <1>3, <1>4
  <1>6. Total(v, R) = Total(w, R) /\ Total(v, R) \in Nat
    BY <1>3, <1>5, SameTotal, TotalOfRecords
  <1>7. Total(v, A) = Total(v, R) + Share(v[k], st)
    <2>1. CASE v[k].status = st
      <3>1. A = R \cup {k} /\ k \in Keys \ R
        BY <1>3, <1>4, <2>1
      <3> QED
        BY <1>3, <2>1, <3>1, TotalOfRecords DEF Share
    <2>2. CASE v[k].status # st
      <3>1. A = R
        BY <1>3, <1>4, <2>2
      <3> QED
        BY <1>6, <2>2, <3>1 DEF Share
    <2> QED
      BY <2>1, <2>2
  <1>8. Total(w, B) = Total(w, R) + Share(w[k], st)
    <2>1. CASE w[k].status = st
      <3>1. B = R \cup {k} /\ k \in Keys \ R
        BY <1>3, <1>5, <2>1
      <3> QED
        BY <1>3, <2>1, <3>1, TotalOfRecords DEF Share
    <2>2. CASE w[k].status # st
      <3>1. B = R
        BY <1>3, <1>5, <2>2
      <3> QED
        BY <1>6, <2>2, <3>1 DEF Share
    <2> QED
      BY <2>1, <2>2
  <1> QED
    BY <1>1, <1>2, <1>6, <1>7, <1>8

SpendExact ==
    /\ row.reservedSpend = SpendOf(KeysIn("reserved"))
    /\ row.usedSpend = SpendOf(KeysIn("committed"))

SpendFits ==
    row.grant # NoGrant => WithinLimit(row.usedSpend + row.reservedSpend, MaxSpend[row.grant])

Spends == SpendExact /\ SpendFits

\* What each row operation of the ledger does to the amounts.
LEMMA RowSpends ==
  ASSUME NEW rw \in RowType, NEW spend \in Nat
  PROVE  /\ WithoutReservation(rw, spend).grant = rw.grant
         /\ WithoutReservation(rw, spend).usedSpend = rw.usedSpend
         /\ WithoutReservation(rw, spend).reservedSpend = Less(rw.reservedSpend, spend)
         /\ WithReservation(rw, spend).grant = rw.grant
         /\ WithReservation(rw, spend).usedSpend = rw.usedSpend
         /\ WithReservation(rw, spend).reservedSpend = rw.reservedSpend + spend
         /\ WithCharge(rw, spend).grant = rw.grant
         /\ WithCharge(rw, spend).usedSpend = rw.usedSpend + spend
         /\ WithCharge(rw, spend).reservedSpend = Less(rw.reservedSpend, spend)
  <1>1. PICK c, d, e, f :
          /\ c = Less(rw.reservedCalls, 1) /\ d = Less(rw.reservedSpend, spend)
          /\ e = rw.reservedCalls + 1 /\ f = rw.reservedSpend + spend
    OBVIOUS
  <1>2. PICK less, more : /\ less = [rw EXCEPT !.reservedCalls = c, !.reservedSpend = d]
                          /\ more = [rw EXCEPT !.reservedCalls = e, !.reservedSpend = f]
    OBVIOUS
  <1>3. WithoutReservation(rw, spend) = less /\ WithReservation(rw, spend) = more
    BY <1>1, <1>2 DEF WithoutReservation, WithReservation
  <1>4. /\ less.grant = rw.grant /\ less.usedSpend = rw.usedSpend /\ less.reservedSpend = d
        /\ more.grant = rw.grant /\ more.usedSpend = rw.usedSpend /\ more.reservedSpend = f
    BY <1>2 DEF RowType
  <1>5. PICK u, v : u = less.usedCalls + 1 /\ v = less.usedSpend + spend
    OBVIOUS
  <1>6. less \in RowType
    BY <1>3, RowOperations
  <1>7. PICK paid : paid = [less EXCEPT !.usedCalls = u, !.usedSpend = v]
    OBVIOUS
  <1>8. WithCharge(rw, spend) = paid
    BY <1>3, <1>5, <1>7 DEF WithCharge
  <1>9. paid.grant = less.grant /\ paid.usedSpend = v /\ paid.reservedSpend = less.reservedSpend
    BY <1>6, <1>7 DEF RowType
  <1> QED
    BY <1>1, <1>3, <1>4, <1>5, <1>8, <1>9

\* The row a call locks carries the same amounts, within the limit of its owner.
LEMMA LockedRowSpends ==
  ASSUME Core, Spends, NEW g \in Grants
  PROVE  LET rw == LockedRow(g)
         IN  /\ rw.reservedSpend = SpendOf(KeysIn("reserved"))
             /\ rw.usedSpend = SpendOf(KeysIn("committed"))
             /\ WithinLimit(rw.usedSpend + rw.reservedSpend, MaxSpend[rw.grant])
  <1>1. CASE row.grant # NoGrant
    <2>1. LockedRow(g) = row
      BY <1>1 DEF LockedRow
    <2> QED
      BY <1>1, <2>1 DEF Spends, SpendExact, SpendFits
  <1>2. CASE row.grant = NoGrant
    <2>1. LockedRow(g) = [NoRow EXCEPT !.grant = g] /\ row = NoRow
      BY <1>2 DEF LockedRow, Core, EmptyIsBlank
    <2>2. /\ LockedRow(g).grant = g
          /\ LockedRow(g).reservedSpend = row.reservedSpend /\ row.reservedSpend = 0
          /\ LockedRow(g).usedSpend = row.usedSpend /\ row.usedSpend = 0
      BY <2>1 DEF NoRow
    <2>3. MaxSpend[g] # NoLimit => MaxSpend[g] \in Nat
      BY LedgerAssumption
    <2>4. WithinLimit(LockedRow(g).usedSpend + LockedRow(g).reservedSpend,
                      MaxSpend[LockedRow(g).grant])
      BY <2>2, <2>3 DEF WithinLimit
    <2> QED
      BY <2>2, <2>4 DEF Spends, SpendExact
  <1> QED
    BY <1>1, <1>2

\* A call that leaves the records alone may at most create the row.
LEMMA SameSpends ==
  ASSUME Core, Spends, inv' = inv, row' = row \/ \E g \in Grants : row' = LockedRow(g)
  PROVE  Spends'
  <1>1. \A st : KeysIn(st)' = KeysIn(st)
    BY DEF KeysIn
  <1>2. /\ SpendOf(KeysIn("reserved"))' = SpendOf(KeysIn("reserved"))
        /\ SpendOf(KeysIn("committed"))' = SpendOf(KeysIn("committed"))
    BY <1>1, SpendIsTotal
  <1>3. CASE row' = row
    BY <1>2, <1>3 DEF Spends, SpendExact, SpendFits
  <1>4. ASSUME NEW g \in Grants, row' = LockedRow(g) PROVE Spends'
    BY <1>2, <1>4, LockedRowSpends DEF Spends, SpendExact, SpendFits
  <1> QED
    BY <1>3, <1>4

\* Nothing is stored any more.
LEMMA BlankSpends ==
  ASSUME TypeOK', row' = NoRow, \A k \in Keys : inv'[k].status = "none"
  PROVE  Spends'
  <1>1. KeysIn("reserved")' = {} /\ KeysIn("committed")' = {}
    BY DEF KeysIn
  <1>2. inv' \in InvType
    BY DEF TypeOK, InvType
  <1>3. Total(inv', {}) = 0
    BY <1>2, TotalOfRecords
  <1>4. SpendOf(KeysIn("reserved"))' = 0 /\ SpendOf(KeysIn("committed"))' = 0
    BY <1>1, <1>3, SpendIsTotal
  <1>5. row'.grant = NoGrant /\ row'.reservedSpend = 0 /\ row'.usedSpend = 0
    BY DEF NoRow
  <1> QED
    BY <1>4, <1>5 DEF Spends, SpendExact, SpendFits

\* The spend of the two counted statuses, before and after one record changes.
LEMMA SpendMoves ==
  ASSUME TypeOK, TypeOK', NEW k \in Keys, \A j \in Keys \ {k} : inv'[j] = inv[j]
  PROVE  \E a \in Nat, b \in Nat :
           /\ SpendOf(KeysIn("reserved")) = a + Share(inv[k], "reserved")
           /\ SpendOf(KeysIn("reserved"))' = a + Share(inv'[k], "reserved")
           /\ SpendOf(KeysIn("committed")) = b + Share(inv[k], "committed")
           /\ SpendOf(KeysIn("committed"))' = b + Share(inv'[k], "committed")
  <1>1. inv \in InvType /\ inv' \in InvType
    BY DEF TypeOK, InvType
  <1>2. PICK a \in Nat : /\ SpendOf(KeysIn("reserved")) = a + Share(inv[k], "reserved")
                         /\ SpendOf(KeysIn("reserved"))' = a + Share(inv'[k], "reserved")
    BY <1>1, SpendSplits
  <1>3. PICK b \in Nat : /\ SpendOf(KeysIn("committed")) = b + Share(inv[k], "committed")
                         /\ SpendOf(KeysIn("committed"))' = b + Share(inv'[k], "committed")
    BY <1>1, SpendSplits
  <1> QED
    BY <1>2, <1>3

\* A reserved slot goes back with the amount it was taken at.
LEMMA SpendGivenBack ==
  ASSUME Core, Spends, TypeOK', NEW k \in Keys,
         inv[k].status = "reserved", inv'[k].status = "released",
         \A j \in Keys \ {k} : inv'[j] = inv[j],
         row' = WithoutReservation(row, inv[k].spend)
  PROVE  Spends'
  <1>1. TypeOK /\ row \in RowType /\ row.grant # NoGrant
    BY DEF Core, EmptyIsBlank, TypeOK, RowType
  <1>2. PICK s : s = inv[k].spend
    OBVIOUS
  <1>3. s \in Nat /\ row.usedSpend \in Nat /\ row.reservedSpend \in Nat
    BY <1>1, <1>2 DEF TypeOK, RowType
  <1>4. PICK a \in Nat, b \in Nat :
          /\ SpendOf(KeysIn("reserved")) = a + Share(inv[k], "reserved")
          /\ SpendOf(KeysIn("reserved"))' = a + Share(inv'[k], "reserved")
          /\ SpendOf(KeysIn("committed")) = b + Share(inv[k], "committed")
          /\ SpendOf(KeysIn("committed"))' = b + Share(inv'[k], "committed")
    BY <1>1, SpendMoves
  <1>5. /\ SpendOf(KeysIn("reserved")) = a + s /\ SpendOf(KeysIn("reserved"))' = a
        /\ SpendOf(KeysIn("committed"))' = SpendOf(KeysIn("committed"))
    BY <1>2, <1>4 DEF Share
  <1>6. /\ row'.grant = row.grant /\ row'.usedSpend = row.usedSpend
        /\ row'.reservedSpend = Less(row.reservedSpend, s)
    BY <1>1, <1>2, <1>3, RowSpends
  <1>7. row.reservedSpend = a + s /\ row'.reservedSpend = a
    BY <1>3, <1>5, <1>6 DEF Spends, SpendExact, Less
  <1>8. MaxSpend[row.grant] # NoLimit => MaxSpend[row.grant] \in Nat
    BY <1>1, LedgerAssumption DEF RowType
  <1>9. SpendFits'
    BY <1>1, <1>3, <1>6, <1>7, <1>8 DEF Spends, SpendFits, WithinLimit
  <1> QED
    BY <1>5, <1>6, <1>7, <1>9 DEF Spends, SpendExact

LEMMA ReserveGrantedSpends ==
  ASSUME Core, Spends, TypeOK', NEW r \in Requests, NEW g \in Grants, NEW k \in Keys,
         NEW s \in Nat, ReserveGranted(r, g, k, s)
  PROVE  Spends'
  <1>1. PICK rw \in RowType : rw = Reclaimed(g, k) /\ rw.grant = g
    BY ReclaimedCounts DEF ReserveGranted
  <1>2. Fits(rw, g, s) /\ row' = WithReservation(rw, s) /\ inv[k].status # "committed"
    BY <1>1 DEF ReserveGranted, Reservable, Stale
  <1>3. /\ row'.grant = g /\ row'.usedSpend = rw.usedSpend
        /\ row'.reservedSpend = rw.reservedSpend + s
        /\ rw.usedSpend \in Nat /\ rw.reservedSpend \in Nat
    BY <1>1, <1>2, RowSpends DEF RowType
  <1>4. TypeOK /\ row \in RowType
    BY DEF Core, TypeOK, RowType
  <1>5. /\ inv'[k].status = "reserved" /\ inv'[k].spend = s
        /\ \A j \in Keys \ {k} : inv'[j] = inv[j]
    BY <1>4 DEF ReserveGranted, TypeOK
  <1>6. PICK a \in Nat, b \in Nat :
          /\ SpendOf(KeysIn("reserved")) = a + Share(inv[k], "reserved")
          /\ SpendOf(KeysIn("reserved"))' = a + Share(inv'[k], "reserved")
          /\ SpendOf(KeysIn("committed")) = b + Share(inv[k], "committed")
          /\ SpendOf(KeysIn("committed"))' = b + Share(inv'[k], "committed")
    BY <1>4, <1>5, SpendMoves
  <1>7. rw.reservedSpend = a /\ rw.usedSpend = SpendOf(KeysIn("committed"))
    <2>1. CASE inv[k].status = "reserved"
      <3>1. rw = WithoutReservation(row, inv[k].spend)
        BY <1>1, <2>1, ReclaimedCounts DEF ReserveGranted
      <3>2. inv[k].spend \in Nat
        BY <1>4 DEF TypeOK
      <3>3. rw.usedSpend = row.usedSpend /\ rw.reservedSpend = Less(row.reservedSpend, inv[k].spend)
        BY <1>4, <3>1, <3>2, RowSpends
      <3>4. row.reservedSpend = a + inv[k].spend
        BY <1>6, <2>1 DEF Spends, SpendExact, Share
      <3> QED
        BY <3>2, <3>3, <3>4 DEF Spends, SpendExact, Less
    <2>2. CASE inv[k].status # "reserved"
      <3>1. rw = LockedRow(g)
        BY <1>1, <2>2 DEF Reclaimed, Stale
      <3>2. SpendOf(KeysIn("reserved")) = a
        BY <1>6, <2>2 DEF Share
      <3> QED
        BY <3>1, <3>2, LockedRowSpends
    <2> QED
      BY <2>1, <2>2
  <1>8. SpendExact'
    BY <1>2, <1>3, <1>5, <1>6, <1>7 DEF SpendExact, Share
  <1>9. SpendFits'
    <2>1. row'.usedSpend + row'.reservedSpend = rw.usedSpend + rw.reservedSpend + s
      BY <1>3
    <2> QED
      BY <1>2, <1>3, <2>1 DEF SpendFits, Fits
  <1> QED
    BY <1>8, <1>9 DEF Spends

LEMMA CommitGrantedSpends ==
  ASSUME Core, Spends, TypeOK', NEW r \in Requests, NEW g \in Grants, NEW k \in Keys,
         NEW s \in Nat, CommitGranted(r, g, k, s)
  PROVE  Spends'
  <1>1. /\ row.grant = g /\ row'.grant = g
        /\ inv[k].status = "reserved" /\ inv'[k].status = "committed"
        /\ \A j \in Keys \ {k} : inv'[j] = inv[j]
    BY CommitGrantedCore
  <1>2. inv[k].spend = s /\ inv'[k].spend = s /\ row' = WithCharge(row, s)
    BY <1>1, LockedRowCounts, LedgerAssumption
    DEF CommitGranted, Commitable, Collides, Core, TypeOK
  <1>3. TypeOK /\ row \in RowType
    BY DEF Core, TypeOK, RowType
  <1>4. PICK a \in Nat, b \in Nat :
          /\ SpendOf(KeysIn("reserved")) = a + Share(inv[k], "reserved")
          /\ SpendOf(KeysIn("reserved"))' = a + Share(inv'[k], "reserved")
          /\ SpendOf(KeysIn("committed")) = b + Share(inv[k], "committed")
          /\ SpendOf(KeysIn("committed"))' = b + Share(inv'[k], "committed")
    BY <1>1, <1>3, SpendMoves
  <1>5. /\ row.reservedSpend = a + s /\ SpendOf(KeysIn("reserved"))' = a
        /\ row.usedSpend = b /\ SpendOf(KeysIn("committed"))' = b + s
    BY <1>1, <1>2, <1>4 DEF Spends, SpendExact, Share
  <1>6. /\ row'.usedSpend = row.usedSpend + s
        /\ row'.reservedSpend = Less(row.reservedSpend, s)
    BY <1>2, <1>3, RowSpends
  <1>7. row'.reservedSpend = a /\ row'.usedSpend = b + s
    BY <1>5, <1>6 DEF Less
  <1>8. row'.usedSpend + row'.reservedSpend = row.usedSpend + row.reservedSpend
    BY <1>5, <1>7
  <1> QED
    BY <1>1, <1>5, <1>7, <1>8, LedgerAssumption DEF Spends, SpendExact, SpendFits

LEMMA ReserveSpends ==
  ASSUME Core, Spends, TypeOK', NEW r \in Requests, NEW g \in Grants, NEW k \in Keys,
         NEW s \in Nat, ReserveBody(r, g, k, s)
  PROVE  Spends'
  <1>1. CASE ReserveRejected(r, g, k, s) \/ ReserveReplayed(r, g, k, s)
    BY <1>1, SameSpends DEF ReserveRejected, ReserveReplayed, KeptRow
  <1>2. CASE ReserveExhausted(r, g, k, s)
    <2>1. CASE Stale(k) /\ ~Transactional
      <3>1. row' = WithoutReservation(row, inv[k].spend) /\ inv[k].status = "reserved"
        BY <1>2, <2>1, ReclaimedCounts DEF ReserveExhausted, KeptRow, Stale
      <3>2. inv'[k].status = "released" /\ \A j \in Keys \ {k} : inv'[j] = inv[j]
        BY <1>2, <2>1 DEF ReserveExhausted, Core, TypeOK
      <3> QED
        BY <3>1, <3>2, SpendGivenBack
    <2>2. CASE Transactional
      <3>1. row' = row /\ inv' = inv
        BY <1>2, <2>2 DEF ReserveExhausted, KeptRow
      <3> QED
        BY <3>1, SameSpends
    <2>3. CASE ~Stale(k)
      <3>1. inv' = inv /\ (row' = row \/ row' = LockedRow(g))
        BY <1>2, <2>3 DEF ReserveExhausted, KeptRow, Reclaimed
      <3> QED
        BY <3>1, SameSpends
    <2> QED
      BY <2>1, <2>2, <2>3
  <1>3. CASE ReserveGranted(r, g, k, s)
    BY <1>3, ReserveGrantedSpends
  <1> QED
    BY <1>1, <1>2, <1>3 DEF ReserveBody

LEMMA CommitSpends ==
  ASSUME Core, Spends, TypeOK', NEW r \in Requests, NEW g \in Grants, NEW k \in Keys,
         NEW s \in Nat, CommitBody(r, g, k, s)
  PROVE  Spends'
  <1>1. CASE CommitRefused(r, g, k, s) \/ CommitReplayed(r, g, k, s)
    BY <1>1, SameSpends DEF CommitRefused, CommitReplayed, KeptRow
  <1>2. CASE CommitGranted(r, g, k, s)
    BY <1>2, CommitGrantedSpends
  <1> QED
    BY <1>1, <1>2 DEF CommitBody

LEMMA ReleaseSpends ==
  ASSUME Core, Spends, TypeOK', NEW r \in Requests, Release(r)
  PROVE  Spends'
  <1>1. PICK g, k, s : g = req[r].grant /\ k = req[r].key /\ s = req[r].spend
    OBVIOUS
  <1>2. k \in Keys
    BY <1>1 DEF Core, TypeOK, Release
  <1>3. CASE Releasable(g, k, s)
    <2>1. /\ row' = WithoutReservation(row, s)
          /\ inv' = [inv EXCEPT ![k].status = "released", ![k].updatedAt = now]
          /\ inv[k].status = "reserved" /\ inv[k].spend = s
      BY <1>1, <1>3 DEF Release, Releasable
    <2>2. inv'[k].status = "released" /\ \A j \in Keys \ {k} : inv'[j] = inv[j]
      BY <1>2, <2>1 DEF Core, TypeOK
    <2> QED
      BY <1>2, <2>1, <2>2, SpendGivenBack
  <1>4. CASE ~Releasable(g, k, s)
    <2>1. row' = row /\ inv' = inv
      BY <1>1, <1>4 DEF Release
    <2> QED
      BY <2>1, SameSpends
  <1> QED
    BY <1>3, <1>4

LEMMA SpendsInit == Init => Spends
  <1> SUFFICES ASSUME Init PROVE Spends
    OBVIOUS
  <1>1. KeysIn("reserved") = {} /\ KeysIn("committed") = {}
    BY DEF Init, NoInvocation, KeysIn
  <1>2. inv \in InvType
    BY InitType DEF TypeOK, InvType
  <1>3. SpendOf(KeysIn("reserved")) = 0 /\ SpendOf(KeysIn("committed")) = 0
    BY <1>1, <1>2, TotalOfRecords, SpendIsTotal
  <1> QED
    BY <1>3 DEF Init, NoRow, Spends, SpendExact, SpendFits

LEMMA SpendsStep ==
  ASSUME Stable, Core, Spends, [Next]_vars
  PROVE  Spends'
  <1>1. TypeOK' /\ TypeOK
    BY NextType DEF Core
  <1>2. ASSUME NEW r \in Requests, NEW g \in Grants, NEW k \in Keys, NEW s \in Prices,
               ReserveLocal(r, g, k, s)
        PROVE  Spends'
    BY <1>1, <1>2, ReserveSpends, LedgerAssumption DEF ReserveLocal
  <1>3. ASSUME NEW r \in Requests, ReserveTransaction(r) PROVE Spends'
    <2>1. req[r].grant \in Grants /\ req[r].key \in Keys /\ req[r].spend \in Nat
      BY <1>1, <1>3 DEF TypeOK, ReserveTransaction
    <2> QED
      BY <1>1, <1>3, <2>1, ReserveSpends DEF ReserveTransaction
  <1>4. ASSUME NEW r \in Requests, CommitLocal(r) \/ CommitTransaction(r) PROVE Spends'
    <2>1. /\ req[r].grant \in Grants /\ req[r].key \in Keys /\ req[r].spend \in Nat
          /\ CommitBody(r, req[r].grant, req[r].key, req[r].spend)
      BY <1>1, <1>4 DEF TypeOK, CommitLocal, CommitTransaction
    <2> QED
      BY <1>1, <2>1, CommitSpends
  <1>5. ASSUME PruneLocal \/ ProcessRestart PROVE Spends'
    BY <1>1, <1>5, BlankSpends DEF PruneLocal, ProcessRestart, NoInvocation
  <1>6. ~PruneRows /\ ~PruneInvocations
    BY DEF Stable, Core, PruneRows, PruneInvocations, Prunable
  <1>7. ASSUME UNCHANGED <<row, inv>> PROVE Spends'
    BY <1>7, SameSpends
  <1>8. ASSUME NEW r \in Requests,
               \/ \E g \in Grants, k \in Keys, s \in Prices : ReserveCheck(r, g, k, s)
               \/ CommitCheck(r) \/ Fail(r) \/ ReplicaCrash(r)
        PROVE  Spends'
    BY <1>7, <1>8 DEF ReserveCheck, CommitCheck, Fail, ReplicaCrash
  <1>9. CASE Tick \/ UNCHANGED vars
    BY <1>7, <1>9 DEF Tick, vars
  <1> QED
    BY <1>1, <1>2, <1>3, <1>4, <1>5, <1>6, <1>8, <1>9, ReleaseSpends DEF Next, Handler

\* The amounts the row carries are what the records add up to, at whatever prices they were
\* taken and however often they were reclaimed, and within the grant's maxSpendAtomic.
THEOREM SpendBounded ==
  ASSUME Stable
  PROVE  Spec => []SpendWithinBudget
  <1>1. Core /\ Spends => SpendWithinBudget
    BY DEF Spends, SpendExact, SpendFits, SpendWithinBudget, RowLive
  <1>2. Core /\ Spends /\ [Next]_vars => Core' /\ Spends'
    BY CoreStep, SpendsStep
  <1> QED
    BY <1>1, <1>2, CoreInit, SpendsInit, PTL DEF Spec

-----------------------------------------------------------------------------
(***************************************************************************)
(* Handlers and their reservations                                         *)
(*                                                                         *)
(* Release and commit name a reservation by its key only, so what has to   *)
(* be known of a handler is whose reservation is under its key: its own    *)
(* while it works in time, none but a committed one when it was replayed.  *)
(***************************************************************************)
Serving == {"held", "committing", "failed"}

\* In memory the row of an expired grant may have been pruned; such a grant is never
\* used again.
Gone(g) == ~Transactional /\ ExpiresAt[g] <= now

\* A handler is overdue before its reservation is stale.
HolderOK(a) ==
    /\ a.stage \in {"reserving", "committing"} => Transactional
    /\ a.stage \in Serving =>
          /\ a.since <= now /\ now - a.since <= HandlerTime
          /\ row.grant = a.grant \/ Gone(a.grant)
          /\ row.grant = a.grant /\ ~a.owns => inv[a.key].status = "committed"
          /\ row.grant = a.grant /\ a.owns =>
                inv[a.key].status = "reserved" /\ inv[a.key].updatedAt = a.since

Owner(r) == req[r].stage \in Serving /\ req[r].owns /\ row.grant = req[r].grant

OneOwner == \A q, r \in Requests : Owner(q) /\ Owner(r) /\ req[q].key = req[r].key => q = r

ChargesOK ==
    \A g \in Grants :
        /\ \A k \in Keys : charged[g][k] > 0 =>
              /\ row.grant = g \/ Gone(g)
              /\ row.grant = g => inv[k].status = "committed"
        /\ WithinLimit(Cardinality(ChargedKeys(g)), MaxUses[g])

Holders == (\A r \in Requests : HolderOK(req[r])) /\ OneOwner /\ ChargesOK

\* A request that has a reservation, or a replayed call, under key k of the row.
HoldsUnder(q, k) ==
    req[q].stage \in Serving /\ row.grant = req[q].grant /\ req[q].key = k

\* A call changes the row's grant at most by being the first to use the id; no handler
\* and no charge is waiting for that.
RowKept ==
    /\ \A q \in Requests : req[q].stage \in Serving =>
          (row'.grant = req[q].grant <=> row.grant = req[q].grant)
    /\ \A h \in Grants, k \in Keys : charged[h][k] > 0 => (row'.grant = h <=> row.grant = h)

LEMMA FirstUse ==
  ASSUME Core, Holders, NEW g \in Grants, Transactional \/ Active(g),
         row'.grant = row.grant \/ (row.grant = NoGrant /\ row'.grant = g)
  PROVE  RowKept
  <1>1. CASE row'.grant = row.grant
    BY <1>1 DEF RowKept
  <1>2. CASE row.grant = NoGrant /\ row'.grant = g
    <2>1. ~Gone(g)
      BY LedgerAssumption DEF Gone, Active, Core, TypeOK
    <2>2. ASSUME NEW q \in Requests, req[q].stage \in Serving
          PROVE  row.grant # req[q].grant /\ row'.grant # req[q].grant
      <3>1. req[q].grant \in Grants
        BY <2>2 DEF Core, TypeOK, Serving
      <3>2. row.grant # req[q].grant
        BY <1>2, <3>1, LedgerAssumption
      <3>3. Gone(req[q].grant)
        BY <2>2, <3>2 DEF Holders, HolderOK
      <3> QED
        BY <1>2, <2>1, <3>2, <3>3
    <2>3. ASSUME NEW h \in Grants, NEW k \in Keys, charged[h][k] > 0
          PROVE  row.grant # h /\ row'.grant # h
      <3>1. row.grant # h
        BY <1>2, LedgerAssumption
      <3>2. Gone(h)
        BY <2>3, <3>1 DEF Holders, ChargesOK
      <3> QED
        BY <1>2, <2>1, <3>1, <3>2
    <2> QED
      BY <2>2, <2>3 DEF RowKept
  <1> QED
    BY <1>1, <1>2

\* A handler keeps its reservation when the record under its key is left alone.
LEMMA HolderKept ==
  ASSUME NEW a, HolderOK(a), now' = now,
         a.stage \in Serving => (row'.grant = a.grant <=> row.grant = a.grant),
         a.stage \in Serving /\ row.grant = a.grant =>
            inv'[a.key].status = inv[a.key].status /\ inv'[a.key].updatedAt = inv[a.key].updatedAt
  PROVE  HolderOK(a)'
  BY DEF HolderOK, Gone

LEMMA ChargesKept ==
  ASSUME ChargesOK, RowKept, now' = now, charged' = charged,
         \A k \in Keys : inv[k].status = "committed" => inv'[k].status = "committed"
  PROVE  ChargesOK'
  <1>1. \A g \in Grants : ChargedKeys(g)' = ChargedKeys(g)
    BY DEF ChargedKeys
  <1>2. ASSUME NEW g \in Grants, NEW k \in Keys, charged'[g][k] > 0
        PROVE  (row'.grant = g \/ Gone(g)') /\ (row'.grant = g => inv'[k].status = "committed")
    <2>1. charged[g][k] > 0
      BY <1>2
    <2>2. /\ row.grant = g \/ Gone(g)
          /\ row.grant = g => inv[k].status = "committed"
          /\ row'.grant = g <=> row.grant = g
      BY <2>1 DEF ChargesOK, RowKept
    <2> QED
      BY <2>2 DEF Gone
  <1>3. \A g \in Grants : WithinLimit(Cardinality(ChargedKeys(g)'), MaxUses[g])
    BY <1>1 DEF ChargesOK
  <1> QED
    BY <1>2, <1>3 DEF ChargesOK

\* One request becomes v; the record under k changes only if no other request holds it.
LEMMA RequestStep ==
  ASSUME Core, Holders, RowKept, ChargesOK', now' = now,
         NEW r \in Requests, NEW v, req' = [req EXCEPT ![r] = v], HolderOK(v)',
         NEW k \in Keys, \A j \in Keys \ {k} : inv'[j] = inv[j],
         inv'[k] = inv[k] \/ \A q \in Requests : q # r => ~HoldsUnder(q, k),
         v.stage \in Serving /\ v.owns /\ row'.grant = v.grant =>
            \/ Owner(r) /\ v.key = req[r].key
            \/ \A q \in Requests : q # r => ~HoldsUnder(q, v.key)
  PROVE  Holders'
  <1>1. req'[r] = v /\ \A q \in Requests : q # r => req'[q] = req[q]
    BY DEF Core, TypeOK
  <1>2. ASSUME NEW q \in Requests PROVE HolderOK(req[q])' \/ q = r
    <2> SUFFICES ASSUME q # r PROVE HolderOK(req[q])'
      OBVIOUS
    <2>1. PICK a : a = req[q]
      OBVIOUS
    <2>2. HolderOK(a)
      BY <2>1 DEF Holders
    <2>3. a.stage \in Serving => (row'.grant = a.grant <=> row.grant = a.grant)
      BY <2>1 DEF RowKept
    <2>4. a.stage \in Serving => a.key \in Keys
      BY <2>1 DEF Core, TypeOK, Serving
    <2>5. a.stage \in Serving /\ row.grant = a.grant => inv'[a.key] = inv[a.key]
      BY <2>1, <2>4 DEF HoldsUnder
    <2>6. HolderOK(a)'
      BY <2>2, <2>3, <2>5, HolderKept
    <2>7. req'[q] = a
      BY <1>1, <2>1
    <2> QED
      BY <2>6, <2>7
  <1>3. \A q \in Requests : HolderOK(req[q])'
    <2>1. HolderOK(req[r])'
      BY <1>1
    <2> QED
      BY <1>2, <2>1
  <1>4. ASSUME NEW q \in Requests, q # r, Owner(q)' PROVE Owner(q)
    BY <1>1, <1>4 DEF Owner, RowKept
  <1>5. ASSUME NEW q \in Requests, q # r, Owner(q)', Owner(r)', req'[q].key = req'[r].key
        PROVE  FALSE
    <2>1. v.stage \in Serving /\ v.owns /\ row'.grant = v.grant /\ req[q].key = v.key
      BY <1>1, <1>5 DEF Owner
    <2>2. Owner(q) /\ HoldsUnder(q, v.key)
      BY <1>4, <1>5, <2>1 DEF Owner, HoldsUnder
    <2>3. Owner(r) /\ v.key = req[r].key
      BY <1>5, <2>1, <2>2
    <2> QED
      BY <1>5, <2>1, <2>2, <2>3 DEF Holders, OneOwner
  <1>6. OneOwner'
    <2> SUFFICES ASSUME NEW p \in Requests, NEW q \in Requests, Owner(p)', Owner(q)',
                        req'[p].key = req'[q].key
                 PROVE  p = q
      BY DEF OneOwner
    <2>1. CASE p # r /\ q # r
      BY <2>1, <1>1, <1>4 DEF Holders, OneOwner
    <2>2. CASE p = r \/ q = r
      BY <2>2, <1>5
    <2> QED
      BY <2>1, <2>2
  <1> QED
    BY <1>3, <1>6 DEF Holders

\* A reservation that may be made again is nobody's: it is stale only after its holder's time.
LEMMA NobodyHolds ==
  ASSUME Core, Holders, HandlerTime < ReservationTtl, NEW k \in Keys,
         inv[k].status \in {"none", "released"} \/ Stale(k), NEW q \in Requests
  PROVE  ~HoldsUnder(q, k)
  <1> SUFFICES ASSUME HoldsUnder(q, k) PROVE FALSE
    OBVIOUS
  <1>1. /\ now - req[q].since <= HandlerTime
        /\ ~req[q].owns => inv[k].status = "committed"
        /\ req[q].owns => inv[k].status = "reserved" /\ inv[k].updatedAt = req[q].since
    BY DEF HoldsUnder, Holders, HolderOK
  <1>2. Stale(k) /\ req[q].owns
    BY <1>1 DEF Stale
  <1>3. now - req[q].since >= ReservationTtl
    BY <1>1, <1>2 DEF Stale
  <1>4. now \in Nat /\ req[q].since \in Nat
    BY DEF Core, TypeOK
  <1> QED
    BY <1>1, <1>3, <1>4, LedgerAssumption

\* A handler with a reservation under its key is the only one there.
LEMMA NobodyElseHolds ==
  ASSUME Core, Holders, NEW r \in Requests, HoldsUnder(r, req[r].key),
         inv[req[r].key].status = "reserved", NEW q \in Requests, q # r
  PROVE  ~HoldsUnder(q, req[r].key)
  <1> SUFFICES ASSUME HoldsUnder(q, req[r].key) PROVE FALSE
    OBVIOUS
  <1>1. Owner(r)
    BY DEF HoldsUnder, Owner, Holders, HolderOK
  <1>2. Owner(q) /\ req[q].key = req[r].key
    BY DEF HoldsUnder, Owner, Holders, HolderOK
  <1> QED
    BY <1>1, <1>2 DEF Holders, OneOwner

\* What a call leaves in the row's grant.
LEMMA RowGrants ==
  ASSUME Core, NEW g \in Grants, NEW k \in Keys,
         NEW rw \in {row, LockedRow(g), Reclaimed(g, k), KeptRow(LockedRow(g)),
                     KeptRow(Reclaimed(g, k))}
  PROVE  rw.grant = row.grant \/ (row.grant = NoGrant /\ rw.grant = g)
  <1>1. LockedRow(g) \in RowType
        /\ (LockedRow(g).grant = row.grant \/ (row.grant = NoGrant /\ LockedRow(g).grant = g))
    BY LockedRowCounts
  <1>2. inv[k].spend \in Nat
    BY DEF Core, TypeOK
  <1>3. Reclaimed(g, k).grant = LockedRow(g).grant
    BY <1>1, <1>2, RowOperations DEF Reclaimed
  <1> QED
    BY <1>1, <1>3 DEF KeptRow

\* Requests that stop, or that have only passed the expiry check, hold nothing.
LEMMA NotServing ==
  ASSUME Core, Holders, RowKept, ChargesOK', now' = now,
         NEW r \in Requests, NEW v, req' = [req EXCEPT ![r] = v], v.stage \notin Serving,
         v.stage = "reserving" => Transactional,
         NEW k \in Keys, \A j \in Keys \ {k} : inv'[j] = inv[j],
         inv'[k] = inv[k] \/ \A q \in Requests : q # r => ~HoldsUnder(q, k)
  PROVE  Holders'
  <1>1. HolderOK(v)'
    BY DEF HolderOK, Serving
  <1> QED
    BY <1>1, RequestStep

LEMMA IdleNotServing ==
  /\ IdleRequest.stage \notin Serving
  /\ IdleRequest.stage # "reserving" /\ IdleRequest.stage # "committing"
  BY DEF IdleRequest, Serving

LEMMA ReserveHolders ==
  ASSUME Core, Core', Holders, HandlerTime < ReservationTtl,
         NEW r \in Requests, NEW g \in Grants, NEW k \in Keys, NEW s \in Nat,
         Transactional \/ Active(g), ReserveBody(r, g, k, s)
  PROVE  Holders'
  <1>1. row' = LockedRow(g) \/ row' = KeptRow(LockedRow(g)) \/ row' = KeptRow(Reclaimed(g, k))
        \/ row' = WithReservation(Reclaimed(g, k), s)
    BY DEF ReserveBody, ReserveRejected, ReserveReplayed, ReserveExhausted, ReserveGranted
  <1>2. row'.grant = row.grant \/ (row.grant = NoGrant /\ row'.grant = g)
    <2>1. TypeOK
      BY DEF Core
    <2>2. WithReservation(Reclaimed(g, k), s).grant = Reclaimed(g, k).grant
      BY <2>1, LockedRowType, RowOperations
    <2> QED
      BY <1>1, <2>2, RowGrants
  <1>3. RowKept
    BY <1>2, FirstUse
  <1>4. now' = now /\ charged' = charged
    BY DEF ReserveBody, ReserveRejected, ReserveReplayed, ReserveExhausted, ReserveGranted
  <1>5. \A j \in Keys \ {k} : inv'[j] = inv[j]
    BY DEF ReserveBody, ReserveRejected, ReserveReplayed, ReserveExhausted, ReserveGranted,
           Core, TypeOK
  <1>6. inv'[k] = inv[k] \/ (inv[k].status \in {"none", "released"} \/ Stale(k))
    BY DEF ReserveBody, ReserveRejected, ReserveReplayed, ReserveExhausted, ReserveGranted,
           Reservable
  <1>7. inv'[k] = inv[k] \/ \A q \in Requests : ~HoldsUnder(q, k)
    BY <1>6, NobodyHolds
  <1>8. ChargesOK'
    <2>1. \A j \in Keys : inv[j].status = "committed" => inv'[j].status = "committed"
      BY <1>5, <1>6 DEF Stale
    <2> QED
      BY <1>3, <1>4, <2>1, ChargesKept DEF Holders
  <1>9. CASE ReserveRejected(r, g, k, s) \/ ReserveExhausted(r, g, k, s)
    <2>1. req' = [req EXCEPT ![r] = IdleRequest]
      BY <1>9 DEF ReserveRejected, ReserveExhausted
    <2> QED
      BY <1>3, <1>4, <1>5, <1>7, <1>8, <2>1, IdleNotServing, NotServing
  <1>10. CASE ReserveReplayed(r, g, k, s)
    <2>1. PICK v : v = [stage |-> "held", grant |-> g, key |-> k, spend |-> s,
                        since |-> now, owns |-> FALSE]
      OBVIOUS
    <2>2. req' = [req EXCEPT ![r] = v] /\ inv' = inv /\ inv[k].status = "committed"
      BY <1>10, <2>1 DEF ReserveReplayed
    <2>3. row'.grant = g
      BY <1>10 DEF ReserveReplayed, Collides
    <2>4. now - now <= HandlerTime /\ now <= now
      BY LedgerAssumption DEF Core, TypeOK
    <2>5. HolderOK(v)'
      BY <1>4, <2>1, <2>2, <2>3, <2>4 DEF HolderOK
    <2>6. ~v.owns
      BY <2>1
    <2> QED
      BY <1>3, <1>4, <1>5, <1>7, <1>8, <2>2, <2>5, <2>6, RequestStep
  <1>11. CASE ReserveGranted(r, g, k, s)
    <2>1. PICK v : v = [stage |-> "held", grant |-> g, key |-> k, spend |-> s,
                        since |-> now, owns |-> TRUE]
      OBVIOUS
    <2>2. /\ req' = [req EXCEPT ![r] = v]
          /\ inv'[k].status = "reserved" /\ inv'[k].updatedAt = now
      BY <1>11, <2>1 DEF ReserveGranted, Core, TypeOK
    <2>3. row'.grant = g
      <3>1. row' = WithReservation(Reclaimed(g, k), s) /\ Reservable(g, k, s)
        BY <1>11 DEF ReserveGranted
      <3>2. Reclaimed(g, k) \in RowType /\ Reclaimed(g, k).grant = g
        BY <3>1, ReclaimedCounts
      <3> QED
        BY <3>1, <3>2, RowOperations
    <2>4. now - now <= HandlerTime /\ now <= now
      BY LedgerAssumption DEF Core, TypeOK
    <2>5. HolderOK(v)'
      BY <1>4, <2>1, <2>2, <2>3, <2>4 DEF HolderOK
    <2>6. \A q \in Requests : ~HoldsUnder(q, k)
      BY <1>11, NobodyHolds DEF ReserveGranted, Reservable
    <2>7. v.key = k
      BY <2>1
    <2> QED
      BY <1>3, <1>4, <1>5, <1>8, <2>2, <2>5, <2>6, <2>7, RequestStep
  <1> QED
    BY <1>9, <1>10, <1>11 DEF ReserveBody

\* Moving on to another serving stage keeps what a handler holds.
LEMMA StageHolders ==
  ASSUME Core, Holders, RowKept, now' = now, charged' = charged, inv' = inv,
         NEW r \in Requests, req[r].stage \in Serving, NEW st \in Serving,
         st = "committing" => Transactional,
         req' = [req EXCEPT ![r].stage = st]
  PROVE  Holders'
  <1>1. PICK a : a = req[r]
    OBVIOUS
  <1>2. PICK v : v = [a EXCEPT !.stage = st]
    OBVIOUS
  <1>3. a \in ReqType
    BY <1>1 DEF Core, TypeOK, ReqType
  <1>4. /\ v.stage = st /\ v.grant = a.grant /\ v.key = a.key
        /\ v.since = a.since /\ v.owns = a.owns
    BY <1>2, <1>3 DEF ReqType
  <1>5. req' = [req EXCEPT ![r] = v]
    BY <1>1, <1>2
  <1>6. /\ HolderOK(a) /\ a.stage \in Serving
        /\ row'.grant = a.grant <=> row.grant = a.grant
    BY <1>1 DEF Holders, RowKept
  <1>7. HolderOK(a)'
    BY <1>6, HolderKept
  <1>8. HolderOK(v)'
    BY <1>4, <1>6, <1>7 DEF HolderOK, Gone, Serving
  <1>9. ChargesOK'
    BY ChargesKept DEF Holders
  <1>10. v.stage \in Serving /\ v.owns /\ row'.grant = v.grant
            => Owner(r) /\ v.key = req[r].key
    BY <1>1, <1>4, <1>6 DEF Owner
  <1>11. PICK k : k = a.key
    OBVIOUS
  <1>12. k \in Keys
    BY <1>1, <1>11 DEF Core, TypeOK, Serving
  <1> QED
    BY <1>5, <1>8, <1>9, <1>10, <1>12, RequestStep

\* A commit charges the grant that owns the row, which stays within its limit.
LEMMA CommitCharges ==
  ASSUME Core, Core', Holders, RowKept, now' = now, NEW g \in Grants, NEW k \in Keys,
         row'.grant = g, inv'[k].status = "committed",
         \A j \in Keys \ {k} : inv'[j] = inv[j],
         charged' = [charged EXCEPT ![g][k] = @ + 1]
  PROVE  ChargesOK'
  <1>1. \A h \in Grants, j \in Keys : charged[h][j] \in Nat
    BY DEF Core, TypeOK
  <1>2. \A h \in Grants, j \in Keys :
           charged'[h][j] = IF h = g /\ j = k THEN charged[h][j] + 1 ELSE charged[h][j]
    BY DEF Core, TypeOK
  <1>3. ASSUME NEW h \in Grants, NEW j \in Keys, charged'[h][j] > 0
        PROVE  (row'.grant = h \/ Gone(h)') /\ (row'.grant = h => inv'[j].status = "committed")
    <2>1. CASE h = g /\ j = k
      BY <2>1
    <2>2. CASE ~(h = g /\ j = k)
      <3>1. charged[h][j] > 0
        BY <1>2, <1>3, <2>2
      <3>2. /\ row.grant = h \/ Gone(h)
            /\ row.grant = h => inv[j].status = "committed"
            /\ row'.grant = h <=> row.grant = h
        BY <3>1 DEF Holders, ChargesOK, RowKept
      <3>3. j = k \/ inv'[j] = inv[j]
        OBVIOUS
      <3> QED
        BY <3>2, <3>3 DEF Gone
    <2> QED
      BY <2>1, <2>2
  <1>4. ASSUME NEW h \in Grants PROVE WithinLimit(Cardinality(ChargedKeys(h)'), MaxUses[h])
    <2>1. CASE h # g
      <3>1. ChargedKeys(h)' = ChargedKeys(h)
        BY <1>2, <2>1 DEF ChargedKeys
      <3> QED
        BY <3>1 DEF Holders, ChargesOK
    <2>2. CASE h = g
      <3>1. ChargedKeys(h)' \subseteq KeysIn("committed")'
        BY <1>3, <2>2 DEF ChargedKeys, KeysIn
      <3>2. PICK C : C = KeysIn("committed")'
        OBVIOUS
      <3>3. C \subseteq Keys
        BY <3>2 DEF KeysIn
      <3>4. IsFiniteSet(C) /\ Cardinality(C) \in Nat
        BY <3>3, FS_Subset, FS_CardinalityType, LedgerAssumption
      <3>5. PICK D : D = ChargedKeys(h)'
        OBVIOUS
      <3>6. Cardinality(D) \in Nat /\ Cardinality(D) <= Cardinality(C)
        BY <3>1, <3>2, <3>4, <3>5, FS_Subset, FS_CardinalityType
      <3>7. row' \in RowType /\ row'.usedCalls = Cardinality(C)
            /\ WithinLimit(row'.usedCalls + row'.reservedCalls, MaxUses[g])
        <4>1. g # NoGrant
          BY LedgerAssumption
        <4> QED
          BY <3>2, <4>1 DEF Core, CountersExact, CallsWithinLimit, TypeOK, RowType
      <3>8. row'.usedCalls \in Nat /\ row'.reservedCalls \in Nat
        BY <3>7 DEF RowType
      <3>9. MaxUses[g] # NoLimit => MaxUses[g] \in Nat
        BY LedgerAssumption
      <3>10. WithinLimit(Cardinality(D), MaxUses[g])
        BY <3>6, <3>7, <3>8, <3>9 DEF WithinLimit
      <3> QED
        BY <2>2, <3>5, <3>10
    <2> QED
      BY <2>1, <2>2
  <1> QED
    BY <1>3, <1>4 DEF ChargesOK

LEMMA CommitHolders ==
  ASSUME Core, Core', Holders, NEW r \in Requests, req[r].stage \in Serving,
         Transactional \/ Active(req[r].grant),
         CommitBody(r, req[r].grant, req[r].key, req[r].spend)
  PROVE  Holders'
  <1>1. PICK g, k, s : g = req[r].grant /\ k = req[r].key /\ s = req[r].spend
    OBVIOUS
  <1>2. g \in Grants /\ k \in Keys /\ s \in Nat
    BY <1>1 DEF Core, TypeOK, Serving
  <1>3. now' = now
    BY DEF CommitBody, CommitRefused, CommitReplayed, CommitGranted
  <1>4. CASE CommitRefused(r, g, k, s) \/ CommitReplayed(r, g, k, s)
    <2>1. row' = KeptRow(LockedRow(g)) \/ row' = LockedRow(g)
      BY <1>4 DEF CommitRefused, CommitReplayed
    <2>2. row'.grant = row.grant \/ (row.grant = NoGrant /\ row'.grant = g)
      BY <1>2, <2>1, RowGrants
    <2>3. RowKept
      BY <1>1, <1>2, <2>2, FirstUse
    <2>4. charged' = charged /\ inv' = inv
      BY <1>4 DEF CommitRefused, CommitReplayed
    <2>5. CASE CommitRefused(r, g, k, s)
      <3>1. req' = [req EXCEPT ![r].stage = "failed"] /\ "failed" \in Serving
        BY <2>5 DEF CommitRefused, Serving
      <3> QED
        BY <1>3, <2>3, <2>4, <3>1, StageHolders
    <2>6. CASE CommitReplayed(r, g, k, s)
      <3>1. req' = [req EXCEPT ![r] = IdleRequest]
        BY <2>6 DEF CommitReplayed
      <3>2. ChargesOK'
        BY <1>3, <2>3, <2>4, ChargesKept DEF Holders
      <3> QED
        BY <1>2, <1>3, <2>3, <2>4, <3>1, <3>2, IdleNotServing, NotServing
    <2> QED
      BY <1>4, <2>5, <2>6
  <1>5. CASE CommitGranted(r, g, k, s)
    <2>1. /\ row.grant = g /\ row'.grant = g
          /\ inv[k].status = "reserved" /\ inv'[k].status = "committed"
          /\ \A j \in Keys \ {k} : inv'[j] = inv[j]
      BY <1>2, <1>5, CommitGrantedCore DEF Core
    <2>2. RowKept
      BY <2>1 DEF RowKept
    <2>3. charged' = [charged EXCEPT ![g][k] = @ + 1] /\ req' = [req EXCEPT ![r] = IdleRequest]
      BY <1>5 DEF CommitGranted
    <2>4. ChargesOK'
      BY <1>2, <1>3, <2>1, <2>2, <2>3, CommitCharges
    <2>5. HoldsUnder(r, k)
      BY <1>1, <2>1 DEF HoldsUnder
    <2>6. \A q \in Requests : q # r => ~HoldsUnder(q, k)
      BY <1>1, <2>1, <2>5, NobodyElseHolds
    <2> QED
      BY <1>2, <1>3, <2>1, <2>2, <2>3, <2>4, <2>6, IdleNotServing, NotServing
  <1> QED
    BY <1>1, <1>4, <1>5 DEF CommitBody

LEMMA ReleaseHolders ==
  ASSUME Core, Holders, NEW r \in Requests, Release(r)
  PROVE  Holders'
  <1>1. PICK g, k, s : g = req[r].grant /\ k = req[r].key /\ s = req[r].spend
    OBVIOUS
  <1>2. k \in Keys /\ s \in Nat /\ req[r].stage \in Serving
    BY <1>1 DEF Core, TypeOK, Serving, Release
  <1>3. now' = now /\ charged' = charged /\ req' = [req EXCEPT ![r] = IdleRequest]
    BY DEF Release
  <1>4. CASE Releasable(g, k, s)
    <2>1. /\ row' = WithoutReservation(row, s)
          /\ inv' = [inv EXCEPT ![k].status = "released", ![k].updatedAt = now]
          /\ inv[k].status = "reserved" /\ row.grant = g
      BY <1>1, <1>4 DEF Release, Releasable
    <2>2. row \in RowType
      BY DEF Core, TypeOK, RowType
    <2>3. row'.grant = row.grant
      BY <1>2, <2>1, <2>2, RowOperations
    <2>4. RowKept
      BY <2>3 DEF RowKept
    <2>5. \A j \in Keys \ {k} : inv'[j] = inv[j]
      BY <2>1 DEF Core, TypeOK
    <2>6. \A j \in Keys : inv[j].status = "committed" => inv'[j].status = "committed"
      BY <2>1, <2>5
    <2>7. ChargesOK'
      BY <1>3, <2>4, <2>6, ChargesKept DEF Holders
    <2>8. HoldsUnder(r, k)
      BY <1>1, <1>2, <2>1 DEF HoldsUnder
    <2>9. \A q \in Requests : q # r => ~HoldsUnder(q, k)
      BY <1>1, <2>1, <2>8, NobodyElseHolds
    <2> QED
      BY <1>2, <1>3, <2>4, <2>5, <2>7, <2>9, IdleNotServing, NotServing
  <1>5. CASE ~Releasable(g, k, s)
    <2>1. row' = row /\ inv' = inv
      BY <1>1, <1>5 DEF Release
    <2>2. RowKept
      BY <2>1 DEF RowKept
    <2>3. ChargesOK'
      BY <1>3, <2>1, <2>2, ChargesKept DEF Holders
    <2> QED
      BY <1>2, <1>3, <2>1, <2>2, <2>3, IdleNotServing, NotServing
  <1> QED
    BY <1>4, <1>5

\* The whole table is forgotten: by a restart with every handler and charge, by a prune with
\* the row of an expired grant only.
LEMMA PruneHolders ==
  ASSUME Core, Holders, PruneLocal
  PROVE  Holders'
  <1>1. /\ row.grant \in Grants /\ Gone(row.grant) /\ now' = now
        /\ row'.grant = NoGrant /\ req' = req /\ charged' = charged
    BY DEF PruneLocal, Prunable, Gone, NoRow, Core, TypeOK
  <1>2. ASSUME NEW a, HolderOK(a), a.stage \in Serving => a.grant \in Grants PROVE HolderOK(a)'
    BY <1>1, <1>2, LedgerAssumption DEF HolderOK, Gone
  <1>3. \A r \in Requests : req[r].stage \in Serving => req[r].grant \in Grants
    BY DEF Core, TypeOK, Serving
  <1>4. \A r \in Requests : HolderOK(req[r])'
    BY <1>1, <1>2, <1>3 DEF Holders
  <1>5. \A r \in Requests : ~Owner(r)'
    BY <1>1, <1>3, LedgerAssumption DEF Owner
  <1>6. \A g \in Grants : ChargedKeys(g)' = ChargedKeys(g)
    BY <1>1 DEF ChargedKeys
  <1>7. ASSUME NEW g \in Grants, NEW k \in Keys, charged'[g][k] > 0
        PROVE  Gone(g)' /\ row'.grant # g
    <2>1. row.grant = g \/ Gone(g)
      BY <1>1, <1>7 DEF Holders, ChargesOK
    <2>2. Gone(g)
      BY <1>1, <2>1
    <2> QED
      BY <1>1, <2>2, LedgerAssumption DEF Gone
  <1>8. \A g \in Grants : WithinLimit(Cardinality(ChargedKeys(g)'), MaxUses[g])
    BY <1>6 DEF Holders, ChargesOK
  <1>9. ChargesOK'
    BY <1>7, <1>8 DEF ChargesOK
  <1> QED
    BY <1>1, <1>4, <1>5, <1>9 DEF Holders, OneOwner

LEMMA NothingCharged == \A g \in Grants : WithinLimit(Cardinality({}), MaxUses[g])
  <1>1. Cardinality({}) = 0
    BY FS_EmptySet
  <1>2. \A g \in Grants : MaxUses[g] # NoLimit => MaxUses[g] \in Nat
    BY LedgerAssumption
  <1> QED
    BY <1>1, <1>2 DEF WithinLimit

LEMMA RestartHolders ==
  ASSUME Core, Holders, ProcessRestart
  PROVE  Holders'
  <1>1. \A r \in Requests : req'[r] = IdleRequest
    BY DEF ProcessRestart
  <1>2. \A r \in Requests : HolderOK(req[r])' /\ ~Owner(r)'
    BY <1>1, IdleNotServing DEF HolderOK, Owner
  <1>3. \A g \in Grants, k \in Keys : charged'[g][k] = 0
    BY DEF ProcessRestart
  <1>4. \A g \in Grants : ChargedKeys(g)' = {}
    BY <1>3 DEF ChargedKeys
  <1>5. ChargesOK'
    BY <1>3, <1>4, NothingCharged DEF ChargesOK
  <1> QED
    BY <1>2, <1>5 DEF Holders, OneOwner

LEMMA TickHolders ==
  ASSUME Core, Holders, Tick
  PROVE  Holders'
  <1>1. /\ now' = now + 1 /\ row' = row /\ inv' = inv /\ req' = req /\ charged' = charged
        /\ now \in Nat
    BY DEF Tick, Core, TypeOK
  <1>2. \A g \in Grants : Gone(g) => Gone(g)'
    BY <1>1, LedgerAssumption DEF Gone
  <1>3. ASSUME NEW r \in Requests PROVE HolderOK(req[r])'
    <2> SUFFICES ASSUME req[r].stage \in Serving PROVE HolderOK(req[r])'
      BY <1>1 DEF Holders, HolderOK
    <2>1. req[r].grant \in Grants /\ req[r].since \in Nat
      BY DEF Core, TypeOK, Serving
    <2>2. now - req[r].since < HandlerTime
      BY <1>1, <2>1, LedgerAssumption DEF Tick, Overdue, Serving
    <2>3. HolderOK(req[r])
      BY DEF Holders
    <2>4. now' - req[r].since <= HandlerTime /\ req[r].since <= now'
      BY <1>1, <2>1, <2>2, <2>3, LedgerAssumption DEF HolderOK
    <2>5. Gone(req[r].grant) => Gone(req[r].grant)'
      BY <1>1, <1>2, <2>1
    <2>6. PICK a : a = req[r]
      OBVIOUS
    <2>7. HolderOK(a)'
      BY <1>1, <2>3, <2>4, <2>5, <2>6 DEF HolderOK, Gone
    <2> QED
      BY <1>1, <2>6, <2>7
  <1>4. OneOwner'
    BY <1>1 DEF Holders, OneOwner, Owner
  <1>5. \A g \in Grants : ChargedKeys(g)' = ChargedKeys(g)
    BY <1>1 DEF ChargedKeys
  <1>6. ChargesOK'
    BY <1>1, <1>2, <1>5 DEF Holders, ChargesOK
  <1> QED
    BY <1>3, <1>4, <1>6 DEF Holders

LEMMA HoldersStep ==
  ASSUME Stable, HandlerTime < ReservationTtl, Core, Holders, [Next]_vars
  PROVE  Holders'
  <1>1. Core'
    BY CoreStep
  <1>2. ASSUME NEW r \in Requests, NEW g \in Grants, NEW k \in Keys, NEW s \in Prices,
               ReserveLocal(r, g, k, s)
        PROVE  Holders'
    <2>1. s \in Nat
      BY LedgerAssumption
    <2> QED
      BY <1>1, <1>2, <2>1, ReserveHolders DEF ReserveLocal
  <1>3. ASSUME NEW r \in Requests, NEW g \in Grants, NEW k \in Keys, NEW s \in Prices,
               ReserveCheck(r, g, k, s)
        PROVE  Holders'
    <2>1. PICK v : v = [stage |-> "reserving", grant |-> g, key |-> k,
                        spend |-> s, since |-> 0, owns |-> FALSE]
      OBVIOUS
    <2>2. req' = [req EXCEPT ![r] = v] /\ v.stage \notin Serving /\ Transactional
      BY <1>3, <2>1 DEF ReserveCheck, Serving
    <2>3. now' = now /\ row' = row /\ inv' = inv /\ charged' = charged
      BY <1>3 DEF ReserveCheck
    <2>4. RowKept
      BY <2>3 DEF RowKept
    <2>5. ChargesOK'
      BY <2>3, <2>4, ChargesKept DEF Holders
    <2> QED
      BY <2>2, <2>3, <2>4, <2>5, NotServing
  <1>4. ASSUME NEW r \in Requests, ReserveTransaction(r) PROVE Holders'
    <2>1. req[r].grant \in Grants /\ req[r].key \in Keys /\ req[r].spend \in Nat
      BY <1>4 DEF Core, TypeOK, ReserveTransaction
    <2>2. Transactional
      BY <1>4 DEF ReserveTransaction, Holders, HolderOK
    <2> QED
      BY <1>1, <1>4, <2>1, <2>2, ReserveHolders DEF ReserveTransaction
  <1>5. ASSUME NEW r \in Requests, CommitLocal(r) \/ CommitTransaction(r) PROVE Holders'
    <2>1. /\ Transactional \/ Active(req[r].grant)
          /\ req[r].stage \in Serving
          /\ CommitBody(r, req[r].grant, req[r].key, req[r].spend)
      BY <1>5 DEF CommitLocal, CommitTransaction, Serving, Holders, HolderOK
    <2> QED
      BY <1>1, <2>1, CommitHolders
  <1>6. ASSUME NEW r \in Requests, CommitCheck(r) \/ Fail(r) PROVE Holders'
    <2>1. now' = now /\ row' = row /\ inv' = inv /\ charged' = charged
      BY <1>6 DEF CommitCheck, Fail
    <2>2. PICK st \in Serving : /\ req' = [req EXCEPT ![r].stage = st]
                                /\ st = "committing" => Transactional
      BY <1>6 DEF CommitCheck, Fail, Serving
    <2>3. req[r].stage \in Serving
      BY <1>6 DEF CommitCheck, Fail, Serving
    <2>4. RowKept
      BY <2>1 DEF RowKept
    <2> QED
      BY <2>1, <2>2, <2>3, <2>4, StageHolders
  <1>7. ASSUME NEW r \in Requests, ReplicaCrash(r) PROVE Holders'
    <2>1. /\ now' = now /\ row' = row /\ inv' = inv /\ charged' = charged
          /\ req' = [req EXCEPT ![r] = IdleRequest]
      BY <1>7 DEF ReplicaCrash
    <2>2. RowKept
      BY <2>1 DEF RowKept
    <2>3. ChargesOK'
      BY <2>1, <2>2, ChargesKept DEF Holders
    <2>4. CASE Keys = {}
      <3>1. \A q \in Requests : req'[q].stage = "idle"
        BY <2>1, <2>4 DEF Core, TypeOK, IdleRequest
      <3>2. \A q \in Requests : HolderOK(req[q])' /\ ~Owner(q)'
        BY <3>1 DEF HolderOK, Owner, Serving
      <3> QED
        BY <2>3, <3>2 DEF Holders, OneOwner
    <2>5. CASE Keys # {}
      <3>1. PICK k : k \in Keys
        BY <2>5
      <3> QED
        BY <2>1, <2>2, <2>3, <3>1, IdleNotServing, NotServing
    <2> QED
      BY <2>4, <2>5
  <1>8. ~PruneRows /\ ~PruneInvocations
    BY DEF Stable, Core, PruneRows, PruneInvocations, Prunable
  <1>9. CASE UNCHANGED vars
    <2>1. now' = now /\ row' = row /\ inv' = inv /\ charged' = charged /\ req' = req
      BY <1>9 DEF vars
    <2> QED
      BY <2>1 DEF Holders, HolderOK, OneOwner, Owner, ChargesOK, ChargedKeys, Gone
  <1> QED
    BY <1>2, <1>3, <1>4, <1>5, <1>6, <1>7, <1>8, <1>9, ReleaseHolders, PruneHolders,
       RestartHolders, TickHolders
    DEF Next, Handler

LEMMA HoldersInit == Init => Holders
  <1> SUFFICES ASSUME Init PROVE Holders
    OBVIOUS
  <1>1. \A r \in Requests : req[r] = IdleRequest
    BY DEF Init
  <1>2. \A r \in Requests : HolderOK(req[r]) /\ ~Owner(r)
    BY <1>1, IdleNotServing DEF HolderOK, Owner
  <1>3. \A g \in Grants, k \in Keys : charged[g][k] = 0
    BY DEF Init
  <1>4. ChargesOK
    BY <1>3, NothingCharged DEF ChargesOK, ChargedKeys
  <1> QED
    BY <1>2, <1>4 DEF Holders, OneOwner

\* The reservation of a working handler is the one under its key.
LEMMA WorkingOwns ==
  ASSUME Core, Holders, NEW r \in Requests, Working(r)
  PROVE  Owner(r) /\ req[r].grant \in Grants /\ req[r].key \in Keys
         /\ inv[req[r].key].status = "reserved"
  <1>1. req[r].stage \in Serving /\ req[r].owns /\ req[r].grant \in Grants
        /\ req[r].key \in Keys /\ Active(req[r].grant)
    BY DEF Working, Serving, Core, TypeOK
  <1>2. ~Gone(req[r].grant)
    BY <1>1, LedgerAssumption DEF Gone, Active, Core, TypeOK
  <1> QED
    BY <1>1, <1>2 DEF Holders, HolderOK, Owner

\* Two activations never work under a reservation of the same key at once, for any number of
\* requests and replicas, crashes and retries, when no activation works as long as a
\* reservation takes to go stale.
THEOREM OneHolder ==
  ASSUME Stable, HandlerTime < ReservationTtl
  PROVE  Spec => []OneHolderPerKey
  <1>1. Core /\ Holders => OneHolderPerKey
    BY WorkingOwns DEF OneHolderPerKey, Holders, OneOwner
  <1>2. Core /\ Holders /\ [Next]_vars => Core' /\ Holders'
    BY CoreStep, HoldersStep
  <1> QED
    BY <1>1, <1>2, CoreInit, HoldersInit, PTL DEF Spec

\* Concurrent requests cannot oversubscribe a bounded delegation: what was ever charged and
\* what is being worked on fit in maxUses, for any number of requests, grants that share the
\* id, crashes and expiries, when no activation works as long as a reservation takes to go
\* stale.
THEOREM NeverOversubscribed ==
  ASSUME Stable, HandlerTime < ReservationTtl
  PROVE  Spec => []NoOversubscription
  <1>1. ASSUME Core, Holders PROVE NoOversubscription
    <2> SUFFICES ASSUME NEW g \in Grants
                 PROVE  WithinLimit(Cardinality(FreshlyHeld(g) \cup ChargedKeys(g)), MaxUses[g])
      BY DEF NoOversubscription
    <2>1. ASSUME NEW k \in FreshlyHeld(g) PROVE row.grant = g /\ k \in KeysIn("reserved")
      <3>1. PICK r \in Requests : Working(r) /\ req[r].grant = g /\ k = req[r].key
        BY DEF FreshlyHeld
      <3> QED
        BY <1>1, <3>1, WorkingOwns DEF Owner, KeysIn
    <2>2. CASE row.grant = g
      <3>1. ChargedKeys(g) \subseteq KeysIn("committed")
        BY <1>1, <2>2 DEF ChargedKeys, Holders, ChargesOK, KeysIn
      <3>2. PICK A, B, D : /\ A = KeysIn("reserved") /\ B = KeysIn("committed")
                           /\ D = FreshlyHeld(g) \cup ChargedKeys(g)
        OBVIOUS
      <3>3. D \subseteq A \cup B /\ A \cap B = {}
        BY <2>1, <3>1, <3>2 DEF KeysIn
      <3>4. /\ IsFiniteSet(A) /\ IsFiniteSet(B)
            /\ Cardinality(A) \in Nat /\ Cardinality(B) \in Nat
        BY <3>2, KeysInFinite
      <3>5. /\ IsFiniteSet(A \cup B)
            /\ Cardinality(A \cup B) = Cardinality(A) + Cardinality(B) - Cardinality(A \cap B)
        BY <3>4, FS_Union
      <3>6. Cardinality(A \cup B) = Cardinality(A) + Cardinality(B)
        <4>1. Cardinality(A \cap B) = 0
          BY <3>3, FS_EmptySet
        <4> QED
          BY <3>4, <3>5, <4>1
      <3>7. Cardinality(D) \in Nat /\ Cardinality(D) <= Cardinality(A) + Cardinality(B)
        BY <3>3, <3>5, <3>6, FS_Subset, FS_CardinalityType
      <3>8. WithinLimit(Cardinality(B) + Cardinality(A), MaxUses[g])
        BY <1>1, <2>2, <3>2, LedgerAssumption DEF Core, CountersExact, CallsWithinLimit
      <3>9. MaxUses[g] # NoLimit => MaxUses[g] \in Nat
        BY LedgerAssumption
      <3>10. WithinLimit(Cardinality(D), MaxUses[g])
        BY <3>4, <3>7, <3>8, <3>9 DEF WithinLimit
      <3> QED
        BY <3>2, <3>10
    <2>3. CASE row.grant # g
      <3>1. FreshlyHeld(g) \cup ChargedKeys(g) = ChargedKeys(g)
        BY <2>1, <2>3
      <3> QED
        BY <1>1, <3>1 DEF Holders, ChargesOK
    <2> QED
      BY <2>2, <2>3
  <1>2. Core /\ Holders /\ [Next]_vars => Core' /\ Holders'
    BY CoreStep, HoldersStep
  <1> QED
    BY <1>1, <1>2, CoreInit, HoldersInit, PTL DEF Spec

-----------------------------------------------------------------------------
(***************************************************************************)
(* The call budget: every step of the ledger is a step of the budget, or   *)
(* invisible to it.                                                        *)
(***************************************************************************)
BudgetStep == [Budget!Next]_<<row.grant, KeysIn("reserved"), KeysIn("committed")>>

\* A call that leaves the records alone may at most create the row.
LEMMA SameBudget ==
  ASSUME Core, inv' = inv, row' = row \/ \E g \in Grants : row' = LockedRow(g)
  PROVE  BudgetStep
  <1>1. KeysIn("reserved")' = KeysIn("reserved") /\ KeysIn("committed")' = KeysIn("committed")
    BY DEF KeysIn
  <1>2. CASE row' = row
    BY <1>1, <1>2 DEF BudgetStep
  <1>3. ASSUME NEW g \in Grants, row' = LockedRow(g) PROVE BudgetStep
    <2>1. row'.grant = row.grant \/ (row.grant = NoGrant /\ row'.grant = g)
      BY <1>3, LockedRowCounts
    <2>2. CASE row'.grant = row.grant
      BY <1>1, <2>2 DEF BudgetStep
    <2>3. CASE row.grant = NoGrant /\ row'.grant = g
      <3>1. Budget!Touch(g)
        BY <1>1, <2>3 DEF Budget!Touch, Budget!Claim
      <3> QED
        BY <3>1 DEF BudgetStep, Budget!Next
    <2> QED
      BY <2>1, <2>2, <2>3
  <1> QED
    BY <1>2, <1>3

\* A reserved slot goes back.
LEMMA BudgetGivenBack ==
  ASSUME Core, NEW k \in Keys, NEW spend \in Nat,
         inv[k].status = "reserved", inv'[k].status = "released",
         \A j \in Keys \ {k} : inv'[j].status = inv[j].status,
         row' = WithoutReservation(row, spend)
  PROVE  BudgetStep
  <1>1. KeysIn("reserved")' = KeysIn("reserved") \ {k}
    BY StatusMoves
  <1>2. KeysIn("committed")' = KeysIn("committed")
    BY StatusMoves
  <1>3. k \in KeysIn("reserved")
    BY DEF KeysIn
  <1>4. row'.grant = row.grant
    BY RowOperations DEF Core, TypeOK, RowType
  <1>5. Budget!GiveBack(k)
    BY <1>1, <1>2, <1>3, <1>4 DEF Budget!GiveBack
  <1> QED
    BY <1>5 DEF BudgetStep, Budget!Next

\* The budget counts as the ledger does.
LEMMA BudgetCounts == \A S : Budget!Cardinality(S) = Cardinality(S)
  BY DEF Cardinality, Budget!Cardinality

LEMMA ReserveGrantedBudget ==
  ASSUME Core, NEW r \in Requests, NEW g \in Grants, NEW k \in Keys, NEW s \in Nat,
         ReserveGranted(r, g, k, s)
  PROVE  BudgetStep
  <1>1. PICK rw \in RowType :
          /\ rw = Reclaimed(g, k) /\ rw.grant = g
          /\ rw.usedCalls = Cardinality(KeysIn("committed"))
          /\ inv[k].status = "reserved" => row.grant = g
          /\ inv[k].status # "reserved" => rw.reservedCalls = Cardinality(KeysIn("reserved"))
    BY ReclaimedCounts DEF ReserveGranted
  <1>2. /\ Fits(rw, g, s) /\ row' = WithReservation(rw, s)
        /\ inv[k].status # "committed" /\ LockedRow(g).grant = g
    BY <1>1 DEF ReserveGranted, Reservable, Stale, Collides
  <1>3. inv'[k].status = "reserved" /\ \A j \in Keys \ {k} : inv'[j] = inv[j]
    BY DEF ReserveGranted, Core, TypeOK
  <1>4. KeysIn("committed")' = KeysIn("committed")
    BY <1>2, <1>3, StatusMoves
  <1>5. row'.grant = g /\ row.grant \in {NoGrant, g}
    BY <1>1, <1>2, RowOperations, LockedRowCounts
  <1>6. CASE inv[k].status = "reserved"
    <2>1. KeysIn("reserved")' = KeysIn("reserved")
      BY <1>3, <1>6, StatusMoves
    <2> QED
      BY <1>1, <1>4, <1>5, <1>6, <2>1 DEF BudgetStep
  <1>7. CASE inv[k].status # "reserved"
    <2>1. PICK A, B : A = KeysIn("reserved") /\ B = KeysIn("committed")
      OBVIOUS
    <2>2. KeysIn("reserved")' = A \cup {k}
      BY <1>3, <1>7, <2>1, StatusMoves
    <2>3. k \notin A \cup B /\ A \cap B = {}
      BY <1>2, <1>7, <2>1 DEF KeysIn
    <2>4. /\ IsFiniteSet(A) /\ IsFiniteSet(B)
          /\ Cardinality(A) \in Nat /\ Cardinality(B) \in Nat
      BY <2>1, KeysInFinite
    <2>5. Cardinality(A \cup B) = Cardinality(A) + Cardinality(B)
      <3>1. Cardinality(A \cup B) = Cardinality(A) + Cardinality(B) - Cardinality(A \cap B)
        BY <2>4, FS_Union
      <3>2. Cardinality(A \cap B) = 0
        BY <2>3, FS_EmptySet
      <3> QED
        BY <2>4, <3>1, <3>2
    <2>6. rw.usedCalls = Cardinality(B) /\ rw.reservedCalls = Cardinality(A)
      BY <1>1, <1>7, <2>1
    <2>7. MaxUses[g] # NoLimit =>
            MaxUses[g] \in Nat /\ Cardinality(B) + Cardinality(A) + 1 <= MaxUses[g]
      BY <1>2, <2>6, LedgerAssumption DEF Fits, WithinLimit
    <2>8. MaxUses[g] # NoLimit => Cardinality(A \cup B) < MaxUses[g]
      BY <2>4, <2>5, <2>7
    <2>9. Budget!Open(g, k)
      BY <1>4, <1>5, <2>1, <2>2, <2>3, <2>8, BudgetCounts DEF Budget!Open, Budget!Claim
    <2> QED
      BY <2>9 DEF BudgetStep, Budget!Next
  <1> QED
    BY <1>6, <1>7

LEMMA ReserveBudget ==
  ASSUME Core, NEW r \in Requests, NEW g \in Grants, NEW k \in Keys, NEW s \in Nat,
         ReserveBody(r, g, k, s)
  PROVE  BudgetStep
  <1>1. CASE ReserveRejected(r, g, k, s) \/ ReserveReplayed(r, g, k, s)
    BY <1>1, SameBudget DEF ReserveRejected, ReserveReplayed, KeptRow
  <1>2. CASE ReserveExhausted(r, g, k, s)
    <2>1. CASE Stale(k) /\ ~Transactional
      <3>1. row' = WithoutReservation(row, inv[k].spend) /\ inv[k].status = "reserved"
        BY <1>2, <2>1, ReclaimedCounts DEF ReserveExhausted, KeptRow, Stale
      <3>2. inv'[k].status = "released" /\ \A j \in Keys \ {k} : inv'[j] = inv[j]
        BY <1>2, <2>1 DEF ReserveExhausted, Core, TypeOK
      <3>3. inv[k].spend \in Nat
        BY DEF Core, TypeOK
      <3> QED
        BY <3>1, <3>2, <3>3, BudgetGivenBack
    <2>2. CASE Transactional
      <3>1. row' = row /\ inv' = inv
        BY <1>2, <2>2 DEF ReserveExhausted, KeptRow
      <3> QED
        BY <3>1, SameBudget
    <2>3. CASE ~Stale(k)
      <3>1. inv' = inv /\ (row' = row \/ row' = LockedRow(g))
        BY <1>2, <2>3 DEF ReserveExhausted, KeptRow, Reclaimed
      <3> QED
        BY <3>1, SameBudget
    <2> QED
      BY <2>1, <2>2, <2>3
  <1>3. CASE ReserveGranted(r, g, k, s)
    BY <1>3, ReserveGrantedBudget
  <1> QED
    BY <1>1, <1>2, <1>3 DEF ReserveBody

LEMMA CommitBudget ==
  ASSUME Core, TypeOK', NEW r \in Requests, NEW g \in Grants, NEW k \in Keys, NEW s \in Nat,
         CommitBody(r, g, k, s)
  PROVE  BudgetStep
  <1>1. CASE CommitRefused(r, g, k, s) \/ CommitReplayed(r, g, k, s)
    BY <1>1, SameBudget DEF CommitRefused, CommitReplayed, KeptRow
  <1>2. CASE CommitGranted(r, g, k, s)
    <2>1. /\ row.grant = g /\ row'.grant = g
          /\ inv[k].status = "reserved" /\ inv'[k].status = "committed"
          /\ \A j \in Keys \ {k} : inv'[j] = inv[j]
      BY <1>2, CommitGrantedCore
    <2>2. k \in KeysIn("reserved")
      BY <2>1 DEF KeysIn
    <2>3. KeysIn("reserved")' = KeysIn("reserved") \ {k}
      BY <2>1, StatusMoves
    <2>4. KeysIn("committed")' = KeysIn("committed") \cup {k}
      BY <2>1, StatusMoves
    <2>5. Budget!Spend(g, k)
      BY <2>1, <2>2, <2>3, <2>4 DEF Budget!Spend, Budget!Claim
    <2> QED
      BY <2>5 DEF BudgetStep, Budget!Next
  <1> QED
    BY <1>1, <1>2 DEF CommitBody

LEMMA ReleaseBudget ==
  ASSUME Core, NEW r \in Requests, Release(r)
  PROVE  BudgetStep
  <1>1. PICK g, k, s : g = req[r].grant /\ k = req[r].key /\ s = req[r].spend
    OBVIOUS
  <1>2. k \in Keys /\ s \in Nat
    BY <1>1 DEF Core, TypeOK, Release
  <1>3. CASE Releasable(g, k, s)
    <2>1. /\ row' = WithoutReservation(row, s)
          /\ inv' = [inv EXCEPT ![k].status = "released", ![k].updatedAt = now]
          /\ inv[k].status = "reserved"
      BY <1>1, <1>3 DEF Release, Releasable
    <2>2. inv'[k].status = "released" /\ \A j \in Keys \ {k} : inv'[j] = inv[j]
      BY <1>2, <2>1 DEF Core, TypeOK
    <2> QED
      BY <1>2, <2>1, <2>2, BudgetGivenBack
  <1>4. CASE ~Releasable(g, k, s)
    <2>1. row' = row /\ inv' = inv
      BY <1>1, <1>4 DEF Release
    <2> QED
      BY <2>1, SameBudget
  <1> QED
    BY <1>3, <1>4

\* The process of the in-memory ledger forgets its budget.
LEMMA ForgetBudget ==
  ASSUME PruneLocal \/ ProcessRestart
  PROVE  BudgetStep
  <1>1. row'.grant = NoGrant /\ ~Transactional /\ \A k \in Keys : inv'[k].status = "none"
    BY DEF PruneLocal, ProcessRestart, NoRow, NoInvocation
  <1>2. KeysIn("reserved")' = {} /\ KeysIn("committed")' = {}
    BY <1>1 DEF KeysIn
  <1>3. Budget!Forget
    BY <1>1, <1>2 DEF Budget!Forget
  <1> QED
    BY <1>3 DEF BudgetStep, Budget!Next

LEMMA BudgetInit == Init => Budget!Init
  BY DEF Init, NoRow, NoInvocation, KeysIn, Budget!Init

LEMMA StepImplementsBudget ==
  ASSUME Stable, Core, [Next]_vars
  PROVE  BudgetStep
  <1>1. TypeOK' /\ TypeOK
    BY NextType DEF Core
  <1>2. ASSUME NEW r \in Requests, NEW g \in Grants, NEW k \in Keys, NEW s \in Prices,
               ReserveLocal(r, g, k, s)
        PROVE  BudgetStep
    BY <1>1, <1>2, ReserveBudget, LedgerAssumption DEF ReserveLocal
  <1>3. ASSUME NEW r \in Requests, ReserveTransaction(r) PROVE BudgetStep
    <2>1. req[r].grant \in Grants /\ req[r].key \in Keys /\ req[r].spend \in Nat
      BY <1>1, <1>3 DEF TypeOK, ReserveTransaction
    <2> QED
      BY <1>1, <1>3, <2>1, ReserveBudget DEF ReserveTransaction
  <1>4. ASSUME NEW r \in Requests, CommitLocal(r) \/ CommitTransaction(r) PROVE BudgetStep
    <2>1. /\ req[r].grant \in Grants /\ req[r].key \in Keys /\ req[r].spend \in Nat
          /\ CommitBody(r, req[r].grant, req[r].key, req[r].spend)
      BY <1>1, <1>4 DEF TypeOK, CommitLocal, CommitTransaction
    <2> QED
      BY <1>1, <2>1, CommitBudget
  <1>5. ~PruneRows /\ ~PruneInvocations
    BY DEF Stable, Core, PruneRows, PruneInvocations, Prunable
  <1>6. ASSUME UNCHANGED <<row, inv>> PROVE BudgetStep
    BY <1>6, SameBudget
  <1>7. ASSUME NEW r \in Requests,
               \/ \E g \in Grants, k \in Keys, s \in Prices : ReserveCheck(r, g, k, s)
               \/ CommitCheck(r) \/ Fail(r) \/ ReplicaCrash(r)
        PROVE  BudgetStep
    BY <1>6, <1>7 DEF ReserveCheck, CommitCheck, Fail, ReplicaCrash
  <1>8. CASE Tick \/ UNCHANGED vars
    BY <1>6, <1>8 DEF Tick, vars
  <1> QED
    BY <1>1, <1>2, <1>3, <1>4, <1>5, <1>7, <1>8, ReleaseBudget, ForgetBudget DEF Next, Handler

\* The ledger implements the call budget, step by step: an invocation is opened, then spent or
\* given back, within the limit of the one grant that owns the id, and what is spent stays
\* spent; reclaiming a stale reservation for its own key is invisible.
THEOREM ImplementsBudget ==
  ASSUME Stable
  PROVE  Spec => BudgetRefined
  <1>1. Core /\ [Next]_vars => BudgetStep /\ Core'
    BY StepImplementsBudget, CoreStep
  <1>2. Spec => Budget!Init /\ [][Budget!Next]_<<row.grant, KeysIn("reserved"), KeysIn("committed")>>
    BY <1>1, CoreInit, BudgetInit, PTL DEF Spec, BudgetStep
  <1> QED
    BY <1>2 DEF BudgetRefined, Budget!Spec, Budget!budgetVars
=============================================================================
