------------------------ MODULE FiberSettlementProofs ------------------------
(***************************************************************************)
(* Proofs about FiberSettlement, for any number of calls, claims and       *)
(* crashes, and about the two stores side by side of MCFiberSettlement.    *)
(***************************************************************************)
EXTENDS MCFiberSettlement, TLAPS

\* A service starts with well-typed values.
LEMMA TypeInit == Init => TypeOK
<1> SUFFICES ASSUME Init PROVE TypeOK
  OBVIOUS
<1> USE SettlementAssumption DEF Init
<1>1. Idle \in [stage: Stages, op: {"verify", "settle"}, claim: Claims \cup {NoClaim},
                answer: Answers]
  BY DEF Idle, Stages, Answers
<1>2. calls \in [Calls -> [stage: Stages, op: {"verify", "settle"},
                           claim: Claims \cup {NoClaim}, answer: Answers]]
  BY <1>1
<1>3. \A c \in Calls : calls[c].stage = "idle"
  BY DEF Idle
<1>4. fresh \in Nat /\ crashes \in 0 .. MaxCrashes
  OBVIOUS
<1>5. QED
  BY <1>2, <1>3, <1>4 DEF TypeOK

\* Every verify, settle, crash and write keeps the types.
LEMMA TypeStep == TypeOK /\ [Next]_vars => TypeOK'
<1> SUFFICES ASSUME TypeOK, [Next]_vars PROVE TypeOK'
  OBVIOUS
<1> USE SettlementAssumption DEF TypeOK, At, To, Reply, Stages, Answers, Idle
<1>1. ASSUME NEW c \in Calls, NEW op \in {"verify", "settle"}, NEW claim \in Claims,
             Arrive(c, op, claim)
      PROVE  TypeOK'
  BY <1>1 DEF Arrive
<1>2. ASSUME NEW c \in Calls, Lookup(c) PROVE TypeOK'
  BY <1>2 DEF Lookup, Idempotent, RecordMatches
<1>3. ASSUME NEW c \in Calls, Strict(c) PROVE TypeOK'
  BY <1>3 DEF Strict
<1>4. ASSUME NEW c \in Calls, Query(c) PROVE TypeOK'
  BY <1>4 DEF Query, IsPaid, OnlyVerifies
<1>5. ASSUME NEW c \in Calls, Consume(c) PROVE TypeOK'
  BY <1>5 DEF Consume, Unconsumed
<1>6. ASSUME NEW c \in Calls, Persist(c) PROVE TypeOK'
  BY <1>6 DEF Persist
<1>7. ASSUME NEW c \in Calls, PersistFails(c) PROVE TypeOK'
  BY <1>7 DEF PersistFails
<1>8. ASSUME NEW c \in Calls, Won(c) PROVE TypeOK'
  <2>1. fresh' \in Nat
    BY <1>8 DEF Won
  <2>2. granted' \subseteq Claims
    BY <1>8 DEF Won
  <2> DEFINE answered == [calls[c] EXCEPT !.stage = "answered", !.answer = "success"]
  <2>3. /\ calls' = [calls EXCEPT ![c] = answered]
        /\ answered.stage = "answered" /\ answered.claim = calls[c].claim
        /\ answered \in [stage: Stages, op: {"verify", "settle"},
                         claim: Claims \cup {NoClaim}, answer: Answers]
    BY <1>8 DEF Won
  <2> HIDE DEF answered
  <2>4. UNCHANGED <<memory, disk, paid, crashes>>
    BY <1>8 DEF Won
  <2>5. calls' \in [Calls -> [stage: Stages, op: {"verify", "settle"},
                              claim: Claims \cup {NoClaim}, answer: Answers]]
    BY <2>3
  <2>6. \A b \in Calls :
          /\ calls'[b].stage # "idle" => calls'[b].claim # NoClaim
          /\ calls'[b].stage \in {"lookup", "consume", "persist", "won", "raced"}
                => calls'[b].op = "settle"
    BY <1>8, <2>3 DEF Won
  <2>7. QED
    BY <2>1, <2>2, <2>4, <2>5, <2>6
<1>9. ASSUME NEW c \in Calls, Raced(c) PROVE TypeOK'
  BY <1>9 DEF Raced, Idempotent, RecordMatches
<1>10. ASSUME NEW c \in Calls, Leave(c) PROVE TypeOK'
  BY <1>10 DEF Leave
<1>11. CASE Pay
  BY <1>11 DEF Pay
<1>12. ASSUME NEW c \in Calls, ReplicaCrash(c) PROVE TypeOK'
  BY <1>12 DEF ReplicaCrash
<1>13. CASE ProcessCrash
  BY <1>13 DEF ProcessCrash
<1>14. CASE UNCHANGED vars
  BY <1>14 DEF vars
<1>15. QED
  BY <1>1, <1>2, <1>3, <1>4, <1>5, <1>6, <1>7, <1>8, <1>9, <1>10, <1>11, <1>12,
     <1>13, <1>14 DEF Next, Serve

\* Values keep their types through every verify, settle, crash and write.
THEOREM TypeCorrect == Spec => []TypeOK
<1>1. QED
  BY TypeInit, TypeStep, PTL DEF Spec

-----------------------------------------------------------------------------
(***************************************************************************)
(* The record and the calls that are writing it                            *)
(***************************************************************************)
\* The calls whose consume succeeded and that have not been answered.
Winner(c) == calls[c].stage \in {"persist", "won"}

RecordInv ==
    /\ disk # NoClaim => memory = disk
    /\ Durable => memory = disk
    /\ \A c \in Calls : Winner(c) => memory = calls[c].claim
    /\ \A c \in Calls : calls[c].stage = "won" => disk = memory

FreshInv ==
    /\ \A c, d \in Calls : Winner(c) /\ Winner(d) => c = d
    /\ fresh \in {0, 1}
    /\ fresh = 1 => disk # NoClaim /\ \A c \in Calls : ~Winner(c)

GrantInv == Durable => granted \subseteq {disk}

PaidInv ==
    /\ \A c \in Calls : calls[c].stage \in {"consume", "persist", "won", "raced"} => paid
    /\ memory # NoClaim \/ disk # NoClaim \/ granted # {} => paid

SettlementInv == TypeOK /\ RecordInv /\ FreshInv /\ GrantInv /\ PaidInv

\* It holds of a service nobody has called.
LEMMA SettlementInit == Init => SettlementInv
<1> SUFFICES ASSUME Init PROVE SettlementInv
  OBVIOUS
<1>1. \A c \in Calls : calls[c].stage = "idle"
  BY DEF Init, Idle
<1>2. RecordInv /\ FreshInv /\ GrantInv /\ PaidInv
  BY <1>1 DEF Init, RecordInv, FreshInv, GrantInv, PaidInv, Winner
<1>3. QED
  BY <1>2, TypeInit DEF SettlementInv

\* Every step keeps it.
LEMMA SettlementStep == SettlementInv /\ [Next]_vars => SettlementInv'
<1> SUFFICES ASSUME SettlementInv, [Next]_vars PROVE SettlementInv'
  OBVIOUS
<1>0. TypeOK'
  BY TypeStep DEF SettlementInv
<1> DEFINE Rest == RecordInv /\ FreshInv /\ GrantInv /\ PaidInv
<1> USE SettlementAssumption DEF SettlementInv, TypeOK, RecordInv, FreshInv, GrantInv, PaidInv,
        Winner, At, To, Reply, Idle
<1>1. ASSUME NEW c \in Calls, NEW op \in {"verify", "settle"}, NEW claim \in Claims,
             Arrive(c, op, claim)
      PROVE  Rest'
  BY <1>1 DEF Arrive
<1>2. ASSUME NEW c \in Calls, Lookup(c) PROVE Rest'
  BY <1>2 DEF Lookup, Idempotent, RecordMatches
<1>3. ASSUME NEW c \in Calls, Strict(c) PROVE Rest'
  BY <1>3 DEF Strict
<1>4. ASSUME NEW c \in Calls, Query(c) PROVE Rest'
  BY <1>4 DEF Query, IsPaid, OnlyVerifies
<1>5. ASSUME NEW c \in Calls, Consume(c) PROVE Rest'
  BY <1>5 DEF Consume, Unconsumed
<1>6. ASSUME NEW c \in Calls, Persist(c) PROVE Rest'
  BY <1>6 DEF Persist
<1>7. ASSUME NEW c \in Calls, PersistFails(c) PROVE Rest'
  BY <1>7 DEF PersistFails
<1>8. ASSUME NEW c \in Calls, Won(c) PROVE Rest'
  BY <1>8 DEF Won
<1>9. ASSUME NEW c \in Calls, Raced(c) PROVE Rest'
  BY <1>9 DEF Raced, Idempotent, RecordMatches
<1>10. ASSUME NEW c \in Calls, Leave(c) PROVE Rest'
  BY <1>10 DEF Leave
<1>11. ASSUME NEW c \in Calls, ReplicaCrash(c) PROVE Rest'
  BY <1>11 DEF ReplicaCrash
<1>12. ASSUME Pay PROVE Rest'
  BY <1>12 DEF Pay
<1>13. ASSUME ProcessCrash PROVE Rest'
  BY <1>13 DEF ProcessCrash
<1>14. ASSUME UNCHANGED vars PROVE Rest'
  BY <1>14 DEF vars
<1>15. Rest'
  <2> HIDE DEF Rest
  <2> QED
    BY <1>1, <1>2, <1>3, <1>4, <1>5, <1>6, <1>7, <1>8, <1>9, <1>10, <1>11, <1>12, <1>13, <1>14 DEF Next, Serve
<1>16. QED
  BY <1>0, <1>15 DEF SettlementInv

\* The provider books a payment once, on both stores: a consumption that was answered is on
\* disk, so neither a race nor a crash lets a second call consume the payment.
THEOREM BookedOnce == Spec => []FreshOnce
<1>1. SettlementInv => FreshOnce
  BY DEF SettlementInv, FreshInv, FreshOnce
<1>2. QED
  BY <1>1, SettlementInit, SettlementStep, PTL DEF Spec

\* Nothing is consumed or answered before the invoice is paid.
THEOREM PaidBefore == Spec => []OnlyPaidIsConsumed
<1>1. SettlementInv => OnlyPaidIsConsumed
  BY DEF SettlementInv, PaidInv, OnlyPaidIsConsumed
<1>2. QED
  BY <1>1, SettlementInit, SettlementStep, PTL DEF Spec

\* On PostgreSQL every success, to whichever replica it was answered, is for the one claim
\* of the table.
THEOREM OneClaim == ASSUME Durable PROVE Spec => []OneClaimPerPayment
<1>1. SettlementInv => OneClaimPerPayment
  BY DEF SettlementInv, GrantInv, OneClaimPerPayment
<1>2. QED
  BY <1>1, SettlementInit, SettlementStep, PTL DEF Spec

\* No step of any call replaces or removes a durable consumption.
THEOREM FinalConsumption == Spec => ConsumptionIsFinal
<1>1. SettlementInv /\ [Next]_vars => [disk # NoClaim => disk' = disk]_vars
  <2> SUFFICES ASSUME SettlementInv, [Next]_vars, disk # NoClaim PROVE disk' = disk
    OBVIOUS
  <2>1. memory = disk
    BY DEF SettlementInv, RecordInv
  <2>2. QED
    BY <2>1 DEF Next, Serve, vars, Arrive, Lookup, Strict, Query, Consume, Unconsumed, Persist,
       PersistFails, Won, Raced, Leave, Pay, ReplicaCrash, ProcessCrash
<1>2. QED
  BY <1>1, SettlementInit, SettlementStep, PTL DEF Spec, ConsumptionIsFinal

-----------------------------------------------------------------------------
(***************************************************************************)
(* The two stores side by side                                             *)
(***************************************************************************)
\* The store with a file keeps out of the way of the one with a table: where the table is in
\* use, every step is one of the table's.
LEMMA OnPostgresStep ==
    (~inFile => SettlementInv) /\ [BothNext]_<<vars, inFile>> => (~inFile => SettlementInv)'
<1> SUFFICES ASSUME ~inFile => SettlementInv, [BothNext]_<<vars, inFile>>, ~inFile'
             PROVE  SettlementInv'
  OBVIOUS
<1>1. ~inFile /\ [Next]_vars
  BY DEF BothNext
<1>2. QED
  BY <1>1, SettlementStep

\* Wherever the table is in use every success of a payment is for the one claim on record,
\* also in a run that chooses the store.
THEOREM OneClaimWhereDurable == ASSUME Durable PROVE BothStores => []OneClaimOnPostgres
<1>1. BothInit => (~inFile => SettlementInv)
  BY SettlementInit DEF BothInit
<1>2. (~inFile => SettlementInv) => OneClaimOnPostgres
  BY DEF SettlementInv, GrantInv, OneClaimPerPayment, OneClaimOnPostgres
<1>3. QED
  BY <1>1, <1>2, OnPostgresStep, PTL DEF BothStores

=============================================================================
