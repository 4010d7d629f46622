------------------------------ MODULE Invocation ------------------------------
(***************************************************************************)
(* One durable invocation and the handler activations that drive it        *)
(* through AUTHORIZED .. DELIVERED, on any number of replicas.             *)
(*                                                                         *)
(* Every await between reading the record and writing it back is a step    *)
(* boundary: an activation reads (the stages "verify", "lease", ...), then *)
(* writes by compare-and-set (the stages "verifying", "leasing", ...) what *)
(* it computed from the copy it read, whatever happened in between.        *)
(*                                                                         *)
(* Time: a lease carries no date, it is live until LeaseExpires; now is    *)
(* read before the record, so an expired lease is never taken for live     *)
(* later than it would be here.  Timely says whether executions end before *)
(* their lease does.                                                       *)
(***************************************************************************)
EXTENDS Naturals, FiniteSets

CONSTANTS
    Workers,      \* handler activations working at the same time
    Results,      \* what the protected service can return
    Tokens,       \* executor tokens (random: an unused one is drawn)
    NoResult, NoToken,
    Timely,       \* no lease expires under an activation still using it
    MaxFailures   \* bound: activations that crash or throw

ASSUME InvocationAssumption ==
    /\ NoResult \notin Results
    /\ NoToken \notin Tokens
    /\ Timely \in BOOLEAN
    /\ MaxFailures \in Nat

VARIABLES
    rec,       \* the persisted invocation record
    receipt,   \* the result kept in the delivery receipt of its payment
    act,       \* the handler activations
    failures,  \* activations that failed so far
    paid,      \* the facilitator consumed the payment
    answers    \* history: results sent to callers

vars == <<rec, receipt, act, failures, paid, answers>>

States == {"ABSENT", "AUTHORIZED", "PAYMENT_VERIFIED", "EXECUTION_RESERVED",
           "EXECUTED", "PAYMENT_SETTLED", "DELIVERED"}

Rank == [s \in States |->
           CASE s = "ABSENT" -> 0
             [] s = "AUTHORIZED" -> 1
             [] s = "PAYMENT_VERIFIED" -> 2
             [] s = "EXECUTION_RESERVED" -> 3
             [] s = "EXECUTED" -> 4
             [] s = "PAYMENT_SETTLED" -> 5
             [] s = "DELIVERED" -> 6]

Reached(r, s) == Rank[r.state] >= Rank[s]

Records == [state: States, token: Tokens \cup {NoToken}, live: BOOLEAN,
            result: Results \cup {NoResult}]
NoRecord == [state |-> "ABSENT", token |-> NoToken, live |-> FALSE, result |-> NoResult]

Stages == {"idle", "begin", "verify", "verifying", "lease", "leasing", "execute",
           "complete", "completing", "pay", "receipt", "settle", "settling",
           "deliver", "delivering"}

Idle == [stage |-> "idle", seen |-> NoRecord, token |-> NoToken,
         result |-> NoResult, known |-> NoResult]

TypeOK ==
    /\ rec \in Records
    /\ receipt \in Results \cup {NoResult}
    /\ act \in [Workers -> [stage: Stages, seen: Records, token: Tokens \cup {NoToken},
                            result: Results \cup {NoResult},
                            known: Results \cup {NoResult}]]
    /\ \A w \in Workers :
          act[w].stage \in {"complete", "completing", "pay", "receipt", "settle",
                           "settling", "deliver", "delivering"} => act[w].result # NoResult
    /\ failures \in 0 .. MaxFailures
    /\ paid \in BOOLEAN
    /\ answers \subseteq Results \cup {NoResult}

Init ==
    /\ rec = NoRecord
    /\ receipt = NoResult
    /\ act = [w \in Workers |-> Idle]
    /\ failures = 0
    /\ paid = FALSE
    /\ answers = {}

-----------------------------------------------------------------------------
(***************************************************************************)
(* Reading, and writing back by compare-and-set                            *)
(***************************************************************************)
Goes(w, a) == act' = [act EXCEPT ![w] = a]
At(w, stage) == act[w].stage = stage
To(w, stage) == [act[w] EXCEPT !.stage = stage, !.seen = NoRecord]
Reads(w, stage) == [act[w] EXCEPT !.stage = stage, !.seen = rec]

\* The activation throws: its client sees an error, the record stays.
Throws(w) ==
    /\ failures < MaxFailures
    /\ failures' = failures + 1
    /\ Goes(w, Idle)

\* After its own execution an activation keeps the result it computed, even when
\* the record it was handed back holds another.
Finished(w, r) == To(w, IF Reached(r, "PAYMENT_SETTLED") THEN "deliver" ELSE "pay")

\* (slip) a reserved invocation is taken for an executed one
ResumedTooEarly(w, r) ==
    IF Reached(r, "EXECUTION_RESERVED")
    THEN [Finished(w, r) EXCEPT !.result = r.result]
    ELSE To(w, "lease")

\* An activation goes on with the invocation record r it was handed, using the
\* persisted result when there is one.
Resumed(w, r) ==
    IF Reached(r, "EXECUTED")
    THEN [Finished(w, r) EXCEPT !.result = r.result]
    ELSE To(w, "lease")

\* advanceInvocation, the read: the state is there already, or may be written.
AdvanceRead(w, from, to, writing, handed) ==
    \/ /\ Reached(rec, to)
       /\ Goes(w, handed)
       /\ UNCHANGED failures
    \/ /\ rec.state = from
       /\ Goes(w, Reads(w, writing))
       /\ UNCHANGED failures
    \/ /\ ~Reached(rec, to) /\ rec.state # from
       /\ Throws(w)

\* (slip) the record is written whatever its state is by now
AdvanceUnconditionally(w, from, next, handed) ==
    /\ rec' = next
    /\ Goes(w, handed)
    /\ UNCHANGED failures

\* advanceInvocation, the compare-and-set on the state.
AdvanceWrite(w, from, next, handed) ==
    \/ /\ rec.state = from
       /\ rec' = next
       /\ Goes(w, handed)
       /\ UNCHANGED failures
    \/ /\ rec.state # from /\ Reached(rec, next.state)
       /\ Goes(w, handed)
       /\ UNCHANGED <<rec, failures>>
    \/ /\ rec.state # from /\ ~Reached(rec, next.state)
       /\ Throws(w)
       /\ UNCHANGED rec

-----------------------------------------------------------------------------
(***************************************************************************)
(* The handler                                                             *)
(***************************************************************************)
\* A caller (or a retry) is authenticated; verifyPaymentHeader looks for the
\* receipt of an earlier settlement.
Arrive(w) ==
    /\ At(w, "idle")
    /\ Goes(w, [Idle EXCEPT !.stage = "begin", !.known = receipt])
    /\ UNCHANGED <<rec, receipt, failures, paid, answers>>

\* beginInvocation inserts the record unless it is there.
Begin(w) ==
    /\ At(w, "begin")
    /\ rec.state # "DELIVERED"
    /\ rec' = IF rec.state = "ABSENT" THEN [NoRecord EXCEPT !.state = "AUTHORIZED"] ELSE rec
    /\ Goes(w, To(w, "verify"))
    /\ UNCHANGED <<receipt, failures, paid, answers>>

\* A delivered invocation is answered from the record.
Replay(w) ==
    /\ At(w, "begin")
    /\ rec.state = "DELIVERED"
    /\ answers' = answers \cup {rec.result}
    /\ Goes(w, Idle)
    /\ UNCHANGED <<rec, receipt, failures, paid>>

Verify(w) ==
    /\ At(w, "verify")
    /\ AdvanceRead(w, "AUTHORIZED", "PAYMENT_VERIFIED", "verifying", Resumed(w, rec))
    /\ UNCHANGED <<rec, receipt, paid, answers>>

VerifyWrite(w) ==
    LET next == [act[w].seen EXCEPT !.state = "PAYMENT_VERIFIED"]
    IN  /\ At(w, "verifying")
        /\ AdvanceWrite(w, "AUTHORIZED", next,
                        Resumed(w, IF rec.state = "AUTHORIZED" THEN next ELSE rec))
        /\ UNCHANGED <<receipt, paid, answers>>

\* (slip) a reservation is never handed on, expired or not
NeverAcquirable(r) == r.state = "PAYMENT_VERIFIED"

\* (slip) a reservation is taken over without looking at its expiry
AlwaysAcquirable(r) == r.state \in {"PAYMENT_VERIFIED", "EXECUTION_RESERVED"}

\* acquireExecutionLease may try to take the invocation in this state.
Acquirable(r) == \/ r.state = "PAYMENT_VERIFIED"
                 \/ r.state = "EXECUTION_RESERVED" /\ ~r.live

\* Followers poll a live lease (no step) until it ends or they give up.
LeaseRead(w) ==
    /\ At(w, "lease")
    /\ \/ /\ Reached(rec, "EXECUTED")
          /\ Goes(w, Resumed(w, rec))
       \/ /\ Acquirable(rec)
          /\ Goes(w, Reads(w, "leasing"))
    /\ UNCHANGED <<rec, receipt, failures, paid, answers>>

\* A follower that has waited EXECUTION_FOLLOWER_WAIT_MS answers 409; its caller
\* may come back.
GiveUp(w) ==
    /\ At(w, "lease")
    /\ ~Reached(rec, "EXECUTED")
    /\ ~Acquirable(rec)
    /\ Goes(w, Idle)
    /\ UNCHANGED <<rec, receipt, failures, paid, answers>>

\* (slip) only the state is compared, as it is for the other transitions
SameState(r, seen) == r.state = seen.state

\* The exact fields the compare-and-set expects: the state and, for a reclaim,
\* the token (and expiry) of the lease it takes over.
StillAcquirable(r, seen) ==
    /\ r.state = seen.state
    /\ seen.state = "EXECUTION_RESERVED" => r.token = seen.token

InUse == {rec.token} \cup UNION {{act[w].token, act[w].seen.token} : w \in Workers}

LeaseWrite(w) ==
    /\ At(w, "leasing")
    /\ \/ \E t \in Tokens \ InUse :
             /\ StillAcquirable(rec, act[w].seen)
             /\ rec' = [act[w].seen EXCEPT !.state = "EXECUTION_RESERVED",
                                           !.token = t, !.live = TRUE]
             /\ Goes(w, [To(w, "execute") EXCEPT !.token = t])
       \/ /\ ~StillAcquirable(rec, act[w].seen)
          /\ Goes(w, Resumed(w, rec))
          /\ UNCHANGED rec
    /\ UNCHANGED <<receipt, failures, paid, answers>>

\* The protected service runs, unless the payment's receipt already has a result.
Execute(w) ==
    /\ At(w, "execute")
    /\ \E r \in Results :
          /\ act[w].known # NoResult => r = act[w].known
          /\ Goes(w, [To(w, "complete") EXCEPT !.result = r])
    /\ UNCHANGED <<rec, receipt, failures, paid, answers>>

Owns(w, r) == r.state = "EXECUTION_RESERVED" /\ r.token = act[w].token

CompleteRead(w) ==
    /\ At(w, "complete")
    /\ \/ /\ Reached(rec, "EXECUTED")
          /\ Goes(w, Finished(w, rec))
          /\ UNCHANGED failures
       \/ /\ Owns(w, rec)
          /\ Goes(w, Reads(w, "completing"))
          /\ UNCHANGED failures
       \/ /\ ~Reached(rec, "EXECUTED") /\ ~Owns(w, rec)
          /\ Throws(w)
    /\ UNCHANGED <<rec, receipt, paid, answers>>

CompleteWrite(w) ==
    /\ At(w, "completing")
    /\ \/ /\ Owns(w, rec)
          /\ rec' = [act[w].seen EXCEPT !.state = "EXECUTED", !.result = act[w].result]
          /\ Goes(w, To(w, "pay"))
          /\ UNCHANGED failures
       \/ /\ ~Owns(w, rec) /\ Reached(rec, "EXECUTED")
          /\ Goes(w, Finished(w, rec))
          /\ UNCHANGED <<rec, failures>>
       \/ /\ ~Owns(w, rec) /\ ~Reached(rec, "EXECUTED")
          /\ Throws(w)
          /\ UNCHANGED rec
    /\ UNCHANGED <<receipt, paid, answers>>

\* settlePayment: a payment with a receipt is not settled again.
Pay(w) ==
    /\ At(w, "pay")
    /\ IF act[w].known # NoResult
       THEN Goes(w, To(w, "settle")) /\ UNCHANGED paid
       ELSE Goes(w, To(w, "receipt")) /\ paid' = TRUE
    /\ UNCHANGED <<rec, receipt, failures, answers>>

StoreReceipt(w) ==
    /\ At(w, "receipt")
    /\ receipt' = act[w].result
    /\ Goes(w, To(w, "settle"))
    /\ UNCHANGED <<rec, failures, paid, answers>>

Settle(w) ==
    /\ At(w, "settle")
    /\ AdvanceRead(w, "EXECUTED", "PAYMENT_SETTLED", "settling", To(w, "deliver"))
    /\ UNCHANGED <<rec, receipt, paid, answers>>

SettleWrite(w) ==
    /\ At(w, "settling")
    /\ AdvanceWrite(w, "EXECUTED", [act[w].seen EXCEPT !.state = "PAYMENT_SETTLED"],
                    To(w, "deliver"))
    /\ UNCHANGED <<receipt, paid, answers>>

\* The response carries the activation's own result; so does the last write.
Answered(w) == answers' = IF act'[w].stage = "idle" /\ failures' = failures
                          THEN answers \cup {act[w].result} ELSE answers

Deliver(w) ==
    /\ At(w, "deliver")
    /\ AdvanceRead(w, "PAYMENT_SETTLED", "DELIVERED", "delivering", Idle)
    /\ Answered(w)
    /\ UNCHANGED <<rec, receipt, paid>>

DeliverWrite(w) ==
    /\ At(w, "delivering")
    /\ AdvanceWrite(w, "PAYMENT_SETTLED",
                    [act[w].seen EXCEPT !.state = "DELIVERED", !.result = act[w].result], Idle)
    /\ Answered(w)
    /\ UNCHANGED <<receipt, paid>>

\* The process dies, or an upstream, the facilitator or the ledger throws: the
\* activation ends where it is.
Fail(w) ==
    /\ ~At(w, "idle")
    /\ Throws(w)
    /\ UNCHANGED <<rec, receipt, paid, answers>>

Using(w) == act[w].stage \in {"execute", "complete", "completing"} /\ Owns(w, rec)

LeaseExpires ==
    /\ rec.state = "EXECUTION_RESERVED"
    /\ rec.live
    /\ Timely => \A w \in Workers : ~Using(w)
    /\ rec' = [rec EXCEPT !.live = FALSE]
    /\ UNCHANGED <<receipt, act, failures, paid, answers>>

Work(w) ==
    \/ Begin(w) \/ Replay(w)
    \/ Verify(w) \/ VerifyWrite(w)
    \/ LeaseRead(w) \/ LeaseWrite(w) \/ GiveUp(w)
    \/ Execute(w) \/ CompleteRead(w) \/ CompleteWrite(w)
    \/ Pay(w) \/ StoreReceipt(w)
    \/ Settle(w) \/ SettleWrite(w)
    \/ Deliver(w) \/ DeliverWrite(w)

Next == (\E w \in Workers : Arrive(w) \/ Work(w) \/ Fail(w)) \/ LeaseExpires

Spec == Init /\ [][Next]_vars

\* Handlers run to their end, time passes, and callers retry.
FairSpec == /\ Spec
            /\ \A w \in Workers : WF_vars(Work(w)) /\ WF_vars(Arrive(w))
            /\ WF_vars(LeaseExpires)

-----------------------------------------------------------------------------
(***************************************************************************)
(* Properties                                                              *)
(***************************************************************************)
\* However reads and writes of different activations interleave, a write never
\* takes the invocation back to an earlier state.
StatesOnlyAdvance == [][Rank[rec'.state] >= Rank[rec.state]]_vars

\* A lease is taken over only after it expired, although the decision was made
\* on a copy of the record read some steps before.
TakeoverOnlyExpired ==
    [][rec.token # NoToken /\ rec'.token # rec.token => ~rec.live]_vars

\* The protected service never runs in two activations at once, when executions
\* end within their lease.
NoConcurrentExecution ==
    \A v, w \in Workers : At(v, "execute") /\ At(w, "execute") => v = w

\* The payer is charged, and a receipt is written, only for an invocation whose
\* result is durable, so whatever crashes afterwards a retry can deliver it.
PaidResultIsDurable ==
    (paid \/ receipt # NoResult) => Reached(rec, "EXECUTED") /\ rec.result # NoResult

\* The receipt, which answers retries once the record is gone, holds the result
\* the record holds.
ReceiptAgrees == receipt # NoResult => receipt = rec.result

\* The durable invocation keeps the result it was executed with.
ResultIsFinal ==
    [][Reached(rec, "EXECUTED") => rec'.result = rec.result]_vars

\* Callers see one result register, written once: what the callers of an
\* idempotent action rely on.
Register == INSTANCE ResultRegister WITH decided <- rec.result

OneResult == Register!Spec

\* After finitely many crashes and failures, an invocation is delivered: a lease
\* left behind by a dead activation does not block the retries.
EventuallyDelivered == <>(rec.state = "DELIVERED")
=============================================================================
