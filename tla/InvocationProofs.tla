--------------------------- MODULE InvocationProofs ---------------------------
(***************************************************************************)
(* Proofs about Invocation, for any activations, results, tokens and       *)
(* number of failures, and about the two regimes of MCInvocationRegimes.   *)
(*                                                                         *)
(* An activation writes what it computed from a copy of the record read    *)
(* some steps before.  The invariant (ActivationOK) therefore says, stage  *)
(* by stage, what is still true of the record when that copy is written;   *)
(* the other activations keep theirs because every write is a LawfulStep.  *)
(***************************************************************************)
EXTENDS MCInvocationRegimes, TLAPS

-----------------------------------------------------------------------------
(***************************************************************************)
(* Lemmas about the operators                                              *)
(***************************************************************************)
Before == {"ABSENT", "AUTHORIZED", "PAYMENT_VERIFIED"}
Done == {"EXECUTED", "PAYMENT_SETTLED", "DELIVERED"}

LEMMA RankIs ==
    /\ Rank["ABSENT"] = 0 /\ Rank["AUTHORIZED"] = 1 /\ Rank["PAYMENT_VERIFIED"] = 2
    /\ Rank["EXECUTION_RESERVED"] = 3 /\ Rank["EXECUTED"] = 4
    /\ Rank["PAYMENT_SETTLED"] = 5 /\ Rank["DELIVERED"] = 6
BY DEF Rank, States

LEMMA ReachedIs ==
    ASSUME NEW r, r.state \in States
    PROVE  /\ Reached(r, "EXECUTED") <=> r.state \in Done
           /\ Reached(r, "PAYMENT_SETTLED") <=> r.state \in {"PAYMENT_SETTLED", "DELIVERED"}
           /\ Reached(r, "DELIVERED") <=> r.state = "DELIVERED"
           /\ Reached(r, "PAYMENT_VERIFIED") <=> r.state \notin {"ABSENT", "AUTHORIZED"}
BY RankIs DEF Reached, Done, States

Activations == [stage: Stages, seen: Records, token: Tokens \cup {NoToken},
                result: Results \cup {NoResult}, known: Results \cup {NoResult}]

\* A token stands from the reservation on, a result from the execution on.
RecordOK(r) ==
    /\ r \in Records
    /\ r.state \in Before <=> r.token = NoToken
    /\ r.state \in Done <=> r.result # NoResult

LEMMA NoRecordOK == RecordOK(NoRecord)
BY InvocationAssumption DEF RecordOK, NoRecord, Records, States, Before, Done

LEMMA IdleFields ==
    /\ Idle \in Activations /\ Idle.stage = "idle" /\ Idle.seen = NoRecord
BY NoRecordOK DEF Idle, Activations, Stages, RecordOK

LEMMA ToFields ==
    ASSUME NEW w \in Workers, act[w] \in Activations, NEW stage \in Stages
    PROVE  /\ To(w, stage) \in Activations
           /\ To(w, stage).stage = stage /\ To(w, stage).seen = NoRecord
           /\ To(w, stage).token = act[w].token
           /\ To(w, stage).result = act[w].result /\ To(w, stage).known = act[w].known
BY NoRecordOK DEF To, Activations, RecordOK

LEMMA ReadsFields ==
    ASSUME NEW w \in Workers, act[w] \in Activations, rec \in Records, NEW stage \in Stages
    PROVE  /\ Reads(w, stage) \in Activations
           /\ Reads(w, stage).stage = stage /\ Reads(w, stage).seen = rec
           /\ Reads(w, stage).token = act[w].token
           /\ Reads(w, stage).result = act[w].result
BY DEF Reads, Activations

LEMMA FinishedFields ==
    ASSUME NEW w \in Workers, act[w] \in Activations, NEW r
    PROVE  /\ Finished(w, r) \in Activations
           /\ Finished(w, r).stage \in {"deliver", "pay"} /\ Finished(w, r).seen = NoRecord
           /\ Finished(w, r).result = act[w].result
BY ToFields DEF Finished, Stages

LEMMA ResumedFields ==
    ASSUME NEW w \in Workers, act[w] \in Activations, NEW r, RecordOK(r)
    PROVE  /\ Resumed(w, r) \in Activations
           /\ Resumed(w, r).seen = NoRecord
           /\ \/ Resumed(w, r).stage = "lease"
              \/ /\ Resumed(w, r).stage \in {"deliver", "pay"}
                 /\ r.state \in Done /\ Resumed(w, r).result = r.result
<1>1. CASE Reached(r, "EXECUTED")
  <2>1. r.state \in Done /\ r.result \in Results \cup {NoResult}
    BY <1>1, ReachedIs DEF RecordOK, Records
  <2>2. PICK f : f = Finished(w, r)
    OBVIOUS
  <2>3. /\ f \in Activations /\ f.stage \in {"deliver", "pay"} /\ f.seen = NoRecord
    BY <2>2, FinishedFields
  <2>4. Resumed(w, r) = [f EXCEPT !.result = r.result]
    BY <1>1, <2>2 DEF Resumed
  <2>5. QED
    BY <2>1, <2>3, <2>4 DEF Activations
<1>2. CASE ~Reached(r, "EXECUTED")
  BY <1>2, ToFields DEF Resumed, Stages
<1>3. QED
  BY <1>1, <1>2

-----------------------------------------------------------------------------
(***************************************************************************)
(* The invariant                                                           *)
(***************************************************************************)
AfterExecution == {"pay", "receipt", "settle", "settling", "deliver", "delivering"}

\* Activation a, while the record is r.
ActivationOK(a, r) ==
    /\ a \in Activations
    /\ RecordOK(a.seen)
    /\ a.stage = "verifying" => a.seen.state = "AUTHORIZED"
    /\ a.stage = "leasing" =>
          /\ Acquirable(a.seen)
          /\ a.seen.state = "EXECUTION_RESERVED" /\ r.state = "EXECUTION_RESERVED"
                /\ r.token = a.seen.token => ~r.live
    /\ a.stage = "completing" =>
          a.seen.state = "EXECUTION_RESERVED" /\ a.seen.token = a.token
    /\ a.stage = "settling" => a.seen.state = "EXECUTED"
    /\ a.stage = "delivering" => a.seen.state = "PAYMENT_SETTLED"
    /\ a.stage \in {"settling", "delivering"} => a.seen.token = r.token
    /\ a.stage \in AfterExecution => r.state \in Done
    /\ a.stage \in AfterExecution \cup {"complete", "completing"} => a.result # NoResult

WorldOK ==
    /\ receipt \in Results \cup {NoResult}
    /\ failures \in 0 .. MaxFailures
    /\ paid \in BOOLEAN
    /\ answers \subseteq Results \cup {NoResult}

Inv ==
    /\ RecordOK(rec)
    /\ act \in [Workers -> Activations]
    /\ \A w \in Workers : ActivationOK(act[w], rec)
    /\ WorldOK
    /\ (paid \/ receipt # NoResult) => rec.state \in Done

\* What a write may do to the record.
LawfulStep(r, s) ==
    /\ RecordOK(s)
    /\ Rank[s.state] >= Rank[r.state]
    /\ r.state \in Done => s.state \in Done /\ s.token = r.token
    /\ r.token # NoToken /\ s.token # r.token => ~r.live
    /\ s.token = r.token /\ ~r.live /\ s.state = "EXECUTION_RESERVED" => ~s.live
    /\ s.token # r.token => \A w \in Workers : s.token # act[w].seen.token

-----------------------------------------------------------------------------
\* What one step of one activation does.
StepOK(w) ==
    /\ \E a : Goes(w, a) /\ ActivationOK(a, rec')
    /\ LawfulStep(rec, rec')
    /\ WorldOK'
    /\ (paid' \/ receipt' # NoResult) => rec'.state \in Done

LEMMA Stutters ==
    ASSUME RecordOK(rec), rec' = rec PROVE LawfulStep(rec, rec')
<1>1. Rank[rec.state] \in Nat
  BY RankIs DEF RecordOK, Records, States
<1>2. QED
  BY <1>1 DEF LawfulStep

\* The other activations keep what they rely on.
LEMMA OthersKept ==
    ASSUME RecordOK(rec), LawfulStep(rec, rec'), NEW v \in Workers, ActivationOK(act[v], rec)
    PROVE  ActivationOK(act[v], rec')
<1>1. ASSUME act[v].stage = "leasing", act[v].seen.state = "EXECUTION_RESERVED",
             rec'.state = "EXECUTION_RESERVED", rec'.token = act[v].seen.token
      PROVE  ~rec'.live
  <2>1. rec.token = rec'.token /\ rec.token # NoToken
    BY <1>1 DEF LawfulStep, ActivationOK, RecordOK, Before
  <2>2. rec.state = "EXECUTION_RESERVED"
    BY <1>1, <2>1 DEF RecordOK, LawfulStep, Records, States, Before, Done
  <2>3. ~rec.live
    BY <1>1, <2>1, <2>2 DEF ActivationOK
  <2>4. QED
    BY <1>1, <2>1, <2>3 DEF LawfulStep
<1>2. act[v].stage \in AfterExecution => rec'.state \in Done
  BY DEF ActivationOK, LawfulStep
<1>3. act[v].stage \in {"settling", "delivering"} => act[v].seen.token = rec'.token
  BY DEF ActivationOK, LawfulStep, AfterExecution
<1>4. QED
  BY <1>1, <1>2, <1>3 DEF ActivationOK

LEMMA StepKeepsInv ==
    ASSUME Inv, NEW w \in Workers, StepOK(w) PROVE Inv'
<1>1. PICK a : Goes(w, a) /\ ActivationOK(a, rec')
  BY DEF StepOK
<1>2. LawfulStep(rec, rec') /\ RecordOK(rec) /\ RecordOK(rec')
  BY DEF StepOK, LawfulStep, Inv
<1>3. a \in Activations
  BY <1>1 DEF ActivationOK
<1>4. /\ act' \in [Workers -> Activations]
      /\ act'[w] = a /\ \A v \in Workers : v # w => act'[v] = act[v]
  BY <1>1, <1>3 DEF Goes, Inv
<1>5. ASSUME NEW v \in Workers PROVE ActivationOK(act'[v], rec')
  <2>1. CASE v = w
    BY <2>1, <1>1, <1>4
  <2>2. CASE v # w
    <3>1. ActivationOK(act[v], rec')
      BY <1>2, OthersKept DEF Inv
    <3>2. QED
      BY <2>2, <3>1, <1>4
  <2>3. QED
    BY <2>1, <2>2
<1>6. QED
  BY <1>2, <1>4, <1>5 DEF Inv, StepOK

-----------------------------------------------------------------------------
(***************************************************************************)
(* Each step keeps it                                                      *)
(***************************************************************************)
\* Stages that rely on nothing.
Free == {"idle", "begin", "verify", "lease", "execute"}

LEMMA FreeOK ==
    ASSUME NEW a \in Activations, a.seen = NoRecord, NEW r,
           \/ a.stage \in Free
           \/ a.stage = "complete" /\ a.result # NoResult
           \/ /\ a.stage \in {"pay", "receipt", "settle", "deliver"}
              /\ r.state \in Done /\ a.result # NoResult
    PROVE  ActivationOK(a, r)
BY NoRecordOK DEF ActivationOK, Free, AfterExecution

\* An activation that only reads or answers.
LEMMA Reading ==
    ASSUME Inv, NEW w \in Workers, NEW a, Goes(w, a), ActivationOK(a, rec),
           rec' = rec, UNCHANGED <<receipt, paid>>, failures' \in 0 .. MaxFailures,
           answers' \subseteq Results \cup {NoResult}
    PROVE  StepOK(w)
BY Stutters DEF StepOK, Inv, WorldOK

LEMMA ThrowsFields ==
    ASSUME Inv, NEW w \in Workers, Throws(w)
    PROVE  Goes(w, Idle) /\ failures' \in 0 .. MaxFailures
BY InvocationAssumption DEF Throws, Inv, WorldOK

LEMMA IdleOK == \A r : ActivationOK(Idle, r)
BY IdleFields, FreeOK DEF Free

LEMMA ThrowingOK ==
    ASSUME Inv, NEW w \in Workers, Throws(w), UNCHANGED <<rec, receipt, paid, answers>>
    PROVE  StepOK(w)
BY Reading, ThrowsFields, IdleOK DEF Inv, WorldOK

LEMMA ArriveOK ==
    ASSUME Inv, NEW w \in Workers, Arrive(w) PROVE StepOK(w)
<1>1. PICK a : a = [Idle EXCEPT !.stage = "begin", !.known = receipt]
  OBVIOUS
<1>2. a = [stage |-> "begin", seen |-> NoRecord, token |-> NoToken, result |-> NoResult,
           known |-> receipt]
  BY <1>1 DEF Idle
<1>3. ActivationOK(a, rec)
  BY <1>2, FreeOK, NoRecordOK DEF Free, Activations, Stages, Inv, WorldOK, RecordOK
<1>4. QED
  BY <1>1, <1>3, Reading DEF Arrive, Inv, WorldOK

LEMMA BeginOK ==
    ASSUME Inv, NEW w \in Workers, Begin(w) PROVE StepOK(w)
<1>1. ActivationOK(To(w, "verify"), rec')
  BY ToFields, FreeOK DEF Free, Stages, Inv
<1>2. CASE rec.state = "ABSENT"
  <2>1. rec' = [state |-> "AUTHORIZED", token |-> NoToken, live |-> FALSE,
                result |-> NoResult]
    BY <1>2 DEF Begin, NoRecord
  <2>2. rec' \in Records
    BY <2>1 DEF Records, States
  <2>3. RecordOK(rec') /\ rec.token = NoToken
    BY <1>2, <2>1, <2>2 DEF RecordOK, Before, Done, Inv
  <2>4. LawfulStep(rec, rec')
    BY <1>2, <2>1, <2>3, RankIs DEF LawfulStep, Done
  <2>5. ~paid /\ receipt = NoResult
    BY <1>2 DEF Inv, Done
  <2>6. QED
    BY <1>1, <2>4, <2>5 DEF StepOK, Begin, Inv, WorldOK
<1>3. CASE rec.state # "ABSENT"
  <2>1. rec' = rec
    BY <1>3 DEF Begin
  <2>2. ActivationOK(To(w, "verify"), rec)
    BY <1>1, <2>1
  <2>3. QED
    BY <2>1, <2>2, Reading DEF Begin, Inv, WorldOK
<1>4. QED
  BY <1>2, <1>3

LEMMA ReplayOK ==
    ASSUME Inv, NEW w \in Workers, Replay(w) PROVE StepOK(w)
<1>1. rec.result \in Results \cup {NoResult}
  BY DEF Inv, RecordOK, Records
<1>2. QED
  BY <1>1, IdleOK, Reading DEF Replay, Inv, WorldOK

LEMMA ResumedOK ==
    ASSUME Inv, NEW w \in Workers, NEW r, RecordOK(r), NEW s, r.state \in Done => s.state \in Done
    PROVE  ActivationOK(Resumed(w, r), s)
<1>1. PICK a : a = Resumed(w, r)
  OBVIOUS
<1>2. /\ a \in Activations /\ a.seen = NoRecord
      /\ \/ a.stage = "lease"
         \/ a.stage \in {"deliver", "pay"} /\ r.state \in Done /\ a.result = r.result
  BY <1>1, ResumedFields DEF Inv
<1>3. ActivationOK(a, s)
  BY <1>2, FreeOK DEF Free, RecordOK
<1>4. QED
  BY <1>1, <1>3

\* A copy taken for a write.
LEMMA WritingOK ==
    ASSUME Inv, NEW w \in Workers, NEW stage,
           \/ stage = "verifying" /\ rec.state = "AUTHORIZED"
           \/ stage = "leasing" /\ Acquirable(rec)
           \/ /\ stage = "completing" /\ act[w].result # NoResult
              /\ rec.state = "EXECUTION_RESERVED" /\ rec.token = act[w].token
           \/ stage = "settling" /\ rec.state = "EXECUTED" /\ act[w].result # NoResult
           \/ /\ stage = "delivering" /\ rec.state = "PAYMENT_SETTLED"
              /\ act[w].result # NoResult
    PROVE  ActivationOK(Reads(w, stage), rec)
<1>1. stage \in Stages
  BY DEF Stages
<1>2. PICK a : a = Reads(w, stage)
  OBVIOUS
<1>3. /\ a \in Activations /\ a.stage = stage /\ a.seen = rec
      /\ a.token = act[w].token /\ a.result = act[w].result
  BY <1>1, <1>2, ReadsFields DEF Inv, RecordOK
<1>4. ActivationOK(a, rec)
  BY <1>3 DEF ActivationOK, Inv, AfterExecution, Done, Acquirable
<1>5. QED
  BY <1>2, <1>4

LEMMA AdvanceReadOK ==
    ASSUME Inv, NEW w \in Workers, NEW from, NEW to, NEW writing, NEW handed,
           AdvanceRead(w, from, to, writing, handed),
           UNCHANGED <<rec, receipt, paid>>, answers' \subseteq Results \cup {NoResult},
           Reached(rec, to) => ActivationOK(handed, rec),
           rec.state = from => ActivationOK(Reads(w, writing), rec)
    PROVE  StepOK(w)
<1>1. CASE Reached(rec, to) /\ Goes(w, handed) /\ UNCHANGED failures
  BY <1>1, Reading DEF Inv, WorldOK
<1>2. CASE rec.state = from /\ Goes(w, Reads(w, writing)) /\ UNCHANGED failures
  BY <1>2, Reading DEF Inv, WorldOK
<1>3. CASE Throws(w)
  BY <1>3, ThrowsFields, IdleOK, Reading
<1>4. QED
  BY <1>1, <1>2, <1>3 DEF AdvanceRead

LEMMA AdvanceWriteOK ==
    ASSUME Inv, NEW w \in Workers, NEW from, NEW next, NEW handed,
           AdvanceWrite(w, from, next, handed),
           UNCHANGED <<receipt, paid>>, answers' \subseteq Results \cup {NoResult},
           rec.state = from => LawfulStep(rec, next) /\ ActivationOK(handed, next),
           rec.state # from /\ Reached(rec, next.state) => ActivationOK(handed, rec)
    PROVE  StepOK(w)
<1>1. CASE /\ rec.state = from /\ rec' = next
           /\ Goes(w, handed) /\ UNCHANGED failures
  <2>1. LawfulStep(rec, rec') /\ ActivationOK(handed, rec')
    BY <1>1
  <2>2. (paid' \/ receipt' # NoResult) => rec'.state \in Done
    BY <2>1 DEF LawfulStep, Inv
  <2>3. QED
    BY <1>1, <2>1, <2>2 DEF StepOK, Inv, WorldOK
<1>2. CASE /\ rec.state # from /\ Reached(rec, next.state) /\ Goes(w, handed)
           /\ UNCHANGED <<rec, failures>>
  BY <1>2, Reading DEF Inv, WorldOK
<1>3. CASE Throws(w) /\ UNCHANGED rec
  BY <1>3, ThrowsFields, IdleOK, Reading
<1>4. QED
  BY <1>1, <1>2, <1>3 DEF AdvanceWrite

LEMMA Typed ==
    ASSUME Inv, NEW w \in Workers
    PROVE  /\ ActivationOK(act[w], rec) /\ act[w] \in Activations
           /\ RecordOK(rec) /\ rec \in Records /\ rec.state \in States
           /\ RecordOK(act[w].seen) /\ act[w].seen \in Records
           /\ act[w].result \in Results \cup {NoResult}
           /\ answers \subseteq Results \cup {NoResult}
BY DEF Inv, WorldOK, ActivationOK, RecordOK, Records, Activations

LEMMA StateFields ==
    ASSUME NEW r \in Records, NEW s \in States
    PROVE  /\ [r EXCEPT !.state = s] \in Records
           /\ [r EXCEPT !.state = s].state = s
           /\ [r EXCEPT !.state = s].token = r.token
           /\ [r EXCEPT !.state = s].live = r.live
           /\ [r EXCEPT !.state = s].result = r.result
BY DEF Records

LEMMA VerifyOK ==
    ASSUME Inv, NEW w \in Workers, Verify(w) PROVE StepOK(w)
BY AdvanceReadOK, ResumedOK, WritingOK, Typed DEF Verify

LEMMA VerifyWriteOK ==
    ASSUME Inv, NEW w \in Workers, VerifyWrite(w) PROVE StepOK(w)
<1>1. act[w].stage = "verifying" /\ act[w].seen.state = "AUTHORIZED"
  BY Typed DEF VerifyWrite, At, ActivationOK
<1>2. PICK n : n = [act[w].seen EXCEPT !.state = "PAYMENT_VERIFIED"]
  OBVIOUS
<1>3. /\ n \in Records /\ n.state = "PAYMENT_VERIFIED"
      /\ n.token = act[w].seen.token /\ n.result = act[w].seen.result
  BY <1>2, StateFields, Typed DEF States
<1>4. RecordOK(n) /\ n.token = NoToken
  BY <1>1, <1>3, Typed DEF RecordOK, Before, Done
<1>5. rec.state = "AUTHORIZED" => LawfulStep(rec, n)
  BY <1>3, <1>4, Typed, RankIs DEF LawfulStep, RecordOK, Before, Done
<1>6. RecordOK(IF rec.state = "AUTHORIZED" THEN n ELSE rec)
  BY <1>4, Typed
<1>7. AdvanceWrite(w, "AUTHORIZED", n, Resumed(w, IF rec.state = "AUTHORIZED" THEN n ELSE rec))
  BY <1>2 DEF VerifyWrite
<1>8. /\ rec.state = "AUTHORIZED"
          => ActivationOK(Resumed(w, IF rec.state = "AUTHORIZED" THEN n ELSE rec), n)
      /\ rec.state # "AUTHORIZED"
          => ActivationOK(Resumed(w, IF rec.state = "AUTHORIZED" THEN n ELSE rec), rec)
  BY <1>6, ResumedOK
<1>9. QED
  BY <1>5, <1>7, <1>8, AdvanceWriteOK, Typed DEF VerifyWrite

LEMMA LeaseReadOK ==
    ASSUME Inv, NEW w \in Workers, LeaseRead(w) PROVE StepOK(w)
<1>1. ActivationOK(Resumed(w, rec), rec)
  BY ResumedOK, Typed
<1>2. Acquirable(rec) => ActivationOK(Reads(w, "leasing"), rec)
  BY WritingOK
<1>3. QED
  BY <1>1, <1>2, Reading DEF LeaseRead, Inv, WorldOK

LEMMA GiveUpOK ==
    ASSUME Inv, NEW w \in Workers, GiveUp(w) PROVE StepOK(w)
BY IdleOK, Reading DEF GiveUp, Inv, WorldOK

Acquired(w, t) ==
    [act[w].seen EXCEPT !.state = "EXECUTION_RESERVED", !.token = t, !.live = TRUE]

\* A fresh token is drawn, and only an expired lease is taken over.
LEMMA AcquireLawful ==
    ASSUME Inv, NEW w \in Workers, act[w].stage = "leasing", NEW t \in Tokens \ InUse,
           StillAcquirable(rec, act[w].seen), NEW n, n = Acquired(w, t)
    PROVE  /\ LawfulStep(rec, n)
           /\ n.state = "EXECUTION_RESERVED" /\ n.token = t /\ n.live
           /\ rec.state = "EXECUTION_RESERVED" => ~rec.live
<1>1. /\ Acquirable(act[w].seen) /\ rec.state = act[w].seen.state
      /\ rec.state \in {"PAYMENT_VERIFIED", "EXECUTION_RESERVED"}
      /\ rec.state = "EXECUTION_RESERVED" => ~rec.live
  BY Typed DEF ActivationOK, StillAcquirable, Acquirable
<1>2. PICK m : m = [act[w].seen EXCEPT !.state = "EXECUTION_RESERVED"]
  OBVIOUS
<1>3. PICK k : k = [m EXCEPT !.token = t]
  OBVIOUS
<1>4. n = [k EXCEPT !.live = TRUE]
  BY <1>2, <1>3 DEF Acquired
<1>5. m \in Records /\ m.state = "EXECUTION_RESERVED" /\ m.result = act[w].seen.result
  BY <1>2, StateFields, Typed DEF States
<1>6. /\ k \in Records /\ k.token = t
      /\ k.state = "EXECUTION_RESERVED" /\ k.result = act[w].seen.result
  BY <1>3, <1>5 DEF Records
<1>7. /\ n \in Records /\ n.token = t /\ n.live = TRUE
      /\ n.state = "EXECUTION_RESERVED" /\ n.result = act[w].seen.result
  BY <1>4, <1>6 DEF Records
<1>8. RecordOK(n)
  BY <1>1, <1>7, Typed, InvocationAssumption DEF RecordOK, Before, Done
<1>9. /\ t # rec.token
      /\ \A v \in Workers : t # act[v].seen.token
  BY DEF InUse
<1>10. rec.token # NoToken => ~rec.live
  BY <1>1, Typed DEF RecordOK, Before
<1>11. QED
  BY <1>1, <1>7, <1>8, <1>9, <1>10, RankIs DEF LawfulStep, Done

LEMMA LeaseWriteOK ==
    ASSUME Inv, NEW w \in Workers, LeaseWrite(w) PROVE StepOK(w)
<1>1. ASSUME NEW t \in Tokens \ InUse, StillAcquirable(rec, act[w].seen),
             rec' = Acquired(w, t),
             Goes(w, [To(w, "execute") EXCEPT !.token = t])
      PROVE  StepOK(w)
  <2>1. LawfulStep(rec, rec')
    BY <1>1, AcquireLawful DEF LeaseWrite, At
  <2>2. PICK q : q = To(w, "execute")
    OBVIOUS
  <2>3. PICK a : a = [q EXCEPT !.token = t]
    OBVIOUS
  <2>4. q \in Activations /\ q.stage = "execute" /\ q.seen = NoRecord
    BY <2>2, ToFields, Typed DEF Stages
  <2>5. a \in Activations /\ a.stage = "execute" /\ a.seen = NoRecord
    BY <2>3, <2>4 DEF Activations
  <2>6. Goes(w, a) /\ ActivationOK(a, rec')
    BY <1>1, <2>2, <2>3, <2>5, FreeOK DEF Free
  <2>7. rec.state \notin Done
    BY <1>1, Typed DEF ActivationOK, StillAcquirable, Acquirable, LeaseWrite, At, Done
  <2>8. QED
    BY <2>1, <2>6, <2>7 DEF StepOK, LeaseWrite, Inv, WorldOK
<1>2. ASSUME Goes(w, Resumed(w, rec)), UNCHANGED rec PROVE StepOK(w)
  BY <1>2, ResumedOK, Typed, Reading DEF LeaseWrite, Inv, WorldOK
<1>3. QED
  BY <1>1, <1>2 DEF LeaseWrite, Acquired

LEMMA ExecuteOK ==
    ASSUME Inv, NEW w \in Workers, Execute(w) PROVE StepOK(w)
<1>1. PICK r \in Results : Goes(w, [To(w, "complete") EXCEPT !.result = r])
  BY DEF Execute
<1>2. PICK q : q = To(w, "complete")
  OBVIOUS
<1>3. PICK a : a = [q EXCEPT !.result = r]
  OBVIOUS
<1>4. q \in Activations /\ q.stage = "complete" /\ q.seen = NoRecord
  BY <1>2, ToFields, Typed DEF Stages
<1>5. a \in Activations /\ a.stage = "complete" /\ a.seen = NoRecord /\ a.result = r
  BY <1>3, <1>4 DEF Activations
<1>6. ActivationOK(a, rec)
  BY <1>5, FreeOK, InvocationAssumption
<1>7. Goes(w, a)
  BY <1>1, <1>2, <1>3
<1>8. QED
  BY <1>6, <1>7, Reading DEF Execute, Inv, WorldOK

LEMMA FinishedOK ==
    ASSUME Inv, NEW w \in Workers, act[w].result # NoResult, rec.state \in Done
    PROVE  ActivationOK(Finished(w, rec), rec)
<1>1. PICK a : a = Finished(w, rec)
  OBVIOUS
<1>2. /\ a \in Activations /\ a.stage \in {"deliver", "pay"} /\ a.seen = NoRecord
      /\ a.result = act[w].result
  BY <1>1, FinishedFields, Typed
<1>3. ActivationOK(a, rec)
  BY <1>2, FreeOK
<1>4. QED
  BY <1>1, <1>3

\* A stage reached by To keeps the result computed.
LEMMA ToOK ==
    ASSUME Inv, NEW w \in Workers, act[w].result # NoResult, NEW r, r.state \in Done,
           NEW stage \in {"pay", "receipt", "settle", "deliver"}
    PROVE  ActivationOK(To(w, stage), r)
<1>1. PICK a : a = To(w, stage)
  OBVIOUS
<1>2. /\ a \in Activations /\ a.stage = stage /\ a.seen = NoRecord
      /\ a.result = act[w].result
  BY <1>1, ToFields, Typed DEF Stages
<1>3. ActivationOK(a, r)
  BY <1>2, FreeOK
<1>4. QED
  BY <1>1, <1>3

LEMMA CompleteReadOK ==
    ASSUME Inv, NEW w \in Workers, CompleteRead(w) PROVE StepOK(w)
<1>0. act[w].result # NoResult
  BY Typed DEF CompleteRead, At, ActivationOK
<1>1. CASE Reached(rec, "EXECUTED") /\ Goes(w, Finished(w, rec)) /\ UNCHANGED failures
  <2>1. ActivationOK(Finished(w, rec), rec)
    BY <1>0, <1>1, FinishedOK, ReachedIs, Typed
  <2>2. QED
    BY <1>1, <2>1, Reading DEF CompleteRead, Inv, WorldOK
<1>2. CASE Owns(w, rec) /\ Goes(w, Reads(w, "completing")) /\ UNCHANGED failures
  <2>1. ActivationOK(Reads(w, "completing"), rec)
    BY <1>0, <1>2, WritingOK DEF Owns
  <2>2. QED
    BY <1>2, <2>1, Reading DEF CompleteRead, Inv, WorldOK
<1>3. CASE Throws(w)
  BY <1>3, ThrowingOK DEF CompleteRead
<1>4. QED
  BY <1>1, <1>2, <1>3 DEF CompleteRead

\* The owner writes its result.
LEMMA CompleteLawful ==
    ASSUME Inv, NEW w \in Workers, act[w].stage = "completing", Owns(w, rec), NEW n,
           n = [act[w].seen EXCEPT !.state = "EXECUTED", !.result = act[w].result]
    PROVE  /\ LawfulStep(rec, n)
           /\ n.state = "EXECUTED" /\ n.result = act[w].result /\ n.result # NoResult
<1>1. /\ act[w].result # NoResult /\ act[w].seen.state = "EXECUTION_RESERVED"
      /\ act[w].seen.token = act[w].token
      /\ rec.state = "EXECUTION_RESERVED" /\ rec.token = act[w].token
  BY Typed DEF ActivationOK, Owns
<1>2. PICK m : m = [act[w].seen EXCEPT !.state = "EXECUTED"]
  OBVIOUS
<1>3. n = [m EXCEPT !.result = act[w].result]
  BY <1>2
<1>4. m \in Records /\ m.state = "EXECUTED" /\ m.token = rec.token
  BY <1>1, <1>2, StateFields, Typed DEF States
<1>5. /\ n \in Records /\ n.state = "EXECUTED" /\ n.token = rec.token
      /\ n.result = act[w].result
  BY <1>3, <1>4, Typed DEF Records
<1>6. RecordOK(n)
  BY <1>1, <1>5, Typed DEF RecordOK, Before, Done
<1>7. QED
  BY <1>1, <1>5, <1>6, RankIs DEF LawfulStep, Done

LEMMA CompleteWriteOK ==
    ASSUME Inv, NEW w \in Workers, CompleteWrite(w) PROVE StepOK(w)
<1>0. act[w].result # NoResult /\ act[w].stage = "completing"
  BY Typed DEF CompleteWrite, At, ActivationOK
<1>1. CASE /\ Owns(w, rec)
           /\ rec' = [act[w].seen EXCEPT !.state = "EXECUTED", !.result = act[w].result]
           /\ Goes(w, To(w, "pay")) /\ UNCHANGED failures
  <2>1. LawfulStep(rec, rec') /\ rec'.state \in Done
    BY <1>0, <1>1, CompleteLawful DEF Done
  <2>2. ActivationOK(To(w, "pay"), rec')
    BY <1>0, <2>1, ToOK
  <2>3. QED
    BY <1>1, <2>1, <2>2 DEF StepOK, CompleteWrite, Inv, WorldOK
<1>2. CASE /\ ~Owns(w, rec) /\ Reached(rec, "EXECUTED")
           /\ Goes(w, Finished(w, rec)) /\ UNCHANGED <<rec, failures>>
  <2>1. ActivationOK(Finished(w, rec), rec)
    BY <1>0, <1>2, FinishedOK, ReachedIs, Typed
  <2>2. QED
    BY <1>2, <2>1, Reading DEF CompleteWrite, Inv, WorldOK
<1>3. CASE Throws(w) /\ UNCHANGED rec
  BY <1>3, ThrowingOK DEF CompleteWrite
<1>4. QED
  BY <1>1, <1>2, <1>3 DEF CompleteWrite

\* What an activation knows once there is a result.
LEMMA Executed ==
    ASSUME Inv, NEW w \in Workers, act[w].stage \in AfterExecution
    PROVE  rec.state \in Done /\ rec.result # NoResult /\ act[w].result # NoResult
BY Typed DEF ActivationOK, RecordOK

LEMMA PayOK ==
    ASSUME Inv, NEW w \in Workers, Pay(w) PROVE StepOK(w)
<1>1. rec.state \in Done /\ act[w].result # NoResult
  BY Executed DEF Pay, At, AfterExecution
<1>2. ActivationOK(To(w, "settle"), rec) /\ ActivationOK(To(w, "receipt"), rec)
  BY <1>1, ToOK
<1>3. LawfulStep(rec, rec')
  BY Stutters, Typed DEF Pay
<1>4. QED
  BY <1>1, <1>2, <1>3 DEF StepOK, Pay, Inv, WorldOK

LEMMA StoreReceiptOK ==
    ASSUME Inv, NEW w \in Workers, StoreReceipt(w) PROVE StepOK(w)
<1>1. rec.state \in Done /\ act[w].result # NoResult
  BY Executed DEF StoreReceipt, At, AfterExecution
<1>2. ActivationOK(To(w, "settle"), rec)
  BY <1>1, ToOK
<1>3. LawfulStep(rec, rec') /\ act[w].result \in Results \cup {NoResult}
  BY Stutters, Typed DEF StoreReceipt
<1>4. QED
  BY <1>1, <1>2, <1>3 DEF StepOK, StoreReceipt, Inv, WorldOK

LEMMA SettleOK ==
    ASSUME Inv, NEW w \in Workers, Settle(w) PROVE StepOK(w)
<1>1. rec.state \in Done /\ act[w].result # NoResult
  BY Executed DEF Settle, At, AfterExecution
<1>2. ActivationOK(To(w, "deliver"), rec)
  BY <1>1, ToOK
<1>3. rec.state = "EXECUTED" => ActivationOK(Reads(w, "settling"), rec)
  BY <1>1, WritingOK
<1>4. QED
  BY <1>2, <1>3, AdvanceReadOK, Typed DEF Settle

LEMMA AnsweredOK ==
    ASSUME Inv, NEW w \in Workers, Answered(w)
    PROVE  answers' \subseteq Results \cup {NoResult}
BY Typed DEF Answered

LEMMA DeliverOK ==
    ASSUME Inv, NEW w \in Workers, Deliver(w) PROVE StepOK(w)
<1>1. act[w].result # NoResult
  BY Executed DEF Deliver, At, AfterExecution
<1>2. rec.state = "PAYMENT_SETTLED" => ActivationOK(Reads(w, "delivering"), rec)
  BY <1>1, WritingOK
<1>3. QED
  BY <1>2, IdleOK, AdvanceReadOK, AnsweredOK DEF Deliver

\* Settling changes the state only, whatever the copy was.
LEMMA SettleLawful ==
    ASSUME Inv, NEW w \in Workers, act[w].stage = "settling", rec.state = "EXECUTED", NEW n,
           n = [act[w].seen EXCEPT !.state = "PAYMENT_SETTLED"]
    PROVE  /\ LawfulStep(rec, n) /\ n.state = "PAYMENT_SETTLED"
           /\ n.result = act[w].seen.result
<1>1. /\ act[w].seen.state = "EXECUTED" /\ act[w].seen.token = rec.token
  BY Typed DEF ActivationOK
<1>2. /\ n \in Records /\ n.state = "PAYMENT_SETTLED" /\ n.token = rec.token
      /\ n.result = act[w].seen.result
  BY <1>1, StateFields, Typed DEF States
<1>3. RecordOK(n)
  BY <1>1, <1>2, Typed DEF RecordOK, Before, Done
<1>4. QED
  BY <1>2, <1>3, RankIs DEF LawfulStep, Done

LEMMA SettleWriteOK ==
    ASSUME Inv, NEW w \in Workers, SettleWrite(w) PROVE StepOK(w)
<1>1. act[w].stage = "settling" /\ act[w].result # NoResult /\ rec.state \in Done
  BY Executed DEF SettleWrite, At, AfterExecution
<1>2. PICK n : n = [act[w].seen EXCEPT !.state = "PAYMENT_SETTLED"]
  OBVIOUS
<1>3. rec.state = "EXECUTED" => LawfulStep(rec, n) /\ n.state \in Done
  BY <1>1, <1>2, SettleLawful DEF Done
<1>4. /\ rec.state = "EXECUTED" => ActivationOK(To(w, "deliver"), n)
      /\ ActivationOK(To(w, "deliver"), rec)
  BY <1>1, <1>3, ToOK
<1>5. AdvanceWrite(w, "EXECUTED", n, To(w, "deliver"))
  BY <1>2 DEF SettleWrite
<1>6. QED
  BY <1>3, <1>4, <1>5, AdvanceWriteOK, Typed DEF SettleWrite

LEMMA DeliverLawful ==
    ASSUME Inv, NEW w \in Workers, act[w].stage = "delivering", rec.state = "PAYMENT_SETTLED",
           NEW n, n = [act[w].seen EXCEPT !.state = "DELIVERED", !.result = act[w].result]
    PROVE  LawfulStep(rec, n) /\ n.state = "DELIVERED" /\ n.result = act[w].result
<1>1. /\ act[w].seen.state = "PAYMENT_SETTLED" /\ act[w].seen.token = rec.token
      /\ act[w].result # NoResult
  BY Typed DEF ActivationOK, AfterExecution
<1>2. PICK m : m = [act[w].seen EXCEPT !.state = "DELIVERED"]
  OBVIOUS
<1>3. n = [m EXCEPT !.result = act[w].result]
  BY <1>2
<1>4. m \in Records /\ m.state = "DELIVERED" /\ m.token = rec.token
  BY <1>1, <1>2, StateFields, Typed DEF States
<1>5. /\ n \in Records /\ n.state = "DELIVERED" /\ n.token = rec.token
      /\ n.result = act[w].result
  BY <1>3, <1>4, Typed DEF Records
<1>6. RecordOK(n)
  BY <1>1, <1>5, Typed DEF RecordOK, Before, Done
<1>7. QED
  BY <1>5, <1>6, RankIs DEF LawfulStep, Done

LEMMA DeliverWriteOK ==
    ASSUME Inv, NEW w \in Workers, DeliverWrite(w) PROVE StepOK(w)
<1>1. act[w].stage = "delivering"
  BY DEF DeliverWrite, At
<1>2. PICK n : n = [act[w].seen EXCEPT !.state = "DELIVERED", !.result = act[w].result]
  OBVIOUS
<1>3. rec.state = "PAYMENT_SETTLED" => LawfulStep(rec, n)
  BY <1>1, <1>2, DeliverLawful
<1>4. AdvanceWrite(w, "PAYMENT_SETTLED", n, Idle)
  BY <1>2 DEF DeliverWrite
<1>5. QED
  BY <1>3, <1>4, IdleOK, AdvanceWriteOK, AnsweredOK DEF DeliverWrite

LEMMA ExpiresOK ==
    ASSUME Inv, LeaseExpires PROVE Inv' /\ LawfulStep(rec, rec')
<1>1. rec.state \in States /\ rec \in Records /\ RecordOK(rec)
  BY DEF Inv, RecordOK, Records
<1>2. /\ rec' \in Records /\ rec'.state = rec.state /\ rec'.token = rec.token
      /\ rec'.result = rec.result /\ rec'.live = FALSE
  BY <1>1 DEF LeaseExpires, Records
<1>3. Rank[rec.state] \in Nat
  BY <1>1, RankIs DEF States
<1>4. LawfulStep(rec, rec') /\ RecordOK(rec')
  BY <1>1, <1>2, <1>3 DEF LawfulStep, RecordOK
<1>5. \A w \in Workers : ActivationOK(act[w], rec')
  BY <1>1, <1>4, OthersKept DEF Inv
<1>6. QED
  BY <1>2, <1>4, <1>5 DEF Inv, LeaseExpires, WorldOK

LEMMA ActivationSteps ==
    ASSUME Inv, NEW w \in Workers, Arrive(w) \/ Work(w) \/ Fail(w) PROVE StepOK(w)
<1>1. CASE Fail(w)
  BY <1>1, ThrowingOK DEF Fail
<1>2. QED
  BY <1>1, ArriveOK, BeginOK, ReplayOK, VerifyOK, VerifyWriteOK, LeaseReadOK, LeaseWriteOK,
     GiveUpOK, ExecuteOK, CompleteReadOK, CompleteWriteOK, PayOK, StoreReceiptOK, SettleOK,
     SettleWriteOK, DeliverOK, DeliverWriteOK DEF Work

LEMMA NextLawful ==
    ASSUME Inv, [Next]_vars PROVE LawfulStep(rec, rec')
<1>1. CASE UNCHANGED vars
  BY <1>1, Stutters DEF Inv, vars
<1>2. CASE LeaseExpires
  BY <1>2, ExpiresOK
<1>3. ASSUME NEW w \in Workers, Arrive(w) \/ Work(w) \/ Fail(w) PROVE LawfulStep(rec, rec')
  BY <1>3, ActivationSteps DEF StepOK
<1>4. QED
  BY <1>1, <1>2, <1>3 DEF Next

LEMMA InvInit == Init => Inv
<1> SUFFICES ASSUME Init PROVE Inv
  OBVIOUS
<1>1. ActivationOK(Idle, NoRecord) /\ Idle \in Activations
  BY IdleOK, IdleFields
<1>2. act \in [Workers -> Activations] /\ \A w \in Workers : ActivationOK(act[w], rec)
  BY <1>1 DEF Init
<1>3. RecordOK(rec) /\ ~(paid \/ receipt # NoResult)
  BY NoRecordOK DEF Init
<1>4. WorldOK
  <2>1. 0 \in 0 .. MaxFailures
    BY InvocationAssumption
  <2>2. receipt = NoResult /\ failures = 0 /\ paid = FALSE /\ answers = {}
    BY DEF Init
  <2>3. QED
    BY <2>1, <2>2 DEF WorldOK
<1>5. QED
  BY <1>2, <1>3, <1>4 DEF Inv

LEMMA InvNext ==
    ASSUME Inv, [Next]_vars PROVE Inv'
<1>1. CASE UNCHANGED vars
  BY <1>1 DEF Inv, vars, WorldOK
<1>2. CASE LeaseExpires
  BY <1>2, ExpiresOK
<1>3. ASSUME NEW w \in Workers, Arrive(w) \/ Work(w) \/ Fail(w) PROVE Inv'
  BY <1>3, ActivationSteps, StepKeepsInv
<1>4. QED
  BY <1>1, <1>2, <1>3 DEF Next

\* However activations interleave, the invariant holds.
THEOREM Invariant == Spec => []Inv
<1>1. Inv /\ [Next]_vars => Inv'
  BY InvNext
<1>2. QED
  BY InvInit, <1>1, PTL DEF Spec

\* The record, the receipt and the activations keep their types.
THEOREM TypeCorrect == Spec => []TypeOK
<1>1. Inv => TypeOK
  BY DEF Inv, TypeOK, WorldOK, RecordOK, ActivationOK, AfterExecution, Activations
<1>2. QED
  BY Invariant, <1>1, PTL

\* The payer is charged, and a receipt is written, only for an invocation whose result is
\* durable: paymentSettlement comes after completeInvocation in every activation, and no
\* later write, made from whatever copy, takes the result away.
THEOREM DurableBeforePaid == Spec => []PaidResultIsDurable
<1>1. Inv => PaidResultIsDurable
  <2>1. SUFFICES ASSUME Inv, paid \/ receipt # NoResult PROVE PaidResultIsDurable
    BY DEF PaidResultIsDurable
  <2>2. rec.state \in Done /\ rec.state \in States /\ rec.result # NoResult
    BY <2>1 DEF Inv, RecordOK, Records
  <2>3. QED
    BY <2>2, ReachedIs DEF PaidResultIsDurable
<1>2. QED
  BY Invariant, <1>1, PTL

\* A write never takes the invocation back to an earlier state: the copies written back are
\* compared on the state they were read in.
THEOREM NeverBack == Spec => StatesOnlyAdvance
<1>1. Inv /\ [Next]_vars => [Rank[rec'.state] >= Rank[rec.state]]_vars
  BY NextLawful DEF LawfulStep
<1>2. QED
  BY Invariant, <1>1, PTL DEF Spec, StatesOnlyAdvance

\* A lease is taken over only after it expired, although acquireExecutionLease decides on a
\* copy of the record read some steps before.
THEOREM TakenOverExpired == Spec => TakeoverOnlyExpired
<1>1. Inv /\ [Next]_vars
        => [rec.token # NoToken /\ rec'.token # rec.token => ~rec.live]_vars
  BY NextLawful DEF LawfulStep
<1>2. QED
  BY Invariant, <1>1, PTL DEF Spec, TakeoverOnlyExpired

-----------------------------------------------------------------------------
(***************************************************************************)
(* Executions that end within their lease: one at a time, one result       *)
(***************************************************************************)
Executing == {"execute", "complete", "completing"}

\* While an activation executes it holds the live lease; after it, its result is the one on
\* record, and so is that of the copy it is about to write back.
TimelyActivation(a, r) ==
    /\ a.stage \in Executing =>
          r.state = "EXECUTION_RESERVED" /\ r.token = a.token /\ r.live
    /\ a.stage \in AfterExecution => a.result = r.result
    /\ a.stage \in {"settling", "delivering"} => a.seen.result = r.result

NoOtherExecutes(w) == \A v \in Workers : v # w => act[v].stage \notin Executing

TimelyInv ==
    /\ Inv
    /\ \A w \in Workers : TimelyActivation(act[w], rec)
    /\ \A w \in Workers : act[w].stage \in Executing => NoOtherExecutes(w)
    /\ ReceiptAgrees

RegisterStep == [Register!Next]_<<rec.result, paid, answers>>

TimelyStep(w) ==
    /\ \E a : /\ Goes(w, a) /\ TimelyActivation(a, rec')
              /\ a.stage \in Executing => NoOtherExecutes(w)
    /\ \A v \in Workers : v # w => TimelyActivation(act[v], rec')
    /\ ReceiptAgrees'
    /\ RegisterStep

LEMMA TimelyTyped ==
    ASSUME TimelyInv, NEW w \in Workers
    PROVE  /\ Inv /\ ActivationOK(act[w], rec) /\ act[w] \in Activations
           /\ RecordOK(rec) /\ rec \in Records /\ rec.state \in States
           /\ TimelyActivation(act[w], rec)
           /\ act[w].stage \in Executing => NoOtherExecutes(w)
BY Typed DEF TimelyInv

LEMMA StepKeepsTimely ==
    ASSUME TimelyInv, NEW w \in Workers, Inv', TimelyStep(w) PROVE TimelyInv'
<1>1. PICK a : /\ Goes(w, a) /\ TimelyActivation(a, rec')
               /\ a.stage \in Executing => NoOtherExecutes(w)
  BY DEF TimelyStep
<1>2. act'[w] = a /\ \A v \in Workers : v # w => act'[v] = act[v]
  BY <1>1 DEF Goes, TimelyInv, Inv
<1>3. ASSUME NEW v \in Workers PROVE TimelyActivation(act'[v], rec')
  <2>1. CASE v = w
    BY <2>1, <1>1, <1>2
  <2>2. CASE v # w
    <3>1. TimelyActivation(act[v], rec')
      BY <2>2 DEF TimelyStep
    <3>2. QED
      BY <2>2, <3>1, <1>2
  <2>3. QED
    BY <2>1, <2>2
<1>4. ASSUME NEW u \in Workers, act'[u].stage \in Executing, NEW v \in Workers, v # u
      PROVE  act'[v].stage \notin Executing
  BY <1>1, <1>2, <1>4 DEF NoOtherExecutes, TimelyInv
<1>5. ReceiptAgrees'
  BY DEF TimelyStep
<1>6. QED
  BY <1>3, <1>4, <1>5 DEF TimelyInv, NoOtherExecutes

\* The abstract steps: nothing, a charge or an answer; a decision.
LEMMA QuietStep ==
    ASSUME rec'.result = rec.result,
           \/ UNCHANGED <<paid, answers>>
           \/ rec.result # NoResult /\ paid' = TRUE /\ answers' = answers
           \/ rec.result # NoResult /\ paid' = paid /\ answers' = answers \cup {rec.result}
    PROVE  RegisterStep
BY DEF RegisterStep, Register!Next, Register!Charge, Register!Answer, Register!Decide

LEMMA DecidingStep ==
    ASSUME rec.result = NoResult, rec'.result \in Results, UNCHANGED <<paid, answers>>
    PROVE  RegisterStep
BY DEF RegisterStep, Register!Next, Register!Decide

\* A step that leaves the record alone.
LEMMA TimelyReading ==
    ASSUME TimelyInv, NEW w \in Workers, NEW a, Goes(w, a), TimelyActivation(a, rec),
           a.stage \in Executing => act[w].stage \in Executing, rec' = rec,
           receipt' = receipt \/ receipt' = rec.result,
           \/ UNCHANGED <<paid, answers>>
           \/ rec.result # NoResult /\ paid' = TRUE /\ answers' = answers
           \/ rec.result # NoResult /\ paid' = paid /\ answers' = answers \cup {rec.result}
    PROVE  TimelyStep(w)
<1>1. RegisterStep
  BY QuietStep
<1>2. ReceiptAgrees'
  BY DEF ReceiptAgrees, TimelyInv
<1>3. TimelyActivation(a, rec') /\ (a.stage \in Executing => NoOtherExecutes(w))
  BY TimelyTyped
<1>4. \A v \in Workers : TimelyActivation(act[v], rec')
  BY DEF TimelyInv
<1>5. QED
  BY <1>1, <1>2, <1>3, <1>4 DEF TimelyStep

\* A write before there is a result.
LEMMA EarlyWrite ==
    ASSUME TimelyInv, NEW w \in Workers, NEW a, Goes(w, a), TimelyActivation(a, rec'),
           rec.state \notin Done, NoOtherExecutes(w), UNCHANGED <<receipt, paid, answers>>,
           rec'.result \in Results \cup {NoResult}
    PROVE  TimelyStep(w)
<1>1. rec.result = NoResult /\ receipt = NoResult
  BY TimelyTyped DEF RecordOK, Inv
<1>2. RegisterStep
  BY <1>1, QuietStep, DecidingStep
<1>3. ReceiptAgrees'
  BY <1>1 DEF ReceiptAgrees
<1>4. ASSUME NEW v \in Workers, v # w PROVE TimelyActivation(act[v], rec')
  <2>1. act[v].stage \notin Executing \cup AfterExecution
    BY <1>4, TimelyTyped DEF NoOtherExecutes, ActivationOK
  <2>2. QED
    BY <2>1 DEF TimelyActivation, AfterExecution
<1>5. QED
  BY <1>2, <1>3, <1>4 DEF TimelyStep

\* A write that keeps the result.
LEMMA LateWrite ==
    ASSUME TimelyInv, NEW w \in Workers, NEW a, Goes(w, a), TimelyActivation(a, rec'),
           a.stage \notin Executing, rec.state \in Done, rec'.result = rec.result,
           UNCHANGED <<receipt, paid>>,
           \/ UNCHANGED answers
           \/ answers' = answers \cup {rec.result}
    PROVE  TimelyStep(w)
<1>1. rec.result # NoResult
  BY TimelyTyped DEF RecordOK
<1>2. RegisterStep
  BY <1>1, QuietStep
<1>3. ReceiptAgrees'
  BY DEF ReceiptAgrees, TimelyInv
<1>4. ASSUME NEW v \in Workers, v # w PROVE TimelyActivation(act[v], rec')
  <2>1. act[v].stage \notin Executing
    BY TimelyTyped DEF TimelyActivation, Done
  <2>2. QED
    BY <2>1, TimelyTyped DEF TimelyActivation
<1>5. QED
  BY <1>2, <1>3, <1>4 DEF TimelyStep

\* Stages before and after the execution.
LEMMA TimelyElsewhere ==
    ASSUME NEW a, NEW r, a.stage \notin Executing,
           a.stage \in AfterExecution => a.result = r.result,
           a.stage \in {"settling", "delivering"} => a.seen.result = r.result
    PROVE  TimelyActivation(a, r)
BY DEF TimelyActivation

LEMMA TimelyIdle == \A r : TimelyActivation(Idle, r) /\ Idle.stage \notin Executing
BY IdleFields, TimelyElsewhere DEF Executing, AfterExecution

LEMMA TimelyResumed ==
    ASSUME TimelyInv, NEW w \in Workers, NEW r, RecordOK(r), NEW s, s.result = r.result
    PROVE  TimelyActivation(Resumed(w, r), s) /\ Resumed(w, r).stage \notin Executing
<1>1. PICK a : a = Resumed(w, r)
  OBVIOUS
<1>2. a.stage = "lease" \/ (a.stage \in {"deliver", "pay"} /\ a.result = r.result)
  BY <1>1, ResumedFields, TimelyTyped
<1>3. a.stage \notin Executing /\ TimelyActivation(a, s)
  BY <1>2, TimelyElsewhere DEF Executing, AfterExecution
<1>4. QED
  BY <1>1, <1>3

\* An activation past its execution takes its result along.
LEMMA TimelyTo ==
    ASSUME TimelyInv, NEW w \in Workers, NEW r, act[w].result = r.result,
           NEW stage \in Stages \ (Executing \cup {"settling", "delivering"})
    PROVE  TimelyActivation(To(w, stage), r) /\ To(w, stage).stage \notin Executing
<1>1. PICK a : a = To(w, stage)
  OBVIOUS
<1>2. a.stage = stage /\ a.result = act[w].result
  BY <1>1, ToFields, TimelyTyped
<1>3. a.stage \notin Executing /\ TimelyActivation(a, r)
  BY <1>2, TimelyElsewhere
<1>4. QED
  BY <1>1, <1>3

LEMMA TimelyThrow ==
    ASSUME TimelyInv, NEW w \in Workers, Throws(w), UNCHANGED <<rec, receipt, paid, answers>>
    PROVE  TimelyStep(w)
BY TimelyReading, TimelyIdle DEF Throws

LEMMA TimelyReads ==
    ASSUME TimelyInv, NEW w \in Workers, NEW stage,
           stage \in {"settling", "delivering"} => act[w].result = rec.result,
           stage \in {"verifying", "leasing", "settling", "delivering"}
    PROVE  TimelyActivation(Reads(w, stage), rec) /\ Reads(w, stage).stage \notin Executing
<1>1. PICK a : a = Reads(w, stage)
  OBVIOUS
<1>2. a.stage = stage /\ a.result = act[w].result /\ a.seen = rec
  BY <1>1, ReadsFields, TimelyTyped DEF Stages
<1>3. a.stage \notin Executing /\ TimelyActivation(a, rec)
  BY <1>2, TimelyElsewhere DEF Executing, AfterExecution
<1>4. QED
  BY <1>1, <1>3

LEMMA TimelyAdvanceRead ==
    ASSUME TimelyInv, NEW w \in Workers, NEW from, NEW to, NEW writing, NEW handed,
           AdvanceRead(w, from, to, writing, handed), UNCHANGED <<rec, receipt, paid, answers>>,
           TimelyActivation(handed, rec), handed.stage \notin Executing,
           rec.state = from => /\ TimelyActivation(Reads(w, writing), rec)
                               /\ Reads(w, writing).stage \notin Executing
    PROVE  TimelyStep(w)
<1>1. CASE Goes(w, handed)
  BY <1>1, TimelyReading
<1>2. CASE rec.state = from /\ Goes(w, Reads(w, writing))
  BY <1>2, TimelyReading
<1>3. CASE Throws(w)
  BY <1>3, TimelyThrow
<1>4. QED
  BY <1>1, <1>2, <1>3 DEF AdvanceRead

LEMMA TimelyArrive ==
    ASSUME TimelyInv, NEW w \in Workers, Arrive(w) PROVE TimelyStep(w)
<1>1. PICK a : a = [Idle EXCEPT !.stage = "begin", !.known = receipt]
  OBVIOUS
<1>2. a.stage = "begin"
  BY <1>1 DEF Idle
<1>3. TimelyActivation(a, rec) /\ a.stage \notin Executing
  BY <1>2, TimelyElsewhere DEF Executing, AfterExecution
<1>4. QED
  BY <1>1, <1>3, TimelyReading DEF Arrive

LEMMA TimelyBegin ==
    ASSUME TimelyInv, NEW w \in Workers, Begin(w) PROVE TimelyStep(w)
<1>1. PICK a : a = To(w, "verify")
  OBVIOUS
<1>2. a.stage = "verify"
  BY <1>1, ToFields, TimelyTyped DEF Stages
<1>3. a.stage \notin Executing /\ TimelyActivation(a, rec) /\ TimelyActivation(a, rec')
  BY <1>2, TimelyElsewhere DEF Executing, AfterExecution
<1>4. CASE rec.state = "ABSENT"
  <2>1. rec'.result = NoResult
    BY <1>4 DEF Begin, NoRecord
  <2>2. rec.state \notin Done
    BY <1>4 DEF Done
  <2>3. NoOtherExecutes(w)
    BY <1>4, TimelyTyped DEF NoOtherExecutes, TimelyActivation
  <2>4. QED
    BY <1>1, <1>3, <2>1, <2>2, <2>3, EarlyWrite DEF Begin
<1>5. CASE rec.state # "ABSENT"
  BY <1>1, <1>3, <1>5, TimelyReading DEF Begin
<1>6. QED
  BY <1>4, <1>5

LEMMA TimelyReplay ==
    ASSUME TimelyInv, NEW w \in Workers, Replay(w) PROVE TimelyStep(w)
<1>1. rec.result # NoResult
  BY TimelyTyped DEF Replay, RecordOK, Done
<1>2. QED
  BY <1>1, TimelyIdle, TimelyReading DEF Replay

LEMMA TimelyVerify ==
    ASSUME TimelyInv, NEW w \in Workers, Verify(w) PROVE TimelyStep(w)
<1>1. TimelyActivation(Resumed(w, rec), rec) /\ Resumed(w, rec).stage \notin Executing
  BY TimelyResumed, TimelyTyped
<1>2. /\ TimelyActivation(Reads(w, "verifying"), rec)
      /\ Reads(w, "verifying").stage \notin Executing
  BY TimelyReads
<1>3. QED
  BY <1>1, <1>2, TimelyAdvanceRead DEF Verify

\* Nobody executes unless the invocation is reserved.
LEMMA NoneExecutes ==
    ASSUME TimelyInv, NEW w \in Workers,
           rec.state = "EXECUTION_RESERVED" => ~rec.live
    PROVE  NoOtherExecutes(w)
BY TimelyTyped DEF NoOtherExecutes, TimelyActivation

LEMMA TimelyVerifyWrite ==
    ASSUME TimelyInv, NEW w \in Workers, VerifyWrite(w) PROVE TimelyStep(w)
<1>1. act[w].seen.state = "AUTHORIZED" /\ RecordOK(act[w].seen)
  BY TimelyTyped DEF VerifyWrite, At, ActivationOK
<1>2. PICK n : n = [act[w].seen EXCEPT !.state = "PAYMENT_VERIFIED"]
  OBVIOUS
<1>3. /\ n \in Records /\ n.state = "PAYMENT_VERIFIED"
      /\ n.token = act[w].seen.token /\ n.result = act[w].seen.result
  BY <1>1, <1>2, StateFields DEF States, RecordOK
<1>4. RecordOK(n)
  BY <1>1, <1>3 DEF RecordOK, Before, Done
<1>5. CASE /\ rec.state = "AUTHORIZED" /\ rec' = n
           /\ Goes(w, Resumed(w, n)) /\ UNCHANGED failures
  <2>1. TimelyActivation(Resumed(w, n), rec')
    BY <1>4, <1>5, TimelyResumed
  <2>2. NoOtherExecutes(w) /\ rec.state \notin Done
    BY <1>5, NoneExecutes DEF Done
  <2>3. rec'.result \in Results \cup {NoResult}
    BY <1>3, <1>5 DEF Records
  <2>4. QED
    BY <1>5, <2>1, <2>2, <2>3, EarlyWrite DEF VerifyWrite
<1>6. CASE Goes(w, Resumed(w, rec)) /\ UNCHANGED <<rec, failures>>
  BY <1>6, TimelyResumed, TimelyTyped, TimelyReading DEF VerifyWrite
<1>7. CASE Throws(w) /\ UNCHANGED rec
  BY <1>7, TimelyThrow DEF VerifyWrite
<1>8. QED
  BY <1>2, <1>5, <1>6, <1>7 DEF VerifyWrite, AdvanceWrite

LEMMA TimelyLeaseRead ==
    ASSUME TimelyInv, NEW w \in Workers, LeaseRead(w) PROVE TimelyStep(w)
<1>1. CASE Goes(w, Resumed(w, rec))
  BY <1>1, TimelyResumed, TimelyTyped, TimelyReading DEF LeaseRead
<1>2. CASE Goes(w, Reads(w, "leasing"))
  <2>1. TimelyActivation(Reads(w, "leasing"), rec) /\ Reads(w, "leasing").stage \notin Executing
    BY TimelyReads
  <2>2. QED
    BY <1>2, <2>1, TimelyReading DEF LeaseRead
<1>3. QED
  BY <1>1, <1>2 DEF LeaseRead

LEMMA TimelyGiveUp ==
    ASSUME TimelyInv, NEW w \in Workers, GiveUp(w) PROVE TimelyStep(w)
BY TimelyIdle, TimelyReading DEF GiveUp

\* A lease is acquired only when no activation executes.
LEMMA TimelyLeaseWrite ==
    ASSUME TimelyInv, NEW w \in Workers, LeaseWrite(w) PROVE TimelyStep(w)
<1>1. ASSUME NEW t \in Tokens \ InUse, StillAcquirable(rec, act[w].seen),
             rec' = Acquired(w, t),
             Goes(w, [To(w, "execute") EXCEPT !.token = t])
      PROVE  TimelyStep(w)
  <2>1. /\ LawfulStep(rec, rec')
        /\ rec'.state = "EXECUTION_RESERVED" /\ rec'.token = t /\ rec'.live
        /\ rec.state = "EXECUTION_RESERVED" => ~rec.live
    <3>1. act[w].stage = "leasing" /\ Inv
      BY DEF LeaseWrite, At, TimelyInv
    <3>2. QED
      BY <1>1, <3>1, AcquireLawful
  <2>2. PICK q : q = To(w, "execute")
    OBVIOUS
  <2>3. PICK a : a = [q EXCEPT !.token = t]
    OBVIOUS
  <2>4. q \in Activations /\ q.stage = "execute"
    BY <2>2, ToFields, TimelyTyped DEF Stages
  <2>5. a.stage = "execute" /\ a.token = t
    BY <2>3, <2>4 DEF Activations
  <2>6. TimelyActivation(a, rec')
    BY <2>1, <2>5 DEF TimelyActivation, AfterExecution
  <2>7. NoOtherExecutes(w)
    BY <2>1, NoneExecutes
  <2>8. rec.state \notin Done
    BY <1>1, TimelyTyped DEF ActivationOK, StillAcquirable, Acquirable, LeaseWrite, At, Done
  <2>9. rec'.result \in Results \cup {NoResult}
    BY <2>1 DEF LawfulStep, RecordOK, Records
  <2>10. Goes(w, a)
    BY <1>1, <2>2, <2>3
  <2>11. QED
    BY <2>6, <2>7, <2>8, <2>9, <2>10, EarlyWrite DEF LeaseWrite
<1>2. ASSUME Goes(w, Resumed(w, rec)), UNCHANGED rec PROVE TimelyStep(w)
  BY <1>2, TimelyResumed, TimelyTyped, TimelyReading DEF LeaseWrite
<1>3. QED
  BY <1>1, <1>2 DEF LeaseWrite, Acquired

LEMMA TimelyExecute ==
    ASSUME TimelyInv, NEW w \in Workers, Execute(w) PROVE TimelyStep(w)
<1>1. PICK r \in Results : Goes(w, [To(w, "complete") EXCEPT !.result = r])
  BY DEF Execute
<1>2. PICK q : q = To(w, "complete")
  OBVIOUS
<1>3. PICK a : a = [q EXCEPT !.result = r]
  OBVIOUS
<1>4. q \in Activations /\ q.stage = "complete" /\ q.token = act[w].token
  BY <1>2, ToFields, TimelyTyped DEF Stages
<1>5. a.stage = "complete" /\ a.token = act[w].token
  BY <1>3, <1>4 DEF Activations
<1>6. act[w].stage = "execute"
  BY DEF Execute, At
<1>7. TimelyActivation(a, rec)
  BY <1>5, <1>6, TimelyTyped DEF TimelyActivation, Executing, AfterExecution
<1>8. Goes(w, a) /\ act[w].stage \in Executing
  BY <1>1, <1>2, <1>3, <1>6 DEF Executing
<1>9. QED
  BY <1>7, <1>8, TimelyReading DEF Execute

\* The executing activation still owns the record: no other result is there.
LEMMA StillOwner ==
    ASSUME TimelyInv, NEW w \in Workers, act[w].stage \in Executing
    PROVE  Owns(w, rec) /\ ~Reached(rec, "EXECUTED") /\ rec.state \notin Done
           /\ rec.live /\ NoOtherExecutes(w)
BY TimelyTyped, ReachedIs DEF Owns, TimelyActivation, Done

LEMMA TimelyCompleteRead ==
    ASSUME TimelyInv, NEW w \in Workers, CompleteRead(w) PROVE TimelyStep(w)
<1>1. act[w].stage \in Executing
  BY DEF CompleteRead, At, Executing
<1>2. ~Reached(rec, "EXECUTED")
  BY <1>1, StillOwner
<1>3. CASE Goes(w, Reads(w, "completing"))
  <2>1. PICK a : a = Reads(w, "completing")
    OBVIOUS
  <2>2. a.stage = "completing" /\ a.token = act[w].token
    BY <2>1, ReadsFields, TimelyTyped DEF Stages
  <2>3. TimelyActivation(a, rec)
    BY <1>1, <2>2, TimelyTyped DEF TimelyActivation, AfterExecution
  <2>4. QED
    BY <1>1, <1>3, <2>1, <2>3, TimelyReading DEF CompleteRead
<1>4. CASE Throws(w)
  BY <1>4, TimelyThrow DEF CompleteRead
<1>5. QED
  BY <1>2, <1>3, <1>4 DEF CompleteRead

LEMMA TimelyCompleteWrite ==
    ASSUME TimelyInv, NEW w \in Workers, CompleteWrite(w) PROVE TimelyStep(w)
<1>1. act[w].stage = "completing" /\ act[w].stage \in Executing
  BY DEF CompleteWrite, At, Executing
<1>2. Owns(w, rec) /\ rec.state \notin Done /\ NoOtherExecutes(w)
  BY <1>1, StillOwner
<1>3. rec' = [act[w].seen EXCEPT !.state = "EXECUTED", !.result = act[w].result]
      /\ Goes(w, To(w, "pay"))
  BY <1>2 DEF CompleteWrite
<1>4. LawfulStep(rec, rec') /\ rec'.result = act[w].result
  BY <1>1, <1>2, <1>3, CompleteLawful, TimelyTyped
<1>5. TimelyActivation(To(w, "pay"), rec')
  BY <1>4, TimelyTo DEF Stages, Executing
<1>6. rec'.result \in Results \cup {NoResult}
  BY <1>4 DEF LawfulStep, RecordOK, Records
<1>7. QED
  BY <1>2, <1>3, <1>5, <1>6, EarlyWrite DEF CompleteWrite

\* Past its execution an activation and the record agree.
LEMMA OneResultKnown ==
    ASSUME TimelyInv, NEW w \in Workers, act[w].stage \in AfterExecution
    PROVE  /\ act[w].result = rec.result /\ rec.result # NoResult /\ rec.state \in Done
           /\ act[w].stage \in {"settling", "delivering"} => act[w].seen.result = rec.result
BY TimelyTyped, Executed DEF TimelyActivation

LEMMA TimelyPay ==
    ASSUME TimelyInv, NEW w \in Workers, Pay(w) PROVE TimelyStep(w)
<1>1. act[w].result = rec.result /\ rec.result # NoResult
  BY OneResultKnown DEF Pay, At, AfterExecution
<1>2. \A stage \in {"settle", "receipt"} :
         TimelyActivation(To(w, stage), rec) /\ To(w, stage).stage \notin Executing
  BY <1>1, TimelyTo DEF Stages, Executing
<1>3. QED
  BY <1>1, <1>2, TimelyReading DEF Pay

LEMMA TimelyStoreReceipt ==
    ASSUME TimelyInv, NEW w \in Workers, StoreReceipt(w) PROVE TimelyStep(w)
<1>1. act[w].result = rec.result
  BY OneResultKnown DEF StoreReceipt, At, AfterExecution
<1>2. TimelyActivation(To(w, "settle"), rec) /\ To(w, "settle").stage \notin Executing
  BY <1>1, TimelyTo DEF Stages, Executing
<1>3. QED
  BY <1>1, <1>2, TimelyReading DEF StoreReceipt

LEMMA TimelySettle ==
    ASSUME TimelyInv, NEW w \in Workers, Settle(w) PROVE TimelyStep(w)
<1>1. act[w].result = rec.result
  BY OneResultKnown DEF Settle, At, AfterExecution
<1>2. TimelyActivation(To(w, "deliver"), rec) /\ To(w, "deliver").stage \notin Executing
  BY <1>1, TimelyTo DEF Stages, Executing
<1>3. TimelyActivation(Reads(w, "settling"), rec) /\ Reads(w, "settling").stage \notin Executing
  BY <1>1, TimelyReads
<1>4. QED
  BY <1>2, <1>3, TimelyAdvanceRead DEF Settle

LEMMA TimelySettleWrite ==
    ASSUME TimelyInv, NEW w \in Workers, SettleWrite(w) PROVE TimelyStep(w)
<1>1. /\ act[w].stage = "settling" /\ act[w].result = rec.result /\ rec.state \in Done
      /\ act[w].seen.result = rec.result /\ Inv
  BY OneResultKnown DEF SettleWrite, At, AfterExecution, TimelyInv
<1>2. PICK n : n = [act[w].seen EXCEPT !.state = "PAYMENT_SETTLED"]
  OBVIOUS
<1>3. \A r : r.result = rec.result =>
         TimelyActivation(To(w, "deliver"), r) /\ To(w, "deliver").stage \notin Executing
  BY <1>1, TimelyTo DEF Stages, Executing
<1>4. CASE /\ rec.state = "EXECUTED" /\ rec' = n
           /\ Goes(w, To(w, "deliver")) /\ UNCHANGED failures
  <2>1. n.result = rec.result
    BY <1>1, <1>2, <1>4, SettleLawful
  <2>2. rec'.result = rec.result
    BY <1>4, <2>1
  <2>3. QED
    BY <1>1, <1>3, <1>4, <2>2, LateWrite DEF SettleWrite
<1>5. CASE Goes(w, To(w, "deliver")) /\ UNCHANGED <<rec, failures>>
  BY <1>3, <1>5, TimelyReading DEF SettleWrite
<1>6. CASE Throws(w) /\ UNCHANGED rec
  BY <1>6, TimelyThrow DEF SettleWrite
<1>7. QED
  BY <1>2, <1>4, <1>5, <1>6 DEF SettleWrite, AdvanceWrite

\* What an activation answers is the result on record.
LEMMA AnswersRecorded ==
    ASSUME NEW w \in Workers, Answered(w), act[w].result = rec.result
    PROVE  UNCHANGED answers \/ answers' = answers \cup {rec.result}
BY DEF Answered

LEMMA TimelyDeliver ==
    ASSUME TimelyInv, NEW w \in Workers, Deliver(w) PROVE TimelyStep(w)
<1>1. act[w].result = rec.result /\ rec.result # NoResult
  BY OneResultKnown DEF Deliver, At, AfterExecution
<1>2. UNCHANGED answers \/ answers' = answers \cup {rec.result}
  BY <1>1, AnswersRecorded DEF Deliver
<1>3. /\ TimelyActivation(Reads(w, "delivering"), rec)
      /\ Reads(w, "delivering").stage \notin Executing
  BY <1>1, TimelyReads
<1>4. Goes(w, Idle) \/ Goes(w, Reads(w, "delivering"))
  BY DEF Deliver, AdvanceRead, Throws
<1>5. QED
  BY <1>1, <1>2, <1>3, <1>4, TimelyIdle, TimelyReading DEF Deliver

LEMMA TimelyDeliverWrite ==
    ASSUME TimelyInv, NEW w \in Workers, DeliverWrite(w) PROVE TimelyStep(w)
<1>1. /\ act[w].stage = "delivering" /\ act[w].result = rec.result /\ rec.result # NoResult
      /\ rec.state \in Done /\ Inv
  BY OneResultKnown DEF DeliverWrite, At, AfterExecution, TimelyInv
<1>2. UNCHANGED answers \/ answers' = answers \cup {rec.result}
  BY <1>1, AnswersRecorded DEF DeliverWrite
<1>3. PICK n : n = [act[w].seen EXCEPT !.state = "DELIVERED", !.result = act[w].result]
  OBVIOUS
<1>4. CASE rec.state = "PAYMENT_SETTLED" /\ rec' = n /\ Goes(w, Idle)
  <2>1. n.result = rec.result
    BY <1>1, <1>3, <1>4, DeliverLawful
  <2>2. rec'.result = rec.result
    BY <1>4, <2>1
  <2>3. QED
    BY <1>1, <1>2, <1>4, <2>2, TimelyIdle, LateWrite DEF DeliverWrite
<1>5. CASE Goes(w, Idle) /\ UNCHANGED rec
  BY <1>1, <1>2, <1>5, TimelyIdle, TimelyReading DEF DeliverWrite
<1>6. QED
  BY <1>3, <1>4, <1>5 DEF DeliverWrite, AdvanceWrite, Throws

LEMMA TimelySteps ==
    ASSUME TimelyInv, NEW w \in Workers, Arrive(w) \/ Work(w) \/ Fail(w)
    PROVE  TimelyStep(w)
<1>1. CASE Fail(w)
  BY <1>1, TimelyThrow DEF Fail
<1>2. QED
  BY <1>1, TimelyArrive, TimelyBegin, TimelyReplay, TimelyVerify, TimelyVerifyWrite,
     TimelyLeaseRead, TimelyLeaseWrite, TimelyGiveUp, TimelyExecute, TimelyCompleteRead,
     TimelyCompleteWrite, TimelyPay, TimelyStoreReceipt, TimelySettle, TimelySettleWrite,
     TimelyDeliver, TimelyDeliverWrite DEF Work

\* A lease expires only while nobody executes.
LEMMA TimelyExpires ==
    ASSUME Timely, TimelyInv, LeaseExpires PROVE TimelyInv' /\ RegisterStep
<1>1. rec \in Records /\ rec.state = "EXECUTION_RESERVED" /\ Inv
  BY DEF LeaseExpires, TimelyInv, Inv, RecordOK
<1>2. rec'.result = rec.result
  BY <1>1 DEF LeaseExpires, Records
<1>3. ASSUME NEW w \in Workers PROVE act[w].stage \notin Executing
  BY StillOwner DEF LeaseExpires, Using, Executing
<1>4. \A w \in Workers : TimelyActivation(act[w], rec')
  BY <1>2, <1>3, TimelyTyped DEF TimelyActivation
<1>5. Inv' /\ act' = act /\ ReceiptAgrees'
  BY <1>1, <1>2, ExpiresOK DEF LeaseExpires, ReceiptAgrees, TimelyInv
<1>6. RegisterStep
  BY <1>2, QuietStep DEF LeaseExpires
<1>7. QED
  BY <1>3, <1>4, <1>5, <1>6 DEF TimelyInv

LEMMA TimelyInit == Init => TimelyInv
<1> SUFFICES ASSUME Init PROVE TimelyInv
  OBVIOUS
<1>1. \A w \in Workers : act[w] = Idle
  BY DEF Init
<1>2. ReceiptAgrees
  BY DEF Init, ReceiptAgrees
<1>3. QED
  BY <1>1, <1>2, InvInit, TimelyIdle DEF TimelyInv

LEMMA TimelyNext ==
    ASSUME Timely, TimelyInv, [Next]_vars PROVE TimelyInv' /\ RegisterStep
<1>1. CASE UNCHANGED vars
  <2>1. RegisterStep
    BY <1>1, QuietStep DEF vars
  <2>2. TimelyInv'
    BY <1>1, InvNext DEF vars, TimelyInv, TimelyActivation, NoOtherExecutes, ReceiptAgrees
  <2>3. QED
    BY <2>1, <2>2
<1>2. CASE LeaseExpires
  BY <1>2, TimelyExpires
<1>3. ASSUME NEW w \in Workers, Arrive(w) \/ Work(w) \/ Fail(w)
      PROVE  TimelyInv' /\ RegisterStep
  <2>1. TimelyStep(w) /\ Inv'
    BY <1>3, TimelySteps, InvNext DEF TimelyInv
  <2>2. QED
    BY <2>1, StepKeepsTimely DEF TimelyStep
<1>4. QED
  BY <1>1, <1>2, <1>3 DEF Next

-----------------------------------------------------------------------------
(***************************************************************************)
(* The two regimes                                                         *)
(***************************************************************************)
\* The durable invocation keeps the result it was executed with, when executions end within
\* their lease (it does not otherwise: the run InvocationLateResult).
THEOREM FinalResult == ASSUME Timely PROVE Spec => ResultIsFinal
<1>1. TimelyInv /\ [Next]_vars => TimelyInv'
  BY TimelyNext
<1>2. TimelyInv /\ [Next]_vars => [Reached(rec, "EXECUTED") => rec'.result = rec.result]_vars
  <2>1. SUFFICES ASSUME TimelyInv, [Next]_vars, Reached(rec, "EXECUTED")
                 PROVE  rec'.result = rec.result
    OBVIOUS
  <2>2. rec.result # NoResult
    BY <2>1, ReachedIs DEF TimelyInv, Inv, RecordOK, Records
  <2>3. RegisterStep
    BY <2>1, TimelyNext
  <2>4. QED
    BY <2>2, <2>3
       DEF RegisterStep, Register!Next, Register!Decide, Register!Charge, Register!Answer
<1>3. QED
  BY TimelyInit, <1>1, <1>2, PTL DEF Spec, ResultIsFinal

RegimesInv == overrun \in BOOLEAN /\ (~overrun => TimelyInv)

LEMMA RegimesInit == BothInit => RegimesInv
BY TimelyInit DEF BothInit, RegimesInv

LEMMA RegimesNext ==
    ASSUME Timely, RegimesInv, [BothNext]_<<vars, overrun>>
    PROVE  RegimesInv' /\ (overrun \/ RegisterStep)
<1>1. overrun' = overrun
  BY DEF BothNext
<1>2. CASE overrun
  BY <1>1, <1>2 DEF RegimesInv
<1>3. CASE ~overrun
  <2>1. [Next]_vars
    BY <1>3 DEF BothNext
  <2>2. QED
    BY <1>1, <1>3, <2>1, TimelyNext DEF RegimesInv
<1>4. QED
  BY <1>2, <1>3

THEOREM RegimesInvariant == ASSUME Timely PROVE BothRegimes => []RegimesInv
<1>1. RegimesInv /\ [BothNext]_<<vars, overrun>> => RegimesInv'
  BY RegimesNext
<1>2. QED
  BY RegimesInit, <1>1, PTL DEF BothRegimes

\* The protected service never runs in two activations at once, however many replicas serve
\* retries of the same invocation, when executions end within their lease.
THEOREM OneExecution == ASSUME Timely PROVE BothRegimes => []OneExecutionWhenTimely
<1>1. RegimesInv => OneExecutionWhenTimely
  BY DEF RegimesInv, OneExecutionWhenTimely, NoConcurrentExecution, TimelyInv,
         NoOtherExecutes, Executing, At
<1>2. QED
  BY RegimesInvariant, <1>1, PTL

\* The delivery receipt, which answers retries once the record is gone, holds the result the
\* record holds, when executions end within their lease.
THEOREM ReceiptIsTheResult == ASSUME Timely PROVE BothRegimes => []ReceiptAgreesWhenTimely
<1>1. RegimesInv => ReceiptAgreesWhenTimely
  BY DEF RegimesInv, ReceiptAgreesWhenTimely, TimelyInv
<1>2. QED
  BY RegimesInvariant, <1>1, PTL

\* An invocation whose executions end within their lease implements the result register:
\* its callers see one result, decided once and before anybody is charged or answered.
THEOREM ImplementsRegister == ASSUME Timely PROVE BothRegimes => OneResultWhenTimely
<1>1. BothInit => (~overrun => Register!Init)
  BY DEF BothInit, Init, NoRecord, Register!Init
<1>2. RegimesInv /\ [BothNext]_<<vars, overrun>>
        => [overrun \/ Register!Next]_<<rec.result, paid, answers>>
  BY RegimesNext DEF RegisterStep
<1>3. QED
  BY RegimesInvariant, <1>1, <1>2, PTL DEF BothRegimes, OneResultWhenTimely
=============================================================================
