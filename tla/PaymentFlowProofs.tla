-------------------------- MODULE PaymentFlowProofs --------------------------
(***************************************************************************)
(* Proofs about PaymentFlow, for any number of requests, processes,        *)
(* invoices, crashes and any retention of expired rows.                    *)
(***************************************************************************)
EXTENDS PaymentFlow, TLAPS

Stages == QuotePath \cup PayPath \cup {"idle", "answered"}
RequestType == [stage: Stages, binding: Bindings \cup {Nobody}, hash: Hashes \cup {NoHash},
                again: BOOLEAN, settled: BOOLEAN, answer: Answers]

\* What the stages after the quote or the receipt was accepted rely on.
Accepted == PayPath \ {"receipt", "quote"}
Trusting == Accepted \ {"verify"}
Executed == {"settle", "setReceipt", "readQuote", "deleteQuote", "readPointer",
             "deletePointer", "advance", "deliver"}
Charged == {"setReceipt", "readQuote", "deleteQuote", "readPointer", "deletePointer", "advance"}
Making == {"setQuote", "setPointer", "publish"}

Recoverable(h) == receipt[h] # Nobody \/ quote[h] # NoQuote \/ Expired(issued[h])

\* Some consumed payment stands behind an invocation.
Covered(k) == \E h \in consumed : KeyOf(issued[h].binding, h) = k

RequestOK(r) ==
    /\ ~At(r, "idle") => Binding(r) \in Bindings
    /\ req[r].stage \in PayPath \cup Making => Hash(r) \in 1 .. invoiced
    /\ req[r].answer = "result" => At(r, "answered")
    /\ req[r].stage \in Accepted \/ req[r].answer = "result" =>
          /\ Hash(r) \in 1 .. invoiced
          /\ issued[Hash(r)].binding = Binding(r)
    /\ req[r].stage \in Accepted => Recoverable(Hash(r))
    /\ req[r].stage \in Trusting \/ req[r].answer = "result" => Hash(r) \in paid
    /\ req[r].stage \in Executed => invocation[Key(r)] # "none"
    /\ req[r].stage \in Charged => Hash(r) \in consumed
    /\ req[r].stage \in PayPath /\ req[r].settled => Hash(r) \in consumed
    /\ req[r].stage \in {"readQuote", "deleteQuote"} => receipt[Hash(r)] # Nobody
    /\ At(r, "deliver") \/ req[r].answer = "result" => Covered(Key(r))

RecordsOK ==
    /\ \A h \in Hashes : quote[h] # NoQuote => quote[h] = issued[h] /\ h <= invoiced
    /\ ReceiptIsEarned
    /\ consumed \subseteq paid
    /\ consumed \subseteq 1 .. invoiced
    /\ RecoverableWhileQuoted
    /\ \A k \in Keys : invocation[k] \in {"settled", "delivered"} => Covered(k)

Inv == TypeOK /\ RecordsOK /\ \A r \in Requests : RequestOK(r)

-----------------------------------------------------------------------------
(***************************************************************************)
(* What no step takes back                                                 *)
(***************************************************************************)
Grows ==
    /\ invoiced <= invoiced' /\ invoiced' \in 0 .. MaxHashes
    /\ paid \subseteq paid' /\ consumed \subseteq consumed'
    /\ \A h \in 1 .. invoiced :
          /\ issued'[h].binding = issued[h].binding
          /\ receipt[h] # Nobody => receipt'[h] # Nobody
          /\ Recoverable(h) => Recoverable(h)'
    /\ \A k \in Keys : invocation[k] # "none" => invocation'[k] # "none"

LEMMA KeyType == \A b \in Bindings, h \in Hashes : KeyOf(b, h) \in Keys
BY DEF KeyOf, Keys

LEMMA CoveredStays ==
    ASSUME RecordsOK, Grows, NEW k, Covered(k) PROVE Covered(k)'
<1>1. PICK h \in consumed : KeyOf(issued[h].binding, h) = k
  BY DEF Covered
<1>2. h \in consumed' /\ issued'[h].binding = issued[h].binding
  BY <1>1 DEF RecordsOK, Grows
<1>3. QED
  BY <1>1, <1>2 DEF Covered

\* A request that does not move stays right; so does one that is let go.
LEMMA OthersOK ==
    ASSUME Inv, Grows, NEW r \in Requests, req'[r] = req[r] PROVE RequestOK(r)'
<1>1. RequestOK(r) /\ RecordsOK /\ TypeOK
  BY DEF Inv
<1>2. 1 .. invoiced \subseteq 1 .. invoiced' /\ 1 .. invoiced \subseteq Hashes
  BY <1>1, PaymentAssumption DEF Grows, TypeOK, Hashes
<1>3. /\ At(r, "deliver") \/ req[r].answer = "result" => Covered(Key(r))'
      /\ Key(r)' = Key(r) /\ Hash(r)' = Hash(r) /\ Binding(r)' = Binding(r)
  <2>1. Key(r)' = Key(r) /\ Hash(r)' = Hash(r) /\ Binding(r)' = Binding(r)
    BY DEF Key, Hash, Binding
  <2>2. ASSUME At(r, "deliver") \/ req[r].answer = "result" PROVE Covered(Key(r))'
    <3>1. Covered(Key(r))
      BY <1>1, <2>2 DEF RequestOK
    <3>2. PICK h \in consumed : KeyOf(issued[h].binding, h) = Key(r)
      BY <3>1 DEF Covered
    <3>3. h \in consumed' /\ issued'[h].binding = issued[h].binding
      BY <1>1, <3>2 DEF RecordsOK, Grows
    <3>4. QED
      BY <2>1, <3>2, <3>3 DEF Covered
  <2>3. QED
    BY <2>1, <2>2
<1>4. /\ req[r].stage \in Accepted => Recoverable(Hash(r))'
      /\ req[r].stage \in {"readQuote", "deleteQuote"} => receipt'[Hash(r)] # Nobody
      /\ req[r].stage \in Accepted \/ req[r].answer = "result" =>
            /\ Hash(r) \in 1 .. invoiced'
            /\ issued'[Hash(r)].binding = Binding(r)
  <2>1. req[r].stage \in {"readQuote", "deleteQuote"} => req[r].stage \in Accepted
    BY DEF Accepted, PayPath
  <2>2. QED
    BY <1>1, <1>2, <1>3, <2>1 DEF RequestOK, Grows, Recoverable
<1>5. req[r].stage \in Executed => invocation'[Key(r)] # "none"
  <2>1. SUFFICES ASSUME req[r].stage \in Executed PROVE invocation'[Key(r)] # "none"
    OBVIOUS
  <2>2. Binding(r) \in Bindings /\ Hash(r) \in Hashes
    BY <1>1, <1>2, <2>1 DEF RequestOK, At, Executed, PayPath
  <2>3. Key(r) \in Keys
    BY <2>2, KeyType DEF Key
  <2>4. QED
    BY <1>1, <2>1, <2>3 DEF RequestOK, Grows
<1>6. /\ ~At(r, "idle") => Binding(r) \in Bindings
      /\ req[r].stage \in PayPath \cup Making => Hash(r) \in 1 .. invoiced'
      /\ req[r].answer = "result" => At(r, "answered")
      /\ req[r].stage \in Trusting \/ req[r].answer = "result" => Hash(r) \in paid'
      /\ req[r].stage \in Charged => Hash(r) \in consumed'
      /\ req[r].stage \in PayPath /\ req[r].settled => Hash(r) \in consumed'
  BY <1>1, <1>2 DEF RequestOK, Grows
<1>7. QED
  BY <1>3, <1>4, <1>5, <1>6 DEF RequestOK, At, Recoverable, Covered, Hash, Binding, Key

LEMMA IdleOK == ASSUME NEW r \in Requests, req'[r] = Idle PROVE RequestOK(r)'
BY DEF RequestOK, Idle, At, PayPath, Making, Accepted, Trusting, Executed, Charged

LEMMA AnsweredOK ==
    ASSUME NEW r \in Requests, req'[r].stage = "answered", req'[r].answer # "result",
           req'[r].binding \in Bindings
    PROVE  RequestOK(r)'
BY DEF RequestOK, At, Binding, PayPath, Making, Accepted, Trusting, Executed, Charged

\* What a step may do to the requests that do not take it.
LetGo(q) ==
    \/ req'[q] = req[q]
    \/ req'[q] = Idle
    \/ req'[q].stage = "answered" /\ req'[q].answer = "quoted" /\ req'[q].binding \in Bindings

LEMMA StepOK ==
    ASSUME Inv, Grows, TypeOK', RecordsOK',
           \A q \in Requests : LetGo(q) \/ RequestOK(q)'
    PROVE  Inv'
<1>1. ASSUME NEW q \in Requests, LetGo(q) PROVE RequestOK(q)'
  BY <1>1, OthersOK, IdleOK, AnsweredOK DEF LetGo
<1>2. QED
  BY <1>1 DEF Inv

\* A step that leaves the records, the money and the invocations alone.
Still == UNCHANGED <<now, quote, receipt, money, invocation, invoiced, issued>>

LEMMA StillOK == ASSUME Inv, Still PROVE Grows /\ RecordsOK'
<1>1. Grows
  BY DEF Inv, Still, Grows, TypeOK, money, Recoverable, Expired
<1>2. RecordsOK'
  <2>1. \A k : Covered(k)' <=> Covered(k)
    BY DEF Still, Covered, money
  <2>2. QED
    BY <2>1 DEF Inv, RecordsOK, Still, money, ReceiptIsEarned, RecoverableWhileQuoted, Expired
<1>3. QED
  BY <1>1, <1>2

-----------------------------------------------------------------------------
(***************************************************************************)
(* How the requests move                                                   *)
(***************************************************************************)
RequestsOK == req \in [Requests -> RequestType]

LEMMA IdleType == Idle \in RequestType
BY DEF Idle, RequestType, Stages, Answers

Same(r) == /\ req'[r].binding = req[r].binding
           /\ req'[r].hash = req[r].hash
           /\ req'[r].settled = req[r].settled

LEMMA ToMove ==
    ASSUME RequestsOK, NEW r \in Requests, NEW stage \in Stages, To(r, stage)
    PROVE  /\ RequestsOK'
           /\ \A q \in Requests \ {r} : req'[q] = req[q]
           /\ req'[r].stage = stage /\ req'[r].answer = req[r].answer /\ Same(r)
<1> DEFINE moved == [req[r] EXCEPT !.stage = stage]
<1>1. /\ moved \in RequestType /\ moved.stage = stage /\ moved.answer = req[r].answer
      /\ moved.binding = req[r].binding /\ moved.hash = req[r].hash
      /\ moved.settled = req[r].settled
  BY DEF RequestsOK, RequestType
<1>2. req' = [req EXCEPT ![r] = moved]
  BY DEF To
<1> HIDE DEF moved
<1>3. QED
  BY <1>1, <1>2 DEF RequestsOK, Same

LEMMA ReplyMove ==
    ASSUME RequestsOK, NEW r \in Requests, NEW answer \in Answers, Reply(r, answer)
    PROVE  /\ RequestsOK'
           /\ \A q \in Requests \ {r} : req'[q] = req[q]
           /\ req'[r].stage = "answered" /\ req'[r].answer = answer /\ Same(r)
<1> DEFINE moved == [req[r] EXCEPT !.stage = "answered", !.answer = answer]
<1>1. /\ moved \in RequestType /\ moved.stage = "answered" /\ moved.answer = answer
      /\ moved.binding = req[r].binding /\ moved.hash = req[r].hash
      /\ moved.settled = req[r].settled
  BY DEF RequestsOK, RequestType, Stages
<1>2. req' = [req EXCEPT ![r] = moved]
  BY DEF Reply, RequestsOK
<1> HIDE DEF moved
<1>3. QED
  BY <1>1, <1>2 DEF RequestsOK, Same

\* A new request replaces an idle one.
LEMMA BecomeMove ==
    ASSUME RequestsOK, NEW r \in Requests, NEW q \in RequestType, req' = [req EXCEPT ![r] = q]
    PROVE  RequestsOK' /\ req'[r] = q /\ \A p \in Requests \ {r} : req'[p] = req[p]
BY DEF RequestsOK

LeadersOK == inFlight \in [Instances -> [Bindings -> Requests \cup {Nobody}]]

LEMMA LeaderLeaves ==
    ASSUME LeadersOK, NEW r \in Requests, NoLongerLeads(r), Binding(r) \in Bindings PROVE LeadersOK'
<1>1. RunsOn[r] \in Instances
  BY PaymentAssumption
<1>2. QED
  BY <1>1 DEF LeadersOK, NoLongerLeads

\* Answering or failing a leader and its followers.
LEMMA PublishMove ==
    ASSUME RequestsOK, LeadersOK, NEW r \in Requests, NEW h \in Hashes \cup {NoHash}, Publish(r, h),
           Binding(r) \in Bindings
    PROVE  RequestsOK' /\ LeadersOK' /\ \A q \in Requests : LetGo(q)
<1> DEFINE answered(q) == [req[q] EXCEPT !.stage = "answered", !.answer = "quoted", !.hash = h]
<1>1. ASSUME NEW q \in Requests
      PROVE  /\ answered(q) \in RequestType /\ answered(q).stage = "answered"
             /\ answered(q).answer = "quoted" /\ answered(q).binding = req[q].binding
  BY DEF RequestsOK, RequestType, Stages, Answers
<1>2. req' = [q \in Requests |-> IF q \in Led(r) \cup {r} THEN answered(q) ELSE req[q]]
  BY DEF Publish
<1>3. \A q \in Led(r) \cup {r} : req[q].binding \in Bindings
  BY DEF Led, Binding
<1> HIDE DEF answered
<1>4. LeadersOK'
  BY LeaderLeaves DEF Publish
<1>5. RequestsOK'
  BY <1>1, <1>2 DEF RequestsOK
<1>6. QED
  BY <1>1, <1>2, <1>3, <1>4, <1>5 DEF LetGo

LEMMA AbandonMove ==
    ASSUME RequestsOK, LeadersOK, NEW r \in Requests, Abandon(r), Binding(r) \in Bindings
    PROVE  RequestsOK' /\ LeadersOK' /\ \A q \in Requests : LetGo(q)
<1>1. LeadersOK'
  BY LeaderLeaves DEF Abandon
<1>2. RequestsOK'
  BY IdleType DEF Abandon, RequestsOK
<1>3. QED
  BY <1>1, <1>2 DEF Abandon, LetGo

-----------------------------------------------------------------------------
(***************************************************************************)
(* Steps that only move requests                                           *)
(***************************************************************************)
LEMMA TypeParts == TypeOK => RequestsOK /\ LeadersOK
BY DEF TypeOK, RequestsOK, LeadersOK, RequestType, Stages

LEMMA QuietOK ==
    ASSUME Inv, Still, UNCHANGED <<pointer, failures>>, RequestsOK', LeadersOK',
           \A q \in Requests : LetGo(q) \/ RequestOK(q)'
    PROVE  Inv'
<1>1. TypeOK'
  BY DEF Inv, TypeOK, Still, money, RequestsOK, LeadersOK, RequestType, Stages
<1>2. QED
  BY <1>1, StillOK, StepOK

\* Nothing is asked of a request that looks for a quote.
LEMMA LookingOK ==
    ASSUME NEW r \in Requests, req'[r].stage \in {"pointer", "pointed", "drop", "lead", "follow", "invoice"},
           req'[r].binding \in Bindings, req'[r].answer # "result"
    PROVE  RequestOK(r)'
BY DEF RequestOK, At, Binding, PayPath, Making, Accepted, Trusting, Executed, Charged

\* A request on its way has a binding and no answer yet.
LEMMA BusyFacts ==
    ASSUME Inv, NEW r \in Requests, req[r].stage \in QuotePath \cup PayPath
    PROVE  Binding(r) \in Bindings /\ req[r].answer # "result" /\ req[r] \in RequestType
BY TypeParts DEF Inv, RequestOK, At, Binding, QuotePath, PayPath, RequestsOK

LEMMA AskOK == ASSUME Inv, NEW r \in Requests, NEW b \in Bindings, Ask(r, b) PROVE Inv'
<1> DEFINE q == [Idle EXCEPT !.stage = "pointer", !.binding = b]
<1>1. q \in RequestType /\ q.stage = "pointer" /\ q.binding = b /\ q.answer = "none"
  BY DEF Idle, RequestType, Stages, QuotePath, Answers
<1>2. req' = [req EXCEPT ![r] = q] /\ Still /\ UNCHANGED <<pointer, failures, inFlight>>
  BY DEF Ask, Still, records
<1> HIDE DEF q
<1>3. RequestsOK /\ LeadersOK
  BY TypeParts DEF Inv
<1>4. RequestsOK' /\ req'[r] = q /\ \A p \in Requests \ {r} : req'[p] = req[p]
  BY <1>1, <1>2, <1>3, BecomeMove
<1>5. RequestOK(r)'
  BY <1>1, <1>4, LookingOK
<1>6. QED
  BY <1>2, <1>3, <1>4, <1>5, QuietOK DEF LetGo, LeadersOK

\* Moving on to another stage of the search for a quote.
LEMMA LookOn ==
    ASSUME Inv, NEW r \in Requests, req[r].stage \in QuotePath,
           NEW stage \in {"pointer", "pointed", "drop", "lead", "follow", "invoice"}, To(r, stage)
    PROVE  RequestsOK' /\ RequestOK(r)' /\ \A q \in Requests : LetGo(q) \/ RequestOK(q)'
<1>1. RequestsOK /\ stage \in Stages
  BY TypeParts DEF Inv, Stages, QuotePath
<1>2. /\ RequestsOK'
      /\ \A q \in Requests \ {r} : req'[q] = req[q]
      /\ req'[r].stage = stage /\ req'[r].answer = req[r].answer /\ Same(r)
  BY <1>1, ToMove
<1>3. RequestOK(r)'
  BY <1>2, BusyFacts, LookingOK DEF Same, Binding
<1>4. QED
  BY <1>2, <1>3 DEF LetGo

LEMMA ReadPointerOK == ASSUME Inv, NEW r \in Requests, ReadPointer(r) PROVE Inv'
<1> DEFINE p == pointer[Binding(r)]
<1>1. /\ req[r].stage \in QuotePath
      /\ Still /\ UNCHANGED <<pointer, failures, inFlight>> /\ LeadersOK'
  BY TypeParts DEF ReadPointer, At, QuotePath, Still, records, Inv, LeadersOK
<1>2. CASE NotQuoted(r) \/ To(r, "drop")
  BY <1>1, <1>2, LookOn, QuietOK DEF NotQuoted
<1>3. CASE req' = [req EXCEPT ![r].stage = "pointed", ![r].hash = p.hash]
  <2> DEFINE q == [req[r] EXCEPT !.stage = "pointed", !.hash = p.hash]
  <2>1. RequestsOK /\ Binding(r) \in Bindings /\ req[r] \in RequestType /\ req[r].answer # "result"
    BY <1>1, BusyFacts, TypeParts DEF Inv
  <2>2. p.hash \in Hashes \cup {NoHash}
    BY <2>1 DEF Inv, TypeOK
  <2>3. /\ q \in RequestType /\ q.stage = "pointed" /\ q.binding = Binding(r)
        /\ q.answer = req[r].answer
    BY <2>1, <2>2 DEF RequestType, Stages, QuotePath, Binding
  <2>4. req' = [req EXCEPT ![r] = q]
    BY <1>3, <2>1 DEF RequestsOK
  <2> HIDE DEF q, p
  <2>5. RequestsOK' /\ req'[r] = q /\ \A o \in Requests \ {r} : req'[o] = req[o]
    BY <2>1, <2>3, <2>4, BecomeMove
  <2>6. RequestOK(r)'
    BY <2>1, <2>3, <2>5, LookingOK
  <2>7. QED
    BY <1>1, <2>5, <2>6, QuietOK DEF LetGo
<1>4. QED
  BY <1>2, <1>3 DEF ReadPointer

LEMMA ReadPointedQuoteOK == ASSUME Inv, NEW r \in Requests, ReadPointedQuote(r) PROVE Inv'
<1>1. req[r].stage \in QuotePath /\ Still /\ UNCHANGED <<pointer, failures>>
  BY DEF ReadPointedQuote, At, QuotePath, Still, records
<1>2. RequestsOK /\ LeadersOK /\ Binding(r) \in Bindings /\ Hash(r) \in Hashes \cup {NoHash}
  BY <1>1, BusyFacts, TypeParts DEF Inv, RequestType, Hash
<1>3. CASE Publish(r, Hash(r))
  BY <1>1, <1>2, <1>3, PublishMove, QuietOK
<1>4. CASE To(r, "drop") /\ UNCHANGED inFlight
  BY <1>1, <1>2, <1>4, LookOn, QuietOK DEF LeadersOK
<1>5. QED
  BY <1>3, <1>4 DEF ReadPointedQuote

LEMMA DropPointerOK == ASSUME Inv, NEW r \in Requests, DropPointer(r) PROVE Inv'
<1>1. /\ req[r].stage \in QuotePath /\ NotQuoted(r)
      /\ Still /\ UNCHANGED <<failures, inFlight>>
  BY DEF DropPointer, At, QuotePath, Still, records
<1>2. RequestsOK' /\ \A q \in Requests : LetGo(q) \/ RequestOK(q)'
  BY <1>1, LookOn DEF NotQuoted
<1>3. pointer' \in [Bindings -> [hash: Hashes \cup {NoHash}, expires: Nat]]
  BY DEF DropPointer, Inv, TypeOK, NoPointer
<1>4. TypeOK'
  BY <1>1, <1>2, <1>3 DEF Inv, TypeOK, Still, money, RequestsOK, RequestType, Stages
<1>5. QED
  BY <1>1, <1>2, <1>4, StillOK, StepOK

LEMMA LeadOK == ASSUME Inv, NEW r \in Requests, Lead(r) PROVE Inv'
<1>1. req[r].stage \in QuotePath /\ Still /\ UNCHANGED <<pointer, failures>>
  BY DEF Lead, At, QuotePath, Still, records
<1>2. /\ RequestsOK /\ LeadersOK /\ Binding(r) \in Bindings
      /\ req[r] \in RequestType /\ req[r].answer # "result"
  BY <1>1, BusyFacts, TypeParts DEF Inv
<1>3. CASE To(r, "follow") /\ UNCHANGED inFlight
  BY <1>1, <1>2, <1>3, LookOn, QuietOK DEF LeadersOK
<1>4. CASE /\ req' = [req EXCEPT ![r].stage = "pointer", ![r].again = TRUE]
           /\ inFlight' = [inFlight EXCEPT ![RunsOn[r]][Binding(r)] = r]
  <2> DEFINE q == [req[r] EXCEPT !.stage = "pointer", !.again = TRUE]
  <2>1. /\ q \in RequestType /\ q.stage = "pointer" /\ q.binding = Binding(r)
        /\ q.answer = req[r].answer
    BY <1>2 DEF RequestType, Stages, QuotePath, Binding
  <2>2. req' = [req EXCEPT ![r] = q]
    BY <1>2, <1>4 DEF RequestsOK
  <2> HIDE DEF q
  <2>3. RequestsOK' /\ req'[r] = q /\ \A o \in Requests \ {r} : req'[o] = req[o]
    BY <1>2, <2>1, <2>2, BecomeMove
  <2>4. RequestOK(r)'
    BY <1>2, <2>1, <2>3, LookingOK
  <2>5. LeadersOK'
    <3>1. RunsOn[r] \in Instances
      BY PaymentAssumption
    <3>2. QED
      BY <1>2, <1>4, <3>1 DEF LeadersOK
  <2>6. QED
    BY <1>1, <2>3, <2>4, <2>5, QuietOK DEF LetGo
<1>5. QED
  BY <1>3, <1>4 DEF Lead

LEMMA QuotedOK == ASSUME Inv, NEW r \in Requests, Quoted(r) PROVE Inv'
<1>1. req[r].stage \in QuotePath /\ Still /\ UNCHANGED <<pointer, failures>> /\ Publish(r, Hash(r))
  BY DEF Quoted, At, QuotePath, Still, records
<1>2. RequestsOK /\ LeadersOK /\ Binding(r) \in Bindings /\ Hash(r) \in Hashes \cup {NoHash}
  BY <1>1, BusyFacts, TypeParts DEF Inv, RequestType, Hash
<1>3. QED
  BY <1>1, <1>2, PublishMove, QuietOK

LEMMA FailOK == ASSUME Inv, NEW r \in Requests, Fail(r) PROVE Inv'
<1>1. /\ req[r].stage \in QuotePath \cup PayPath
      /\ Still /\ UNCHANGED pointer /\ Abandon(r)
      /\ failures' \in 0 .. MaxFailures
  BY PaymentAssumption DEF Fail, Still, records, Inv, TypeOK
<1>2. RequestsOK /\ LeadersOK /\ Binding(r) \in Bindings
  BY <1>1, BusyFacts, TypeParts DEF Inv
<1>3. RequestsOK' /\ LeadersOK' /\ \A q \in Requests : LetGo(q)
  BY <1>1, <1>2, AbandonMove
<1>4. TypeOK'
  BY <1>1, <1>3 DEF Inv, TypeOK, Still, money, RequestsOK, LeadersOK, RequestType, Stages
<1>5. QED
  BY <1>1, <1>3, <1>4, StillOK, StepOK

LEMMA LeaveOK == ASSUME Inv, NEW r \in Requests, Leave(r) PROVE Inv'
<1>1. /\ req' = [req EXCEPT ![r] = Idle]
      /\ Still /\ UNCHANGED <<pointer, failures, inFlight>>
  BY DEF Leave, Still, records
<1>2. RequestsOK /\ LeadersOK
  BY TypeParts DEF Inv
<1>3. RequestsOK' /\ req'[r] = Idle /\ \A p \in Requests \ {r} : req'[p] = req[p]
  BY <1>1, <1>2, IdleType, BecomeMove
<1>4. QED
  BY <1>1, <1>2, <1>3, QuietOK DEF LetGo, LeadersOK

-----------------------------------------------------------------------------
(***************************************************************************)
(* Making a quote                                                          *)
(***************************************************************************)
\* A new invoice is known to nobody else.
LEMMA FreshOK ==
    ASSUME Inv, NEW r \in Requests, NEW h \in Hashes, h = invoiced + 1, invoiced' = h,
           issued' = [issued EXCEPT ![h].binding = Binding(r)], Binding(r) \in Bindings,
           UNCHANGED <<now, quote, receipt, money, invocation>>
    PROVE  Grows /\ RecordsOK' /\ issued' \in [Hashes -> [binding: Bindings \cup {Nobody}, expires: Nat]]
<1> DEFINE made == [issued[h] EXCEPT !.binding = Binding(r)]
<1>1. /\ issued \in [Hashes -> [binding: Bindings \cup {Nobody}, expires: Nat]]
      /\ invoiced \in Nat /\ MaxHashes \in Nat /\ RecordsOK
  BY PaymentAssumption DEF Inv, TypeOK
<1>2. /\ made \in [binding: Bindings \cup {Nobody}, expires: Nat]
      /\ made.expires = issued[h].expires
  BY <1>1
<1>3. issued' = [issued EXCEPT ![h] = made]
  BY <1>1
<1> HIDE DEF made
<1>4. /\ issued' \in [Hashes -> [binding: Bindings \cup {Nobody}, expires: Nat]]
      /\ \A g \in Hashes : g # h => issued'[g] = issued[g]
      /\ \A g \in Hashes : issued'[g].expires = issued[g].expires
  BY <1>1, <1>2, <1>3
<1>5. \A g \in 1 .. invoiced : g \in Hashes /\ g # h
  BY <1>1 DEF Hashes
<1>6. h \in 0 .. MaxHashes /\ invoiced <= h /\ 1 .. invoiced \subseteq 1 .. h
  BY <1>1 DEF Hashes
<1>7. Grows
  <2>1. \A g \in 1 .. invoiced : issued'[g] = issued[g]
    BY <1>4, <1>5
  <2>2. QED
    BY <1>6, <2>1 DEF Grows, Recoverable, Expired, money
<1>8. RecordsOK'
  <2>1. \A g \in Hashes : quote'[g] # NoQuote => quote'[g] = issued'[g] /\ g <= invoiced'
    <3>1. \A g \in Hashes : quote[g] # NoQuote => quote[g] = issued[g] /\ g <= invoiced
      BY <1>1 DEF RecordsOK
    <3>2. \A g \in Hashes : g <= invoiced => g # h /\ g <= invoiced'
      BY <1>1, <1>6 DEF Hashes
    <3>3. QED
      BY <3>1, <3>2, <1>4
  <2>2. consumed \subseteq 1 .. invoiced /\ consumed \subseteq paid
    BY <1>1 DEF RecordsOK
  <2>3. ReceiptIsEarned'
    BY <1>1, <1>4, <1>5, <2>2 DEF RecordsOK, ReceiptIsEarned, money
  <2>4. RecoverableWhileQuoted'
    BY <1>1, <1>4, <1>5, <2>2 DEF RecordsOK, RecoverableWhileQuoted, money, Expired
  <2>5. \A k \in Keys : invocation'[k] \in {"settled", "delivered"} => Covered(k)'
    BY <1>1, <1>7, CoveredStays DEF RecordsOK
  <2>6. QED
    BY <1>6, <2>1, <2>2, <2>3, <2>4, <2>5 DEF RecordsOK, money
<1>9. QED
  BY <1>4, <1>7, <1>8

LEMMA InvoiceOK == ASSUME Inv, NEW r \in Requests, Invoice(r) PROVE Inv'
<1>1. req[r].stage \in QuotePath /\ At(r, "invoice")
  BY DEF Invoice, At, QuotePath
<1>2. /\ RequestsOK /\ LeadersOK /\ Binding(r) \in Bindings
      /\ req[r] \in RequestType /\ req[r].answer # "result"
  BY <1>1, BusyFacts, TypeParts DEF Inv
<1>3. CASE Abandon(r) /\ UNCHANGED <<invoiced, issued>>
  <2>1. Still /\ UNCHANGED <<pointer, failures>>
    BY <1>3 DEF Invoice, Still, records
  <2>2. QED
    BY <1>2, <1>3, <2>1, AbandonMove, QuietOK
<1>4. CASE ~(Abandon(r) /\ UNCHANGED <<invoiced, issued>>)
  <2> DEFINE h == invoiced + 1
             q == [req[r] EXCEPT !.stage = "setQuote", !.hash = h]
  <2>1. /\ invoiced < MaxHashes /\ invoiced' = h
        /\ issued' = [issued EXCEPT ![h].binding = Binding(r)]
        /\ req' = [req EXCEPT ![r].stage = "setQuote", ![r].hash = h]
        /\ UNCHANGED <<inFlight, now, records, money, invocation, failures>>
    BY <1>4 DEF Invoice
  <2>2. h \in Hashes /\ h \in 1 .. h
    BY <2>1, PaymentAssumption DEF Inv, TypeOK, Hashes
  <2>3. /\ q \in RequestType /\ q.stage = "setQuote" /\ q.binding = Binding(r)
        /\ q.answer = req[r].answer /\ q.hash = h
    BY <1>2, <2>2 DEF RequestType, Stages, QuotePath, Binding
  <2>4. req' = [req EXCEPT ![r] = q]
    BY <1>2, <2>1 DEF RequestsOK
  <2> HIDE DEF q, h
  <2>5. RequestsOK' /\ req'[r] = q /\ \A o \in Requests \ {r} : req'[o] = req[o]
    BY <1>2, <2>3, <2>4, BecomeMove
  <2>6. /\ Grows /\ RecordsOK'
        /\ issued' \in [Hashes -> [binding: Bindings \cup {Nobody}, expires: Nat]]
    BY <1>2, <2>1, <2>2, FreshOK DEF records, h
  <2>7. RequestOK(r)'
    BY <1>2, <2>1, <2>2, <2>3, <2>5
    DEF RequestOK, At, Binding, Hash, PayPath, Making, Accepted, Trusting, Executed, Charged
  <2>8. TypeOK'
    BY <2>1, <2>5, <2>6 DEF Inv, TypeOK, records, money, RequestsOK, RequestType, Stages, Grows
  <2>9. QED
    BY <2>5, <2>6, <2>7, <2>8, StepOK DEF LetGo
<1>5. QED
  BY <1>3, <1>4

LEMMA SetQuoteOK == ASSUME Inv, NEW r \in Requests, SetQuote(r) PROVE Inv'
<1> DEFINE h == Hash(r)
           made == [issued[h] EXCEPT !.expires = QuoteExpiry]
<1>1. req[r].stage \in QuotePath /\ req[r].stage \in Making
  BY DEF SetQuote, At, QuotePath, Making
<1>2. /\ Binding(r) \in Bindings /\ req[r].answer # "result" /\ RequestsOK
      /\ h \in 1 .. invoiced /\ RecordsOK
  BY <1>1, BusyFacts, TypeParts DEF Inv, RequestOK
<1>3. h \in Hashes /\ 1 .. invoiced \subseteq Hashes /\ invoiced \in 0 .. MaxHashes
  BY <1>2, PaymentAssumption DEF Inv, TypeOK, Hashes
<1>4. QuoteExpiry \in Nat /\ QuoteExpiry # 0
  BY PaymentAssumption DEF QuoteExpiry, Inv, TypeOK
<1>5. issued \in [Hashes -> [binding: Bindings \cup {Nobody}, expires: Nat]]
  BY DEF Inv, TypeOK
<1>6. /\ made \in [binding: Bindings \cup {Nobody}, expires: Nat]
      /\ made.binding = issued[h].binding /\ made # NoQuote
  BY <1>3, <1>4, <1>5 DEF NoQuote
<1>7. /\ issued' = [issued EXCEPT ![h] = made]
      /\ quote' = [quote EXCEPT ![h] = issued'[h]]
      /\ To(r, "setPointer")
      /\ UNCHANGED <<now, pointer, receipt, money, invocation, inFlight, invoiced, failures>>
  BY <1>5 DEF SetQuote
<1> HIDE DEF made, h
<1>8. /\ quote \in [Hashes -> [binding: Bindings \cup {Nobody}, expires: Nat]]
      /\ quote' \in [Hashes -> [binding: Bindings \cup {Nobody}, expires: Nat]]
      /\ issued' \in [Hashes -> [binding: Bindings \cup {Nobody}, expires: Nat]]
      /\ issued'[h] = made /\ quote'[h] = made
      /\ \A g \in Hashes \ {h} : issued'[g] = issued[g] /\ quote'[g] = quote[g]
  BY <1>3, <1>5, <1>6, <1>7 DEF Inv, TypeOK
<1>9. /\ \A g \in Hashes : issued'[g].binding = issued[g].binding
      /\ \A g \in Hashes : Recoverable(g) => Recoverable(g)'
  BY <1>6, <1>7, <1>8 DEF Recoverable, Expired
<1>10. Grows
  BY <1>3, <1>7, <1>9 DEF Grows, money
<1>11. RecordsOK'
  <2>1. \A g \in Hashes : quote'[g] # NoQuote => quote'[g] = issued'[g] /\ g <= invoiced'
    BY <1>2, <1>3, <1>7, <1>8 DEF RecordsOK
  <2>2. consumed \subseteq 1 .. invoiced /\ consumed \subseteq paid
    BY <1>2 DEF RecordsOK
  <2>3. ReceiptIsEarned'
    BY <1>2, <1>7, <1>9 DEF RecordsOK, ReceiptIsEarned, money
  <2>4. RecoverableWhileQuoted'
    BY <1>2, <1>3, <1>7, <1>9, <2>2 DEF RecordsOK, RecoverableWhileQuoted, money, Recoverable
  <2>5. \A k \in Keys : invocation'[k] \in {"settled", "delivered"} => Covered(k)'
    BY <1>2, <1>7, <1>10, CoveredStays DEF RecordsOK
  <2>6. QED
    BY <1>7, <2>1, <2>2, <2>3, <2>4, <2>5 DEF RecordsOK, money
<1>12. /\ RequestsOK' /\ \A q \in Requests \ {r} : req'[q] = req[q]
       /\ req'[r].stage = "setPointer" /\ req'[r].answer = req[r].answer /\ Same(r)
  BY <1>2, <1>7, ToMove DEF Stages, QuotePath
<1>13. RequestOK(r)'
  BY <1>2, <1>7, <1>12
  DEF RequestOK, At, Binding, Hash, Same, PayPath, Making, Accepted, Trusting, Executed, Charged, h
<1>14. TypeOK'
  BY <1>7, <1>8, <1>12 DEF Inv, TypeOK, money, RequestsOK, RequestType, Stages
<1>15. QED
  BY <1>10, <1>11, <1>12, <1>13, <1>14, StepOK DEF LetGo

LEMMA SetPointerOK == ASSUME Inv, NEW r \in Requests, SetPointer(r) PROVE Inv'
<1>1. req[r].stage \in QuotePath /\ req[r].stage \in Making
  BY DEF SetPointer, At, QuotePath, Making
<1>2. /\ Binding(r) \in Bindings /\ req[r].answer # "result" /\ RequestsOK
      /\ Hash(r) \in 1 .. invoiced
  BY <1>1, BusyFacts, TypeParts DEF Inv, RequestOK
<1>3. Hash(r) \in Hashes
  BY <1>2, PaymentAssumption DEF Inv, TypeOK, Hashes
<1>4. To(r, "publish") /\ Still /\ UNCHANGED <<inFlight, failures>>
  BY DEF SetPointer, Still
<1>5. /\ RequestsOK' /\ \A q \in Requests \ {r} : req'[q] = req[q]
      /\ req'[r].stage = "publish" /\ req'[r].answer = req[r].answer /\ Same(r)
  BY <1>2, <1>4, ToMove DEF Stages, QuotePath
<1>6. RequestOK(r)'
  BY <1>2, <1>4, <1>5
  DEF RequestOK, At, Binding, Hash, Same, PayPath, Making, Accepted, Trusting, Executed, Charged, Still
<1>7. pointer' \in [Bindings -> [hash: Hashes \cup {NoHash}, expires: Nat]]
  <2> DEFINE p == [hash |-> Hash(r), expires |-> issued[Hash(r)].expires]
  <2>1. issued[Hash(r)] \in [binding: Bindings \cup {Nobody}, expires: Nat]
    BY <1>3 DEF Inv, TypeOK
  <2>2. p \in [hash: Hashes \cup {NoHash}, expires: Nat]
    BY <1>3, <2>1
  <2>3. pointer' = [pointer EXCEPT ![Binding(r)] = p]
    BY DEF SetPointer
  <2> HIDE DEF p
  <2>4. QED
    BY <2>2, <2>3 DEF Inv, TypeOK
<1>8. TypeOK'
  BY <1>4, <1>5, <1>7 DEF Inv, TypeOK, Still, money, RequestsOK, RequestType, Stages
<1>9. QED
  BY <1>4, <1>5, <1>6, <1>8, StillOK, StepOK DEF LetGo

-----------------------------------------------------------------------------
(***************************************************************************)
(* Presenting a payment                                                    *)
(***************************************************************************)
LEMMA PresentOK ==
    ASSUME Inv, NEW r \in Requests, NEW b \in Bindings, NEW h \in Hashes, Present(r, b, h)
    PROVE  Inv'
<1> DEFINE q == [Idle EXCEPT !.stage = "receipt", !.binding = b, !.hash = h]
<1>1. /\ q \in RequestType /\ q.stage = "receipt" /\ q.binding = b /\ q.hash = h
      /\ q.answer = "none" /\ q.settled = FALSE
  BY DEF Idle, RequestType, Stages, PayPath, Answers
<1>2. req' = [req EXCEPT ![r] = q] /\ Still /\ UNCHANGED <<pointer, failures, inFlight>>
  BY DEF Present, Still, records
<1>3. h \in 1 .. invoiced
  BY PaymentAssumption DEF Present, Inv, TypeOK, Hashes
<1> HIDE DEF q
<1>4. RequestsOK /\ LeadersOK
  BY TypeParts DEF Inv
<1>5. RequestsOK' /\ req'[r] = q /\ \A p \in Requests \ {r} : req'[p] = req[p]
  BY <1>1, <1>2, <1>4, BecomeMove
<1>6. RequestOK(r)'
  BY <1>1, <1>2, <1>3, <1>5
  DEF RequestOK, At, Binding, Hash, Still, PayPath, Making, Accepted, Trusting, Executed, Charged
<1>7. QED
  BY <1>2, <1>4, <1>5, <1>6, QuietOK DEF LetGo, LeadersOK

\* What a handler that has a payment in its hands relies on.
LEMMA PayFacts ==
    ASSUME Inv, NEW r \in Requests, req[r].stage \in PayPath
    PROVE  /\ RequestsOK /\ RequestOK(r) /\ RecordsOK
           /\ Binding(r) \in Bindings /\ Hash(r) \in Hashes /\ Hash(r) \in 1 .. invoiced
           /\ Key(r) \in Keys /\ req[r].answer # "result" /\ req[r] \in RequestType
<1>1. RequestsOK /\ RequestOK(r) /\ RecordsOK /\ Hash(r) \in 1 .. invoiced
  BY TypeParts DEF Inv, RequestOK
<1>2. Binding(r) \in Bindings /\ req[r].answer # "result" /\ req[r] \in RequestType
  BY BusyFacts
<1>3. Hash(r) \in Hashes
  BY <1>1, PaymentAssumption DEF Inv, TypeOK, Hashes
<1>4. QED
  BY <1>1, <1>2, <1>3, KeyType DEF Key

LEMMA PayTo ==
    ASSUME Inv, NEW r \in Requests, req[r].stage \in PayPath,
           NEW stage \in PayPath, To(r, stage)
    PROVE  /\ RequestsOK' /\ \A q \in Requests \ {r} : req'[q] = req[q]
           /\ req'[r].stage = stage /\ req'[r].answer = req[r].answer /\ Same(r)
BY PayFacts, ToMove DEF Stages

LEMMA PayReply ==
    ASSUME Inv, NEW r \in Requests, req[r].stage \in PayPath,
           NEW answer \in Answers, Reply(r, answer)
    PROVE  /\ RequestsOK' /\ \A q \in Requests \ {r} : req'[q] = req[q]
           /\ req'[r].stage = "answered" /\ req'[r].answer = answer /\ Same(r)
           /\ answer # "result" => RequestOK(r)'
<1>1. /\ RequestsOK' /\ \A q \in Requests \ {r} : req'[q] = req[q]
      /\ req'[r].stage = "answered" /\ req'[r].answer = answer /\ Same(r)
  BY PayFacts, ReplyMove
<1>2. QED
  BY <1>1, PayFacts, AnsweredOK DEF Same, Binding

\* A step that only moves the request.
LEMMA OnlyMoves ==
    ASSUME Inv, NEW r \in Requests, Still, UNCHANGED <<pointer, failures, inFlight>>,
           RequestsOK', \A q \in Requests \ {r} : req'[q] = req[q], RequestOK(r)'
    PROVE  Inv'
BY TypeParts, QuietOK DEF LetGo, LeadersOK, Inv

LEMMA ReadReceiptOK == ASSUME Inv, NEW r \in Requests, ReadReceipt(r) PROVE Inv'
<1>1. /\ req[r].stage = "receipt" /\ req[r].stage \in PayPath
      /\ Still /\ UNCHANGED <<pointer, failures, inFlight>>
  BY DEF ReadReceipt, At, PayPath, Still, records
<1>2. CASE receipt[Hash(r)] = Binding(r)
  <2> DEFINE q == [req[r] EXCEPT !.stage = "begin", !.settled = TRUE]
  <2>1. /\ q \in RequestType /\ q.stage = "begin" /\ q.binding = Binding(r)
        /\ q.answer = req[r].answer /\ q.hash = Hash(r)
    BY <1>1, PayFacts DEF RequestType, Stages, PayPath, Binding, Hash
  <2>2. req' = [req EXCEPT ![r] = q]
    BY <1>1, <1>2, PayFacts DEF ReadReceipt, RequestsOK
  <2> HIDE DEF q
  <2>3. RequestsOK' /\ req'[r] = q /\ \A o \in Requests \ {r} : req'[o] = req[o]
    BY <1>1, <2>1, <2>2, PayFacts, BecomeMove
  <2>4. receipt[Hash(r)] # Nobody
    BY <1>1, <1>2, PayFacts, PaymentAssumption
  <2>5. /\ Hash(r) \in consumed /\ Hash(r) \in paid /\ Recoverable(Hash(r))
        /\ issued[Hash(r)].binding = Binding(r)
    BY <1>1, <1>2, <2>4, PayFacts DEF RecordsOK, ReceiptIsEarned, Recoverable
  <2>6. RequestOK(r)'
    BY <1>1, <2>1, <2>3, <2>5, PayFacts
    DEF RequestOK, At, Binding, Hash, Still, money, Recoverable, Expired, PayPath, Making, Accepted,
        Trusting, Executed, Charged
  <2>7. QED
    BY <1>1, <2>3, <2>6, OnlyMoves
<1>3. CASE receipt[Hash(r)] # Binding(r)
  <2>1. To(r, "quote")
    BY <1>3 DEF ReadReceipt, To
  <2>2. /\ RequestsOK' /\ \A q \in Requests \ {r} : req'[q] = req[q]
        /\ req'[r].stage = "quote" /\ req'[r].answer = req[r].answer /\ Same(r)
    BY <1>1, <2>1, PayTo DEF PayPath
  <2>3. RequestOK(r)'
    BY <1>1, <2>2, PayFacts
    DEF RequestOK, At, Binding, Hash, Same, Still, money, PayPath, Making, Accepted, Trusting, Executed,
        Charged
  <2>4. QED
    BY <1>1, <2>2, <2>3, OnlyMoves
<1>4. QED
  BY <1>2, <1>3

LEMMA ReadQuoteOK == ASSUME Inv, NEW r \in Requests, ReadQuote(r) PROVE Inv'
<1>1. /\ req[r].stage = "quote" /\ req[r].stage \in PayPath
      /\ Still /\ UNCHANGED <<pointer, failures, inFlight>>
  BY DEF ReadQuote, At, PayPath, Still, records
<1>2. CASE QuoteServes(r) /\ To(r, "verify")
  <2>1. /\ RequestsOK' /\ \A q \in Requests \ {r} : req'[q] = req[q]
        /\ req'[r].stage = "verify" /\ req'[r].answer = req[r].answer /\ Same(r)
    BY <1>1, <1>2, PayTo DEF PayPath
  <2>2. Recoverable(Hash(r)) /\ issued[Hash(r)].binding = Binding(r)
    BY <1>1, <1>2, PayFacts DEF QuoteServes, Found, RecordsOK, Recoverable
  <2>3. RequestOK(r)'
    BY <1>1, <2>1, <2>2, PayFacts
    DEF RequestOK, At, Binding, Hash, Same, Still, money, Recoverable, Expired, PayPath, Making,
        Accepted, Trusting, Executed, Charged
  <2>4. QED
    BY <1>1, <2>1, <2>3, OnlyMoves
<1>3. CASE Reply(r, "unknownQuote")
  BY <1>1, <1>3, PayReply, OnlyMoves DEF Answers
<1>4. QED
  BY <1>2, <1>3 DEF ReadQuote

LEMMA VerifyOK == ASSUME Inv, NEW r \in Requests, Verify(r) PROVE Inv'
<1>1. /\ req[r].stage = "verify" /\ req[r].stage \in PayPath
      /\ Still /\ UNCHANGED <<pointer, failures, inFlight>>
  BY DEF Verify, At, PayPath, Still, records
<1>2. CASE PaidOrConsumed(Hash(r)) /\ To(r, "begin")
  <2>1. /\ RequestsOK' /\ \A q \in Requests \ {r} : req'[q] = req[q]
        /\ req'[r].stage = "begin" /\ req'[r].answer = req[r].answer /\ Same(r)
    BY <1>1, <1>2, PayTo DEF PayPath
  <2>2. Hash(r) \in paid
    BY <1>1, <1>2, PayFacts DEF PaidOrConsumed, RecordsOK
  <2>3. RequestOK(r)'
    BY <1>1, <2>1, <2>2, PayFacts
    DEF RequestOK, At, Binding, Hash, Same, Still, money, Recoverable, Expired, PayPath, Making,
        Accepted, Trusting, Executed, Charged
  <2>4. QED
    BY <1>1, <2>1, <2>3, OnlyMoves
<1>3. CASE Reply(r, "unpaid")
  BY <1>1, <1>3, PayReply, OnlyMoves DEF Answers
<1>4. QED
  BY <1>2, <1>3 DEF Verify

LEMMA BeginOK == ASSUME Inv, NEW r \in Requests, Begin(r) PROVE Inv'
<1>1. /\ req[r].stage = "begin" /\ req[r].stage \in PayPath
      /\ Still /\ UNCHANGED <<pointer, failures, inFlight>>
  BY DEF Begin, At, PayPath, Still, records
<1>2. /\ Hash(r) \in paid /\ issued[Hash(r)].binding = Binding(r) /\ Recoverable(Hash(r))
  BY <1>1, PayFacts DEF RequestOK, Accepted, Trusting, PayPath
<1>3. CASE invocation[Key(r)] = "delivered" /\ Reply(r, "result")
  <2>1. /\ RequestsOK' /\ \A q \in Requests \ {r} : req'[q] = req[q]
        /\ req'[r].stage = "answered" /\ req'[r].answer = "result" /\ Same(r)
    BY <1>1, <1>3, PayReply DEF Answers
  <2>2. Covered(Key(r))'
    <3>1. Covered(Key(r))
      BY <1>1, <1>3, PayFacts DEF RecordsOK
    <3>2. QED
      BY <1>1, <2>1, <3>1 DEF Covered, Still, money, Key, Binding, Hash, Same
  <2>3. RequestOK(r)'
    BY <1>1, <1>2, <2>1, <2>2, PayFacts
    DEF RequestOK, At, Binding, Hash, Same, Still, money, PayPath, Making, Accepted, Trusting, Executed,
        Charged
  <2>4. QED
    BY <1>1, <2>1, <2>3, OnlyMoves
<1>4. CASE To(r, "execute")
  <2>1. /\ RequestsOK' /\ \A q \in Requests \ {r} : req'[q] = req[q]
        /\ req'[r].stage = "execute" /\ req'[r].answer = req[r].answer /\ Same(r)
    BY <1>1, <1>4, PayTo DEF PayPath
  <2>2. RequestOK(r)'
    BY <1>1, <1>2, <2>1, PayFacts
    DEF RequestOK, At, Binding, Hash, Same, Still, money, Recoverable, Expired, PayPath, Making,
        Accepted, Trusting, Executed, Charged
  <2>3. QED
    BY <1>1, <2>1, <2>2, OnlyMoves
<1>5. QED
  BY <1>3, <1>4 DEF Begin

-----------------------------------------------------------------------------
(***************************************************************************)
(* Executing, settling and delivering                                      *)
(***************************************************************************)
\* Invocations only advance, and none is settled without a payment.
LEMMA AdvanceGrows ==
    ASSUME Inv, UNCHANGED <<now, quote, receipt, money, invoiced, issued>>,
           \A k \in Keys :
              /\ invocation[k] # "none" => invocation'[k] # "none"
              /\ invocation'[k] \in {"settled", "delivered"} =>
                    invocation[k] \in {"settled", "delivered"} \/ Covered(k)
    PROVE  Grows /\ RecordsOK'
<1>1. Grows
  BY DEF Inv, Grows, TypeOK, money, Recoverable, Expired
<1>2. ReceiptIsEarned'
  <2>1. SUFFICES ASSUME NEW h \in Hashes, receipt[h] # Nobody
                 PROVE  invocation'[KeyOf(receipt[h], h)] # "none"
    BY DEF ReceiptIsEarned, Inv, RecordsOK, money
  <2>2. receipt[h] \in Bindings /\ invocation[KeyOf(receipt[h], h)] # "none"
    BY <2>1 DEF Inv, TypeOK, RecordsOK, ReceiptIsEarned
  <2>3. QED
    BY <2>1, <2>2, KeyType
<1>3. \A k \in Keys : invocation'[k] \in {"settled", "delivered"} => Covered(k)'
  BY <1>1, CoveredStays DEF Inv, RecordsOK
<1>4. RecoverableWhileQuoted'
  BY DEF Inv, RecordsOK, RecoverableWhileQuoted, money, Expired
<1>5. QED
  BY <1>1, <1>2, <1>3, <1>4 DEF Inv, RecordsOK, money

\* A step of a handler that may change the invocation.
LEMMA HandlerOK ==
    ASSUME Inv, NEW r \in Requests, Grows, RecordsOK', RequestsOK', RequestOK(r)',
           \A q \in Requests \ {r} : req'[q] = req[q],
           invocation' \in [Keys -> {"none", "executed", "settled", "delivered"}],
           UNCHANGED <<now, records, paid, inFlight, invoiced, issued, failures>>,
           consumed' \subseteq Hashes
    PROVE  Inv'
<1>1. TypeOK'
  BY DEF Inv, TypeOK, records, RequestsOK, RequestType, Stages
<1>2. QED
  BY <1>1, StepOK DEF LetGo

LEMMA ExecuteOK == ASSUME Inv, NEW r \in Requests, Execute(r) PROVE Inv'
<1> DEFINE k == Key(r)
           stage == CASE invocation[k] \in {"settled", "delivered"} -> "deliver"
                      [] req[r].settled -> "advance"
                      [] OTHER -> AfterExecute
<1>1. /\ req[r].stage = "execute" /\ req[r].stage \in PayPath /\ To(r, stage)
      /\ UNCHANGED <<now, records, money, inFlight, invoiced, issued, failures>>
  BY DEF Execute, At, PayPath
<1>2. stage \in {"deliver", "advance", "settle"}
  BY DEF AfterExecute
<1>3. /\ stage = "deliver" => invocation[k] \in {"settled", "delivered"}
      /\ stage = "advance" => req[r].settled
  BY <1>1, PayFacts DEF AfterExecute, RequestType
<1>4. k \in Keys
  BY <1>1, PayFacts
<1>5. /\ invocation' \in [Keys -> {"none", "executed", "settled", "delivered"}]
      /\ invocation'[k] # "none"
      /\ \A j \in Keys : invocation[j] # "none" => invocation'[j] = invocation[j]
      /\ \A j \in Keys : invocation'[j] \in {"settled", "delivered"} => invocation'[j] = invocation[j]
  BY <1>4 DEF Execute, Inv, TypeOK
<1> HIDE DEF stage
<1>6. /\ RequestsOK' /\ \A q \in Requests \ {r} : req'[q] = req[q]
      /\ req'[r].stage = stage /\ req'[r].answer = req[r].answer /\ Same(r)
  BY <1>1, <1>2, PayTo DEF PayPath
<1>7. Key(r)' = k /\ Hash(r)' = Hash(r) /\ Binding(r)' = Binding(r)
  BY <1>6 DEF Same, Key, Hash, Binding
<1>8. Grows /\ RecordsOK'
  BY <1>1, <1>5, AdvanceGrows DEF records
<1>9. RequestOK(r)'
  <2>1. stage = "deliver" => Covered(Key(r))'
    <3>1. stage = "deliver" => Covered(k)
      BY <1>1, <1>3, <1>4, PayFacts DEF RecordsOK
    <3>2. QED
      BY <1>1, <1>7, <3>1 DEF Covered, money
  <2>2. /\ Hash(r) \in paid /\ issued[Hash(r)].binding = Binding(r) /\ Recoverable(Hash(r))
        /\ stage = "advance" => Hash(r) \in consumed
    BY <1>1, <1>3, PayFacts DEF RequestOK, Accepted, Trusting, PayPath
  <2>3. Recoverable(Hash(r))'
    BY <1>1, <1>7, <2>2 DEF Recoverable, Expired, records
  <2>4. req'[r].settled => Hash(r) \in consumed
    BY <1>1, <1>6, PayFacts DEF RequestOK, Same
  <2>5. QED
    BY <1>1, <1>2, <1>5, <1>6, <1>7, <2>1, <2>2, <2>3, <2>4, PayFacts
    DEF RequestOK, At, money, PayPath, Making, Accepted, Trusting, Executed, Charged
<1>10. consumed' \subseteq Hashes
  BY <1>1 DEF money, Inv, TypeOK
<1>11. QED
  BY <1>1, <1>5, <1>6, <1>8, <1>9, <1>10, HandlerOK DEF money

LEMMA SettleOK == ASSUME Inv, NEW r \in Requests, Settle(r) PROVE Inv'
<1>1. /\ req[r].stage = "settle" /\ req[r].stage \in PayPath
      /\ UNCHANGED <<now, records, paid, invocation, inFlight, invoiced, issued, failures>>
  BY DEF Settle, At, PayPath
<1>2. CASE Hash(r) \notin paid
  <2>1. Reply(r, "unpaid") /\ Still /\ UNCHANGED <<pointer, failures, inFlight>>
    BY <1>1, <1>2 DEF Settle, Still, records, money
  <2>2. QED
    BY <1>1, <2>1, PayReply, OnlyMoves DEF Answers
<1>3. CASE Hash(r) \in paid
  <2>1. consumed' = consumed \cup {Hash(r)} /\ To(r, "setReceipt")
    BY <1>3 DEF Settle, AfterSettle
  <2>2. /\ RequestsOK' /\ \A q \in Requests \ {r} : req'[q] = req[q]
        /\ req'[r].stage = "setReceipt" /\ req'[r].answer = req[r].answer /\ Same(r)
    BY <1>1, <2>1, PayTo DEF PayPath
  <2>3. /\ Hash(r) \in Hashes /\ Hash(r) \in 1 .. invoiced /\ Recoverable(Hash(r))
        /\ issued[Hash(r)].binding = Binding(r) /\ invocation[Key(r)] # "none" /\ RecordsOK
    BY <1>1, PayFacts DEF RequestOK, Accepted, Executed, PayPath
  <2>4. Grows
    BY <1>1, <2>1 DEF Inv, Grows, TypeOK, records, Recoverable, Expired
  <2>5. RecordsOK'
    <3>1. RecoverableWhileQuoted'
      BY <1>1, <2>1, <2>3 DEF RecordsOK, RecoverableWhileQuoted, Recoverable, Expired, records
    <3>2. ReceiptIsEarned'
      BY <1>1, <2>1, <2>3 DEF RecordsOK, ReceiptIsEarned, records
    <3>3. \A k \in Keys : invocation'[k] \in {"settled", "delivered"} => Covered(k)'
      BY <1>1, <2>3, <2>4, CoveredStays DEF RecordsOK
    <3>4. QED
      BY <1>1, <1>3, <2>1, <2>3, <3>1, <3>2, <3>3 DEF RecordsOK, records
  <2>6. Key(r)' = Key(r) /\ Hash(r)' = Hash(r) /\ Binding(r)' = Binding(r)
    BY <2>2 DEF Same, Key, Hash, Binding
  <2>7. RequestOK(r)'
    BY <1>1, <1>3, <2>1, <2>2, <2>3, <2>6, PayFacts
    DEF RequestOK, At, Recoverable, Expired, records, PayPath, Making, Accepted, Trusting, Executed,
        Charged
  <2>8. /\ invocation' \in [Keys -> {"none", "executed", "settled", "delivered"}]
        /\ consumed' \subseteq Hashes
    BY <1>1, <2>1, <2>3 DEF Inv, TypeOK
  <2>9. QED
    BY <1>1, <2>2, <2>4, <2>5, <2>7, <2>8, HandlerOK
<1>4. QED
  BY <1>2, <1>3

LEMMA AdvanceOK == ASSUME Inv, NEW r \in Requests, Advance(r) \/ Deliver(r) PROVE Inv'
<1> DEFINE k == Key(r)
<1>1. /\ req[r].stage \in {"advance", "deliver"} /\ req[r].stage \in PayPath
      /\ UNCHANGED <<now, records, money, inFlight, invoiced, issued, failures>>
  BY DEF Advance, Deliver, At, PayPath
<1>2. /\ k \in Keys /\ invocation[k] # "none" /\ Hash(r) \in Hashes /\ Hash(r) \in 1 .. invoiced
      /\ issued[Hash(r)].binding = Binding(r) /\ Recoverable(Hash(r)) /\ Hash(r) \in paid
  BY <1>1, PayFacts DEF RequestOK, Accepted, Trusting, Executed, PayPath
<1>3. Covered(k)
  <2>1. CASE req[r].stage = "deliver"
    BY <1>1, <2>1, PayFacts DEF RequestOK, At
  <2>2. CASE req[r].stage = "advance"
    <3>1. Hash(r) \in consumed
      BY <1>1, <2>2, PayFacts DEF RequestOK, Charged
    <3>2. QED
      BY <1>2, <3>1 DEF Covered, Key
  <2>3. QED
    BY <1>1, <2>1, <2>2
<1>4. /\ invocation' \in [Keys -> {"none", "executed", "settled", "delivered"}]
      /\ \A j \in Keys : j # k => invocation'[j] = invocation[j]
      /\ invocation'[k] # "none"
  BY <1>2 DEF Advance, Deliver, Inv, TypeOK
<1>5. Grows /\ RecordsOK'
  BY <1>1, <1>3, <1>4, AdvanceGrows DEF records
<1>6. /\ RequestsOK' /\ \A q \in Requests \ {r} : req'[q] = req[q]
      /\ \/ req'[r].stage = "deliver" /\ req'[r].answer = req[r].answer
         \/ req'[r].stage = "answered" /\ req'[r].answer = "result"
      /\ Same(r)
  <2>1. CASE To(r, "deliver")
    BY <1>1, <2>1, PayTo DEF PayPath
  <2>2. CASE Reply(r, "result")
    BY <1>1, <2>2, PayReply DEF Answers
  <2>3. QED
    BY <2>1, <2>2 DEF Advance, Deliver
<1>7. Key(r)' = k /\ Hash(r)' = Hash(r) /\ Binding(r)' = Binding(r)
  BY <1>6 DEF Same, Key, Hash, Binding
<1>8. RequestOK(r)'
  <2>1. Covered(Key(r))'
    BY <1>1, <1>3, <1>7 DEF Covered, money
  <2>2. Recoverable(Hash(r))'
    BY <1>1, <1>2, <1>7 DEF Recoverable, Expired, records
  <2>3. req'[r].settled => Hash(r) \in consumed
    BY <1>1, <1>6, PayFacts DEF RequestOK, Same
  <2>4. QED
    BY <1>1, <1>2, <1>4, <1>6, <1>7, <2>1, <2>2, <2>3, PayFacts
    DEF RequestOK, At, money, PayPath, Making, Accepted, Trusting, Executed, Charged
<1>9. consumed' \subseteq Hashes
  BY <1>1 DEF money, Inv, TypeOK
<1>10. QED
  BY <1>1, <1>4, <1>5, <1>6, <1>8, <1>9, HandlerOK DEF money

-----------------------------------------------------------------------------
(***************************************************************************)
(* The receipt, and what is deleted after it                               *)
(***************************************************************************)
LEMMA SetReceiptOK == ASSUME Inv, NEW r \in Requests, SetReceipt(r) PROVE Inv'
<1>1. /\ req[r].stage = "setReceipt" /\ req[r].stage \in PayPath /\ To(r, "readQuote")
      /\ receipt' = [receipt EXCEPT ![Hash(r)] = Binding(r)]
      /\ UNCHANGED <<now, quote, pointer, money, invocation, inFlight, invoiced, issued, failures>>
  BY DEF SetReceipt, At, PayPath
<1>2. /\ Hash(r) \in consumed /\ Hash(r) \in paid /\ Hash(r) \in Hashes /\ Hash(r) \in 1 .. invoiced
      /\ issued[Hash(r)].binding = Binding(r) /\ invocation[Key(r)] # "none"
      /\ Binding(r) \in Bindings /\ Binding(r) # Nobody /\ RecordsOK
  BY <1>1, PayFacts, PaymentAssumption DEF RequestOK, Accepted, Trusting, Executed, Charged, PayPath
<1>3. /\ receipt' \in [Hashes -> Bindings \cup {Nobody}] /\ receipt'[Hash(r)] = Binding(r)
      /\ \A h \in Hashes : h # Hash(r) => receipt'[h] = receipt[h]
  BY <1>1, <1>2 DEF Inv, TypeOK
<1>4. 1 .. invoiced \subseteq Hashes /\ consumed \subseteq Hashes
  BY PaymentAssumption DEF Inv, TypeOK, Hashes
<1>5. Grows
  BY <1>1, <1>2, <1>3, <1>4 DEF Inv, Grows, TypeOK, money, Recoverable, Expired
<1>6. RecordsOK'
  <2>1. ReceiptIsEarned'
    BY <1>1, <1>2, <1>3 DEF RecordsOK, ReceiptIsEarned, money, Key
  <2>2. RecoverableWhileQuoted'
    BY <1>1, <1>2, <1>3, <1>4 DEF RecordsOK, RecoverableWhileQuoted, money, Expired
  <2>3. \A k \in Keys : invocation'[k] \in {"settled", "delivered"} => Covered(k)'
    BY <1>1, <1>2, <1>5, CoveredStays DEF RecordsOK
  <2>4. QED
    BY <1>1, <1>2, <2>1, <2>2, <2>3 DEF RecordsOK, money
<1>7. /\ RequestsOK' /\ \A q \in Requests \ {r} : req'[q] = req[q]
      /\ req'[r].stage = "readQuote" /\ req'[r].answer = req[r].answer /\ Same(r)
  BY <1>1, PayTo DEF PayPath
<1>8. Key(r)' = Key(r) /\ Hash(r)' = Hash(r) /\ Binding(r)' = Binding(r)
  BY <1>7 DEF Same, Key, Hash, Binding
<1>9. RequestOK(r)'
  BY <1>1, <1>2, <1>3, <1>7, <1>8, PayFacts
  DEF RequestOK, At, money, Recoverable, PayPath, Making, Accepted, Trusting, Executed, Charged
<1>10. TypeOK'
  BY <1>1, <1>3, <1>7 DEF Inv, TypeOK, money, RequestsOK, RequestType, Stages
<1>11. QED
  BY <1>5, <1>6, <1>7, <1>9, <1>10, StepOK DEF LetGo

LEMMA CleanUpOK ==
    ASSUME Inv, NEW r \in Requests, ReadOwnQuote(r) \/ ReadOwnPointer(r) \/ DeletePointer(r)
    PROVE  Inv'
<1>1. /\ req[r].stage \in {"readQuote", "readPointer", "deletePointer"} /\ req[r].stage \in PayPath
      /\ Still /\ UNCHANGED <<failures, inFlight>>
  BY DEF ReadOwnQuote, ReadOwnPointer, DeletePointer, At, PayPath, Still, records
<1>2. PICK stage \in {"deleteQuote", "deletePointer", "advance"} :
         To(r, stage) /\ (stage = "deleteQuote" => req[r].stage = "readQuote")
  BY DEF ReadOwnQuote, ReadOwnPointer, DeletePointer, At
<1>3. /\ RequestsOK' /\ \A q \in Requests \ {r} : req'[q] = req[q]
      /\ req'[r].stage = stage /\ req'[r].answer = req[r].answer /\ Same(r)
  BY <1>1, <1>2, PayTo DEF PayPath
<1>4. /\ Hash(r) \in consumed /\ Hash(r) \in paid /\ Hash(r) \in 1 .. invoiced
      /\ issued[Hash(r)].binding = Binding(r) /\ invocation[Key(r)] # "none"
      /\ Recoverable(Hash(r))
      /\ req[r].stage = "readQuote" => receipt[Hash(r)] # Nobody
  BY <1>1, PayFacts DEF RequestOK, Accepted, Trusting, Executed, Charged, PayPath
<1>5. Key(r)' = Key(r) /\ Hash(r)' = Hash(r) /\ Binding(r)' = Binding(r)
  BY <1>3 DEF Same, Key, Hash, Binding
<1>6. RequestOK(r)'
  BY <1>1, <1>2, <1>3, <1>4, <1>5, PayFacts
  DEF RequestOK, At, Still, money, Recoverable, Expired, PayPath, Making, Accepted, Trusting, Executed,
      Charged
<1>7. pointer' \in [Bindings -> [hash: Hashes \cup {NoHash}, expires: Nat]]
  BY DEF ReadOwnQuote, ReadOwnPointer, DeletePointer, records, Inv, TypeOK, NoPointer
<1>8. TypeOK'
  BY <1>1, <1>3, <1>7 DEF Inv, TypeOK, Still, money, RequestsOK, RequestType, Stages
<1>9. QED
  BY <1>1, <1>3, <1>6, <1>8, StillOK, StepOK DEF LetGo

\* A quote may go where a receipt stays.
LEMMA LessQuotes ==
    ASSUME Inv, now <= now', now' \in Nat, UNCHANGED <<receipt, money, invocation, invoiced, issued>>,
           \A h \in Hashes :
              quote'[h] = quote[h]
              \/ (quote'[h] = NoQuote /\ (receipt[h] # Nobody \/ Expired(quote[h])))
    PROVE  Grows /\ RecordsOK'
<1>1. \A h \in Hashes : Expired(issued[h]) => Expired(issued[h])'
  <2>1. ASSUME NEW h \in Hashes PROVE issued[h].expires \in Nat
    BY DEF Inv, TypeOK
  <2>2. now \in Nat
    BY PaymentAssumption DEF Inv, TypeOK
  <2>3. QED
    BY <2>1, <2>2 DEF Expired
<1>2. ASSUME NEW h \in Hashes, Expired(quote[h]), quote[h] # NoQuote PROVE Expired(issued[h])
  BY <1>2 DEF Inv, RecordsOK
<1>3. \A h \in Hashes : Recoverable(h) => Recoverable(h)'
  BY <1>1, <1>2 DEF Recoverable
<1>4. 1 .. invoiced \subseteq Hashes /\ consumed \subseteq Hashes
  BY PaymentAssumption DEF Inv, TypeOK, Hashes
<1>5. Grows
  BY <1>3, <1>4 DEF Inv, Grows, TypeOK, money
<1>6. RecordsOK'
  <2>1. \A k \in Keys : invocation'[k] \in {"settled", "delivered"} => Covered(k)'
    BY <1>5, CoveredStays DEF Inv, RecordsOK
  <2>2. RecoverableWhileQuoted'
    BY <1>3, <1>4 DEF Inv, RecordsOK, RecoverableWhileQuoted, Recoverable, money
  <2>3. QED
    BY <2>1, <2>2 DEF Inv, RecordsOK, ReceiptIsEarned, money
<1>7. QED
  BY <1>5, <1>6

LEMMA DeleteQuoteOK == ASSUME Inv, NEW r \in Requests, DeleteQuote(r) PROVE Inv'
<1>1. /\ req[r].stage = "deleteQuote" /\ req[r].stage \in PayPath /\ To(r, "readPointer")
      /\ quote' = [quote EXCEPT ![Hash(r)] = NoQuote]
      /\ UNCHANGED <<now, pointer, receipt, money, invocation, inFlight, invoiced, issued, failures>>
  BY DEF DeleteQuote, At, PayPath
<1>2. /\ Hash(r) \in consumed /\ Hash(r) \in paid /\ Hash(r) \in 1 .. invoiced /\ Hash(r) \in Hashes
      /\ issued[Hash(r)].binding = Binding(r) /\ invocation[Key(r)] # "none"
      /\ receipt[Hash(r)] # Nobody
  BY <1>1, PayFacts DEF RequestOK, Accepted, Trusting, Executed, Charged, PayPath
<1>3. quote' \in [Hashes -> [binding: Bindings \cup {Nobody}, expires: Nat]]
  BY <1>1, <1>2 DEF Inv, TypeOK, NoQuote
<1>4. \A h \in Hashes : quote'[h] = quote[h] \/ (quote'[h] = NoQuote /\ receipt[h] # Nobody)
  BY <1>1, <1>2 DEF Inv, TypeOK
<1>5. Grows /\ RecordsOK'
  BY <1>1, <1>4, LessQuotes, PaymentAssumption DEF Inv, TypeOK
<1>6. /\ RequestsOK' /\ \A q \in Requests \ {r} : req'[q] = req[q]
      /\ req'[r].stage = "readPointer" /\ req'[r].answer = req[r].answer /\ Same(r)
  BY <1>1, PayTo DEF PayPath
<1>7. Key(r)' = Key(r) /\ Hash(r)' = Hash(r) /\ Binding(r)' = Binding(r)
  BY <1>6 DEF Same, Key, Hash, Binding
<1>8. RequestOK(r)'
  BY <1>1, <1>2, <1>6, <1>7, PayFacts
  DEF RequestOK, At, money, Recoverable, PayPath, Making, Accepted, Trusting, Executed, Charged
<1>9. TypeOK'
  BY <1>1, <1>3, <1>6 DEF Inv, TypeOK, money, RequestsOK, RequestType, Stages
<1>10. QED
  BY <1>5, <1>6, <1>8, <1>9, StepOK DEF LetGo

-----------------------------------------------------------------------------
(***************************************************************************)
(* The client, the clock and the pruner                                    *)
(***************************************************************************)
LEMMA PayOK == ASSUME Inv, NEW h \in Hashes, Pay(h) PROVE Inv'
<1>1. /\ paid' = paid \cup {h}
      /\ UNCHANGED <<now, records, consumed, invocation, inFlight, req, invoiced, issued, failures>>
  BY DEF Pay
<1>2. Grows
  BY <1>1 DEF Inv, Grows, TypeOK, records, Recoverable, Expired
<1>3. RecordsOK'
  <2>1. \A k \in Keys : invocation'[k] \in {"settled", "delivered"} => Covered(k)'
    BY <1>1, <1>2, CoveredStays DEF Inv, RecordsOK
  <2>2. QED
    BY <1>1, <2>1 DEF Inv, RecordsOK, ReceiptIsEarned, RecoverableWhileQuoted, records, Expired
<1>4. TypeOK'
  BY <1>1 DEF Inv, TypeOK, records
<1>5. QED
  BY <1>1, <1>2, <1>3, <1>4, StepOK DEF LetGo

LEMMA PruneOK == ASSUME Inv, Prune PROVE Inv'
<1>1. /\ quote' = [h \in Hashes |-> IF Expired(quote[h]) THEN NoQuote ELSE quote[h]]
      /\ pointer' = [b \in Bindings |-> IF Expired(pointer[b]) THEN NoPointer ELSE pointer[b]]
      /\ UNCHANGED <<now, receipt, money, invocation, inFlight, req, invoiced, issued, failures>>
  BY DEF Prune
<1>2. /\ quote' \in [Hashes -> [binding: Bindings \cup {Nobody}, expires: Nat]]
      /\ pointer' \in [Bindings -> [hash: Hashes \cup {NoHash}, expires: Nat]]
  BY <1>1 DEF Inv, TypeOK, NoQuote, NoPointer
<1>3. Grows /\ RecordsOK'
  BY <1>1, LessQuotes, PaymentAssumption DEF Inv, TypeOK
<1>4. TypeOK'
  BY <1>1, <1>2 DEF Inv, TypeOK, money
<1>5. QED
  BY <1>1, <1>3, <1>4, StepOK DEF LetGo

LEMMA TickOK == ASSUME Inv, Tick PROVE Inv'
<1>1. /\ now < MaxTime /\ now' = now + 1
      /\ UNCHANGED <<records, money, invocation, inFlight, req, invoiced, issued, failures>>
  BY DEF Tick
<1>2. now' \in 0 .. MaxTime /\ now <= now' /\ now' \in Nat
  BY <1>1, PaymentAssumption DEF Inv, TypeOK
<1>3. Grows /\ RecordsOK'
  BY <1>1, <1>2, LessQuotes DEF records
<1>4. TypeOK'
  BY <1>1, <1>2 DEF Inv, TypeOK, records, money
<1>5. QED
  BY <1>1, <1>3, <1>4, StepOK DEF LetGo

LEMMA InitOK == Init => Inv
<1> SUFFICES ASSUME Init PROVE Inv
  OBVIOUS
<1>1. TypeOK
  BY PaymentAssumption, IdleType
  DEF Init, TypeOK, NoQuote, NoPointer, RequestType, Stages
<1>2. RecordsOK
  BY DEF Init, RecordsOK, ReceiptIsEarned, RecoverableWhileQuoted
<1>3. \A r \in Requests : RequestOK(r)
  BY DEF Init, RequestOK, Idle, At, PayPath, Making, Accepted, Trusting, Executed, Charged
<1>4. QED
  BY <1>1, <1>2, <1>3 DEF Inv

LEMMA NextOK == Inv /\ [Next]_vars => Inv'
<1> SUFFICES ASSUME Inv, [Next]_vars PROVE Inv'
  OBVIOUS
<1>1. ASSUME NEW r \in Requests, NEW b \in Bindings,
             Ask(r, b) \/ \E h \in Hashes : Present(r, b, h)
      PROVE  Inv'
  BY <1>1, AskOK, PresentOK
<1>2. ASSUME NEW r \in Requests, Serve(r) PROVE Inv'
  BY <1>2, ReadPointerOK, ReadPointedQuoteOK, DropPointerOK, LeadOK, InvoiceOK, SetQuoteOK,
     SetPointerOK, QuotedOK, ReadReceiptOK, ReadQuoteOK, VerifyOK, BeginOK, ExecuteOK, SettleOK,
     SetReceiptOK, CleanUpOK, DeleteQuoteOK, AdvanceOK, LeaveOK
  DEF Serve
<1>3. ASSUME NEW r \in Requests, Fail(r) PROVE Inv'
  BY <1>3, FailOK
<1>4. ASSUME NEW h \in Hashes, Pay(h) PROVE Inv'
  BY <1>4, PayOK
<1>5. CASE Prune \/ Tick
  BY <1>5, PruneOK, TickOK
<1>6. CASE UNCHANGED vars
  <2>1. Still /\ UNCHANGED <<pointer, failures, inFlight, req>>
    BY <1>6 DEF vars, Still, records
  <2>2. RequestsOK' /\ LeadersOK'
    BY <2>1, TypeParts DEF Inv, RequestsOK, LeadersOK
  <2>3. QED
    BY <2>1, <2>2, QuietOK DEF LetGo
<1>7. QED
  BY <1>1, <1>2, <1>3, <1>4, <1>5, <1>6 DEF Next

LEMMA Invariant == Spec => []Inv
BY InitOK, NextOK, PTL DEF Spec

-----------------------------------------------------------------------------
\* Records, requests and histories keep their types.
THEOREM TypeCorrect == Spec => []TypeOK
BY Invariant, PTL DEF Inv

\* A payment is used up only by the request it was quoted for, with any number of quotes
\* for a request, replicas that make them at once, crashes and expiries
\* (verifyPaymentHeader).
THEOREM ServesItsRequest == Spec => []PaymentServesItsRequest
<1>1. Inv => PaymentServesItsRequest
  BY DEF Inv, RequestOK, PaymentServesItsRequest
<1>2. QED
  BY <1>1, Invariant, PTL

\* No result is answered without a payment for its request that was consumed
\* (handleInvokeRequest, settlePayment).
THEOREM OnlyPaidDelivered == Spec => []DeliveredIsPaid
<1>1. ASSUME Inv PROVE DeliveredIsPaid
  <2>1. ASSUME NEW r \in Requests, req[r].answer = "result"
        PROVE  Hash(r) \in paid /\ \E h \in consumed : issued[h].binding = Binding(r)
    <3>1. /\ Hash(r) \in paid /\ Covered(Key(r)) /\ issued[Hash(r)].binding = Binding(r)
          /\ Hash(r) \in 1 .. invoiced /\ ~At(r, "idle") /\ Binding(r) \in Bindings
      BY <1>1, <2>1 DEF Inv, RequestOK, At
    <3>2. PICK h \in consumed : KeyOf(issued[h].binding, h) = Key(r)
      BY <3>1 DEF Covered
    <3>3. h \in Hashes /\ Hash(r) \in Hashes
      BY <1>1, <3>1, PaymentAssumption DEF Inv, TypeOK, Hashes
    <3>4. issued[h].binding = Binding(r)
      BY <3>1, <3>2, <3>3, PaymentAssumption DEF Key, KeyOf
    <3>5. QED
      BY <3>1, <3>4
  <2>2. QED
    BY <1>1, <2>1 DEF Inv, RecordsOK, DeliveredIsPaid
<1>2. QED
  BY <1>1, Invariant, PTL

\* Crashes, retries and prunes leave every consumed payment a quote or a receipt to be
\* recovered by, as long as its quote has not expired (deleteQuote, pruneExpiredQuotes).
THEOREM StaysRecoverable == Spec => []RecoverableWhileQuoted
BY Invariant, PTL DEF Inv, RecordsOK

\* A receipt is stored only for a consumed payment and a durable result (settlePayment).
THEOREM ReceiptsAreEarned == Spec => []ReceiptIsEarned
BY Invariant, PTL DEF Inv, RecordsOK
=============================================================================
