------------------------------ MODULE AgentCall ------------------------------
(***************************************************************************)
(* An agent has one paid, idempotent job done: through the agent SDK, the  *)
(* gateway and the HTTP service of a remote provider.  A call of the SDK   *)
(* asks, is answered 402, pays and asks again; the agent calls again when  *)
(* no answer comes, and handlers of calls it gave up go on.  The gateway   *)
(* proves to the provider, with an assertion that expires, that it checked *)
(* the capability; upstream requests are delayed, clocks differ, and the   *)
(* owner may sell the capability at any time.                              *)
(*                                                                         *)
(* A challenge is fetched and signed in the step that sends the request    *)
(* (Authorization has it), bindings and quotes are written in one step     *)
(* (OperationBinding, PaymentFlow), and so is a lease (Invocation).        *)
(***************************************************************************)
EXTENDS Integers, Sequences, FiniteSets

CONSTANTS
    MaxCalls,
    HandlerTime,  \* a handler reaches the provider this soon after it checked the owner
    LeaseTime,    \* EXECUTION_LEASE_MS
    Ttl,          \* ttlSeconds of an assertion
    Skew,         \* CLOCK_SKEW_MS; the clocks of gateway and provider differ by no more
    MaxTime       \* bound

VARIABLES
    now,          \* the gateway's clock
    offset,       \* of the provider's clock
    supplies,     \* whether the agent gives its job an operation id
    sold,         \* when the capability was transferred
    call,         \* the calls of the SDK
    req,          \* their HTTP requests at the gateway
    bound,        \* the invocation key an operation id is bound to
    invocation,
    quote, open,  \* the operation each invoice was made for; the live quotes
    paid, settled,
    evidence,     \* the authorization evidence the gateway has stored
    network,      \* upstream requests on their way
    effects       \* what the provider did

gateway == <<bound, invocation, quote, open, settled, evidence>>
remote == <<network, effects>>
vars == <<now, offset, supplies, sold, call, req, gateway, paid, remote>>

Calls == 1 .. MaxCalls
Requests == Calls \X {"first", "paid"}
Never == MaxTime + 1
NoKey == <<>>
Idle == [step |-> "idle", op |-> 0, invoice |-> 0]
NotSent == [step |-> "none", since |-> 0, answer |-> "none", invoice |-> 0]
NoInvocation == [state |-> "authorized", holder |-> <<0, "none">>, until |-> 0]
Keys == Calls \X (0 .. MaxCalls)

Init ==
    /\ now = 0 /\ offset \in -Skew .. Skew /\ supplies \in BOOLEAN /\ sold = Never
    /\ call = [c \in Calls |-> Idle]
    /\ req = [r \in Requests |-> NotSent]
    /\ bound = [op \in Calls |-> NoKey]
    /\ invocation = [k \in Keys |-> NoInvocation]
    /\ quote = <<>> /\ open = {} /\ paid = {} /\ settled = {} /\ evidence = {}
    /\ network = {} /\ effects = {}

At(r, step) == req[r].step = step
Op(r) == call[r[1]].op
Invoice(r) == IF r[2] = "paid" THEN call[r[1]].invoice ELSE 0

\* (slip) the invocation key of a read service, which is the payment's
PaidKey(op, invoice) == <<op, invoice>>

\* The provider, service, policy, out point and input are those of the job.
ActionKey(op, invoice) == <<op, 0>>
Key(r) == ActionKey(Op(r), Invoice(r))
Of(r) == invocation[Key(r)]

To(r, step) == req' = [req EXCEPT ![r].step = step]
\* past the wait for the lease, when its start matters no more
Past(r, step) == req' = [req EXCEPT ![r] = [NotSent EXCEPT !.step = step]]
Reply(r, answer) == req' = [req EXCEPT ![r] = [NotSent EXCEPT !.step = "ended", !.answer = answer]]

-----------------------------------------------------------------------------
(***************************************************************************)
(* The agent: invokeSkillPassWithPayment                                   *)
(***************************************************************************)
Ended(c) == call[c].step \in {"served", "failed"}

Send(c, leg, record) ==
    /\ call' = [call EXCEPT ![c] = record]
    /\ req' = [req EXCEPT ![<<c, leg>>].step = "sent"]

\* The operation id is the agent's, or a new one of the SDK.
Start(c) ==
    /\ call[c] = Idle
    /\ \A d \in Calls : d < c => call[d].step = "failed"
    /\ Send(c, "first", [step |-> "first", op |-> IF supplies THEN 1 ELSE c, invoice |-> 0])
    /\ UNCHANGED <<now, offset, supplies, sold, gateway, paid, remote>>

Receive(c, leg) ==
    LET r == <<c, leg>> IN
    /\ call[c].step = leg /\ At(r, "ended")
    /\ call' = [call EXCEPT
                  ![c].step = CASE req[r].answer = "quoted" -> "pay"
                                [] req[r].answer = "result" -> "served"
                                [] OTHER -> "failed",
                  ![c].invoice = IF leg = "first" THEN req[r].invoice ELSE @]
    /\ UNCHANGED <<now, offset, supplies, sold, req, gateway, paid, remote>>

\* The request or its answer is lost, or the payment adapter fails: the call throws.
Throw(c) ==
    /\ call[c].step \in {"first", "pay", "paid"}
    /\ call' = [call EXCEPT ![c].step = "failed"]
    /\ UNCHANGED <<now, offset, supplies, sold, req, gateway, paid, remote>>

\* The adapter pays, and the request is sent again, with the same operation id.
Pay(c) ==
    /\ call[c].step = "pay"
    /\ paid' = paid \cup {call[c].invoice}
    /\ Send(c, "paid", [call[c] EXCEPT !.step = "paid"])
    /\ UNCHANGED <<now, offset, supplies, sold, gateway, remote>>

-----------------------------------------------------------------------------
(***************************************************************************)
(* The gateway: handleInvokeRequest for an action with payments required   *)
(***************************************************************************)
others == <<now, offset, supplies, sold, call, paid, remote>>

\* The owner is checked, and the operation id is bound before anything is quoted.
Authenticate(r) ==
    /\ At(r, "sent")
    /\ \/ sold # Never /\ Reply(r, "refused") /\ UNCHANGED bound
       \/ /\ sold = Never /\ bound[Op(r)] \notin {NoKey, Key(r)}
          /\ Reply(r, "conflict")
          /\ UNCHANGED bound
       \/ /\ sold = Never /\ bound[Op(r)] \in {NoKey, Key(r)}
          /\ bound' = [bound EXCEPT ![Op(r)] = Key(r)]
          /\ req' = [req EXCEPT ![r].step = IF r[2] = "first" THEN "quote" ELSE "verify",
                                ![r].since = now]
    /\ UNCHANGED <<invocation, quote, open, settled, evidence, others>>

\* 402 with the live quote of the request, or a new one, whether it was delivered or not
Quote(r) ==
    LET live == {i \in open : quote[i] = Op(r)}
        Quoted(i) == req' = [req EXCEPT ![r] = [NotSent EXCEPT !.step = "ended",
                                                !.answer = "quoted", !.invoice = i]] IN
    /\ At(r, "quote")
    /\ \/ \E i \in live : Quoted(i) /\ UNCHANGED <<quote, open>>
       \/ /\ live = {}
          /\ Quoted(Len(quote) + 1)
          /\ quote' = Append(quote, Op(r))
          /\ open' = open \cup {Len(quote) + 1}
    /\ UNCHANGED <<bound, invocation, settled, evidence, others>>

QuoteExpires(i) ==
    /\ i \in open
    /\ open' = open \ {i}
    /\ UNCHANGED <<req, bound, invocation, quote, settled, evidence, others>>

\* A receipt of the payment, or a live quote that is paid; both for this operation
VerifyPayment(r) ==
    LET i == Invoice(r) IN
    /\ At(r, "verify")
    /\ IF i \in settled \cup (open \cap paid) /\ quote[i] = Op(r)
       THEN To(r, "lookup") ELSE Reply(r, "refused")
    /\ UNCHANGED <<gateway, others>>

Delivered(r) ==
    /\ At(r, "lookup") /\ Of(r).state = "delivered"
    /\ Past(r, "record")
    /\ UNCHANGED <<gateway, others>>

\* acquireExecutionForRequest: another handler has executed
Follow(r) ==
    /\ At(r, "lookup") /\ Of(r).state \in {"executed", "settled"}
    /\ Past(r, "settle")
    /\ UNCHANGED <<gateway, others>>

GiveUp(r) ==
    /\ At(r, "lookup") /\ Of(r).state = "authorized" /\ now < Of(r).until
    /\ Reply(r, "refused")
    /\ UNCHANGED <<gateway, others>>

\* createGatewayAssertion: what the gateway knows of the request, signed, for Ttl from now
Assertion(r) == [request |-> r, key |-> Key(r), issuedAt |-> now, checked |-> req[r].since]

\* The lease, and the provider's request with its assertion; a payment that was settled
\* before has its result in the receipt.
Acquire(r) ==
    /\ At(r, "lookup") /\ Of(r).state = "authorized" /\ now >= Of(r).until
    /\ IF Invoice(r) \in settled
       THEN /\ invocation' = [invocation EXCEPT ![Key(r)].state = "executed"]
            /\ Past(r, "settle")
            /\ UNCHANGED network
       ELSE /\ invocation' = [invocation EXCEPT ![Key(r)].holder = r,
                                                ![Key(r)].until = now + LeaseTime]
            /\ Past(r, "execute")
            /\ network' = network \cup {Assertion(r)}
    /\ UNCHANGED <<now, offset, supplies, sold, call, paid, bound, quote, open, settled,
                   evidence, effects>>

\* completeExecutionLease, which fails if another handler has taken the lease
Complete(r) ==
    /\ At(r, "answered")
    /\ IF Of(r).holder = r /\ Of(r).state = "authorized"
       THEN /\ invocation' = [invocation EXCEPT ![Key(r)].state = "executed"]
            /\ To(r, "settle")
       ELSE Reply(r, "refused") /\ UNCHANGED invocation
    /\ UNCHANGED <<bound, quote, open, settled, evidence, others>>

Settle(r) ==
    /\ At(r, "settle")
    /\ IF Of(r).state = "executed"
       THEN /\ settled' = settled \cup {Invoice(r)}
            /\ open' = open \ {Invoice(r)}
            /\ invocation' = [invocation EXCEPT ![Key(r)].state = "settled"]
       ELSE UNCHANGED <<settled, open, invocation>>
    /\ To(r, "deliver")
    /\ UNCHANGED <<bound, quote, evidence, others>>

Deliver(r) ==
    /\ At(r, "deliver")
    /\ invocation' = [invocation EXCEPT ![Key(r)].state = "delivered"]
    /\ To(r, "record")
    /\ UNCHANGED <<bound, quote, open, settled, evidence, others>>

\* createAuthorizationEvidence: the request, its operation and the payment it presented
Evidence(r) == [request |-> r, key |-> Key(r), invoice |-> Invoice(r)]

\* persistAuthorizationEvidence, and the answer, which may not be sent.  Every request has an
\* id of its own to store its evidence under.
Record(r) ==
    /\ At(r, "record")
    /\ evidence' = evidence \cup {Evidence(r)}
    /\ \E answer \in {"result", "refused"} : Reply(r, answer)
    /\ UNCHANGED <<bound, invocation, quote, open, settled, others>>

\* Any await may throw (postJsonPinned times out, the provider answers with an error), and the
\* process may end; what is stored stays.
Crash(r) ==
    /\ req[r].step \notin {"none", "ended"}
    /\ Reply(r, "refused")
    /\ UNCHANGED <<gateway, others>>

-----------------------------------------------------------------------------
(***************************************************************************)
(* The provider, which verifies assertions with the package and keeps what *)
(* it did by invocation key                                                *)
(***************************************************************************)
\* (slip) the lifetime in the assertion is not compared with the clock
NotFromTheFuture(m) == m.issuedAt <= now + offset + Skew

VerifyAssertion(m) ==
    /\ m.issuedAt <= now + offset + Skew
    /\ now + offset < m.issuedAt + Ttl

\* A request that is lost or rejected stays under way for ever.
Serve(m) ==
    /\ m \in network /\ VerifyAssertion(m)
    /\ network' = network \ {m}
    /\ IF At(m.request, "execute") THEN To(m.request, "answered") ELSE UNCHANGED req
    /\ effects' = IF \E e \in effects : e.key = m.key THEN effects
                  ELSE effects \cup {[key |-> m.key, at |-> now, checked |-> m.checked]}
    /\ UNCHANGED <<now, offset, supplies, sold, call, gateway, paid>>

Sell ==
    /\ sold = Never
    /\ sold' = now
    /\ UNCHANGED <<now, offset, supplies, call, req, gateway, paid, remote>>

\* Every wait between the check of the owner and the lease has a deadline.
Tick ==
    /\ now < MaxTime
    /\ \A r \in Requests : req[r].step \in {"quote", "verify", "lookup"} =>
                               now < req[r].since + HandlerTime
    /\ now' = now + 1
    /\ UNCHANGED <<offset, supplies, sold, call, req, gateway, paid, remote>>

Next ==
    \/ \E c \in Calls : Start(c) \/ Pay(c) \/ Throw(c) \/ Receive(c, "first") \/ Receive(c, "paid")
    \/ \E r \in Requests :
          \/ Authenticate(r) \/ Quote(r) \/ VerifyPayment(r)
          \/ Delivered(r) \/ Follow(r) \/ GiveUp(r) \/ Acquire(r)
          \/ Complete(r) \/ Settle(r) \/ Deliver(r) \/ Record(r) \/ Crash(r)
    \/ \E i \in open : QuoteExpires(i)
    \/ \E m \in network : Serve(m)
    \/ Sell \/ Tick

Spec == Init /\ [][Next]_vars

-----------------------------------------------------------------------------
\* No request of the job, with or without a payment, of the first call or of a later one, is
\* refused as another request under the same operation id: its invocation key stays the same.
RetryIsNeverAConflict == \A r \in Requests : req[r].answer # "conflict"

\* A result is answered only when its evidence is stored, and evidence is stored only of what
\* the provider has done under the invocation key it names, for an invoice that was paid for
\* the operation, and after a payment of the operation was settled.
EvidenceIsTrue ==
    /\ \A r \in Requests : req[r].answer = "result" => Evidence(r) \in evidence
    /\ \A e \in evidence :
          /\ \E done \in effects : done.key = e.key
          /\ e.invoice \in paid
          /\ \E i \in settled : quote[i] = quote[e.invoice]

\* Once the capability is sold, the provider does nothing for its former owner when the
\* deadlines of the handler, the life of an assertion and the difference of the clocks have
\* passed, however long an upstream request is under way.
OwnedRecently == \A e \in effects : sold # Never => e.at < sold + HandlerTime + Ttl + Skew + 1

\* No invoice is paid for an operation whose payment was settled before: a lost answer does
\* not cost the agent a second payment.
NoSecondPayment ==
    [][\A i \in paid' \ paid : ~\E j \in settled : quote[i] = quote[j]]_vars
===============================================================================
