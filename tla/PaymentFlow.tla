---------------------------- MODULE PaymentFlow ----------------------------
(***************************************************************************)
(* Quotes, payments and receipts: how the live service answers 402 with a  *)
(* quote, and serves the request that comes back with a payment.           *)
(*                                                                         *)
(* A binding stands for one semantic request (paymentBinding hashes it), a *)
(* hash for an invoice; hashes are numbered in the order the facilitator   *)
(* makes them.  Execution is one step here (Invocation has the lease), and *)
(* so is the facilitator's settle (FiberSettlement).  Receipts and         *)
(* invocation records outlive MaxTime: their retention is a day or more.   *)
(***************************************************************************)
EXTENDS Naturals, FiniteSets

CONSTANTS
    Bindings,
    Requests,       \* handlers at work
    Instances,      \* processes; each has its quoteInFlight map
    RunsOn,         \* [Requests -> Instances]
    Nobody,
    Actions,        \* requests of idempotent actions: keyed by the request, not the payment
    Postgres,       \* TRUE: get does not return expired rows
    QuoteTtl,
    MaxHashes, MaxTime, MaxFailures   \* bounds

Hashes == 1 .. MaxHashes
NoHash == 0
Keys == Bindings \cup Hashes
NoPointer == [hash |-> NoHash, expires |-> 0]
NoQuote == [binding |-> Nobody, expires |-> 0]

ASSUME PaymentAssumption ==
    /\ RunsOn \in [Requests -> Instances]
    /\ Nobody \notin Bindings /\ Nobody \notin Requests
    /\ Actions \subseteq Bindings /\ Bindings \cap Hashes = {}
    /\ Postgres \in BOOLEAN
    /\ QuoteTtl \in Nat \ {0}
    /\ MaxHashes \in Nat /\ MaxTime \in Nat /\ MaxFailures \in Nat

VARIABLES
    now,
    quote,       \* quote:<hash>
    pointer,     \* quote-binding:<binding>
    receipt,     \* receipt:<hash>: the binding it was stored for
    paid,        \* invoices paid on the Fiber network
    consumed,    \* the facilitator's consumption records
    invocation,
    inFlight,    \* quoteInFlight: the request that makes the quote
    req,
    invoiced,    \* invoices made so far
    issued,      \* history: the request each invoice was made for, and its quote's expiry
    failures

records == <<quote, pointer, receipt>>
money == <<paid, consumed>>
vars == <<now, records, money, invocation, inFlight, req, invoiced, issued, failures>>

QuotePath == {"pointer", "pointed", "drop", "lead", "follow", "invoice", "setQuote",
              "setPointer", "publish"}
PayPath == {"receipt", "quote", "verify", "begin", "execute", "settle", "setReceipt",
            "readQuote", "deleteQuote", "readPointer", "deletePointer", "advance", "deliver"}
Answers == {"none", "quoted", "unknownQuote", "unpaid", "result"}
Idle == [stage |-> "idle", binding |-> Nobody, hash |-> NoHash, again |-> FALSE,
         settled |-> FALSE, answer |-> "none"]

TypeOK ==
    /\ now \in 0 .. MaxTime
    /\ quote \in [Hashes -> [binding: Bindings \cup {Nobody}, expires: Nat]]
    /\ pointer \in [Bindings -> [hash: Hashes \cup {NoHash}, expires: Nat]]
    /\ receipt \in [Hashes -> Bindings \cup {Nobody}]
    /\ paid \subseteq Hashes /\ consumed \subseteq Hashes
    /\ invocation \in [Keys -> {"none", "executed", "settled", "delivered"}]
    /\ inFlight \in [Instances -> [Bindings -> Requests \cup {Nobody}]]
    /\ req \in [Requests -> [stage: QuotePath \cup PayPath \cup {"idle", "answered"},
                             binding: Bindings \cup {Nobody}, hash: Hashes \cup {NoHash},
                             again: BOOLEAN, settled: BOOLEAN, answer: Answers]]
    /\ invoiced \in 0 .. MaxHashes
    /\ issued \in [Hashes -> [binding: Bindings \cup {Nobody}, expires: Nat]]
    /\ failures \in 0 .. MaxFailures

Init ==
    /\ now = 0
    /\ quote = [h \in Hashes |-> NoQuote]
    /\ pointer = [b \in Bindings |-> NoPointer]
    /\ receipt = [h \in Hashes |-> Nobody]
    /\ paid = {} /\ consumed = {}
    /\ invocation = [k \in Keys |-> "none"]
    /\ inFlight = [i \in Instances |-> [b \in Bindings |-> Nobody]]
    /\ req = [r \in Requests |-> Idle]
    /\ invoiced = 0
    /\ issued = [h \in Hashes |-> NoQuote]
    /\ failures = 0

-----------------------------------------------------------------------------
At(r, stage) == req[r].stage = stage
To(r, stage) == req' = [req EXCEPT ![r].stage = stage]
Reply(r, answer) == req' = [req EXCEPT ![r].stage = "answered", ![r].answer = answer]
Binding(r) == req[r].binding
Hash(r) == req[r].hash
KeyOf(b, h) == IF b \in Actions THEN b ELSE h
Key(r) == KeyOf(Binding(r), Hash(r))

\* What get returns: PostgreSQL hides rows that have expired.
Found(row, none) == row # none /\ (Postgres => now < row.expires)
Expired(row) == now >= row.expires

-----------------------------------------------------------------------------
(***************************************************************************)
(* createPaymentQuote                                                      *)
(***************************************************************************)
Ask(r, b) ==
    /\ At(r, "idle")
    /\ req' = [req EXCEPT ![r] = [Idle EXCEPT !.stage = "pointer", !.binding = b]]
    /\ UNCHANGED <<now, records, money, invocation, inFlight, invoiced, issued, failures>>

\* getQuoteByBinding found nothing: the first time the in-flight map decides, the second
\* time an invoice is made.
NotQuoted(r) == To(r, IF req[r].again THEN "invoice" ELSE "lead")

ReadPointer(r) ==
    LET p == pointer[Binding(r)] IN
    /\ At(r, "pointer")
    /\ IF ~Found(p, NoPointer) THEN NotQuoted(r)
       ELSE IF Expired(p) THEN To(r, "drop")
       ELSE req' = [req EXCEPT ![r].stage = "pointed", ![r].hash = p.hash]
    /\ UNCHANGED <<now, records, money, invocation, inFlight, invoiced, issued, failures>>

Leads(r) == req[r].stage \in QuotePath /\ inFlight[RunsOn[r]][Binding(r)] = r

Led(r) == {q \in Requests : /\ Leads(r) /\ At(q, "follow")
                            /\ RunsOn[q] = RunsOn[r] /\ Binding(q) = Binding(r)}

NoLongerLeads(r) ==
    inFlight' = IF Leads(r) THEN [inFlight EXCEPT ![RunsOn[r]][Binding(r)] = Nobody]
                ELSE inFlight

\* A leader answers its followers too, and fails them when it fails.
Publish(r, h) ==
    /\ req' = [q \in Requests |->
          IF q \in Led(r) \cup {r}
          THEN [req[q] EXCEPT !.stage = "answered", !.answer = "quoted", !.hash = h]
          ELSE req[q]]
    /\ NoLongerLeads(r)

Abandon(r) ==
    /\ req' = [q \in Requests |-> IF q \in Led(r) \cup {r} THEN Idle ELSE req[q]]
    /\ NoLongerLeads(r)

ReadPointedQuote(r) ==
    LET q == quote[Hash(r)] IN
    /\ At(r, "pointed")
    /\ IF Found(q, NoQuote) /\ q.binding = Binding(r) /\ ~Expired(q)
       THEN Publish(r, Hash(r))
       ELSE To(r, "drop") /\ UNCHANGED inFlight
    /\ UNCHANGED <<now, records, money, invocation, invoiced, issued, failures>>

\* The pointer is deleted whatever it holds by now.
DropPointer(r) ==
    /\ At(r, "drop")
    /\ pointer' = [pointer EXCEPT ![Binding(r)] = NoPointer]
    /\ NotQuoted(r)
    /\ UNCHANGED <<now, quote, receipt, money, invocation, inFlight, invoiced, issued, failures>>

\* One request of the process makes the quote, after looking once more.
Lead(r) ==
    /\ At(r, "lead")
    /\ IF inFlight[RunsOn[r]][Binding(r)] # Nobody
       THEN To(r, "follow") /\ UNCHANGED inFlight
       ELSE /\ req' = [req EXCEPT ![r].stage = "pointer", ![r].again = TRUE]
            /\ inFlight' = [inFlight EXCEPT ![RunsOn[r]][Binding(r)] = r]
    /\ UNCHANGED <<now, records, money, invocation, invoiced, issued, failures>>

\* facilitator.invoice, which has only MaxHashes to give
Invoice(r) ==
    /\ At(r, "invoice")
    /\ \/ /\ invoiced < MaxHashes
          /\ invoiced' = invoiced + 1
          /\ issued' = [issued EXCEPT ![invoiced + 1].binding = Binding(r)]
          /\ req' = [req EXCEPT ![r].stage = "setQuote", ![r].hash = invoiced + 1]
          /\ UNCHANGED inFlight
       \/ invoiced = MaxHashes /\ Abandon(r) /\ UNCHANGED <<invoiced, issued>>
    /\ UNCHANGED <<now, records, money, invocation, failures>>

\* (slip) the sign of the lifetime
Backwards == now - QuoteTtl

QuoteExpiry == now + QuoteTtl

SetQuote(r) ==
    /\ At(r, "setQuote")
    /\ issued' = [issued EXCEPT ![Hash(r)].expires = QuoteExpiry]
    /\ quote' = [quote EXCEPT ![Hash(r)] = issued'[Hash(r)]]
    /\ To(r, "setPointer")
    /\ UNCHANGED <<now, pointer, receipt, money, invocation, inFlight, invoiced, failures>>

\* The pointer expires with the quote.
SetPointer(r) ==
    /\ At(r, "setPointer")
    /\ pointer' = [pointer EXCEPT ![Binding(r)] =
                      [hash |-> Hash(r), expires |-> issued[Hash(r)].expires]]
    /\ To(r, "publish")
    /\ UNCHANGED <<now, quote, receipt, money, invocation, inFlight, invoiced, issued, failures>>

Quoted(r) ==
    /\ At(r, "publish")
    /\ Publish(r, Hash(r))
    /\ UNCHANGED <<now, records, money, invocation, invoiced, issued, failures>>

-----------------------------------------------------------------------------
(***************************************************************************)
(* verifyPaymentHeader                                                     *)
(***************************************************************************)
\* A client comes with a payment it was quoted, for the same request or another.
Present(r, b, h) ==
    /\ At(r, "idle")
    /\ h <= invoiced
    /\ req' = [req EXCEPT ![r] = [Idle EXCEPT !.stage = "receipt", !.binding = b, !.hash = h]]
    /\ UNCHANGED <<now, records, money, invocation, inFlight, invoiced, issued, failures>>

ReadReceipt(r) ==
    /\ At(r, "receipt")
    /\ req' = IF receipt[Hash(r)] = Binding(r)
              THEN [req EXCEPT ![r].stage = "begin", ![r].settled = TRUE]
              ELSE [req EXCEPT ![r].stage = "quote"]
    /\ UNCHANGED <<now, records, money, invocation, inFlight, invoiced, issued, failures>>

\* (slip) a quote serves any request
AnyBinding(r) == Found(quote[Hash(r)], NoQuote) /\ ~Expired(quote[Hash(r)])

\* The quote exists, is fresh and was made for this request.
QuoteServes(r) ==
    /\ Found(quote[Hash(r)], NoQuote)
    /\ ~Expired(quote[Hash(r)])
    /\ quote[Hash(r)].binding = Binding(r)

ReadQuote(r) ==
    /\ At(r, "quote")
    /\ IF QuoteServes(r) THEN To(r, "verify") ELSE Reply(r, "unknownQuote")
    /\ UNCHANGED <<now, records, money, invocation, inFlight, invoiced, issued, failures>>

\* (slip) an unpaid invoice passes
Trusted(h) == TRUE

\* (slip) a consumed payment is refused, as it is in a first use
StrictlyPaid(h) == h \in paid \ consumed

\* isValid, or payment_already_consumed: a crash may have followed the settlement
PaidOrConsumed(h) == h \in paid \cup consumed

Verify(r) ==
    /\ At(r, "verify")
    /\ IF PaidOrConsumed(Hash(r)) THEN To(r, "begin") ELSE Reply(r, "unpaid")
    /\ UNCHANGED <<now, records, money, invocation, inFlight, invoiced, issued, failures>>

-----------------------------------------------------------------------------
(***************************************************************************)
(* The rest of handleInvokeRequest                                         *)
(***************************************************************************)
Begin(r) ==
    /\ At(r, "begin")
    /\ IF invocation[Key(r)] = "delivered" THEN Reply(r, "result") ELSE To(r, "execute")
    /\ UNCHANGED <<now, records, money, invocation, inFlight, invoiced, issued, failures>>

\* (slip) the receipt is stored before the facilitator has settled
ReceiptFirst == "setReceipt"

\* The facilitator settles, then the receipt is stored.
AfterExecute == "settle"

\* Whoever holds the lease executes; whoever finds a result uses it.
Execute(r) ==
    /\ At(r, "execute")
    /\ IF invocation[Key(r)] = "none"
       THEN invocation' = [invocation EXCEPT ![Key(r)] = "executed"]
       ELSE UNCHANGED invocation
    /\ To(r, CASE invocation[Key(r)] \in {"settled", "delivered"} -> "deliver"
               [] req[r].settled -> "advance"
               [] OTHER -> AfterExecute)
    /\ UNCHANGED <<now, records, money, inFlight, invoiced, issued, failures>>

\* (slip) no receipt is stored
NoReceipt == "readQuote"

\* settlePayment stores the receipt, then deletes the quote.
AfterSettle == "setReceipt"

\* The facilitator settles what is paid, and again what it has consumed.
Settle(r) ==
    /\ At(r, "settle")
    /\ IF Hash(r) \in paid
       THEN consumed' = consumed \cup {Hash(r)} /\ To(r, AfterSettle)
       ELSE Reply(r, "unpaid") /\ UNCHANGED consumed
    /\ UNCHANGED <<now, records, paid, invocation, inFlight, invoiced, issued, failures>>

SetReceipt(r) ==
    /\ At(r, "setReceipt")
    /\ receipt' = [receipt EXCEPT ![Hash(r)] = Binding(r)]
    /\ To(r, "readQuote")
    /\ UNCHANGED <<now, quote, pointer, money, invocation, inFlight, invoiced, issued, failures>>

\* deleteQuote reads the quote, deletes it, and then the pointer if it holds this hash.
ReadOwnQuote(r) ==
    /\ At(r, "readQuote")
    /\ To(r, IF Found(quote[Hash(r)], NoQuote) THEN "deleteQuote" ELSE "advance")
    /\ UNCHANGED <<now, records, money, invocation, inFlight, invoiced, issued, failures>>

DeleteQuote(r) ==
    /\ At(r, "deleteQuote")
    /\ quote' = [quote EXCEPT ![Hash(r)] = NoQuote]
    /\ To(r, "readPointer")
    /\ UNCHANGED <<now, pointer, receipt, money, invocation, inFlight, invoiced, issued, failures>>

ReadOwnPointer(r) ==
    LET p == pointer[Binding(r)] IN
    /\ At(r, "readPointer")
    /\ To(r, IF Found(p, NoPointer) /\ p.hash = Hash(r) THEN "deletePointer" ELSE "advance")
    /\ UNCHANGED <<now, records, money, invocation, inFlight, invoiced, issued, failures>>

DeletePointer(r) ==
    /\ At(r, "deletePointer")
    /\ pointer' = [pointer EXCEPT ![Binding(r)] = NoPointer]
    /\ To(r, "advance")
    /\ UNCHANGED <<now, quote, receipt, money, invocation, inFlight, invoiced, issued, failures>>

\* EXECUTED becomes PAYMENT_SETTLED, by whoever is first.
Advance(r) ==
    /\ At(r, "advance")
    /\ invocation' = IF invocation[Key(r)] = "executed"
                     THEN [invocation EXCEPT ![Key(r)] = "settled"] ELSE invocation
    /\ To(r, "deliver")
    /\ UNCHANGED <<now, records, money, inFlight, invoiced, issued, failures>>

Deliver(r) ==
    /\ At(r, "deliver")
    /\ invocation' = [invocation EXCEPT ![Key(r)] = "delivered"]
    /\ Reply(r, "result")
    /\ UNCHANGED <<now, records, money, inFlight, invoiced, issued, failures>>

-----------------------------------------------------------------------------
Leave(r) ==
    /\ At(r, "answered")
    /\ req' = [req EXCEPT ![r] = Idle]
    /\ UNCHANGED <<now, records, money, invocation, inFlight, invoiced, issued, failures>>

\* A handler dies or a call of it fails.
Fail(r) ==
    /\ req[r].stage \in (QuotePath \ {"follow"}) \cup PayPath
    /\ failures < MaxFailures
    /\ failures' = failures + 1
    /\ Abandon(r)
    /\ UNCHANGED <<now, records, money, invocation, invoiced, issued>>

\* pruneExpiredQuotes
Prune ==
    /\ \/ \E h \in Hashes : quote[h] # NoQuote /\ Expired(quote[h])
       \/ \E b \in Bindings : pointer[b] # NoPointer /\ Expired(pointer[b])
    /\ quote' = [h \in Hashes |-> IF Expired(quote[h]) THEN NoQuote ELSE quote[h]]
    /\ pointer' = [b \in Bindings |-> IF Expired(pointer[b]) THEN NoPointer ELSE pointer[b]]
    /\ UNCHANGED <<now, receipt, money, invocation, inFlight, req, invoiced, issued, failures>>

\* The client pays an invoice it was quoted.
Pay(h) ==
    /\ h \notin paid
    /\ \E r \in Requests : req[r].answer = "quoted" /\ Hash(r) = h
    /\ paid' = paid \cup {h}
    /\ UNCHANGED <<now, records, consumed, invocation, inFlight, req, invoiced, issued, failures>>

Tick ==
    /\ now < MaxTime
    /\ now' = now + 1
    /\ UNCHANGED <<records, money, invocation, inFlight, req, invoiced, issued, failures>>

Serve(r) ==
    \/ ReadPointer(r) \/ ReadPointedQuote(r) \/ DropPointer(r) \/ Lead(r) \/ Invoice(r)
    \/ SetQuote(r) \/ SetPointer(r) \/ Quoted(r)
    \/ ReadReceipt(r) \/ ReadQuote(r) \/ Verify(r)
    \/ Begin(r) \/ Execute(r) \/ Settle(r) \/ SetReceipt(r)
    \/ ReadOwnQuote(r) \/ DeleteQuote(r) \/ ReadOwnPointer(r) \/ DeletePointer(r) \/ Advance(r) \/ Deliver(r) \/ Leave(r)

Next ==
    \/ \E r \in Requests :
          \/ \E b \in Bindings : Ask(r, b) \/ \E h \in Hashes : Present(r, b, h)
          \/ Serve(r) \/ Fail(r)
    \/ \E h \in Hashes : Pay(h)
    \/ Prune \/ Tick

Spec == Init /\ [][Next]_vars

-----------------------------------------------------------------------------
(***************************************************************************)
(* Properties                                                              *)
(***************************************************************************)
\* A result is answered only to the request the payment was quoted for: a payment made for
\* one request is never used up by a changed one.
PaymentServesItsRequest ==
    \A r \in Requests : req[r].answer = "result" => issued[Hash(r)].binding = Binding(r)

\* Nothing is consumed, and no result delivered, without a payment: the client paid what it
\* presents, and some payment for the same request was consumed.
DeliveredIsPaid ==
    /\ consumed \subseteq paid
    /\ \A r \in Requests : req[r].answer = "result" =>
          /\ Hash(r) \in paid
          /\ \E h \in consumed : issued[h].binding = Binding(r)

\* A crash at any point leaves a consumed payment recoverable while its quote lasts: the
\* quote or the receipt is there for the retry to find.
RecoverableWhileQuoted ==
    \A h \in consumed : receipt[h] # Nobody \/ quote[h] # NoQuote \/ Expired(issued[h])

\* A client that presents, in time, the payment it was quoted for this request is not sent
\* away to pay again, whatever its earlier attempts are doing.
RetryIsServed ==
    \A r \in Requests :
        /\ req[r].answer = "unknownQuote"
        /\ Hash(r) \in paid
        /\ issued[Hash(r)].binding = Binding(r)
        => Expired(issued[Hash(r)])

\* A receipt is only stored for a payment that was consumed for that request, whose result
\* is durable.
ReceiptIsEarned ==
    \A h \in Hashes : receipt[h] # Nobody =>
        /\ h \in consumed
        /\ receipt[h] = issued[h].binding
        /\ invocation[KeyOf(receipt[h], h)] # "none"

\* A payment that was consumed ends in a delivered result, whatever crashes, unless its
\* quote expires before a receipt is stored.
ConsumedIsDelivered ==
    \A h \in Hashes :
        h \in consumed ~> \/ \E r \in Requests : req[r].answer = "result" /\ Hash(r) = h
                          \/ receipt[h] = Nobody /\ Expired(issued[h])
=============================================================================
