---------------------------- MODULE ClientsProofs ----------------------------
(***************************************************************************)
(* Proofs about what lives outside the gateway: the client library and the *)
(* cells it spends, the web application, the demonstration service, an     *)
(* agent that calls a remote provider, each as MCClients instantiates it,  *)
(* and an independent provider, for any wallets, passes, contents, calls,  *)
(* deadlines and bounds.                                                   *)
(***************************************************************************)
EXTENDS MCClients, SequenceTheorems, FiniteSetTheorems, TLAPS

-----------------------------------------------------------------------------
(***************************************************************************)
(* The invoices of the demonstration service                               *)
(***************************************************************************)
\* What an invoice can be: it is consumed by the one answer that is given for it.
InvoiceOK(i) ==
    /\ i.paid \in BOOLEAN /\ i.consumed \in BOOLEAN
    /\ ~i.consumed => i.answers = <<>>
    /\ i.consumed => /\ i.paid
                     /\ \E request \in Demo!Requests :
                           /\ i.answers = <<request>>
                           /\ request.user = i.request.user /\ request.text = i.request.text

InvoiceType == [request : Demo!Requests, quoted : BOOLEAN, paid : BOOLEAN, consumed : BOOLEAN,
                answers : Seq(Demo!Requests)]

InvoicesOK ==
    /\ demoInvoices \in Seq(InvoiceType)
    /\ \A n \in DOMAIN demoInvoices : InvoiceOK(demoInvoices[n])

\* One step changes what an invoice says of one matter.
LEMMA InvoiceChanges ==
    ASSUME NEW i \in InvoiceType, InvoiceOK(i)
    PROVE  /\ [i EXCEPT !.quoted = FALSE] \in InvoiceType
           /\ InvoiceOK([i EXCEPT !.quoted = FALSE])
           /\ [i EXCEPT !.paid = TRUE] \in InvoiceType
           /\ InvoiceOK([i EXCEPT !.paid = TRUE])
BY DEF InvoiceType, InvoiceOK

\* An invoice that was not consumed has no answer yet; the one it gets is of its user and text.
LEMMA InvoiceAnswered ==
    ASSUME NEW i \in InvoiceType, InvoiceOK(i), ~i.consumed, i.paid,
           NEW request \in Demo!Requests,
           request.user = i.request.user, request.text = i.request.text
    PROVE  LET answered == [i EXCEPT !.consumed = TRUE, !.quoted = FALSE,
                                     !.answers = Append(@, request)]
           IN  answered \in InvoiceType /\ InvoiceOK(answered)
<1>1. i.request \in Demo!Requests /\ i.answers = <<>> /\ i.paid = TRUE
  BY DEF InvoiceType, InvoiceOK
<1>2. Append(i.answers, request) = <<request>> /\ <<request>> \in Seq(Demo!Requests)
  BY <1>1
<1> DEFINE answered == [i EXCEPT !.consumed = TRUE, !.quoted = FALSE, !.answers = <<request>>]
<1>3. /\ answered \in InvoiceType
      /\ answered.consumed = TRUE /\ answered.paid = i.paid /\ answered.request = i.request
      /\ answered.answers = <<request>>
  BY <1>2 DEF InvoiceType
<1> HIDE DEF answered
<1>4. answered \in InvoiceType /\ InvoiceOK(answered)
  BY <1>1, <1>3 DEF InvoiceOK
<1>5. QED
  BY <1>2, <1>4 DEF answered

\* The sequence keeps its shape when one invoice is replaced by another.
LEMMA InvoiceReplaced ==
    ASSUME InvoicesOK, NEW n \in DOMAIN demoInvoices, NEW new \in InvoiceType, InvoiceOK(new),
           demoInvoices' = [demoInvoices EXCEPT ![n] = new]
    PROVE  InvoicesOK'
BY DEF InvoicesOK

LEMMA InvoicesStep == InvoicesOK /\ Demo!Next => InvoicesOK'
<1> SUFFICES ASSUME InvoicesOK, Demo!Next PROVE InvoicesOK'
  OBVIOUS
<1>0. \A n \in DOMAIN demoInvoices : demoInvoices[n] \in InvoiceType /\ InvoiceOK(demoInvoices[n])
  BY DEF InvoicesOK
<1>1. CASE UNCHANGED demoInvoices
  BY <1>1 DEF InvoicesOK
<1>2. CASE demoInvoices' = <<>>
  BY <1>2 DEF InvoicesOK
<1>3. ASSUME NEW request \in Demo!Requests, Demo!NewPaymentQuote(request) PROVE InvoicesOK'
  <2>1. PICK new : new = [request |-> request, quoted |-> TRUE, paid |-> FALSE,
                          consumed |-> FALSE, answers |-> <<>>]
    OBVIOUS
  <2>2. new \in InvoiceType /\ InvoiceOK(new)
    BY <2>1 DEF InvoiceType, InvoiceOK
  <2>3. demoInvoices' = Append(demoInvoices, new)
    BY <1>3, <2>1 DEF Demo!NewPaymentQuote
  <2>4. QED
    BY <2>2, <2>3 DEF InvoicesOK
<1>4. ASSUME NEW n \in DOMAIN demoInvoices, Demo!Pay(n) PROVE InvoicesOK'
  <2>1. demoInvoices' = [demoInvoices EXCEPT ![n] = [demoInvoices[n] EXCEPT !.paid = TRUE]]
    BY <1>4 DEF Demo!Pay
  <2>2. QED
    BY <1>0, <2>1, InvoiceChanges, InvoiceReplaced
<1>5. ASSUME NEW n \in DOMAIN demoInvoices, Demo!PruneQuotes(n) PROVE InvoicesOK'
  <2>1. demoInvoices' = [i \in DOMAIN demoInvoices |->
            IF i <= n THEN [demoInvoices[i] EXCEPT !.quoted = FALSE] ELSE demoInvoices[i]]
    BY <1>5 DEF Demo!PruneQuotes
  <2>2. \A i \in DOMAIN demoInvoices :
            demoInvoices'[i] \in InvoiceType /\ InvoiceOK(demoInvoices'[i])
    BY <1>0, <2>1, InvoiceChanges
  <2>3. DOMAIN demoInvoices' = DOMAIN demoInvoices /\ demoInvoices \in Seq(InvoiceType)
    BY <2>1 DEF InvoicesOK
  <2>4. demoInvoices' \in Seq(InvoiceType)
    <3>1. PICK len \in Nat : DOMAIN demoInvoices = 1 .. len
      BY <2>3
    <3>2. demoInvoices' \in [1 .. len -> InvoiceType]
      BY <2>1, <2>2, <3>1
    <3>3. QED
      BY <3>2
  <2>5. QED
    BY <2>2, <2>3, <2>4 DEF InvoicesOK
<1>6. ASSUME NEW request \in Demo!Requests, NEW n \in DOMAIN demoInvoices, Demo!PaidUse(request, n)
      PROVE  InvoicesOK'
  <2>1. PICK i : i = demoInvoices[n]
    OBVIOUS
  <2>2. /\ i \in InvoiceType /\ InvoiceOK(i) /\ ~i.consumed /\ i.paid
        /\ request.user = i.request.user /\ request.text = i.request.text
    BY <1>0, <1>6, <2>1 DEF Demo!PaidUse, Demo!Payable, Demo!PaymentBinding
  <2>3. demoInvoices' = [demoInvoices EXCEPT ![n] = [i EXCEPT !.consumed = TRUE, !.quoted = FALSE,
                                                       !.answers = Append(@, request)]]
    BY <1>6, <2>1, <2>2 DEF Demo!PaidUse
  <2>4. QED
    BY <2>2, <2>3, InvoiceAnswered, InvoiceReplaced
<1>7. QED
  BY <1>1, <1>2, <1>3, <1>4, <1>5, <1>6
  DEF Demo!Next, Demo!CreateRuntime, Demo!Transfer, Demo!Challenge, Demo!Analyze, Demo!ChallengeExpires

\* An invoice buys one answer at most, of its own user and text, once it is paid.
LEMMA OneAnswer == InvoicesOK => Demo!OneAnswerPerPayment
<1> SUFFICES ASSUME InvoicesOK, NEW n \in DOMAIN demoInvoices,
                    NEW i, i = demoInvoices[n]
             PROVE  /\ Len(i.answers) <= 1
                    /\ i.answers # <<>> => /\ i.paid
                                           /\ i.answers[1].user = i.request.user
                                           /\ i.answers[1].text = i.request.text
  BY DEF Demo!OneAnswerPerPayment
<1>1. i \in InvoiceType /\ InvoiceOK(i)
  BY DEF InvoicesOK
<1>2. CASE i.answers = <<>>
  BY <1>2
<1>3. CASE i.answers # <<>>
  <2>1. PICK request \in Demo!Requests : i.answers = <<request>>
    BY <1>1, <1>3 DEF InvoiceOK, InvoiceType
  <2>2. Len(i.answers) = 1 /\ i.answers[1] = request
    BY <2>1
  <2>3. QED
    BY <1>1, <1>3, <2>1, <2>2 DEF InvoiceOK
<1>4. QED
  BY <1>2, <1>3

-----------------------------------------------------------------------------
(***************************************************************************)
(* The tasks and the payment dialog of the web application                 *)
(***************************************************************************)
People == Accounts \cup {Nobody}

RequestType == [address : People, pass : Passes \cup {Nobody}, input : Typed \cup {Nobody},
                service : {CallService, JobService, Nobody}, op : Nat]

TaskType == [kind : {"refresh", "analyze", "paid-retry", "issue", "transfer",
                     "capability-status", "delegate", "evidence"},
             by : People, step : {"find", "challenge", "sign", "sent"},
             request : RequestType, invoice : Nat]

PendingType == [pass : Passes \cup {Nobody}, input : Typed \cup {Nobody},
                service : {CallService, JobService, Nobody}, op : Nat, invoice : Nat]

PageOK ==
    /\ connected \in People /\ address \in People /\ reading \subseteq Accounts
    /\ caps \subseteq {p \in Passes : Web!Compatible(p) # {}}
    /\ text \in Typed \cup {Nobody}
    /\ owner \in [Passes -> People]

\* An action has an operation id by the time its request leaves the page.
OpGiven(r) == r.service = JobService => r.op # 0

\* The same request, whoever sends it.
SameWork(r, q) == /\ r.pass = q.pass /\ r.input = q.input
                  /\ r.service = q.service /\ r.op = q.op

\* A task with an invoice is a retry, of the request that invoice is for.
TaskFits(t) ==
    /\ t \in TaskType
    /\ Web!IsRequest(t) => OpGiven(t.request)
    /\ t.invoice # 0 <=> t.kind = "paid-retry"
    /\ t.invoice # 0 => t.invoice \in DOMAIN quote /\ SameWork(t.request, quote[t.invoice])

\* The dialog shows an invoice, and what it was asked for.
DialogFits(d) ==
    /\ d \in PendingType
    /\ d.invoice = 0 => d = Web!NoPayment
    /\ d.invoice # 0 => d.invoice \in DOMAIN quote /\ SameWork(d, quote[d.invoice])

QuotesOK ==
    /\ quote \in Seq(RequestType)
    /\ \A i \in DOMAIN quote : OpGiven(quote[i])
    /\ open \subseteq DOMAIN quote

Fits ==
    /\ started \in Nat
    /\ tasks \in [DOMAIN tasks -> TaskType]
    /\ \A n \in DOMAIN tasks : TaskFits(tasks[n])
    /\ QuotesOK
    /\ DialogFits(pending)

\* While one request runs at a time, it started from a closed dialog or from the invoice the
\* dialog shows; and so no paid invoice but the one that is shown is without an answer.
OneAtATime ==
    /\ \A n, m \in DOMAIN tasks :
          Web!IsRequest(tasks[n]) /\ Web!IsRequest(tasks[m]) => n = m
    /\ \A n \in DOMAIN tasks :
          /\ tasks[n].kind = "analyze" => pending.invoice = 0
          /\ tasks[n].kind = "paid-retry" => pending.invoice \in {0, tasks[n].invoice}
    /\ paid \subseteq served \cup dropped \cup {pending.invoice}

Keeps ==
    /\ 0 \notin paid
    /\ config # "paid" => quote = <<>> /\ pending.invoice = 0 /\ paid = {}
    /\ ~crossed => OneAtATime

WebInv == PageOK /\ Fits /\ Keeps

\* The page is loaded.
LEMMA WebInit == Web!Init => WebInv
<1> SUFFICES ASSUME Web!Init PROVE WebInv
  OBVIOUS
<1>1. PageOK
  BY ClientsAssumption DEF Web!Init, PageOK, People
<1>2. Fits
  <2>1. DOMAIN tasks = {} /\ quote = <<>> /\ open = {} /\ started = 0
    BY DEF Web!Init
  <2>2. DialogFits(pending)
    BY DEF Web!Init, Web!NoPayment, DialogFits, PendingType
  <2>3. tasks \in [DOMAIN tasks -> TaskType]
    BY DEF Web!Init
  <2>4. QED
    BY <2>1, <2>2, <2>3 DEF Fits, QuotesOK
<1>3. Keeps
  BY DEF Web!Init, Web!NoPayment, Keeps, OneAtATime
<1>4. QED
  BY <1>1, <1>2, <1>3 DEF WebInv

\* Invoices only come: what fitted before fits when quotes are added.
QuotesKept == \A i \in DOMAIN quote : i \in DOMAIN quote' /\ quote'[i] = quote[i]

LEMMA FitsLater ==
    ASSUME QuotesKept
    PROVE  /\ \A t : TaskFits(t) => TaskFits(t)'
           /\ \A d : DialogFits(d) => DialogFits(d)'
BY DEF QuotesKept, TaskFits, DialogFits, Web!IsRequest, Web!NoPayment

\* A step that leaves the invoices alone and whose tasks all fit.
LEMMA FitsKept ==
    ASSUME Fits, UNCHANGED quote, open' \subseteq open, started' \in Nat,
           tasks' \in [DOMAIN tasks' -> TaskType],
           \A n \in DOMAIN tasks' : (n \in DOMAIN tasks /\ tasks'[n] = tasks[n]) \/ TaskFits(tasks'[n]),
           DialogFits(pending')
    PROVE  Fits'
<1>1. QuotesKept
  BY DEF QuotesKept
<1>2. \A n \in DOMAIN tasks' : TaskFits(tasks'[n])
  BY DEF Fits
<1>3. \A n \in DOMAIN tasks' : TaskFits(tasks[n])'
  BY <1>1, <1>2, FitsLater
<1>4. DialogFits(pending)'
  BY <1>1, FitsLater
<1>5. QuotesOK'
  BY DEF Fits, QuotesOK, OpGiven
<1>6. QED
  BY <1>3, <1>4, <1>5 DEF Fits

\* The requests in progress are some of those before, with the dialog as it was.
LEMMA KeepsKept ==
    ASSUME Keeps, ~crossed' => ~crossed, config' = "paid" \/ config # "paid",
           \A n \in DOMAIN tasks' : Web!IsRequest(tasks'[n]) =>
               /\ n \in DOMAIN tasks
               /\ tasks'[n].kind = tasks[n].kind /\ tasks'[n].invoice = tasks[n].invoice,
           UNCHANGED <<quote, pending, paid>>, served \subseteq served', dropped \subseteq dropped'
    PROVE  Keeps'
BY DEF Keeps, OneAtATime, Web!IsRequest

-----------------------------------------------------------------------------
\* What starting, ending and advancing a task do to the tasks.
LEMMA Started ==
    ASSUME Fits, NEW task \in TaskType, Web!Start(task)
    PROVE  /\ started' = started + 1 /\ started' \in Nat
           /\ DOMAIN tasks' = DOMAIN tasks \cup {started + 1}
           /\ \A n \in DOMAIN tasks' : tasks'[n] = IF n = started + 1 THEN task ELSE tasks[n]
           /\ tasks' \in [DOMAIN tasks' -> TaskType]
           /\ ~crossed' => ~crossed
           /\ ~crossed' /\ Web!IsRequest(task) =>
                \A n \in DOMAIN tasks : ~Web!IsRequest(tasks[n])
<1>1. /\ started' = started + 1 /\ started' \in Nat
      /\ tasks' = [n \in DOMAIN tasks \cup {started + 1} |->
                      IF n = started + 1 THEN task ELSE tasks[n]]
  BY DEF Web!Start, Fits
<1>2. tasks' \in [DOMAIN tasks' -> TaskType]
  BY <1>1 DEF Fits
<1>3. crossed' = (crossed \/ (Web!IsRequest(task) /\ \E n \in DOMAIN tasks : Web!IsRequest(tasks[n])))
  BY DEF Web!Start
<1>4. QED
  BY <1>1, <1>2, <1>3

LEMMA Ended ==
    ASSUME Fits, NEW n \in DOMAIN tasks, Web!End(n)
    PROVE  /\ UNCHANGED <<started, crossed>> /\ started' \in Nat
           /\ DOMAIN tasks' = DOMAIN tasks \ {n}
           /\ \A k \in DOMAIN tasks' : tasks'[k] = tasks[k]
           /\ tasks' \in [DOMAIN tasks' -> TaskType]
<1>1. tasks' = [k \in DOMAIN tasks \ {n} |-> tasks[k]]
  BY DEF Web!End, Web!Without
<1>2. QED
  BY <1>1 DEF Web!End, Fits

LEMMA StepFits ==
    ASSUME NEW t, TaskFits(t), NEW step \in {"find", "challenge", "sign", "sent"}
    PROVE  LET moved == [t EXCEPT !.step = step]
           IN  TaskFits(moved) /\ moved.kind = t.kind /\ moved.invoice = t.invoice
<1> DEFINE moved == [t EXCEPT !.step = step]
<1>1. /\ moved \in TaskType /\ moved.kind = t.kind /\ moved.invoice = t.invoice
      /\ moved.request = t.request
  BY DEF TaskFits, TaskType
<1> HIDE DEF moved
<1>2. TaskFits(moved)
  BY <1>1 DEF TaskFits, Web!IsRequest
<1>3. QED
  BY <1>1, <1>2 DEF moved

LEMMA GoneTo ==
    ASSUME Fits, NEW n \in DOMAIN tasks, NEW step \in {"find", "challenge", "sign", "sent"},
           Web!GoTo(n, step)
    PROVE  /\ UNCHANGED <<started, crossed>> /\ started' \in Nat
           /\ DOMAIN tasks' = DOMAIN tasks
           /\ \A k \in DOMAIN tasks' : k = n \/ tasks'[k] = tasks[k]
           /\ TaskFits(tasks'[n])
           /\ tasks'[n].kind = tasks[n].kind /\ tasks'[n].invoice = tasks[n].invoice
           /\ tasks' \in [DOMAIN tasks' -> TaskType]
<1>1. PICK moved : moved = [tasks[n] EXCEPT !.step = step]
  OBVIOUS
<1>2. TaskFits(moved) /\ moved.kind = tasks[n].kind /\ moved.invoice = tasks[n].invoice
  BY <1>1, StepFits DEF Fits
<1>3. tasks' = [tasks EXCEPT ![n] = moved]
  BY <1>1 DEF Web!GoTo
<1>4. moved \in TaskType
  BY <1>2 DEF TaskFits
<1>5. QED
  BY <1>2, <1>3, <1>4 DEF Web!GoTo, Fits

\* A step that begins a task which is no request, or none.
LEMMA OtherStarts ==
    ASSUME WebInv, NEW task \in TaskType, task.kind \notin {"analyze", "paid-retry"},
           task.invoice = 0,
           Web!Start(task) \/ UNCHANGED <<tasks, started, crossed>>,
           UNCHANGED <<quote, open, pending, paid, served, dropped>>,
           config' = "paid" \/ config # "paid"
    PROVE  Fits' /\ Keeps'
<1>1. CASE UNCHANGED <<tasks, started, crossed>>
  BY <1>1, KeepsKept DEF WebInv, Fits, QuotesOK, TaskFits, DialogFits, OpGiven, Web!IsRequest,
     Web!NoPayment
<1>2. CASE Web!Start(task)
  <2> USE <1>2, Started DEF WebInv
  <2>1. TaskFits(task)
    BY DEF TaskFits, Web!IsRequest
  <2>2. \A n \in DOMAIN tasks' : (n \in DOMAIN tasks /\ tasks'[n] = tasks[n]) \/ TaskFits(tasks'[n])
    BY <2>1
  <2>3. Fits'
    BY <2>2, FitsKept DEF Fits
  <2>4. \A n \in DOMAIN tasks' : Web!IsRequest(tasks'[n]) =>
            n \in DOMAIN tasks /\ tasks'[n].kind = tasks[n].kind /\ tasks'[n].invoice = tasks[n].invoice
    BY DEF Web!IsRequest
  <2>5. Keeps'
    BY <2>4, KeepsKept
  <2>6. QED
    BY <2>3, <2>5
<1>3. QED
  BY <1>1, <1>2

\* What a request of the page is made of.
LEMMA NewRequest ==
    ASSUME WebInv
    PROVE  /\ Web!NoRequest \in RequestType
           /\ Web!PassShown => Web!SelectedCap \in Passes /\ Web!SelectedService \in {CallService, JobService}
<1>1. Web!NoRequest \in RequestType
  BY DEF Web!NoRequest, Web!Request, RequestType, People
<1>2. ASSUME Web!PassShown
      PROVE  Web!SelectedCap \in Passes /\ Web!SelectedService \in {CallService, JobService}
  <2>1. Web!SelectedCap \in caps
    BY <1>2 DEF Web!PassShown, Web!SelectedCap, Web!FirstOf
  <2>2. Web!SelectedCap \in Passes /\ Web!Compatible(Web!SelectedCap) # {}
    BY <2>1 DEF WebInv, PageOK
  <2>3. Web!SelectedService \in Web!Compatible(Web!SelectedCap)
    BY <2>2 DEF Web!SelectedService, Web!FirstOf
  <2>4. QED
    BY <2>2, <2>3 DEF Web!Compatible
<1>3. QED
  BY <1>1, <1>2

\* A task of the page.
LEMMA NewTask ==
    ASSUME WebInv,
           NEW kind \in {"refresh", "analyze", "paid-retry", "issue", "transfer",
                         "capability-status", "delegate", "evidence"},
           NEW step \in {"find", "challenge", "sign", "sent"},
           NEW request \in RequestType, NEW invoice \in Nat
    PROVE  LET task == Web!Task(kind, step, request, invoice)
           IN  /\ task \in TaskType
               /\ task.kind = kind /\ task.invoice = invoice /\ task.request = request
BY DEF Web!Task, TaskType, WebInv, PageOK

\* Refreshes of the passes, whatever starts them
LEMMA RefreshesStep ==
    ASSUME WebInv, NEW w \in People, NEW ready, Web!Refreshes(w, ready),
           UNCHANGED <<quote, open, pending, paid, served, dropped>>,
           config' = "paid" \/ config # "paid"
    PROVE  Fits' /\ Keeps'
<1>1. PICK task : task = [Web!Task("refresh", "find", Web!NoRequest, 0) EXCEPT !.by = w]
  OBVIOUS
<1>2. task \in TaskType /\ task.kind = "refresh" /\ task.invoice = 0
  <2>1. Web!NoRequest \in RequestType
    BY NewRequest
  <2>2. task = [kind |-> "refresh", by |-> w, step |-> "find", request |-> Web!NoRequest,
                invoice |-> 0]
    BY <1>1 DEF Web!Task
  <2>3. QED
    BY <2>1, <2>2 DEF TaskType
<1>3. Web!Start(task) \/ UNCHANGED <<tasks, started, crossed>>
  BY <1>1 DEF Web!Refreshes
<1>4. QED
  BY <1>2, <1>3, OtherStarts

LEMMA PageKept ==
    ASSUME PageOK, UNCHANGED <<connected, address, reading, caps, text, owner>> PROVE PageOK'
BY DEF PageOK, Web!Compatible

\* The wallet and the status arrive; they may start a refresh.
LEMMA ArrivalStep ==
    ASSUME WebInv,
           \/ Web!LoadConfig \/ Web!RefreshHealth \/ Web!Disconnect \/ Web!Refresh
           \/ \E w \in Accounts : Web!Connect(w) \/ Web!AddressArrives(w)
    PROVE  WebInv'
<1>0. Accounts \subseteq People /\ Nobody \in People /\ connected \in People
  BY DEF People, WebInv, PageOK
<1>1. CASE Web!LoadConfig
  <2>1. PageOK'
    BY <1>1, PageKept DEF Web!LoadConfig, Web!others, Web!server, WebInv
  <2>2. Fits' /\ Keeps'
    BY <1>0, <1>1, RefreshesStep, ClientsAssumption DEF Web!LoadConfig, Web!others, Web!server
  <2>3. QED
    BY <2>1, <2>2 DEF WebInv
<1>2. ASSUME NEW w \in Accounts, Web!Connect(w) PROVE WebInv'
  <2>1. PageOK'
    BY <1>0, <1>2 DEF Web!Connect, Web!server, WebInv, PageOK, Web!Compatible
  <2>2. Fits' /\ Keeps'
    <3>1. PICK ready : Web!Refreshes(w, ready)
      BY <1>2 DEF Web!Connect
    <3>2. UNCHANGED <<quote, open, pending, paid, served, dropped, config>>
      BY <1>2 DEF Web!Connect, Web!server
    <3>3. QED
      BY <1>0, <3>1, <3>2, RefreshesStep
  <2>3. QED
    BY <2>1, <2>2 DEF WebInv
<1>3. CASE Web!Refresh
  <2>1. PageOK'
    BY <1>3, PageKept DEF Web!Refresh, Web!page, Web!others, Web!server, WebInv
  <2>2. PICK task : task = Web!Task("refresh", "find", Web!NoRequest, 0)
    OBVIOUS
  <2>3. task \in TaskType /\ task.kind = "refresh" /\ task.invoice = 0
    BY <2>2, NewRequest, NewTask
  <2>4. Fits' /\ Keeps'
    BY <1>3, <2>2, <2>3, OtherStarts DEF Web!Refresh, Web!page, Web!others, Web!server
  <2>5. QED
    BY <2>1, <2>4 DEF WebInv
<1>4. ASSUME Web!RefreshHealth \/ Web!Disconnect \/ \E w \in Accounts : Web!AddressArrives(w)
      PROVE  WebInv'
  <2>1. PageOK'
    BY <1>0, <1>4 DEF Web!RefreshHealth, Web!Disconnect, Web!AddressArrives, Web!others, Web!server,
       WebInv, PageOK, Web!Compatible
  <2>2. UNCHANGED <<tasks, started, crossed, quote, open, pending, paid, served, dropped, config>>
    BY <1>4 DEF Web!RefreshHealth, Web!Disconnect, Web!AddressArrives, Web!others, Web!server
  <2>3. Fits' /\ Keeps'
    <3>1. PICK task : task = Web!Task("refresh", "find", Web!NoRequest, 0)
      OBVIOUS
    <3>2. task \in TaskType /\ task.kind = "refresh" /\ task.invoice = 0
      BY <3>1, NewRequest, NewTask
    <3>3. QED
      BY <2>2, <3>2, OtherStarts
  <2>4. QED
    BY <2>1, <2>3 DEF WebInv
<1>5. QED
  BY <1>1, <1>2, <1>3, <1>4

\* The user chooses, types, and starts what is no request.
LEMMA ChoiceStep ==
    ASSUME WebInv,
           \/ Web!VerifyLiveOwner \/ Web!CreateDelegation \/ Web!FetchAuthorizationEvidence
           \/ \E p \in Passes : Web!SelectPass(p)
           \/ \E s \in {CallService, JobService} : Web!SelectService(s)
           \/ \E i \in Typed : Web!TypeText(i)
           \/ \E to \in Accounts : Web!Transfer(to) \/ \E p \in Passes : Web!Issue(p, to)
    PROVE  WebInv'
<1> USE DEF Web!others, Web!server, Web!page
<1>1. ASSUME \/ \E p \in Passes : Web!SelectPass(p)
             \/ \E s \in {CallService, JobService} : Web!SelectService(s)
             \/ \E i \in Typed : Web!TypeText(i)
      PROVE  WebInv'
  <2>1. PageOK'
    BY <1>1 DEF Web!SelectPass, Web!SelectService, Web!TypeText, WebInv, PageOK, Web!Compatible
  <2>2. UNCHANGED <<tasks, started, crossed, quote, open, pending, paid, served, dropped, config>>
    BY <1>1 DEF Web!SelectPass, Web!SelectService, Web!TypeText
  <2>3. PICK task : task = Web!Task("refresh", "find", Web!NoRequest, 0)
    OBVIOUS
  <2>4. task \in TaskType /\ task.kind = "refresh" /\ task.invoice = 0
    BY <2>3, NewRequest, NewTask
  <2>5. Fits' /\ Keeps'
    BY <2>2, <2>4, OtherStarts
  <2>6. QED
    BY <2>1, <2>5 DEF WebInv
<1>2. ASSUME NEW kind \in {"issue", "transfer", "capability-status", "delegate", "evidence"},
             NEW request \in RequestType, Web!Start(Web!Task(kind, "sent", request, 0)),
             UNCHANGED <<Web!page, Web!others>>
      PROVE  WebInv'
  <2>1. PICK task : task = Web!Task(kind, "sent", request, 0)
    OBVIOUS
  <2>2. task \in TaskType /\ task.kind = kind /\ task.invoice = 0
    BY <2>1, NewTask
  <2>3. Fits' /\ Keeps'
    BY <1>2, <2>1, <2>2, OtherStarts
  <2>4. PageOK'
    BY <1>2, PageKept DEF WebInv
  <2>5. QED
    BY <2>3, <2>4 DEF WebInv
<1>3. Web!NoRequest \in RequestType
  BY NewRequest
<1>4. CASE Web!VerifyLiveOwner \/ Web!CreateDelegation \/ Web!FetchAuthorizationEvidence
  BY <1>2, <1>3, <1>4 DEF Web!VerifyLiveOwner, Web!CreateDelegation, Web!FetchAuthorizationEvidence
<1>5. ASSUME NEW to \in Accounts, Web!Transfer(to) PROVE WebInv'
  <2>1. Web!Request(to, Web!SelectedCap, Nobody, Nobody, 0) \in RequestType
    BY <1>5, NewRequest DEF Web!Transfer, Web!MayTransfer, Web!Request, RequestType, People
  <2>2. QED
    BY <1>2, <1>5, <2>1 DEF Web!Transfer
<1>6. ASSUME NEW to \in Accounts, NEW p \in Passes, Web!Issue(p, to) PROVE WebInv'
  <2>1. Web!Request(to, p, Nobody, Nobody, 0) \in RequestType
    BY DEF Web!Request, RequestType, People
  <2>2. QED
    BY <1>2, <1>6, <2>1 DEF Web!Issue
<1>7. QED
  BY <1>1, <1>4, <1>5, <1>6

-----------------------------------------------------------------------------
\* A request begins: the only one in progress, or the run has crossed requests.
LEMMA RequestStarts ==
    ASSUME WebInv, NEW task \in TaskType, TaskFits(task), Web!IsRequest(task), Web!Start(task),
           task.kind = "analyze" => pending.invoice = 0,
           task.kind = "paid-retry" => pending.invoice = task.invoice,
           UNCHANGED <<quote, open, pending, paid, served, dropped, config>>
    PROVE  Fits' /\ Keeps'
<1> USE Started DEF WebInv
<1>1. \A n \in DOMAIN tasks' : (n \in DOMAIN tasks /\ tasks'[n] = tasks[n]) \/ TaskFits(tasks'[n])
  OBVIOUS
<1>2. Fits'
  BY <1>1, FitsKept DEF Fits
<1>3. ASSUME ~crossed' PROVE OneAtATime'
  <2>1. \A n \in DOMAIN tasks' : Web!IsRequest(tasks'[n]) => n = started + 1 /\ tasks'[n] = task
    BY <1>3
  <2>2. paid \subseteq served \cup dropped \cup {pending.invoice}
    BY <1>3 DEF Keeps, OneAtATime
  <2>3. QED
    BY <2>1, <2>2 DEF OneAtATime, Web!IsRequest
<1>4. Keeps'
  BY <1>3 DEF Keeps
<1>5. QED
  BY <1>2, <1>4

LEMMA UseStep == ASSUME WebInv, Web!UseService \/ Web!RetryPaidUse PROVE WebInv'
<1> USE DEF Web!others, Web!server, Web!page
<1>0. connected \in People /\ address \in People /\ text \in Typed \cup {Nobody} /\ started \in Nat
  BY DEF WebInv, PageOK, Fits
<1>1. CASE Web!UseService
  <2>1. /\ pending = Web!NoPayment /\ Web!SelectedCap \in Passes
        /\ Web!SelectedService \in {CallService, JobService}
    BY <1>1, NewRequest DEF Web!UseService, Web!MayRun, Web!Idle, Web!Workspace, Web!ModalOpen
  <2>2. PICK op : op = Web!Operation(Web!SelectedService, 0)
    OBVIOUS
  <2>3. op \in Nat /\ (Web!SelectedService = JobService => op # 0)
    BY <1>0, <2>2 DEF Web!Operation
  <2>4. PICK request : request = Web!Request(address, Web!SelectedCap, text, Web!SelectedService, op)
    OBVIOUS
  <2>5. request \in RequestType /\ OpGiven(request)
    BY <1>0, <2>1, <2>3, <2>4 DEF Web!Request, RequestType, OpGiven
  <2>6. PICK task : task = Web!Task("analyze", "challenge", request, 0)
    OBVIOUS
  <2>7. /\ task \in TaskType /\ task.kind = "analyze" /\ task.invoice = 0 /\ task.request = request
    BY <2>5, <2>6, NewTask
  <2>8. TaskFits(task) /\ Web!IsRequest(task)
    BY <2>5, <2>7 DEF TaskFits, Web!IsRequest
  <2>9. Web!Start(task) /\ pending.invoice = 0
    BY <1>1, <2>1, <2>2, <2>4, <2>6 DEF Web!UseService, Web!NoPayment
  <2>10. /\ UNCHANGED <<quote, open, pending, paid, served, dropped, config>>
         /\ UNCHANGED <<connected, address, reading, caps, text, owner>>
    BY <1>1 DEF Web!UseService
  <2>11. Fits' /\ Keeps'
    BY <2>7, <2>8, <2>9, <2>10, RequestStarts
  <2>12. QED
    BY <2>10, <2>11, PageKept DEF WebInv
<1>2. CASE Web!RetryPaidUse
  <2>1. DialogFits(pending) /\ pending # Web!NoPayment
    BY <1>2 DEF Web!RetryPaidUse, Web!MayVerifyPayment, Web!ModalOpen, WebInv, Fits
  <2>2. /\ pending \in PendingType /\ pending.invoice # 0 /\ pending.invoice \in DOMAIN quote
        /\ SameWork(pending, quote[pending.invoice])
    BY <2>1 DEF DialogFits
  <2>3. Web!Operation(pending.service, pending.op) = pending.op
    BY <2>2 DEF WebInv, Fits, QuotesOK, OpGiven, SameWork, Web!Operation
  <2>4. PICK request : request = Web!PendingRequest
    OBVIOUS
  <2>5. request = [address |-> address, pass |-> pending.pass, input |-> pending.input,
                   service |-> pending.service, op |-> pending.op]
    BY <2>3, <2>4 DEF Web!PendingRequest, Web!Request
  <2>6. request \in RequestType /\ SameWork(request, quote[pending.invoice]) /\ OpGiven(request)
    BY <1>0, <2>2, <2>5 DEF RequestType, PendingType, SameWork, WebInv, Fits, QuotesOK, OpGiven
  <2>7. PICK task : task = Web!Task("paid-retry", "challenge", request, pending.invoice)
    OBVIOUS
  <2>8. /\ task \in TaskType /\ task.kind = "paid-retry" /\ task.invoice = pending.invoice
        /\ task.request = request
    BY <2>2, <2>6, <2>7, NewTask DEF PendingType
  <2>9. TaskFits(task) /\ Web!IsRequest(task)
    BY <2>2, <2>6, <2>8 DEF TaskFits, Web!IsRequest
  <2>10. Web!Start(task)
    BY <1>2, <2>4, <2>7 DEF Web!RetryPaidUse
  <2>11. /\ UNCHANGED <<quote, open, pending, paid, served, dropped, config>>
         /\ UNCHANGED <<connected, address, reading, caps, text, owner>>
    BY <1>2 DEF Web!RetryPaidUse
  <2>12. Fits' /\ Keeps'
    BY <2>8, <2>9, <2>10, <2>11, RequestStarts
  <2>13. QED
    BY <2>11, <2>12, PageKept DEF WebInv
<1>3. QED
  BY <1>1, <1>2

-----------------------------------------------------------------------------
\* A task ends or goes on, and the dialog and the server stay as they are.
LEMMA TaskGoesOn ==
    ASSUME WebInv, NEW n \in DOMAIN tasks,
           \/ Web!End(n)
           \/ \E step \in {"find", "challenge", "sign", "sent"} : Web!GoTo(n, step),
           UNCHANGED <<quote, pending, paid, dropped, config>>,
           open' \subseteq open, served \subseteq served'
    PROVE  Fits' /\ Keeps'
<1>1. CASE Web!End(n)
  <2> USE <1>1, Ended DEF WebInv
  <2>1. DialogFits(pending')
    BY DEF Fits
  <2>2. Fits'
    BY <2>1, FitsKept
  <2>3. Keeps'
    BY KeepsKept
  <2>4. QED
    BY <2>2, <2>3
<1>2. ASSUME NEW step \in {"find", "challenge", "sign", "sent"}, Web!GoTo(n, step)
      PROVE  Fits' /\ Keeps'
  <2> USE <1>2, GoneTo DEF WebInv
  <2>1. DialogFits(pending')
    BY DEF Fits
  <2>2. Fits'
    BY <2>1, FitsKept
  <2>3. \A k \in DOMAIN tasks' : Web!IsRequest(tasks'[k]) =>
            k \in DOMAIN tasks /\ tasks'[k].kind = tasks[k].kind /\ tasks'[k].invoice = tasks[k].invoice
    OBVIOUS
  <2>4. Keeps'
    BY <2>3, KeepsKept
  <2>5. QED
    BY <2>2, <2>4
<1>3. QED
  BY <1>1, <1>2

\* What is not an answer of the server to a request.
LEMMA OtherTaskStep ==
    ASSUME WebInv, NEW n \in DOMAIN tasks,
           \/ Web!RefreshEnds(n) \/ Web!Looked(n) \/ Web!Throws(n)
           \/ Web!Challenged(n) \/ Web!Signed(n) \/ Web!AnswerLost(n)
    PROVE  WebInv'
<1> USE DEF Web!others, Web!server, Web!page
<1>1. \/ Web!End(n)
      \/ \E step \in {"find", "challenge", "sign", "sent"} : Web!GoTo(n, step)
  BY DEF Web!RefreshEnds, Web!Looked, Web!Throws, Web!Challenged, Web!Signed, Web!AnswerLost
<1>2. /\ UNCHANGED <<quote, pending, paid, dropped, config>>
      /\ open' \subseteq open /\ served \subseteq served'
  BY DEF Web!RefreshEnds, Web!Looked, Web!Throws, Web!Challenged, Web!Signed, Web!AnswerLost,
     Web!Serves, Web!PaymentKept
<1>3. Fits' /\ Keeps'
  BY <1>1, <1>2, TaskGoesOn
<1>4. PageOK'
  BY DEF Web!RefreshEnds, Web!Looked, Web!Throws, Web!Challenged, Web!Signed, Web!AnswerLost,
     WebInv, PageOK, Web!Compatible
<1>5. QED
  BY <1>3, <1>4 DEF WebInv

\* The transaction of an issue or a transfer is on the chain; the task goes on as a refresh.
LEMMA MovedStep == ASSUME WebInv, NEW n \in DOMAIN tasks, Web!Moved(n) PROVE WebInv'
<1>0. TaskFits(tasks[n])
  BY DEF WebInv, Fits
<1>1. PICK moved : moved = [tasks[n] EXCEPT !.kind = "refresh", !.step = "find"]
  OBVIOUS
<1>2. /\ moved \in TaskType /\ moved.kind = "refresh" /\ moved.invoice = tasks[n].invoice
      /\ tasks[n].kind \in {"issue", "transfer"}
  BY <1>0, <1>1 DEF TaskFits, TaskType, Web!Moved
<1>3. TaskFits(moved)
  BY <1>0, <1>2 DEF TaskFits, Web!IsRequest
<1>4. /\ tasks' = [tasks EXCEPT ![n] = moved]
      /\ UNCHANGED <<quote, open, pending, paid, served, dropped, config, started, crossed>>
      /\ UNCHANGED <<connected, address, reading, caps, text>>
  BY <1>1 DEF Web!Moved, Web!page
<1>5. Fits'
  BY <1>2, <1>3, <1>4, FitsKept DEF WebInv, Fits
<1>6. Keeps'
  BY <1>2, <1>4, KeepsKept DEF WebInv, Fits, Web!IsRequest
<1>7. PageOK'
  <2>1. PICK p, a : p = tasks[n].request.pass /\ a = tasks[n].request.address
    OBVIOUS
  <2>2. a \in People
    BY <1>0, <2>1 DEF TaskFits, TaskType, RequestType
  <2>3. owner' = [owner EXCEPT ![p] = a]
    BY <2>1 DEF Web!Moved
  <2>4. QED
    BY <1>4, <2>2, <2>3 DEF WebInv, PageOK, Web!Compatible
<1>8. QED
  BY <1>5, <1>6, <1>7 DEF WebInv

\* What is asked for is the work of the request.
LEMMA AskFits ==
    ASSUME NEW t \in TaskType, NEW d,
           d = [pass |-> t.request.pass, input |-> t.request.input, service |-> t.request.service,
                op |-> t.request.op, invoice |-> d.invoice],
           d.invoice \in Nat, d.invoice # 0,
           d.invoice \in DOMAIN quote, SameWork(t.request, quote[d.invoice])
    PROVE  DialogFits(d)
BY DEF DialogFits, PendingType, SameWork, TaskType, RequestType

\* The last request in progress ends, with the dialog closed or on another invoice.
LEMMA LastEnds ==
    ASSUME Keeps, NEW n \in DOMAIN tasks, Web!IsRequest(tasks[n]), Fits, Web!End(n),
           UNCHANGED <<paid, config>>, config' # "paid" => pending'.invoice = 0,
           config' # "paid" => UNCHANGED quote,
           ~crossed => paid \subseteq served' \cup dropped' \cup {pending'.invoice}
    PROVE  Keeps'
<1>1. /\ crossed' = crossed /\ DOMAIN tasks' = DOMAIN tasks \ {n}
      /\ \A k \in DOMAIN tasks' : tasks'[k] = tasks[k]
  BY Ended
<1>2. ASSUME ~crossed PROVE OneAtATime'
  <2>1. \A k \in DOMAIN tasks' : ~Web!IsRequest(tasks'[k])
    BY <1>1, <1>2 DEF Keeps, OneAtATime
  <2>2. QED
    BY <1>2, <2>1 DEF OneAtATime, Web!IsRequest
<1>3. QED
  BY <1>1, <1>2 DEF Keeps

\* The server asks for a payment: the invoice of this request, found or new.
LEMMA QuotedStep == ASSUME WebInv, NEW n \in DOMAIN tasks, Web!Quoted(n) PROVE WebInv'
<1> USE DEF Web!page
<1>1. PICK t, r : t = tasks[n] /\ r = t.request
  OBVIOUS
<1>2. /\ TaskFits(t) /\ t \in TaskType /\ r \in RequestType /\ OpGiven(r)
      /\ t.kind = "analyze" /\ t.invoice = 0 /\ Web!IsRequest(t)
  BY <1>1 DEF WebInv, Fits, TaskFits, TaskType, Web!Quoted, Web!AtServer, Web!IsRequest
<1>3. /\ Web!End(n) /\ config = "paid"
      /\ UNCHANGED <<connected, address, reading, caps, text, owner, config, paid, served, dropped>>
  BY DEF Web!Quoted
<1>4. PICK old : old = {i \in open : quote[i] = r}
  OBVIOUS
<1>5. /\ QuotesKept /\ QuotesOK'
      /\ pending'.invoice \in DOMAIN quote' /\ quote'[pending'.invoice] = r
      /\ pending' = [pass |-> r.pass, input |-> r.input, service |-> r.service, op |-> r.op,
                     invoice |-> pending'.invoice]
  <2>0. QuotesOK
    BY DEF WebInv, Fits
  <2>1. CASE old # {}
    <3>1. PICK i \in old : i = Web!FirstOf(old)
      BY <2>1 DEF Web!FirstOf
    <3>2. UNCHANGED <<quote, open>> /\ Web!Ask(n, i)
      BY <1>1, <1>4, <2>1, <3>1 DEF Web!Quoted
    <3>3. pending' = [pass |-> r.pass, input |-> r.input, service |-> r.service, op |-> r.op,
                      invoice |-> i]
      BY <1>1, <3>2 DEF Web!Ask
    <3>4. i \in DOMAIN quote /\ quote[i] = r
      BY <1>4, <2>0, <3>1 DEF QuotesOK
    <3>5. QED
      BY <2>0, <3>2, <3>3, <3>4 DEF QuotesKept, QuotesOK, OpGiven
  <2>2. CASE old = {}
    <3>1. /\ quote' = Append(quote, r) /\ open' = open \cup {Len(quote) + 1}
          /\ Web!Ask(n, Len(quote) + 1)
      BY <1>1, <1>4, <2>2 DEF Web!Quoted
    <3>2. pending' = [pass |-> r.pass, input |-> r.input, service |-> r.service, op |-> r.op,
                      invoice |-> Len(quote) + 1]
      BY <1>1, <3>1 DEF Web!Ask
    <3>3. /\ quote \in Seq(RequestType) /\ quote' \in Seq(RequestType)
          /\ DOMAIN quote = 1 .. Len(quote) /\ DOMAIN quote' = 1 .. Len(quote) + 1
          /\ quote'[Len(quote) + 1] = r /\ \A i \in DOMAIN quote : quote'[i] = quote[i]
          /\ Len(quote) \in Nat
      BY <1>2, <2>0, <3>1 DEF QuotesOK
    <3>4. QED
      BY <1>2, <2>0, <3>1, <3>2, <3>3 DEF QuotesKept, QuotesOK, OpGiven
  <2>3. QED
    BY <2>1, <2>2
<1>6. pending'.invoice \in Nat /\ pending'.invoice # 0
  <2>1. PICK i : i = pending'.invoice
    OBVIOUS
  <2>2. quote' \in Seq(RequestType) /\ i \in DOMAIN quote'
    BY <1>5, <2>1 DEF QuotesOK
  <2>3. i \in Nat /\ i # 0
    BY <2>2
  <2>4. QED
    BY <2>1, <2>3
<1>7. DialogFits(pending)'
  BY <1>2, <1>5, <1>6 DEF DialogFits, PendingType, SameWork, RequestType
<1>8. Fits'
  <2>1. \A k \in DOMAIN tasks' : TaskFits(tasks[k])'
    BY <1>3, <1>5, FitsLater, Ended DEF WebInv, Fits
  <2>2. QED
    BY <1>3, <1>5, <1>7, <2>1, Ended DEF WebInv, Fits
<1>9. Keeps'
  <2>1. ~crossed => paid \subseteq served' \cup dropped' \cup {pending'.invoice}
    BY <1>1, <1>2, <1>3 DEF WebInv, Keeps, OneAtATime
  <2>2. QED
    BY <1>1, <1>2, <1>3, <2>1, LastEnds DEF WebInv
<1>10. QED
  BY <1>3, <1>8, <1>9, PageKept DEF WebInv

\* The invoice a retry came with is shown again.
LEMMA NotPaidYetStep == ASSUME WebInv, NEW n \in DOMAIN tasks, Web!NotPaidYet(n) PROVE WebInv'
<1> USE DEF Web!page, Web!server
<1>1. PICK t : t = tasks[n]
  OBVIOUS
<1>2. /\ Web!End(n) /\ Web!IsRequest(t) /\ t.invoice \in open
      /\ pending' = [pass |-> t.request.pass, input |-> t.request.input,
                     service |-> t.request.service, op |-> t.request.op, invoice |-> t.invoice]
      /\ UNCHANGED <<connected, address, reading, caps, text, owner, config, quote, open, served,
                     paid, dropped>>
  BY <1>1 DEF Web!NotPaidYet, Web!AtServer, Web!Ask
<1>3. TaskFits(t) /\ quote \in Seq(RequestType) /\ t.invoice \in DOMAIN quote
  BY <1>1, <1>2 DEF WebInv, Fits, QuotesOK
<1>4. t.invoice \in Nat /\ t.invoice # 0
  <2>1. PICK i : i = t.invoice
    OBVIOUS
  <2>2. i \in Nat /\ i # 0
    BY <1>3, <2>1
  <2>3. QED
    BY <2>1, <2>2
<1>5. DialogFits(pending')
  BY <1>2, <1>3, <1>4 DEF DialogFits, PendingType, SameWork, TaskFits, TaskType, RequestType
<1>6. Fits'
  BY <1>2, <1>5, FitsKept, Ended DEF WebInv
<1>7. Keeps'
  <2>1. t.kind = "paid-retry"
    BY <1>3, <1>4 DEF TaskFits
  <2>2. ~crossed => paid \subseteq served' \cup dropped' \cup {pending'.invoice}
    BY <1>1, <1>2, <2>1 DEF WebInv, Keeps, OneAtATime
  <2>3. config = "paid"
    BY <1>3, <1>4 DEF WebInv, Keeps
  <2>4. QED
    BY <1>1, <1>2, <2>2, <2>3, LastEnds DEF WebInv
<1>8. QED
  BY <1>2, <1>6, <1>7, PageKept DEF WebInv

\* The answer closes the dialog; the paid invoice it showed is served.
LEMMA AnsweredStep ==
    ASSUME WebInv, NEW n \in DOMAIN tasks, Web!Answered(n) \/ Web!AnsweredFree(n) PROVE WebInv'
<1> USE DEF Web!page, Web!server
<1>1. PICK t : t = tasks[n]
  OBVIOUS
<1>2. /\ Web!End(n) /\ Web!IsRequest(t) /\ pending' = Web!NoPayment
      /\ open' \subseteq open /\ served \subseteq served'
      /\ UNCHANGED <<connected, address, reading, caps, text, owner, config, quote, paid, dropped>>
  BY <1>1 DEF Web!Answered, Web!AnsweredFree, Web!Serves, Web!AtServer
<1>3. DialogFits(pending') /\ pending'.invoice = 0
  BY <1>2 DEF DialogFits, PendingType, Web!NoPayment
<1>4. Fits'
  BY <1>2, <1>3, FitsKept, Ended DEF WebInv
<1>5. ASSUME ~crossed PROVE paid \subseteq served' \cup dropped'
  <2>1. CASE Web!Answered(n)
    <3>1. t.invoice \in paid /\ served' = served \cup {t.invoice}
      BY <1>1, <2>1 DEF Web!Answered, Web!Serves
    <3>2. t.kind = "paid-retry"
      BY <1>1, <3>1 DEF WebInv, Keeps, Fits, TaskFits
    <3>3. QED
      BY <1>1, <1>2, <1>5, <3>1, <3>2 DEF WebInv, Keeps, OneAtATime
  <2>2. CASE Web!AnsweredFree(n)
    BY <2>2 DEF Web!AnsweredFree, WebInv, Keeps
  <2>3. QED
    BY <2>1, <2>2
<1>6. Keeps'
  BY <1>1, <1>2, <1>3, <1>5, LastEnds DEF WebInv
<1>7. QED
  BY <1>2, <1>4, <1>6, PageKept DEF WebInv

\* The user pays or closes the dialog, and invoices run out.
LEMMA DialogStep ==
    ASSUME WebInv, Web!PayInvoice \/ Web!Cancel \/ \E i \in open : Web!QuoteExpires(i)
    PROVE  WebInv'
<1> USE DEF Web!page, Web!server
<1>1. /\ UNCHANGED <<connected, address, reading, caps, text, owner, config, quote, served,
                     tasks, started, crossed>>
      /\ open' \subseteq open
  BY DEF Web!PayInvoice, Web!Cancel, Web!QuoteExpires
<1>2. DialogFits(Web!NoPayment) /\ Web!NoPayment.invoice = 0
  BY DEF DialogFits, PendingType, Web!NoPayment
<1>3. pending' = pending \/ pending' = Web!NoPayment
  BY DEF Web!PayInvoice, Web!Cancel, Web!QuoteExpires
<1>4. Fits'
  BY <1>1, <1>2, <1>3, FitsKept DEF WebInv, Fits
<1>5. Keeps'
  <2>1. CASE Web!PayInvoice
    <3>1. pending' = pending /\ dropped' = dropped /\ paid' = paid \cup {pending.invoice}
      BY <2>1 DEF Web!PayInvoice
    <3>2. pending.invoice # 0
      BY <2>1 DEF Web!PayInvoice, Web!ModalOpen, WebInv, Fits, DialogFits
    <3>3. QED
      BY <1>1, <3>1, <3>2 DEF WebInv, Keeps, OneAtATime, Web!IsRequest
  <2>2. CASE Web!Cancel
    <3>1. /\ pending'.invoice = 0 /\ dropped' = dropped \cup {pending.invoice} /\ paid' = paid
          /\ UNCHANGED <<quote, tasks, crossed, served, config>>
      BY <1>1, <1>2, <2>2 DEF Web!Cancel
    <3>2. ~crossed => OneAtATime'
      BY <3>1 DEF WebInv, Keeps, OneAtATime, Web!IsRequest
    <3>3. QED
      BY <3>1, <3>2 DEF WebInv, Keeps
  <2>3. ASSUME NEW i \in open, Web!QuoteExpires(i) PROVE Keeps'
    BY <1>1, <2>3 DEF Web!QuoteExpires, WebInv, Keeps, OneAtATime, Web!IsRequest
  <2>4. QED
    BY <2>1, <2>2, <2>3
<1>6. QED
  BY <1>1, <1>4, <1>5, PageKept DEF WebInv

\* Every step of the page, the wallet, the user and the server.
LEMMA WebStep == WebInv /\ Web!Next => WebInv'
BY ArrivalStep, ChoiceStep, UseStep, OtherTaskStep, MovedStep, QuotedStep, NotPaidYetStep,
   AnsweredStep, DialogStep
DEF Web!Next

LEMMA WebStutter == WebInv /\ UNCHANGED webVars => WebInv'
<1> SUFFICES ASSUME WebInv, UNCHANGED webVars PROVE WebInv'
  OBVIOUS
<1>1. PageOK'
  BY PageKept DEF WebInv, webVars
<1>2. Fits'
  BY FitsKept DEF WebInv, Fits, webVars
<1>3. Keeps'
  BY KeepsKept DEF WebInv, Fits, webVars
<1>4. QED
  BY <1>1, <1>2, <1>3 DEF WebInv

-----------------------------------------------------------------------------
\* A payment is presented only with the request it was asked for.
LEMMA WebFits == WebInv => Web!PaymentForItsRequest
<1> SUFFICES ASSUME WebInv, NEW n \in DOMAIN tasks, tasks[n].invoice # 0
             PROVE  [tasks[n].request EXCEPT !.address = Nobody]
                        = [quote[tasks[n].invoice] EXCEPT !.address = Nobody]
  BY DEF Web!PaymentForItsRequest
<1>1. PICK r, q : r = tasks[n].request /\ q = quote[tasks[n].invoice]
  OBVIOUS
<1>2. r \in RequestType /\ q \in RequestType /\ SameWork(r, q)
  BY <1>1 DEF WebInv, Fits, TaskFits, TaskType, QuotesOK
<1>3. [r EXCEPT !.address = Nobody] = [q EXCEPT !.address = Nobody]
  BY <1>2 DEF RequestType, SameWork
<1>4. QED
  BY <1>1, <1>3

LEMMA WebKeeps == WebInv => Web!PaidIsKept
BY DEF WebInv, Keeps, OneAtATime, Web!PaidIsKept

-----------------------------------------------------------------------------
(***************************************************************************)
(* The cells a wallet spends                                               *)
(***************************************************************************)
Live == DOMAIN capabilityCells
InputsOf(tx) == Cells!ToSet(tx.ins)
Spends(tx, p) == p \in InputsOf(tx) /\ p \in Live

\* Transactions are numbered as they are built, their cells after them: what a transaction
\* spends was live when it was built, so it is older than the transaction and of none that
\* still waits, and no cell comes back.
NumbersOK ==
    /\ built \in Nat /\ DOMAIN given = Wallets
    /\ \A p \in Live : p[1] \in 0 .. built
    /\ \A tx \in mempool :
          /\ tx.n \in 1 .. built
          /\ \A p \in Live : p[1] # tx.n
          /\ \A p \in InputsOf(tx) : p[1] \in 0 .. built
          /\ \A other \in mempool : other.n = tx.n => other = tx
          /\ \A other \in mempool, p \in InputsOf(tx) : p[1] # other.n

\* A transaction of the client spends no capability but one its wallet was told to give.
FeesOK ==
    \A tx \in mempool : tx.by \in Honest =>
        \A p \in Live : p \in InputsOf(tx) /\ Cells!IsCapability(capabilityCells[p]) =>
            capabilityCells[p].type \in given[tx.by]

Keeping ==
    \A w \in Honest : \A t \in held[w] :
        /\ t # Cells!NoType
        /\ \/ \E p \in Live : capabilityCells[p].type = t /\ capabilityCells[p].lock = w
           \/ t \in given[w]

CellsInv == NumbersOK /\ FeesOK /\ Keeping

LEMMA CellsInit == Cells!Init => CellsInv
<1> SUFFICES ASSUME Cells!Init PROVE CellsInv
  OBVIOUS
<1>1. /\ Live = {<<0, Cells!Genesis[w]>> : w \in Wallets}
      /\ mempool = {} /\ built = 0 /\ DOMAIN given = Wallets
      /\ \A w \in Honest : held[w] = {}
  BY ClientsAssumption DEF Cells!Init, Live
<1>2. QED
  BY <1>1 DEF CellsInv, NumbersOK, FeesOK, Keeping

\* What pays the fees is the wallet's, and stands behind the cell that is moved.
LEMMA FeeInputs ==
    ASSUME NEW w, NEW fees \in Cells!Fees(w), NEW p
    PROVE  /\ Cells!ToSet(fees) \subseteq Cells!Own(w)
           /\ Cells!ToSet(<<p>> \o fees) = {p} \cup Cells!ToSet(fees)
<1>1. fees \in Seq(Cells!Own(w)) /\ Len(fees) \in Nat
  <2>1. PICK O : O = Cells!Own(w)
    OBVIOUS
  <2>2. fees \in {<<>>} \cup {<<a>> : a \in O} \cup {s \in O \X O : s[1] # s[2]}
    BY <2>1 DEF Cells!Fees
  <2>3. CASE fees = <<>>
    BY <2>3
  <2>4. ASSUME NEW a \in O, fees = <<a>> PROVE fees \in Seq(O)
    BY <2>4
  <2>5. ASSUME fees \in O \X O PROVE fees \in Seq(O)
    <3>1. PICK a \in O, b \in O : fees = <<a, b>>
      BY <2>5
    <3>2. QED
      BY <3>1
  <2>6. fees \in Seq(O)
    BY <2>2, <2>3, <2>4, <2>5
  <2>7. QED
    BY <2>1, <2>6
<1>2. Cells!ToSet(fees) \subseteq Cells!Own(w)
  BY <1>1 DEF Cells!ToSet
<1>3. PICK S : S = Cells!Own(w) \cup {p}
  OBVIOUS
<1>4. fees \in Seq(S) /\ <<p>> \in Seq(S) /\ Len(<<p>>) = 1 /\ <<p>>[1] = p
  BY <1>1, <1>3
<1>5. PICK c : c = <<p>> \o fees
  OBVIOUS
<1>6. /\ Len(c) = 1 + Len(fees) /\ DOMAIN c = 1 .. Len(c) /\ DOMAIN fees = 1 .. Len(fees)
      /\ \A i \in 1 .. Len(c) : c[i] = IF i <= 1 THEN p ELSE fees[i - 1]
  <2>1. /\ c \in Seq(S) /\ Len(c) = 1 + Len(fees)
        /\ \A i \in 1 .. Len(<<p>>) + Len(fees) :
              c[i] = IF i <= Len(<<p>>) THEN <<p>>[i] ELSE fees[i - Len(<<p>>)]
    BY <1>4, <1>5, ConcatProperties
  <2>2. \A i \in 1 .. Len(c) : i <= 1 => i = 1
    BY <1>1, <2>1
  <2>3. QED
    BY <1>1, <1>4, <2>1, <2>2
<1>7. Cells!ToSet(c) = {p} \cup Cells!ToSet(fees)
  <2>1. c[1] = p /\ 1 \in DOMAIN c
    BY <1>1, <1>6
  <2>2. \A i \in DOMAIN fees : i + 1 \in DOMAIN c /\ c[i + 1] = fees[i]
    BY <1>1, <1>6
  <2>3. \A i \in DOMAIN c : i = 1 \/ (i - 1 \in DOMAIN fees /\ c[i] = fees[i - 1])
    BY <1>1, <1>6
  <2>4. QED
    BY <1>6, <2>1, <2>2, <2>3 DEF Cells!ToSet
<1>8. QED
  BY <1>2, <1>5, <1>7

\* A transaction is sent whose inputs are live cells that are not kept.
LEMMA SendStep ==
    ASSUME CellsInv, NEW w \in Wallets, NEW ins, NEW outs, Cells!Send(w, ins, outs),
           Cells!ToSet(ins) \subseteq Live, DOMAIN given' = Wallets,
           \A v \in Wallets : given[v] \subseteq given'[v],
           w \in Honest => \A p \in Cells!ToSet(ins) :
               Cells!IsCapability(capabilityCells[p]) => capabilityCells[p].type \in given'[w]
    PROVE  CellsInv'
<1>1. PICK tx : tx = [n |-> built + 1, by |-> w, ins |-> ins, outs |-> outs]
  OBVIOUS
<1>2. /\ mempool' = mempool \cup {tx} /\ built' = built + 1
      /\ UNCHANGED <<capabilityCells, held>> /\ Live' = Live
  BY <1>1 DEF Cells!Send, Live
<1>3. tx.n = built + 1 /\ tx.by = w /\ InputsOf(tx) = Cells!ToSet(ins) /\ InputsOf(tx) \subseteq Live
  BY <1>1 DEF InputsOf
<1>4. NumbersOK'
  <2>1. built \in Nat /\ built' \in Nat /\ DOMAIN given' = Wallets
    BY <1>2 DEF CellsInv, NumbersOK
  <2>2. \A p \in Live : p[1] \in 0 .. built /\ p[1] \in 0 .. built' /\ p[1] # tx.n
    BY <1>2, <1>3, <2>1 DEF CellsInv, NumbersOK
  <2>3. /\ tx.n \in 1 .. built' /\ \A other \in mempool : other.n \in 1 .. built' /\ other.n # tx.n
    BY <1>2, <1>3, <2>1 DEF CellsInv, NumbersOK
  <2>4. ASSUME NEW other \in mempool, NEW p \in InputsOf(other)
        PROVE  p[1] \in 0 .. built' /\ p[1] # tx.n
    BY <1>2, <1>3, <2>1 DEF CellsInv, NumbersOK
  <2>5. QED
    BY <1>2, <1>3, <2>1, <2>2, <2>3, <2>4 DEF CellsInv, NumbersOK, InputsOf
<1>5. FeesOK'
  BY <1>2, <1>3, ClientsAssumption DEF CellsInv, FeesOK, InputsOf, Cells!IsCapability, Cells!NoType
<1>6. Keeping'
  BY <1>2, ClientsAssumption DEF CellsInv, Keeping
<1>7. QED
  BY <1>4, <1>5, <1>6 DEF CellsInv

LEMMA BuildStep ==
    ASSUME CellsInv, NEW w \in Wallets, NEW fees \in Cells!Fees(w),
           \/ \E r \in Wallets, content \in Contents : Cells!BuildIssue(w, r, content, fees)
           \/ \E p \in view[w], r \in Wallets : Cells!BuildTransfer(w, p, r, fees)
           \/ \E p \in view[w] : Cells!BuildSurrender(w, p, fees)
    PROVE  CellsInv'
<1>1. Cells!ToSet(fees) \subseteq Live
  BY FeeInputs DEF Cells!Own, Live
<1>2. DOMAIN given = Wallets
  BY DEF CellsInv, NumbersOK
<1>3. ASSUME NEW r \in Wallets, NEW content \in Contents, Cells!BuildIssue(w, r, content, fees)
      PROVE  CellsInv'
  <2>1. PICK outs : Cells!Send(w, fees, outs)
    BY <1>3 DEF Cells!BuildIssue
  <2>2. given' = given /\ \A p \in Cells!ToSet(fees) : ~Cells!IsCapability(capabilityCells[p])
    BY <1>3 DEF Cells!BuildIssue, Cells!NoCapabilityFunding
  <2>3. QED
    BY <1>1, <1>2, <2>1, <2>2, SendStep
<1>4. ASSUME NEW p, NEW outs, p \in Live, Cells!NoCapabilityFunding(fees),
             Cells!Send(w, <<p>> \o fees, outs),
             given' = [given EXCEPT ![w] = @ \cup {capabilityCells[p].type}]
      PROVE  CellsInv'
  <2>1. /\ Cells!ToSet(<<p>> \o fees) = {p} \cup Cells!ToSet(fees)
        /\ \A q \in Cells!ToSet(fees) : ~Cells!IsCapability(capabilityCells[q])
    BY <1>4, FeeInputs DEF Cells!NoCapabilityFunding
  <2>2. /\ DOMAIN given' = Wallets /\ \A v \in Wallets : given[v] \subseteq given'[v]
        /\ capabilityCells[p].type \in given'[w]
    BY <1>2, <1>4
  <2>3. QED
    BY <1>1, <1>4, <2>1, <2>2, SendStep
<1>5. ASSUME NEW p \in view[w], NEW r \in Wallets, Cells!BuildTransfer(w, p, r, fees) PROVE CellsInv'
  <2>1. p \in Live /\ Cells!NoCapabilityFunding(fees)
    BY <1>5 DEF Cells!BuildTransfer, Cells!Named, Live
  <2>2. PICK outs : Cells!Send(w, <<p>> \o fees, outs)
    BY <1>5 DEF Cells!BuildTransfer
  <2>3. given' = [given EXCEPT ![w] = @ \cup {capabilityCells[p].type}]
    BY <1>5 DEF Cells!BuildTransfer
  <2>4. QED
    BY <1>4, <2>1, <2>2, <2>3
<1>6. ASSUME NEW p \in view[w], Cells!BuildSurrender(w, p, fees) PROVE CellsInv'
  <2>1. p \in Live /\ Cells!NoCapabilityFunding(fees)
    BY <1>6 DEF Cells!BuildSurrender, Cells!Named, Live
  <2>2. PICK outs : Cells!Send(w, <<p>> \o fees, outs)
    BY <1>6 DEF Cells!BuildSurrender
  <2>3. given' = [given EXCEPT ![w] = @ \cup {capabilityCells[p].type}]
    BY <1>6 DEF Cells!BuildSurrender
  <2>4. QED
    BY <1>4, <2>1, <2>2, <2>3
<1>7. QED
  BY <1>3, <1>5, <1>6

\* A committed transaction, of a client or of anybody who is not one, takes the live cells it
\* spends and adds its own.
LEMMA CommitsStep ==
    ASSUME CellsInv, NEW tx, Cells!Commits(tx), tx.n \in Nat,
           tx.by \in Honest => tx \in mempool,
           \A p \in Live : p[1] # tx.n, tx.n <= built', built' \in Nat, built <= built',
           \A other \in mempool' : other \in mempool /\ other.n # tx.n,
           \A other \in mempool' : \A p \in InputsOf(other) : p[1] # tx.n,
           UNCHANGED given
    PROVE  CellsInv'
<1>1. /\ capabilityCells' = [p \in (Live \ InputsOf(tx)) \cup Cells!Created(tx) |->
                                IF p \in Cells!Created(tx) THEN tx.outs[p[2]] ELSE capabilityCells[p]]
      /\ Live' = (Live \ InputsOf(tx)) \cup Cells!Created(tx)
  BY DEF Cells!Commits, Live, InputsOf
<1>2. \A p \in Cells!Created(tx) : p[1] = tx.n /\ p \notin Live
  BY DEF Cells!Created
<1>3. \A p \in Live \ InputsOf(tx) : p \in Live' /\ capabilityCells'[p] = capabilityCells[p]
  BY <1>1, <1>2
<1>4. \A p \in Live' : (p \in Live /\ capabilityCells'[p] = capabilityCells[p]) \/ p[1] = tx.n
  BY <1>1, <1>2
<1>5. NumbersOK'
  BY <1>4 DEF CellsInv, NumbersOK, InputsOf
<1>6. FeesOK'
  BY <1>4 DEF CellsInv, FeesOK, InputsOf, Cells!IsCapability, Cells!NoType
<1>7. Keeping'
  <2> SUFFICES ASSUME NEW w \in Honest, NEW t \in held'[w]
               PROVE  /\ t # Cells!NoType
                      /\ \/ \E p \in Live' : /\ capabilityCells'[p].type = t
                                               /\ capabilityCells'[p].lock = w
                         \/ t \in given[w]
    BY DEF Keeping, Cells!NoType
  <2>1. held'[w] = held[w] \cup {o.type : o \in {o \in Cells!ToSet(tx.outs) :
                                                  Cells!IsCapability(o) /\ o.lock = w}}
    BY ClientsAssumption DEF Cells!Commits
  <2>2. ASSUME NEW o \in Cells!ToSet(tx.outs), o.lock = w, o.type = t
        PROVE  \E p \in Live' : capabilityCells'[p].type = t /\ capabilityCells'[p].lock = w
    <3>1. PICK k \in DOMAIN tx.outs : tx.outs[k] = o
      BY DEF Cells!ToSet
    <3>2. PICK p : p = <<tx.n, k>>
      OBVIOUS
    <3>3. p \in Cells!Created(tx) /\ p[2] = k
      BY <3>2 DEF Cells!Created
    <3>4. capabilityCells'[p] = o /\ p \in Live'
      BY <1>1, <3>1, <3>3
    <3>5. QED
      BY <2>2, <3>4
  <2>3. ASSUME NEW p \in Live, capabilityCells[p].type = t, capabilityCells[p].lock = w, t \in held[w],
               t \notin given[w]
        PROVE  p \in Live' /\ capabilityCells'[p] = capabilityCells[p]
    <3>1. p \notin InputsOf(tx) \/ tx.by = w
      BY <2>3 DEF Cells!Commits, Cells!Valid, InputsOf
    <3>2. Cells!IsCapability(capabilityCells[p]) \/ t = Cells!NoType
      BY <2>3 DEF Cells!IsCapability
    <3>3. t # Cells!NoType
      BY <2>3 DEF CellsInv, Keeping
    <3>4. QED
      BY <1>3, <2>3, <3>1, <3>2, <3>3 DEF CellsInv, FeesOK
  <2>4. t # Cells!NoType
    BY <2>1 DEF CellsInv, Keeping, Cells!IsCapability
  <2>5. QED
    BY <2>1, <2>2, <2>3, <2>4 DEF CellsInv, Keeping
<1>8. QED
  BY <1>5, <1>6, <1>7 DEF CellsInv

\* Every step of the wallets, the client library, other software and the chain.
LEMMA CellsStep == CellsInv /\ Cells!Next => CellsInv'
<1> SUFFICES ASSUME CellsInv, Cells!Next PROVE CellsInv'
  OBVIOUS
<1>1. ASSUME UNCHANGED <<capabilityCells, built, held, given>>, mempool' \subseteq mempool
      PROVE  CellsInv'
  BY <1>1 DEF CellsInv, NumbersOK, FeesOK, Keeping, Live, InputsOf, Cells!IsCapability, Cells!NoType
<1>2. ASSUME NEW w \in Wallets, Cells!Discover(w) \/ Cells!GiveUp(w) PROVE CellsInv'
  BY <1>1, <1>2 DEF Cells!Discover, Cells!GiveUp
<1>3. ASSUME NEW w \in Wallets, NEW fees \in Cells!Fees(w),
             \/ \E r \in Wallets, content \in Contents : Cells!BuildIssue(w, r, content, fees)
             \/ \E p \in view[w], r \in Wallets : Cells!BuildTransfer(w, p, r, fees)
             \/ \E p \in view[w] : Cells!BuildSurrender(w, p, fees)
      PROVE  CellsInv'
  BY <1>3, BuildStep
<1>4. ASSUME NEW w \in Wallets, NEW ins, Cells!Foreign(w, ins) PROVE CellsInv'
  <2>1. PICK outs : Cells!Commits([n |-> built + 1, by |-> w, ins |-> ins, outs |-> outs])
    BY <1>4 DEF Cells!Foreign
  <2>2. PICK tx : tx = [n |-> built + 1, by |-> w, ins |-> ins, outs |-> outs]
    OBVIOUS
  <2>3. /\ Cells!Commits(tx) /\ tx.n = built + 1 /\ tx.by \notin Honest
        /\ built' = built + 1 /\ UNCHANGED <<mempool, given>>
    BY <1>4, <2>1, <2>2 DEF Cells!Foreign
  <2>4. /\ built \in Nat /\ \A p \in Live : p[1] \in 0 .. built
        /\ \A other \in mempool : other.n \in 1 .. built
        /\ \A other \in mempool : \A p \in InputsOf(other) : p[1] \in 0 .. built
    BY DEF CellsInv, NumbersOK
  <2>5. /\ \A p \in Live : p[1] # tx.n
        /\ \A other \in mempool : other.n # tx.n
        /\ \A other \in mempool : \A p \in InputsOf(other) : p[1] # tx.n
    BY <2>3, <2>4
  <2>6. tx.n \in Nat /\ tx.n <= built' /\ built' \in Nat /\ built <= built'
    BY <2>3, <2>4
  <2>7. QED
    BY <2>3, <2>5, <2>6, CommitsStep
<1>5. ASSUME NEW tx \in mempool, Cells!Commit(tx) PROVE CellsInv'
  <2>1. Cells!Commits(tx) /\ mempool' = mempool \ {tx} /\ UNCHANGED <<built, given>>
    BY <1>5 DEF Cells!Commit
  <2>2. /\ built \in Nat /\ tx.n \in 1 .. built /\ \A p \in Live : p[1] # tx.n
        /\ \A other \in mempool : other.n = tx.n => other = tx
        /\ \A other \in mempool : \A p \in InputsOf(other) : p[1] # tx.n
    BY DEF CellsInv, NumbersOK
  <2>3. tx.n \in Nat /\ tx.n <= built
    BY <2>2
  <2>4. QED
    BY <2>1, <2>2, <2>3, CommitsStep
<1>6. ASSUME NEW tx \in mempool, Cells!Refuse(tx) PROVE CellsInv'
  BY <1>1, <1>6 DEF Cells!Refuse
<1>7. QED
  BY <1>2, <1>3, <1>4, <1>5, <1>6 DEF Cells!Next

LEMMA CellsStutter == CellsInv /\ UNCHANGED cellVars => CellsInv'
BY DEF CellsInv, NumbersOK, FeesOK, Keeping, Live, InputsOf, Cells!IsCapability, Cells!NoType, cellVars

LEMMA CellsLose == CellsInv => Cells!NothingLost
BY DEF CellsInv, Keeping, Live, Cells!NothingLost, Cells!LiveOf

-----------------------------------------------------------------------------
(***************************************************************************)
(* The parts together                                                      *)
(***************************************************************************)
ClientsInv == WebInv /\ InvoicesOK /\ CellsInv

LEMMA TogetherInit == EachInit => ClientsInv
<1>1. Demo!Init => InvoicesOK
  BY DEF Demo!Init, InvoicesOK
<1>2. QED
  BY <1>1, WebInit, CellsInit DEF EachInit, ClientsInv

allVars == <<part, cellVars, webVars, agentVars, vars, demoVars>>

LEMMA TogetherStep == ClientsInv /\ [EachNext]_allVars => ClientsInv'
<1> SUFFICES ASSUME ClientsInv, [EachNext]_allVars PROVE ClientsInv'
  OBVIOUS
<1>1. Web!Next \/ UNCHANGED webVars
  BY DEF EachNext, allVars
<1>2. Demo!Next \/ UNCHANGED demoVars
  BY DEF EachNext, allVars
<1>3. WebInv'
  BY <1>1, WebStep, WebStutter DEF ClientsInv
<1>4. UNCHANGED demoVars => InvoicesOK'
  BY DEF ClientsInv, InvoicesOK, demoVars
<1>5. Cells!Next \/ UNCHANGED cellVars
  BY DEF EachNext, allVars
<1>6. CellsInv'
  BY <1>5, CellsStep, CellsStutter DEF ClientsInv
<1>7. QED
  BY <1>2, <1>3, <1>4, <1>6, InvoicesStep DEF ClientsInv

\* In the web application a payment goes out only with the request it was asked for, whatever is
\* edited, selected, connected or answered late meanwhile: for any numbers of tasks, passes and
\* accounts, however many requests run at once.
THEOREM PaymentFits == EachClient => []PaymentForItsRequest
<1>1. ClientsInv => PaymentForItsRequest
  BY WebFits DEF ClientsInv, PaymentForItsRequest
<1>2. QED
  BY <1>1, TogetherInit, TogetherStep, PTL DEF EachClient, allVars

\* In the demonstration a payment buys one answer at most, of the user and the text it was quoted
\* for, after it was paid: for any numbers of resets, cells, challenges and quotes.
THEOREM OneAnswerForAPayment == EachClient => []OneAnswerPerPayment
<1>1. ClientsInv => OneAnswerPerPayment
  BY OneAnswer DEF ClientsInv, OneAnswerPerPayment
<1>2. QED
  BY <1>1, TogetherInit, TogetherStep, PTL DEF EachClient, allVars

\* Nothing the page, the wallet or the server does takes a paid invoice out of the dialog before
\* it is served or the user closes the dialog, while one request runs at a time.
THEOREM PaidStays == EachClient => []PaidIsKept
<1>1. ClientsInv => PaidIsKept
  BY WebKeeps DEF ClientsInv, PaidIsKept
<1>2. QED
  BY <1>1, TogetherInit, TogetherStep, PTL DEF EachClient, allVars

\* A wallet that uses the client library loses a capability only by its own transfer or surrender,
\* whatever other software builds, however late transactions are committed and views are stale:
\* for any wallets, contents and number of transactions.
THEOREM NothingIsLost == EachClient => []NothingLost
<1>1. ClientsInv => NothingLost
  BY CellsLose DEF ClientsInv, NothingLost
<1>2. QED
  BY <1>1, TogetherInit, TogetherStep, PTL DEF EachClient, allVars

-----------------------------------------------------------------------------
(***************************************************************************)
(* Who owns what                                                           *)
(***************************************************************************)
\* The registry's right of a type, of live cells c.
RightIn(c, t) ==
    LET L == {p \in DOMAIN c : c[p].type = t} IN
    CASE L = {} -> [state |-> "retired"]
      [] Cardinality(L) = 1 /\ (\A p \in L : c[p].data.issuer = t.issuer) ->
             [state |-> "owned", owner |-> c[CHOOSE p \in L : TRUE].lock,
              content |-> c[CHOOSE p \in L : TRUE].data.content]
      [] OTHER -> [state |-> "forged"]

IssuedIn(c, h) == {c[p].type : p \in DOMAIN c} \cup UNION {h[w] : w \in Wallets}

RightsIn(c, h) == [t \in Cells!Identities |->
    IF t \in IssuedIn(c, h) THEN RightIn(c, t) ELSE [state |-> "unissued"]]

LEMMA RightsAre ==
    /\ Cells!Rights = RightsIn(capabilityCells, held)
    /\ Cells!Rights' = RightsIn(capabilityCells', held')
<1>1. Cells!Rights = RightsIn(capabilityCells, held)
  BY DEF Cells!Rights, Cells!RightOf, Cells!LiveOf, Cells!Forged, RightsIn, RightIn, IssuedIn
<1>2. Cells!Rights' = RightsIn(capabilityCells', held')
  BY DEF Cells!Rights, Cells!RightOf, Cells!LiveOf, Cells!Forged, RightsIn, RightIn, IssuedIn
<1>3. QED
  BY <1>1, <1>2

OwnedBy(w, content) == [state |-> "owned", owner |-> w, content |-> content]

LEMMA RightCases ==
    ASSUME NEW c, NEW t
    PROVE  /\ (\A p \in DOMAIN c : c[p].type # t) => RightIn(c, t) = [state |-> "retired"]
           /\ \A p \in DOMAIN c :
                 /\ \A q \in DOMAIN c : c[q].type = t <=> q = p
                 /\ c[p].data.issuer = t.issuer
                 => RightIn(c, t) = OwnedBy(c[p].lock, c[p].data.content)
<1>1. PICK L : L = {p \in DOMAIN c : c[p].type = t}
  OBVIOUS
<1>2. PICK one \in BOOLEAN :
          one <=> Cardinality(L) = 1 /\ \A p \in L : c[p].data.issuer = t.issuer
  OBVIOUS
<1>3. PICK x, y : /\ x = c[CHOOSE p \in L : TRUE].lock
                  /\ y = c[CHOOSE p \in L : TRUE].data.content
  OBVIOUS
<1>4. RightIn(c, t) = CASE L = {} -> [state |-> "retired"]
                        [] one -> [state |-> "owned", owner |-> x, content |-> y]
                        [] OTHER -> [state |-> "forged"]
  BY <1>1, <1>2, <1>3 DEF RightIn
<1>5. L = {} => ~one
  <2>1. Cardinality({}) = 0
    BY FS_EmptySet
  <2>2. QED
    BY <1>2, <2>1
<1>6. ASSUME \A p \in DOMAIN c : c[p].type # t PROVE RightIn(c, t) = [state |-> "retired"]
  <2>1. L = {}
    BY <1>1, <1>6
  <2>2. QED
    BY <1>4, <1>5, <2>1
<1>7. ASSUME NEW p \in DOMAIN c, \A q \in DOMAIN c : c[q].type = t <=> q = p,
             c[p].data.issuer = t.issuer
      PROVE  RightIn(c, t) = OwnedBy(c[p].lock, c[p].data.content)
  <2>1. L = {p}
    BY <1>1, <1>7
  <2>2. Cardinality({p}) = 1 /\ (CHOOSE q \in {p} : TRUE) = p
    BY FS_Singleton
  <2>3. one /\ x = c[p].lock /\ y = c[p].data.content /\ L # {}
    BY <1>2, <1>3, <1>7, <2>1, <2>2
  <2>4. QED
    BY <1>4, <2>3 DEF OwnedBy
<1>8. QED
  BY <1>6, <1>7

LEMMA NamedType == Cells!NoType \notin Cells!Identities
<1> SUFFICES ASSUME Cells!NoType \in Cells!Identities PROVE FALSE
  OBVIOUS
<1>1. <<>> \in Cells!Points \X (1 .. 3)
  BY DEF Cells!Identities, Cells!NoType
<1>2. PICK a, b : <<>> = <<a, b>>
  BY <1>1
<1>3. Len(<<>>) = 0 /\ Len(<<a, b>>) = 2
  OBVIOUS
<1>4. QED
  BY <1>2, <1>3

\* Cell p is the one live cell of type t; output n the one output.
OnlyCell(t, p) ==
    p \in Live /\ \A q \in Live : capabilityCells[q].type = t <=> q = p
OnlyOutput(tx, t, n) ==
    n \in DOMAIN tx.outs /\ \A m \in DOMAIN tx.outs : tx.outs[m].type = t <=> m = n

\* The cell whose spending made type t is gone for good.
Minted(t) ==
    /\ t.cap[1] \notin Live
    /\ t.cap[1][1] \in 0 .. built
    /\ \A tx \in mempool : t.cap[1][1] # tx.n

\* A transaction with an input, the outputs of which wallets can own.
TxOK(tx) ==
    /\ tx.by \in Wallets
    /\ 1 \in DOMAIN tx.ins /\ IsFiniteSet(InputsOf(tx)) /\ IsFiniteSet(DOMAIN tx.outs)
    /\ \A n \in DOMAIN tx.outs :
          /\ tx.outs[n].lock \in Wallets
          /\ tx.outs[n].type # Cells!NoType => tx.outs[n].data.content \in Contents

\* A capability has one live cell, which says whose it is; its identity is not used again.
Ownership ==
    /\ DOMAIN held = Wallets
    /\ \A w \in Wallets : \A t \in held[w] : t # Cells!NoType /\ Minted(t)
    /\ \A p \in Live : capabilityCells[p].lock \in Wallets
    /\ \A p \in Live : capabilityCells[p].type # Cells!NoType =>
          /\ capabilityCells[p].data.issuer = capabilityCells[p].type.issuer
          /\ capabilityCells[p].data.content \in Contents
          /\ capabilityCells[p].type \in held[capabilityCells[p].lock]
          /\ OnlyCell(capabilityCells[p].type, p)
    /\ \A tx \in mempool : TxOK(tx)

\* What the contract accepts of the cells of one type: an issue, a change or a surrender.
LEMMA Accepted ==
    ASSUME Ownership, NEW tx, TxOK(tx), Cells!Valid(tx), NEW t \in Cells!Types(tx)
    PROVE  \/ \E n : /\ OnlyOutput(tx, t, n)
                     /\ \A p \in Live : capabilityCells[p].type # t
                     /\ \A w \in Wallets : t \notin held[w]
                     /\ t.cap[1] \in InputsOf(tx)
                     /\ t.issuer = tx.by /\ tx.outs[n].data.issuer = t.issuer
           \/ \E p, n : /\ OnlyOutput(tx, t, n) /\ OnlyCell(t, p) /\ p \in InputsOf(tx)
                        /\ tx.outs[n].data = capabilityCells[p].data
                        /\ \/ tx.outs[n].lock = capabilityCells[p].lock
                           \/ capabilityCells[p].data.content.transferable
           \/ \E p : /\ OnlyCell(t, p) /\ p \in InputsOf(tx)
                     /\ \A n \in DOMAIN tx.outs : tx.outs[n].type # t
<1>1. PICK I, O : I = Cells!Inputs(tx, t) /\ O = Cells!Outputs(tx, t)
  OBVIOUS
<1>2. /\ I = {p \in InputsOf(tx) : capabilityCells[p].type = t}
      /\ O = {n \in DOMAIN tx.outs : tx.outs[n].type = t}
      /\ InputsOf(tx) \subseteq Live /\ t # Cells!NoType
      /\ \A p \in InputsOf(tx) : capabilityCells[p].lock = tx.by
  BY <1>1 DEF Cells!Inputs, Cells!Outputs, InputsOf, Live, Cells!Valid, Cells!Types
<1>3. IsFiniteSet(I) /\ IsFiniteSet(O)
  BY <1>2, FS_Subset DEF TxOK
<1>4. \/ I = {} /\ Cardinality(O) = 1 /\ \A n \in O : Cells!VerifyIssue(tx, t, n)
      \/ Cardinality(I) = 1 /\ Cardinality(O) = 1
            /\ \A p \in I, n \in O : Cells!VerifyTransition(tx, t, p, n)
      \/ Cardinality(I) = 1 /\ O = {}
  <2>1. \A S : Cells!Cardinality(S) = Cardinality(S)
    BY DEF Cells!Cardinality, Cardinality
  <2>2. Cells!Contract(tx, t)
    BY DEF Cells!Valid
  <2>3. QED
    BY <1>1, <2>1, <2>2 DEF Cells!Contract
<1>5. ASSUME NEW n, O = {n} PROVE OnlyOutput(tx, t, n)
  BY <1>2, <1>5 DEF OnlyOutput
<1>6. ASSUME NEW p, I = {p} PROVE OnlyCell(t, p) /\ p \in InputsOf(tx)
  <2>1. p \in InputsOf(tx) /\ p \in Live /\ capabilityCells[p].type = t
    BY <1>2, <1>6
  <2>2. QED
    BY <1>2, <2>1 DEF Ownership
<1>7. CASE I = {} /\ Cardinality(O) = 1 /\ \A n \in O : Cells!VerifyIssue(tx, t, n)
  <2>1. PICK n : O = {n}
    BY <1>3, <1>7, FS_Singleton
  <2>2. Cells!VerifyIssue(tx, t, n)
    BY <1>7, <2>1
  <2>3. /\ tx.outs[n].data.issuer = t.issuer /\ t.cap = <<tx.ins[1], n>>
        /\ \E p \in InputsOf(tx) : capabilityCells[p].lock = t.issuer
    BY <2>2 DEF Cells!VerifyIssue, Cells!EnforcesIdentity, Cells!CreationId, InputsOf
  <2>4. t.cap[1] \in InputsOf(tx)
    BY <2>3 DEF TxOK, InputsOf, Cells!ToSet
  <2>5. \A w \in Wallets : t \notin held[w]
    BY <1>2, <2>4 DEF Ownership, Minted
  <2>6. \A p \in Live : capabilityCells[p].type # t
    BY <1>2, <2>5 DEF Ownership
  <2>7. QED
    BY <1>2, <1>5, <2>1, <2>3, <2>4, <2>5, <2>6
<1>8. CASE Cardinality(I) = 1 /\ Cardinality(O) = 1
              /\ \A p \in I, n \in O : Cells!VerifyTransition(tx, t, p, n)
  <2>1. PICK p, n : I = {p} /\ O = {n}
    <3>1. (\E p : I = {p}) /\ (\E n : O = {n})
      BY <1>3, <1>8, FS_Singleton
    <3>2. QED
      BY <3>1
  <2>2. Cells!VerifyTransition(tx, t, p, n)
    BY <1>8, <2>1
  <2>3. /\ tx.outs[n].data = capabilityCells[p].data
        /\ \/ tx.outs[n].lock = capabilityCells[p].lock
           \/ capabilityCells[p].data.content.transferable
    BY <2>2 DEF Cells!VerifyTransition, Cells!LockMayChange
  <2>4. QED
    BY <1>5, <1>6, <2>1, <2>3
<1>9. CASE Cardinality(I) = 1 /\ O = {}
  <2>1. PICK p : I = {p}
    BY <1>3, <1>9, FS_Singleton
  <2>2. \A n \in DOMAIN tx.outs : tx.outs[n].type # t
    BY <1>2, <1>9
  <2>3. QED
    BY <1>6, <2>1, <2>2
<1>10. QED
  BY <1>4, <1>7, <1>8, <1>9

\* What a commit leaves and adds.
LEMMA Committed ==
    ASSUME Ownership, NEW tx, TxOK(tx), Cells!Commits(tx), \A p \in Live : p[1] # tx.n
    PROVE  /\ Live' = (Live \ InputsOf(tx)) \cup Cells!Created(tx)
           /\ \A p \in Live \ InputsOf(tx) : p \in Live' /\ capabilityCells'[p] = capabilityCells[p]
           /\ \A n \in DOMAIN tx.outs : /\ <<tx.n, n>> \in Live' \ Live
                                        /\ capabilityCells'[<<tx.n, n>>] = tx.outs[n]
           /\ \A p \in Live' : \/ p \in Live \ InputsOf(tx)
                               \/ \E n \in DOMAIN tx.outs : p = <<tx.n, n>>
           /\ signer' = tx.by /\ DOMAIN held' = Wallets
           /\ \A w \in Wallets : \A t : t \in held'[w] <=>
                 \/ t \in held[w]
                 \/ \E n \in DOMAIN tx.outs : /\ tx.outs[n].type = t /\ tx.outs[n].lock = w
                                              /\ t # Cells!NoType
<1>1. /\ capabilityCells' = [p \in (Live \ InputsOf(tx)) \cup Cells!Created(tx) |->
                                IF p \in Cells!Created(tx) THEN tx.outs[p[2]] ELSE capabilityCells[p]]
      /\ Live' = (Live \ InputsOf(tx)) \cup Cells!Created(tx)
  BY DEF Cells!Commits, Live, InputsOf
<1>2. \A p \in Cells!Created(tx) : p[1] = tx.n /\ p \notin Live
  BY DEF Cells!Created
<1>3. ASSUME NEW n \in DOMAIN tx.outs
      PROVE  <<tx.n, n>> \in Live' \ Live /\ capabilityCells'[<<tx.n, n>>] = tx.outs[n]
  <2>1. PICK p : p = <<tx.n, n>>
    OBVIOUS
  <2>2. p \in Cells!Created(tx) /\ p[2] = n
    BY <2>1 DEF Cells!Created
  <2>3. QED
    BY <1>1, <1>2, <2>1, <2>2
<1>4. \A p \in Live' : p \in Live \ InputsOf(tx) \/ \E n \in DOMAIN tx.outs : p = <<tx.n, n>>
  BY <1>1 DEF Cells!Created
<1>5. signer' = tx.by /\ DOMAIN held' = Wallets
  BY DEF Cells!Commits
<1>6. ASSUME NEW w \in Wallets, NEW t
      PROVE  t \in held'[w] <=>
                 \/ t \in held[w]
                 \/ \E n \in DOMAIN tx.outs : /\ tx.outs[n].type = t /\ tx.outs[n].lock = w
                                              /\ t # Cells!NoType
  <2>1. held'[w] = held[w] \cup {o.type : o \in {o \in Cells!ToSet(tx.outs) :
                                                  Cells!IsCapability(o) /\ o.lock = w}}
    BY DEF Cells!Commits
  <2>2. t \in held'[w] <=> \/ t \in held[w]
                           \/ \E o \in Cells!ToSet(tx.outs) : /\ o.type # Cells!NoType
                                                              /\ o.lock = w /\ o.type = t
    BY <2>1 DEF Cells!IsCapability
  <2>3. QED
    BY <2>2 DEF Cells!ToSet
<1>7. QED
  BY <1>1, <1>2, <1>3, <1>4, <1>5, <1>6

\* After a commit every capability still has one cell and an identity of its own.
LEMMA OwnershipCommits ==
    ASSUME CellsInv, Ownership, NEW tx, TxOK(tx), Cells!Commits(tx), \A p \in Live : p[1] # tx.n,
           \A w \in Wallets : \A t \in held[w] : t.cap[1][1] # tx.n,
           built' \in Nat, built <= built', mempool' \subseteq mempool
    PROVE  Ownership'
<1>1. /\ Live' = (Live \ InputsOf(tx)) \cup Cells!Created(tx)
      /\ \A p \in Live \ InputsOf(tx) : p \in Live' /\ capabilityCells'[p] = capabilityCells[p]
      /\ \A n \in DOMAIN tx.outs : /\ <<tx.n, n>> \in Live' \ Live
                                   /\ capabilityCells'[<<tx.n, n>>] = tx.outs[n]
      /\ \A p \in Live' : \/ p \in Live \ InputsOf(tx)
                          \/ \E n \in DOMAIN tx.outs : p = <<tx.n, n>>
      /\ DOMAIN held' = Wallets
  BY Committed
<1>2. \A w \in Wallets : \A t : t \in held'[w] <=>
          \/ t \in held[w]
          \/ \E n \in DOMAIN tx.outs : /\ tx.outs[n].type = t /\ tx.outs[n].lock = w
                                       /\ t # Cells!NoType
  BY Committed
<1>3. Cells!Valid(tx) /\ InputsOf(tx) \subseteq Live
  BY DEF Cells!Commits, Cells!Valid, InputsOf, Live
<1>4. \A n \in DOMAIN tx.outs : tx.outs[n].type # Cells!NoType => tx.outs[n].type \in Cells!Types(tx)
  BY DEF Cells!Types, Cells!ToSet
<1>5. /\ \A p \in Live : p[1] \in 0 .. built' /\ \A other \in mempool' : p[1] # other.n
      /\ \A p \in Cells!Created(tx) : p[1] = tx.n
  BY DEF CellsInv, NumbersOK, Cells!Created
<1>6. \A t : t.cap[1][1] # tx.n /\ Minted(t) => Minted(t)'
  <2> SUFFICES ASSUME NEW t, t.cap[1][1] # tx.n, Minted(t)
               PROVE  /\ t.cap[1] \notin Live'
                      /\ t.cap[1][1] \in 0 .. built'
                      /\ \A other \in mempool' : t.cap[1][1] # other.n
    BY DEF Minted
  <2> QED
    BY <1>1, <1>5 DEF Minted, CellsInv, NumbersOK
<1>7. ASSUME NEW t, t.cap[1] \in InputsOf(tx) PROVE Minted(t)'
  BY <1>1, <1>3, <1>5, <1>7 DEF Minted
<1>8. ASSUME NEW n \in DOMAIN tx.outs, NEW t, t = tx.outs[n].type, t # Cells!NoType
      PROVE  /\ Minted(t)'
             /\ tx.outs[n].data.issuer = t.issuer
             /\ \A q \in Live' : capabilityCells'[q].type = t <=> q = <<tx.n, n>>
  <2>1. t \in Cells!Types(tx)
    BY <1>4, <1>8
  <2>2. CASE \E m : /\ OnlyOutput(tx, t, m)
                    /\ \A p \in Live : capabilityCells[p].type # t
                    /\ t.cap[1] \in InputsOf(tx)
                    /\ tx.outs[m].data.issuer = t.issuer
    <3>1. /\ OnlyOutput(tx, t, n) /\ \A p \in Live : capabilityCells[p].type # t
          /\ t.cap[1] \in InputsOf(tx) /\ tx.outs[n].data.issuer = t.issuer
      BY <1>8, <2>2 DEF OnlyOutput
    <3>2. \A q \in Live' : capabilityCells'[q].type = t <=> q = <<tx.n, n>>
      BY <1>1, <1>8, <3>1 DEF OnlyOutput
    <3>3. QED
      BY <1>7, <3>1, <3>2
  <2>3. CASE \E p, m : /\ OnlyOutput(tx, t, m) /\ OnlyCell(t, p) /\ p \in InputsOf(tx)
                       /\ tx.outs[m].data = capabilityCells[p].data
    <3>1. PICK p : /\ OnlyOutput(tx, t, n) /\ OnlyCell(t, p) /\ p \in InputsOf(tx)
                   /\ tx.outs[n].data = capabilityCells[p].data
      BY <1>8, <2>3 DEF OnlyOutput
    <3>2. capabilityCells[p].type = t /\ p \in Live
      BY <3>1 DEF OnlyCell
    <3>3. \E w \in Wallets : t \in held[w]
      BY <1>8, <3>2 DEF Ownership
    <3>4. Minted(t)'
      BY <1>6, <3>3 DEF Ownership
    <3>5. tx.outs[n].data.issuer = t.issuer
      BY <1>8, <3>1, <3>2 DEF Ownership
    <3>6. \A q \in Live' : capabilityCells'[q].type = t <=> q = <<tx.n, n>>
      BY <1>1, <1>8, <3>1 DEF OnlyOutput, OnlyCell
    <3>7. QED
      BY <3>4, <3>5, <3>6
  <2>4. QED
    BY <1>3, <1>8, <2>1, <2>2, <2>3, Accepted
<1>9. ASSUME NEW w \in Wallets, NEW t \in held'[w] PROVE t # Cells!NoType /\ Minted(t)'
  <2>1. CASE t \in held[w]
    BY <1>6, <2>1 DEF Ownership
  <2>2. CASE \E n \in DOMAIN tx.outs : tx.outs[n].type = t /\ t # Cells!NoType
    BY <1>8, <2>2
  <2>3. QED
    BY <1>2, <2>1, <2>2
<1>10. ASSUME NEW p \in Live'
       PROVE  /\ capabilityCells'[p].lock \in Wallets
              /\ capabilityCells'[p].type # Cells!NoType =>
                    /\ capabilityCells'[p].data.issuer = capabilityCells'[p].type.issuer
                    /\ capabilityCells'[p].data.content \in Contents
                    /\ capabilityCells'[p].type \in held'[capabilityCells'[p].lock]
                    /\ \A q \in Live' : capabilityCells'[q].type = capabilityCells'[p].type <=> q = p
  <2>1. ASSUME NEW n \in DOMAIN tx.outs, p = <<tx.n, n>>
        PROVE  /\ capabilityCells'[p].lock \in Wallets
               /\ capabilityCells'[p].type # Cells!NoType =>
                    /\ capabilityCells'[p].data.issuer = capabilityCells'[p].type.issuer
                    /\ capabilityCells'[p].data.content \in Contents
                    /\ capabilityCells'[p].type \in held'[capabilityCells'[p].lock]
                    /\ \A q \in Live' : capabilityCells'[q].type = capabilityCells'[p].type <=> q = p
    BY <1>1, <1>2, <1>8, <2>1 DEF TxOK
  <2>2. CASE p \in Live \ InputsOf(tx)
    <3>1. capabilityCells'[p] = capabilityCells[p] /\ capabilityCells[p].lock \in Wallets
      BY <1>1, <2>2 DEF Ownership
    <3>2. ASSUME capabilityCells[p].type # Cells!NoType
          PROVE  \A q \in Live' : capabilityCells'[q].type = capabilityCells[p].type <=> q = p
      <4>1. OnlyCell(capabilityCells[p].type, p)
        BY <2>2, <3>2 DEF Ownership
      <4>2. ASSUME NEW n \in DOMAIN tx.outs, tx.outs[n].type = capabilityCells[p].type PROVE FALSE
        BY <1>1, <1>8, <2>2, <3>1, <3>2, <4>2
      <4>3. QED
        BY <1>1, <3>1, <4>1, <4>2 DEF OnlyCell
    <3>3. QED
      BY <1>2, <2>2, <3>1, <3>2 DEF Ownership
  <2>3. QED
    BY <1>1, <2>1, <2>2
<1>11. \A other \in mempool' : TxOK(other)'
  BY DEF Ownership, TxOK, InputsOf, Cells!NoType
<1>12. QED
  BY <1>1, <1>9, <1>10, <1>11 DEF Ownership, OnlyCell, Cells!NoType

\* What became of a right in a transaction of s.
Becomes(s, i, old, new) ==
    \/ old = new
    \/ Cells!Registry!Issue(i, s, old, new)
    \/ Cells!Registry!Transfer(s, old, new)
    \/ Cells!Registry!Surrender(s, old, new)

LEMMA RightKnown ==
    ASSUME Ownership, NEW t \in Cells!Identities
    PROVE  /\ RightsIn(capabilityCells, held)[t] =
                 IF \E w \in Wallets : t \in held[w] THEN RightIn(capabilityCells, t)
                                                     ELSE [state |-> "unissued"]
           /\ \A p : OnlyCell(t, p) =>
                 /\ \E w \in Wallets : t \in held[w]
                 /\ RightIn(capabilityCells, t) =
                       OwnedBy(capabilityCells[p].lock, capabilityCells[p].data.content)
           /\ (\A p \in Live : capabilityCells[p].type # t)
                 => RightIn(capabilityCells, t) = [state |-> "retired"]
<1>1. t # Cells!NoType
  BY NamedType
<1>2. t \in IssuedIn(capabilityCells, held) <=> \E w \in Wallets : t \in held[w]
  <2>1. t \in IssuedIn(capabilityCells, held) <=>
            (\E p \in Live : capabilityCells[p].type = t) \/ \E w \in Wallets : t \in held[w]
    BY DEF IssuedIn, Live
  <2>2. QED
    BY <1>1, <2>1 DEF Ownership
<1>3. ASSUME NEW p, OnlyCell(t, p)
      PROVE  /\ \E w \in Wallets : t \in held[w]
             /\ RightIn(capabilityCells, t) =
                   OwnedBy(capabilityCells[p].lock, capabilityCells[p].data.content)
  <2>1. /\ p \in DOMAIN capabilityCells
        /\ \A q \in DOMAIN capabilityCells : capabilityCells[q].type = t <=> q = p
    BY <1>3 DEF OnlyCell, Live
  <2>2. capabilityCells[p].data.issuer = t.issuer /\ \E w \in Wallets : t \in held[w]
    BY <1>1, <2>1 DEF Ownership, Live
  <2>3. QED
    BY <2>1, <2>2, RightCases
<1>4. (\A p \in Live : capabilityCells[p].type # t)
          => RightIn(capabilityCells, t) = [state |-> "retired"]
  BY RightCases DEF Live
<1>5. QED
  BY <1>2, <1>3, <1>4 DEF RightsIn

LEMMA NewRightKnown ==
    ASSUME Ownership', NEW t \in Cells!Identities
    PROVE  /\ RightsIn(capabilityCells', held')[t] =
                 IF \E w \in Wallets : t \in held'[w] THEN RightIn(capabilityCells', t)
                                                      ELSE [state |-> "unissued"]
           /\ \A p \in Live' : (\A q \in Live' : capabilityCells'[q].type = t <=> q = p) =>
                 RightIn(capabilityCells', t) =
                       OwnedBy(capabilityCells'[p].lock, capabilityCells'[p].data.content)
           /\ (\A p \in Live' : capabilityCells'[p].type # t)
                 => RightIn(capabilityCells', t) = [state |-> "retired"]
<1>1. t # Cells!NoType
  BY NamedType
<1>2. \A p \in Live' : capabilityCells'[p].type # Cells!NoType =>
          /\ capabilityCells'[p].data.issuer = capabilityCells'[p].type.issuer
          /\ \E w \in Wallets : capabilityCells'[p].type \in held'[w]
  BY DEF Ownership, Cells!NoType
<1>3. t \in IssuedIn(capabilityCells', held') <=> \E w \in Wallets : t \in held'[w]
  <2>1. t \in IssuedIn(capabilityCells', held') <=>
            (\E p \in Live' : capabilityCells'[p].type = t) \/ \E w \in Wallets : t \in held'[w]
    BY DEF IssuedIn, Live
  <2>2. QED
    BY <1>1, <1>2, <2>1
<1>4. ASSUME NEW p \in Live', \A q \in Live' : capabilityCells'[q].type = t <=> q = p
      PROVE  RightIn(capabilityCells', t) =
                   OwnedBy(capabilityCells'[p].lock, capabilityCells'[p].data.content)
  <2>1. capabilityCells'[p].data.issuer = t.issuer
    BY <1>1, <1>2, <1>4
  <2>2. /\ p \in DOMAIN capabilityCells'
        /\ \A q \in DOMAIN capabilityCells' : capabilityCells'[q].type = t <=> q = p
    BY <1>4 DEF Live
  <2>3. QED
    BY <2>1, <2>2, RightCases
<1>5. (\A p \in Live' : capabilityCells'[p].type # t)
          => RightIn(capabilityCells', t) = [state |-> "retired"]
  <2>1. Live' = DOMAIN capabilityCells'
    BY DEF Live
  <2>2. QED
    BY <2>1, RightCases
<1>6. QED
  BY <1>3, <1>4, <1>5 DEF RightsIn

\* A commit is a transaction of the registry.
LEMMA CommitIsLawful ==
    ASSUME CellsInv, Ownership, NEW tx, TxOK(tx), Cells!Commits(tx), \A p \in Live : p[1] # tx.n,
           \A w \in Wallets : \A t \in held[w] : t.cap[1][1] # tx.n,
           built' \in Nat, built <= built', mempool' \subseteq mempool
    PROVE  Cells!Registry!Next
<1>1. Ownership'
  BY OwnershipCommits
<1>2. /\ \A p \in Live \ InputsOf(tx) : p \in Live' /\ capabilityCells'[p] = capabilityCells[p]
      /\ \A n \in DOMAIN tx.outs : /\ <<tx.n, n>> \in Live' \ Live
                                   /\ capabilityCells'[<<tx.n, n>>] = tx.outs[n]
      /\ \A p \in Live' : \/ p \in Live \ InputsOf(tx)
                          \/ \E n \in DOMAIN tx.outs : p = <<tx.n, n>>
      /\ signer' = tx.by
  BY Committed
<1>3. \A w \in Wallets : \A t : t \in held'[w] <=>
          \/ t \in held[w]
          \/ \E n \in DOMAIN tx.outs : /\ tx.outs[n].type = t /\ tx.outs[n].lock = w
                                       /\ t # Cells!NoType
  BY Committed
<1>4. Cells!Valid(tx) /\ \A p \in InputsOf(tx) : capabilityCells[p].lock = tx.by /\ p \in Live
  BY DEF Cells!Commits, Cells!Valid, InputsOf, Live
<1>5. ASSUME NEW t \in Cells!Identities
      PROVE  Becomes(tx.by, t, RightsIn(capabilityCells, held)[t],
                     RightsIn(capabilityCells', held')[t])
  <2>1. PICK old, new : /\ old = RightsIn(capabilityCells, held)[t]
                        /\ new = RightsIn(capabilityCells', held')[t]
    OBVIOUS
  <2>2. t # Cells!NoType
    BY NamedType
  <2>3. CASE t \notin Cells!Types(tx)
    <3>1. /\ \A n \in DOMAIN tx.outs : tx.outs[n].type # t
          /\ \A p \in InputsOf(tx) : capabilityCells[p].type # t
      BY <2>2, <2>3 DEF Cells!Types, Cells!ToSet, InputsOf
    <3>2. \A w \in Wallets : t \in held'[w] <=> t \in held[w]
      BY <1>3, <3>1
    <3>3. CASE \E p : OnlyCell(t, p)
      <4>1. PICK p : OnlyCell(t, p)
        BY <3>3
      <4>2. p \in Live' /\ capabilityCells'[p] = capabilityCells[p]
        BY <1>2, <3>1, <4>1 DEF OnlyCell
      <4>3. \A q \in Live' : capabilityCells'[q].type = t <=> q = p
        BY <1>2, <3>1, <4>1, <4>2 DEF OnlyCell
      <4>4. old = new
        BY <1>1, <2>1, <3>2, <4>1, <4>2, <4>3, RightKnown, NewRightKnown
      <4>5. QED
        BY <2>1, <4>4 DEF Becomes
    <3>4. CASE ~ \E p : OnlyCell(t, p)
      <4>1. \A p \in Live : capabilityCells[p].type # t
        BY <2>2, <3>4 DEF Ownership
      <4>2. \A p \in Live' : capabilityCells'[p].type # t
        BY <1>2, <3>1, <4>1
      <4>3. old = new
        BY <1>1, <2>1, <3>2, <4>1, <4>2, RightKnown, NewRightKnown
      <4>4. QED
        BY <2>1, <4>3 DEF Becomes
    <3>5. QED
      BY <3>3, <3>4
  <2>4. ASSUME NEW n, OnlyOutput(tx, t, n), \A p \in Live : capabilityCells[p].type # t,
               \A w \in Wallets : t \notin held[w], t.issuer = tx.by
        PROVE  Becomes(tx.by, t, old, new)
    <3>1. PICK p : p = <<tx.n, n>>
      OBVIOUS
    <3>2. /\ p \in Live' /\ capabilityCells'[p] = tx.outs[n]
          /\ \A q \in Live' : capabilityCells'[q].type = t <=> q = p
      BY <1>2, <2>4, <3>1 DEF OnlyOutput
    <3>3. n \in DOMAIN tx.outs /\ tx.outs[n].type = t /\ tx.outs[n].lock \in Wallets
      BY <2>4 DEF OnlyOutput, TxOK
    <3>4. \E w \in Wallets : t \in held'[w]
      BY <1>3, <2>2, <3>3
    <3>5. /\ new = OwnedBy(tx.outs[n].lock, tx.outs[n].data.content)
          /\ tx.outs[n].data.content \in Contents
      BY <1>1, <2>1, <2>2, <3>2, <3>3, <3>4, NewRightKnown DEF TxOK
    <3>6. old = [state |-> "unissued"]
      BY <2>1, <2>4, RightKnown
    <3>7. QED
      BY <2>4, <3>3, <3>5, <3>6
      DEF Becomes, OwnedBy, Cells!Registry!Issue, Cells!Registry!Unissued, Cells!Registry!Owned
  <2>5. ASSUME NEW p, NEW n, OnlyOutput(tx, t, n), OnlyCell(t, p), p \in InputsOf(tx),
               tx.outs[n].data = capabilityCells[p].data,
               \/ tx.outs[n].lock = capabilityCells[p].lock
               \/ capabilityCells[p].data.content.transferable
        PROVE  Becomes(tx.by, t, old, new)
    <3>1. PICK q : q = <<tx.n, n>>
      OBVIOUS
    <3>2. /\ q \in Live' /\ capabilityCells'[q] = tx.outs[n]
          /\ \A o \in Live' : capabilityCells'[o].type = t <=> o = q
      BY <1>2, <2>5, <3>1 DEF OnlyOutput, OnlyCell
    <3>3. n \in DOMAIN tx.outs /\ tx.outs[n].type = t /\ tx.outs[n].lock \in Wallets
      BY <2>5 DEF OnlyOutput, TxOK
    <3>4. \E w \in Wallets : t \in held'[w]
      BY <1>3, <2>2, <3>3
    <3>5. new = OwnedBy(tx.outs[n].lock, capabilityCells[p].data.content)
      BY <1>1, <2>1, <2>5, <3>2, <3>4, NewRightKnown
    <3>6. old = OwnedBy(tx.by, capabilityCells[p].data.content) /\ capabilityCells[p].lock = tx.by
      BY <1>4, <2>1, <2>5, RightKnown
    <3>7. Cells!Registry!Transfer(tx.by, old, new)
      BY <2>5, <3>3, <3>5, <3>6 DEF Cells!Registry!Transfer, Cells!Registry!Owned, OwnedBy
    <3>8. QED
      BY <3>7 DEF Becomes
  <2>6. ASSUME NEW p, OnlyCell(t, p), p \in InputsOf(tx), \A n \in DOMAIN tx.outs : tx.outs[n].type # t
        PROVE  Becomes(tx.by, t, old, new)
    <3>1. \A q \in Live' : capabilityCells'[q].type # t
      BY <1>2, <2>6 DEF OnlyCell
    <3>2. \E w \in Wallets : t \in held'[w]
      BY <1>3, <2>6, RightKnown
    <3>3. new = [state |-> "retired"]
      BY <1>1, <2>1, <3>1, <3>2, NewRightKnown
    <3>4. old = OwnedBy(tx.by, capabilityCells[p].data.content)
      BY <1>4, <2>1, <2>6, RightKnown
    <3>5. QED
      BY <3>3, <3>4 DEF Becomes, Cells!Registry!Surrender, Cells!Registry!Retired, OwnedBy
  <2>7. CASE t \in Cells!Types(tx)
    BY <1>4, <2>1, <2>4, <2>5, <2>6, <2>7, Accepted
  <2>8. QED
    BY <2>3, <2>7
<1>6. DOMAIN RightsIn(capabilityCells', held') = Cells!Identities
  BY DEF RightsIn
<1>7. Cells!Registry!Transaction(tx.by)
  BY <1>2, <1>5, <1>6, RightsAre DEF Cells!Registry!Transaction, Becomes
<1>8. QED
  BY <1>7 DEF Cells!Registry!Next, TxOK

\* A list of cells is finite, and not empty with one in front of it.
LEMMA ListIsFinite ==
    ASSUME NEW S, NEW s \in Seq(S)
    PROVE  IsFiniteSet(DOMAIN s) /\ DOMAIN s = 1 .. Len(s) /\ Len(s) \in Nat
<1>1. DOMAIN s = 1 .. Len(s) /\ Len(s) \in Nat
  OBVIOUS
<1>2. QED
  BY <1>1, FS_Interval

LEMMA FeesAreFinite ==
    ASSUME NEW w, NEW fees \in Cells!Fees(w), NEW p
    PROVE  /\ IsFiniteSet(Cells!ToSet(fees)) /\ IsFiniteSet(Cells!ToSet(<<p>> \o fees))
           /\ fees # <<>> => 1 \in DOMAIN fees
           /\ 1 \in DOMAIN (<<p>> \o fees)
<1>1. PICK O : O = Cells!Own(w)
  OBVIOUS
<1>2. fees \in {<<>>} \cup {<<a>> : a \in O} \cup {s \in O \X O : s[1] # s[2]}
  BY <1>1 DEF Cells!Fees
<1>3. fees \in Seq(O) /\ IsFiniteSet(Cells!ToSet(fees))
  <2>1. CASE fees = <<>>
    <3>1. Cells!ToSet(fees) = {}
      BY <2>1 DEF Cells!ToSet
    <3>2. QED
      BY <2>1, <3>1, FS_EmptySet
  <2>2. ASSUME NEW a \in O, fees = <<a>> PROVE fees \in Seq(O) /\ IsFiniteSet(Cells!ToSet(fees))
    <3>1. Cells!ToSet(fees) = {a}
      BY <2>2 DEF Cells!ToSet
    <3>2. IsFiniteSet({a})
      BY FS_Singleton
    <3>3. QED
      BY <2>2, <3>1, <3>2
  <2>3. ASSUME fees \in O \X O PROVE fees \in Seq(O) /\ IsFiniteSet(Cells!ToSet(fees))
    <3>1. PICK a \in O, b \in O : fees = <<a, b>>
      BY <2>3
    <3>2. Cells!ToSet(fees) = {a} \cup {b}
      BY <3>1 DEF Cells!ToSet
    <3>3. IsFiniteSet({a}) /\ IsFiniteSet({b}) /\ IsFiniteSet({a} \cup {b})
      BY FS_Singleton, FS_Union
    <3>4. QED
      BY <3>1, <3>2, <3>3
  <2>4. QED
    BY <1>2, <2>1, <2>2, <2>3
<1>4. IsFiniteSet(Cells!ToSet(<<p>> \o fees))
  <2>1. Cells!ToSet(<<p>> \o fees) = {p} \cup Cells!ToSet(fees)
    BY FeeInputs
  <2>2. IsFiniteSet({p}) /\ IsFiniteSet(Cells!ToSet(fees))
    BY <1>3, FS_Singleton
  <2>3. IsFiniteSet({p} \cup Cells!ToSet(fees))
    BY <2>2, FS_Union
  <2>4. QED
    BY <2>1, <2>3
<1>5. Len(fees) \in Nat /\ DOMAIN fees = 1 .. Len(fees) /\ (fees # <<>> => Len(fees) > 0)
  BY <1>3
<1>6. 1 \in DOMAIN (<<p>> \o fees)
  <2>1. PICK c, S : c = <<p>> \o fees /\ S = O \cup {p}
    OBVIOUS
  <2>2. <<p>> \in Seq(S) /\ fees \in Seq(S) /\ Len(<<p>>) = 1
    BY <1>3, <2>1
  <2>3. c \in Seq(S) /\ Len(c) = 1 + Len(fees)
    BY <2>1, <2>2, ConcatProperties
  <2>4. 1 \in DOMAIN c
    BY <1>5, <2>3
  <2>5. QED
    BY <2>1, <2>4
<1>7. QED
  BY <1>3, <1>4, <1>5, <1>6

\* Nothing is committed.
LEMMA OwnershipStays ==
    ASSUME CellsInv, Ownership, UNCHANGED <<capabilityCells, held>>, built' \in Nat, built <= built',
           \A tx \in mempool' : TxOK(tx) /\ (tx \in mempool \/ tx.n = built + 1)
    PROVE  Ownership'
<1>1. Live' = Live /\ built \in Nat
  BY DEF Live, CellsInv, NumbersOK
<1>2. \A t : Minted(t) => Minted(t)'
  BY <1>1 DEF Minted
<1>3. \A tx \in mempool' : TxOK(tx)'
  BY DEF TxOK, InputsOf, Cells!NoType
<1>4. QED
  BY <1>1, <1>2, <1>3 DEF Ownership, OnlyCell, Cells!NoType

LEMMA OwnershipSend ==
    ASSUME CellsInv, Ownership, NEW w \in Wallets, NEW ins, NEW a, NEW b, Cells!Send(w, ins, <<a, b>>),
           1 \in DOMAIN ins, IsFiniteSet(Cells!ToSet(ins)), a.lock \in Wallets, b.lock \in Wallets,
           a.type # Cells!NoType => a.data.content \in Contents, b.type = Cells!NoType
    PROVE  Ownership'
<1>1. PICK tx, outs : outs = <<a, b>> /\ tx = [n |-> built + 1, by |-> w, ins |-> ins, outs |-> outs]
  OBVIOUS
<1>2. /\ mempool' = mempool \cup {tx} /\ built' = built + 1 /\ UNCHANGED <<capabilityCells, held>>
      /\ tx.n = built + 1 /\ built \in Nat
  BY <1>1 DEF Cells!Send, CellsInv, NumbersOK
<1>3. DOMAIN outs = 1 .. 2 /\ outs[1] = a /\ outs[2] = b /\ IsFiniteSet(DOMAIN outs)
  <2>1. outs \in Seq({a, b})
    BY <1>1
  <2>2. IsFiniteSet(DOMAIN outs)
    BY <2>1, ListIsFinite
  <2>3. QED
    BY <1>1, <2>2
<1>4. TxOK(tx)
  BY <1>1, <1>3 DEF TxOK, InputsOf
<1>5. QED
  BY <1>2, <1>4, OwnershipStays DEF Ownership

LEMMA OwnershipBuild ==
    ASSUME CellsInv, Ownership, NEW w \in Wallets, NEW fees \in Cells!Fees(w),
           \/ \E r \in Wallets, content \in Contents : Cells!BuildIssue(w, r, content, fees)
           \/ \E p \in view[w], r \in Wallets : Cells!BuildTransfer(w, p, r, fees)
           \/ \E p \in view[w] : Cells!BuildSurrender(w, p, fees)
    PROVE  Ownership'
<1>1. PICK plain : plain = Cells!Plain(w)
  OBVIOUS
<1>2. plain.lock \in Wallets /\ plain.type = Cells!NoType
  BY <1>1 DEF Cells!Plain, Cells!Cell
<1>3. ASSUME NEW r \in Wallets, NEW content \in Contents, Cells!BuildIssue(w, r, content, fees)
      PROVE  Ownership'
  <2>1. PICK data, cell :
            /\ data = [issuer |-> w, cap |-> Cells!DeriveCapabilityId(fees[1], 1), content |-> content]
            /\ cell = Cells!Cell(r, Cells!TypeArgs(data), data)
    OBVIOUS
  <2>2. Cells!Send(w, fees, <<cell, plain>>) /\ fees # <<>>
    BY <1>1, <1>3, <2>1 DEF Cells!BuildIssue
  <2>3. cell.lock = r /\ cell.data.content = content
    BY <2>1 DEF Cells!Cell
  <2>4. QED
    BY <1>2, <2>2, <2>3, FeesAreFinite, OwnershipSend
<1>4. ASSUME NEW p \in view[w], NEW r \in Wallets, Cells!BuildTransfer(w, p, r, fees) PROVE Ownership'
  <2>1. PICK old, cell : old = capabilityCells[p] /\ cell = [old EXCEPT !.lock = r]
    OBVIOUS
  <2>2. /\ Cells!Send(w, <<p>> \o fees, <<cell, plain>>)
        /\ p \in Live /\ old.type # Cells!NoType
    BY <1>1, <1>4, <2>1 DEF Cells!BuildTransfer, Cells!Named, Cells!IsCapability, Live
  <2>3. old.data.content \in Contents
    BY <2>1, <2>2 DEF Ownership
  <2>4. cell.lock \in Wallets /\ cell.data.content \in Contents
    BY <2>1, <2>3
  <2>5. QED
    BY <1>2, <2>2, <2>4, FeesAreFinite, OwnershipSend
<1>5. ASSUME NEW p \in view[w], Cells!BuildSurrender(w, p, fees) PROVE Ownership'
  <2>1. Cells!Send(w, <<p>> \o fees, <<plain, plain>>)
    BY <1>1, <1>5 DEF Cells!BuildSurrender
  <2>2. QED
    BY <1>2, <2>1, FeesAreFinite, OwnershipSend
<1>6. QED
  BY <1>3, <1>4, <1>5

\* Somebody else's transaction: any outputs in sight, and the change.
Ownable(o) == o.lock \in Wallets /\ (o.type # Cells!NoType => o.data.content \in Contents)

LEMMA ForeignOuts ==
    ASSUME NEW w \in Wallets, NEW ins, NEW outs \in Cells!OutLists(ins)
    PROVE  \E list : /\ list = Append(outs, Cells!Plain(w)) /\ IsFiniteSet(DOMAIN list)
                     /\ \A n \in DOMAIN list : Ownable(list[n])
<1>1. PICK plain : plain = Cells!Plain(w)
  OBVIOUS
<1>2. Ownable(plain)
  BY <1>1 DEF Cells!Plain, Cells!Cell, Ownable
<1>3. ASSUME NEW o \in Cells!Outs(ins), NEW l \in Wallets, NEW other, other = [o EXCEPT !.lock = l]
      PROVE  Ownable(o) /\ Ownable(other)
  <2>1. PICK lock, type, data : /\ o = [lock |-> lock, type |-> type, data |-> data]
                                /\ lock \in Wallets /\ data.content \in Contents
    BY DEF Cells!Outs, Cells!Cell
  <2>2. other = [lock |-> l, type |-> type, data |-> data]
    BY <1>3, <2>1
  <2>3. QED
    BY <2>1, <2>2 DEF Ownable
<1>4. ASSUME NEW T, outs \in Seq(T), \A o \in T : Ownable(o)
      PROVE  \E list : /\ list = Append(outs, plain) /\ IsFiniteSet(DOMAIN list)
                       /\ \A n \in DOMAIN list : Ownable(list[n])
  <2>1. PICK list, S : list = Append(outs, plain) /\ S = T \cup {plain}
    OBVIOUS
  <2>2. list \in Seq(S) /\ \A o \in S : Ownable(o)
    BY <1>2, <1>4, <2>1
  <2>3. IsFiniteSet(DOMAIN list) /\ \A n \in DOMAIN list : list[n] \in S
    BY <2>2, ListIsFinite
  <2>4. QED
    BY <2>1, <2>2, <2>3
<1>5. CASE outs = <<>>
  <2>1. outs \in Seq({}) /\ \A o \in {} : Ownable(o)
    BY <1>5
  <2>2. QED
    BY <1>1, <1>4, <2>1
<1>6. ASSUME NEW o \in Cells!Outs(ins), outs = <<o>>
      PROVE  \E T : outs \in Seq(T) /\ \A x \in T : Ownable(x)
  <2>1. Ownable(o)
    BY <1>3
  <2>2. outs \in Seq({o}) /\ \A x \in {o} : Ownable(x)
    BY <1>6, <2>1
  <2>3. QED
    BY <2>2
<1>7. ASSUME NEW o \in Cells!Outs(ins), NEW l \in Wallets, outs = <<o, [o EXCEPT !.lock = l]>>
      PROVE  \E T : outs \in Seq(T) /\ \A x \in T : Ownable(x)
  <2>1. PICK other : other = [o EXCEPT !.lock = l]
    OBVIOUS
  <2>2. Ownable(o) /\ Ownable(other)
    BY <1>3, <2>1
  <2>3. outs \in Seq({o, other}) /\ \A x \in {o, other} : Ownable(x)
    BY <1>7, <2>1, <2>2
  <2>4. QED
    BY <2>3
<1>8. \/ outs = <<>> \/ \E o \in Cells!Outs(ins) : outs = <<o>>
      \/ \E o \in Cells!Outs(ins), l \in Wallets : outs = <<o, [o EXCEPT !.lock = l]>>
  BY DEF Cells!OutLists
<1>9. QED
  BY <1>1, <1>4, <1>5, <1>6, <1>7, <1>8

LEMMA ForeignIsLawful ==
    ASSUME CellsInv, Ownership, NEW w \in Wallets, NEW ins \in Cells!Fees(w), Cells!Foreign(w, ins)
    PROVE  Ownership' /\ Cells!Registry!Next
<1>1. PICK outs \in Cells!OutLists(ins) :
          Cells!Commits([n |-> built + 1, by |-> w, ins |-> ins, outs |-> Append(outs, Cells!Plain(w))])
  BY DEF Cells!Foreign
<1>2. PICK list : /\ list = Append(outs, Cells!Plain(w)) /\ IsFiniteSet(DOMAIN list)
                  /\ \A n \in DOMAIN list : Ownable(list[n])
  BY ForeignOuts
<1>3. PICK tx : tx = [n |-> built + 1, by |-> w, ins |-> ins, outs |-> list]
  OBVIOUS
<1>4. /\ Cells!Commits(tx) /\ tx.n = built + 1 /\ built' = built + 1 /\ UNCHANGED mempool
  BY <1>1, <1>2, <1>3 DEF Cells!Foreign
<1>5. ins # <<>>
  BY DEF Cells!Foreign
<1>6. TxOK(tx)
  BY <1>2, <1>3, <1>5, FeesAreFinite DEF TxOK, InputsOf, Ownable
<1>7. /\ built \in Nat /\ \A p \in Live : p[1] \in 0 .. built
      /\ \A v \in Wallets : \A t \in held[v] : t.cap[1][1] \in 0 .. built
  BY DEF CellsInv, NumbersOK, Ownership, Minted
<1>8. /\ \A p \in Live : p[1] # tx.n
      /\ \A v \in Wallets : \A t \in held[v] : t.cap[1][1] # tx.n
      /\ built' \in Nat /\ built <= built'
  BY <1>4, <1>7
<1>9. QED
  BY <1>4, <1>6, <1>8, OwnershipCommits, CommitIsLawful

\* Whatever the wallets, the client library, other software and the chain do.
LEMMA OwnershipStep ==
    ASSUME CellsInv, Ownership, Cells!Next
    PROVE  /\ Ownership'
           /\ Cells!Registry!Next \/ UNCHANGED <<capabilityCells, held, signer>>
<1>1. built \in Nat
  BY DEF CellsInv, NumbersOK
<1>2. ASSUME UNCHANGED <<capabilityCells, built, held>>, mempool' \subseteq mempool PROVE Ownership'
  BY <1>1, <1>2, OwnershipStays DEF Ownership
<1>3. ASSUME NEW w \in Wallets, Cells!Discover(w) \/ Cells!GiveUp(w)
      PROVE  Ownership' /\ UNCHANGED <<capabilityCells, held, signer>>
  BY <1>2, <1>3 DEF Cells!Discover, Cells!GiveUp
<1>4. ASSUME NEW w \in Wallets, NEW fees \in Cells!Fees(w),
             \/ \E r \in Wallets, content \in Contents : Cells!BuildIssue(w, r, content, fees)
             \/ \E p \in view[w], r \in Wallets : Cells!BuildTransfer(w, p, r, fees)
             \/ \E p \in view[w] : Cells!BuildSurrender(w, p, fees)
      PROVE  Ownership' /\ UNCHANGED <<capabilityCells, held, signer>>
  <2>1. UNCHANGED <<capabilityCells, held, signer>>
    BY <1>4 DEF Cells!BuildIssue, Cells!BuildTransfer, Cells!BuildSurrender, Cells!Send
  <2>2. QED
    BY <1>4, <2>1, OwnershipBuild
<1>5. ASSUME NEW tx \in mempool, Cells!Commit(tx) PROVE Ownership' /\ Cells!Registry!Next
  <2>1. Cells!Commits(tx) /\ mempool' \subseteq mempool /\ built' = built
    BY <1>5 DEF Cells!Commit
  <2>2. TxOK(tx) /\ \A w \in Wallets : \A t \in held[w] : t.cap[1][1] # tx.n
    BY DEF Ownership, Minted
  <2>3. \A p \in Live : p[1] # tx.n
    BY DEF CellsInv, NumbersOK
  <2>4. QED
    BY <1>1, <2>1, <2>2, <2>3, OwnershipCommits, CommitIsLawful
<1>6. ASSUME NEW tx \in mempool, Cells!Refuse(tx)
      PROVE  Ownership' /\ UNCHANGED <<capabilityCells, held, signer>>
  BY <1>2, <1>6 DEF Cells!Refuse
<1>7. QED
  BY <1>3, <1>4, <1>5, <1>6, ForeignIsLawful DEF Cells!Next

LEMMA OwnershipInit == Cells!Init => Ownership /\ Cells!Registry!Init
<1> SUFFICES ASSUME Cells!Init PROVE Ownership /\ Cells!Registry!Init
  OBVIOUS
<1>1. /\ Live = {<<0, Cells!Genesis[w]>> : w \in Wallets}
      /\ mempool = {} /\ DOMAIN held = Wallets /\ signer \in Wallets
      /\ \A w \in Wallets : held[w] = {}
  BY DEF Cells!Init, Live
<1>2. ASSUME NEW p \in Live
      PROVE  capabilityCells[p].lock \in Wallets /\ capabilityCells[p].type = Cells!NoType
  <2>1. \E w \in Wallets : p = <<0, Cells!Genesis[w]>>
    BY <1>1
  <2>2. (CHOOSE w \in Wallets : p = <<0, Cells!Genesis[w]>>) \in Wallets
    BY <2>1
  <2>3. capabilityCells[p] = Cells!Plain(CHOOSE w \in Wallets : p = <<0, Cells!Genesis[w]>>)
    BY <1>1, <2>1 DEF Cells!Init
  <2>4. QED
    BY <2>2, <2>3 DEF Cells!Plain, Cells!Cell
<1>3. Ownership
  BY <1>1, <1>2 DEF Ownership
<1>4. \A t \in Cells!Identities : RightsIn(capabilityCells, held)[t] = [state |-> "unissued"]
  BY <1>1, <1>3, RightKnown
<1>5. Cells!Rights = [t \in Cells!Identities |-> [state |-> "unissued"]]
  BY <1>4, RightsAre DEF RightsIn
<1>6. QED
  BY <1>1, <1>3, <1>5 DEF Cells!Registry!Init, Cells!Registry!Unissued

-----------------------------------------------------------------------------
(***************************************************************************)
(* Who owns what in the demonstration                                      *)
(***************************************************************************)
DemoRecord == [owner : Owners, live : BOOLEAN]

OnlyLive(c, p) == p \in DOMAIN c /\ \A q \in DOMAIN c : c[q].live <=> q = p

DemoRight(w) == OwnedBy(w, CapContent(1, TRUE, "holder", "none"))

\* The chain of the runtime has one live cell, and the rights of former runtimes are as they were.
DemoOwnership ==
    /\ runtime \in Nat
    /\ demoCells \in Seq(DemoRecord)
    /\ past \in Seq({DemoRight(w) : w \in Owners})
    /\ runtime = 0 => demoCells = <<>> /\ past = <<>>
    /\ runtime > 0 => Len(past) = runtime - 1 /\ \E p : OnlyLive(demoCells, p)

LEMMA DemoRightIs ==
    ASSUME NEW p
    PROVE  /\ OnlyLive(demoCells, p) => /\ Demo!RightOf = DemoRight(demoCells[p].owner)
                                        /\ Demo!LiveCells = {p}
           /\ OnlyLive(demoCells', p) => Demo!RightOf' = DemoRight(demoCells'[p].owner)
<1>1. Demo!Cardinality({p}) = 1 /\ (CHOOSE q \in {p} : TRUE) = p
  <2>1. Demo!Cardinality({p}) = Cardinality({p})
    BY DEF Demo!Cardinality, Cardinality
  <2>2. QED
    BY <2>1, FS_Singleton
<1>2. ASSUME OnlyLive(demoCells, p) PROVE /\ Demo!RightOf = DemoRight(demoCells[p].owner)
                                         /\ Demo!LiveCells = {p}
  <2>1. Demo!LiveCells = {p}
    BY <1>2 DEF OnlyLive, Demo!LiveCells
  <2>2. QED
    BY <1>1, <2>1 DEF Demo!RightOf, DemoRight, OwnedBy
<1>3. ASSUME OnlyLive(demoCells', p) PROVE Demo!RightOf' = DemoRight(demoCells'[p].owner)
  <2>1. Demo!LiveCells' = {p}
    BY <1>3 DEF OnlyLive, Demo!LiveCells
  <2>2. QED
    BY <1>1, <2>1 DEF Demo!RightOf, DemoRight, OwnedBy
<1>4. QED
  BY <1>2, <1>3

DemoIdentities == [issuer : {"issuer"}, cap : 1 .. MaxRuntimes]

\* The rights after runtime n, the last of which is now.
DemoRightsIn(n, old, last) ==
    [i \in DemoIdentities |-> IF i.cap < n THEN old[i.cap] ELSE IF i.cap = n THEN last
                              ELSE [state |-> "unissued"]]

LEMMA DemoRightsAre ==
    /\ Demo!Identities = DemoIdentities
    /\ runtime \in Nat => Demo!Rights = DemoRightsIn(runtime, past, Demo!RightOf)
    /\ runtime' \in Nat => Demo!Rights' = DemoRightsIn(runtime', past', Demo!RightOf')
<1>1. Demo!Identities = DemoIdentities
  BY DEF Demo!Identities, DemoIdentities
<1>2. ASSUME NEW n \in Nat, NEW old, NEW last, NEW i \in DemoIdentities
      PROVE  (CASE i.cap < n -> old[i.cap] [] i.cap = n -> last [] OTHER -> [state |-> "unissued"])
                = IF i.cap < n THEN old[i.cap] ELSE IF i.cap = n THEN last
                  ELSE [state |-> "unissued"]
  <2>1. i.cap \in Int
    BY DEF DemoIdentities
  <2>2. CASE i.cap < n
    BY <2>1, <2>2
  <2>3. CASE i.cap = n
    BY <2>1, <2>3
  <2>4. CASE i.cap > n
    BY <2>1, <2>4
  <2>5. QED
    BY <2>1, <2>2, <2>3, <2>4
<1>3. runtime \in Nat => Demo!Rights = DemoRightsIn(runtime, past, Demo!RightOf)
  BY <1>1, <1>2 DEF Demo!Rights, DemoRightsIn
<1>4. runtime' \in Nat => Demo!Rights' = DemoRightsIn(runtime', past', Demo!RightOf')
  BY <1>1, <1>2 DEF Demo!Rights, DemoRightsIn
<1>5. QED
  BY <1>1, <1>3, <1>4

\* What became of a right, signed by s.
DemoBecomes(s, i, old, new) ==
    \/ old = new
    \/ Demo!Registry!Issue(i, s, old, new)
    \/ Demo!Registry!Transfer(s, old, new)

LEMMA DemoLawful ==
    ASSUME NEW s \in Owners \cup {"issuer"}, demoSigner' = s, runtime \in Nat, runtime' \in Nat,
           \A i \in DemoIdentities : DemoBecomes(s, i, Demo!Rights[i], Demo!Rights'[i])
    PROVE  Demo!Registry!Next
<1>1. Demo!Registry!Transaction(s)
  BY DemoRightsAre DEF Demo!Registry!Transaction, DemoBecomes, DemoRightsIn
<1>2. QED
  BY <1>1 DEF Demo!Registry!Next

LEMMA DemoCreates ==
    ASSUME DemoOwnership, Demo!CreateRuntime
    PROVE  DemoOwnership' /\ Demo!Registry!Next
<1>1. /\ runtime \in Nat /\ runtime' = runtime + 1 /\ demoSigner' = "issuer"
      /\ demoCells' = <<[owner |-> Alice, live |-> TRUE]>>
      /\ past' = IF runtime = 0 THEN past ELSE Append(past, Demo!RightOf)
  BY DEF Demo!CreateRuntime, Demo!Issued, DemoOwnership
<1>2. /\ demoCells' \in Seq(DemoRecord) /\ OnlyLive(demoCells', 1) /\ demoCells'[1].owner = Alice
      /\ Alice \in Owners
  BY <1>1, ClientsAssumption DEF DemoRecord, OnlyLive
<1>3. Demo!RightOf' = DemoRight(Alice)
  BY <1>2, DemoRightIs
<1>4. PICK R : R = {DemoRight(w) : w \in Owners}
  OBVIOUS
<1>5. runtime > 0 => Demo!RightOf \in R
  <2> SUFFICES ASSUME runtime > 0 PROVE Demo!RightOf \in R
    OBVIOUS
  <2>1. PICK p : OnlyLive(demoCells, p)
    BY DEF DemoOwnership
  <2>2. demoCells[p] \in DemoRecord
    BY <2>1 DEF OnlyLive, DemoOwnership
  <2>3. demoCells[p].owner \in Owners
    BY <2>2 DEF DemoRecord
  <2>4. QED
    BY <1>4, <2>1, <2>3, DemoRightIs
<1>6. /\ past \in Seq(R) /\ past' \in Seq(R) /\ Len(past') = runtime
      /\ \A n \in 1 .. runtime : past'[n] = IF n < runtime THEN past[n] ELSE Demo!RightOf
  <2>1. past \in Seq(R) /\ (runtime = 0 => past = <<>>) /\ (runtime > 0 => Len(past) = runtime - 1)
    BY <1>4 DEF DemoOwnership
  <2>2. CASE runtime = 0
    BY <1>1, <2>1, <2>2
  <2>3. CASE runtime > 0
    BY <1>1, <1>5, <2>1, <2>3
  <2>4. QED
    BY <1>1, <2>2, <2>3
<1>7. DemoOwnership'
  BY <1>1, <1>2, <1>4, <1>6 DEF DemoOwnership
<1>8. ASSUME NEW i \in DemoIdentities PROVE DemoBecomes("issuer", i, Demo!Rights[i], Demo!Rights'[i])
  <2>1. i.issuer = "issuer" /\ i.cap \in Int /\ i.cap >= 1
    BY DEF DemoIdentities
  <2>2. CASE i.cap <= runtime
    <3>1. Demo!Rights[i] = Demo!Rights'[i]
      BY <1>1, <1>6, <2>1, <2>2, DemoRightsAre DEF DemoRightsIn
    <3>2. QED
      BY <3>1 DEF DemoBecomes
  <2>3. CASE i.cap = runtime + 1
    <3>1. Demo!Rights[i] = [state |-> "unissued"] /\ Demo!Rights'[i] = DemoRight(Alice)
      BY <1>1, <1>3, <2>1, <2>3, DemoRightsAre DEF DemoRightsIn
    <3>2. Demo!Registry!Issue(i, "issuer", Demo!Rights[i], Demo!Rights'[i])
      BY <1>2, <2>1, <3>1
      DEF Demo!Registry!Issue, Demo!Registry!Unissued, Demo!Registry!Owned, DemoRight, OwnedBy
    <3>3. QED
      BY <3>2 DEF DemoBecomes
  <2>4. CASE i.cap > runtime + 1
    <3>1. Demo!Rights[i] = Demo!Rights'[i]
      BY <1>1, <2>1, <2>4, DemoRightsAre DEF DemoRightsIn
    <3>2. QED
      BY <3>1 DEF DemoBecomes
  <2>5. QED
    BY <1>1, <2>1, <2>2, <2>3, <2>4
<1>9. QED
  BY <1>1, <1>7, <1>8, DemoLawful

LEMMA DemoTransfers ==
    ASSUME DemoOwnership, NEW from \in Owners, NEW to \in Owners, NEW p \in Demo!LiveCells,
           Demo!Transfer(from, to, p)
    PROVE  DemoOwnership' /\ Demo!Registry!Next
<1>1. /\ demoCells[p].owner = from /\ demoSigner' = from /\ UNCHANGED <<runtime, past>>
      /\ demoCells' = Append([demoCells EXCEPT ![p].live = FALSE], [owner |-> to, live |-> TRUE])
      /\ p \in DOMAIN demoCells /\ demoCells[p].live
  BY DEF Demo!Transfer, Demo!Moved, Demo!LiveCells
<1>2. /\ demoCells \in Seq(DemoRecord) /\ demoCells # <<>> /\ runtime \in Nat
      /\ \A r \in DemoRecord : r.live \in BOOLEAN
  BY <1>1 DEF DemoOwnership, DemoRecord
<1>3. runtime > 0 /\ OnlyLive(demoCells, p)
  BY <1>1, <1>2 DEF DemoOwnership, OnlyLive
<1>4. PICK old : old = [demoCells[p] EXCEPT !.live = FALSE]
  OBVIOUS
<1>5. PICK kept : kept = [demoCells EXCEPT ![p] = old]
  OBVIOUS
<1>6. old \in DemoRecord /\ ~old.live /\ kept \in Seq(DemoRecord) /\ Len(kept) = Len(demoCells)
  <2>1. demoCells[p] \in DemoRecord
    BY <1>1, <1>2
  <2>2. old \in DemoRecord /\ ~old.live
    BY <1>4, <2>1 DEF DemoRecord
  <2>3. QED
    BY <1>1, <1>2, <1>5, <2>2
<1>7. PICK n : n = Len(kept) + 1
  OBVIOUS
<1>8. /\ demoCells' = Append(kept, [owner |-> to, live |-> TRUE])
      /\ [owner |-> to, live |-> TRUE] \in DemoRecord
  BY <1>1, <1>4, <1>5 DEF DemoRecord
<1>9. /\ demoCells' \in Seq(DemoRecord) /\ demoCells'[n].owner = to /\ OnlyLive(demoCells', n)
  BY <1>2, <1>3, <1>5, <1>6, <1>7, <1>8 DEF OnlyLive
<1>10. DemoOwnership'
  <2>1. \E q : OnlyLive(demoCells', q)
    BY <1>9
  <2>2. /\ runtime' = runtime /\ past' = past /\ runtime \in Nat /\ runtime # 0
        /\ past \in Seq({DemoRight(w) : w \in Owners}) /\ Len(past) = runtime - 1
    BY <1>1, <1>2, <1>3 DEF DemoOwnership
  <2>3. QED
    BY <1>9, <2>1, <2>2 DEF DemoOwnership
<1>11. Demo!RightOf = DemoRight(from) /\ Demo!RightOf' = DemoRight(to)
  BY <1>1, <1>3, <1>9, DemoRightIs
<1>12. Demo!Registry!Transfer(from, DemoRight(from), DemoRight(to))
  BY DEF Demo!Registry!Transfer, Demo!Registry!Owned, DemoRight, OwnedBy, CapContent
<1>13. ASSUME NEW i \in DemoIdentities PROVE DemoBecomes(from, i, Demo!Rights[i], Demo!Rights'[i])
  <2>1. i.cap \in Int
    BY DEF DemoIdentities
  <2>2. CASE i.cap = runtime
    BY <1>1, <1>2, <1>11, <1>12, <2>1, <2>2, DemoRightsAre DEF DemoBecomes, DemoRightsIn
  <2>3. CASE i.cap # runtime
    <3>1. Demo!Rights[i] = Demo!Rights'[i]
      BY <1>1, <1>2, <2>1, <2>3, DemoRightsAre DEF DemoRightsIn
    <3>2. QED
      BY <3>1 DEF DemoBecomes
  <2>4. QED
    BY <2>2, <2>3
<1>14. QED
  BY <1>1, <1>2, <1>10, <1>13, DemoLawful

LEMMA DemoStep ==
    ASSUME DemoOwnership, Demo!Next
    PROVE  /\ DemoOwnership'
           /\ Demo!Registry!Next \/ UNCHANGED <<runtime, past, demoCells, demoSigner>>
<1>1. UNCHANGED <<runtime, past, demoCells>> => DemoOwnership'
  BY DEF DemoOwnership
<1>2. CASE UNCHANGED <<runtime, past, demoCells, demoSigner>>
  BY <1>1, <1>2
<1>3. \/ UNCHANGED <<runtime, past, demoCells, demoSigner>>
      \/ Demo!CreateRuntime
      \/ \E from, to \in Owners, p \in Demo!LiveCells : Demo!Transfer(from, to, p)
  BY DEF Demo!Next, Demo!Challenge, Demo!Analyze, Demo!ChallengeExpires, Demo!NewPaymentQuote,
         Demo!PaidUse, Demo!Pay, Demo!PruneQuotes
<1>4. QED
  BY <1>2, <1>3, DemoCreates, DemoTransfers

LEMMA DemoBegins == Demo!Init => DemoOwnership /\ Demo!Registry!Init
<1> SUFFICES ASSUME Demo!Init PROVE DemoOwnership /\ Demo!Registry!Init
  OBVIOUS
<1>1. runtime = 0 /\ past = <<>> /\ demoCells = <<>> /\ demoSigner \in Owners \cup {"issuer"}
  BY DEF Demo!Init
<1>2. \A i \in DemoIdentities : i.cap \in Int /\ i.cap >= 1
  BY DEF DemoIdentities
<1>3. Demo!Rights = [i \in Demo!Identities |-> [state |-> "unissued"]]
  BY <1>1, <1>2, DemoRightsAre DEF DemoRightsIn
<1>4. QED
  BY <1>1, <1>3 DEF DemoOwnership, Demo!Registry!Init, Demo!Registry!Unissued

-----------------------------------------------------------------------------
RegistryInv == CellsInv /\ Ownership /\ DemoOwnership

RegistryStep ==
    chains' # chains =>
        /\ part = "cells" => [Cells!Registry!Next]_(Cells!Registry!registryVars)
        /\ part = "demo" => [Demo!Registry!Next]_(Demo!Registry!registryVars)

LEMMA RegistryNext ==
    ASSUME RegistryInv, [EachNext]_allVars
    PROVE  RegistryInv' /\ RegistryStep
<1>1. CASE part = "cells" /\ Cells!Next /\ UNCHANGED demoVars
  <2>1. CellsInv'
    BY <1>1, CellsStep DEF RegistryInv
  <2>2. Ownership' /\ (Cells!Registry!Next \/ UNCHANGED <<capabilityCells, held, signer>>)
    BY <1>1, OwnershipStep DEF RegistryInv
  <2>3. DemoOwnership'
    BY <1>1 DEF RegistryInv, DemoOwnership, demoVars
  <2>4. UNCHANGED <<capabilityCells, held, signer>> => UNCHANGED chains
    BY <1>1 DEF chains, demoVars
  <2>5. QED
    BY <1>1, <2>1, <2>2, <2>3, <2>4 DEF RegistryInv, RegistryStep
<1>2. CASE part = "demo" /\ Demo!Next /\ UNCHANGED cellVars
  <2>1. CellsInv'
    BY <1>2, CellsStutter DEF RegistryInv
  <2>2. Ownership'
    BY <1>2, OwnershipStays DEF RegistryInv, Ownership, cellVars, CellsInv, NumbersOK
  <2>3. DemoOwnership' /\ (Demo!Registry!Next \/ UNCHANGED <<runtime, past, demoCells, demoSigner>>)
    BY <1>2, DemoStep DEF RegistryInv
  <2>4. UNCHANGED <<runtime, past, demoCells, demoSigner>> => UNCHANGED chains
    BY <1>2 DEF chains, cellVars
  <2>5. QED
    BY <1>2, <2>1, <2>2, <2>3, <2>4 DEF RegistryInv, RegistryStep
<1>3. CASE UNCHANGED <<cellVars, demoVars>>
  <2>1. CellsInv'
    BY <1>3, CellsStutter DEF RegistryInv
  <2>2. Ownership'
    BY <1>3, OwnershipStays DEF RegistryInv, Ownership, cellVars, CellsInv, NumbersOK
  <2>3. DemoOwnership' /\ UNCHANGED chains
    BY <1>3 DEF RegistryInv, DemoOwnership, cellVars, demoVars, chains
  <2>4. QED
    BY <2>1, <2>2, <2>3 DEF RegistryInv, RegistryStep
<1>4. QED
  BY <1>1, <1>2, <1>3 DEF EachNext, allVars

\* The cells of capabilities implement the registry of who owns what, whatever transactions are
\* built, signed and committed late, and so does the chain in memory of the demonstration across
\* resets: one issue of an identity, by its issuer; one owner, who hands it over unchanged if he
\* may or retires it; for any wallets, contents, transactions and runtimes.
THEOREM ImplementsRegistry == EachClient => RegistryImplemented
<1>1. EachInit => RegistryInv /\ Cells!Registry!Init /\ Demo!Registry!Init
  BY CellsInit, OwnershipInit, DemoBegins DEF EachInit, RegistryInv
<1>2. RegistryInv /\ [EachNext]_allVars => RegistryInv' /\ [RegistryStep]_chains
  BY RegistryNext
<1>3. QED
  BY <1>1, <1>2, PTL DEF EachClient, allVars, RegistryImplemented, RegistryStep

-----------------------------------------------------------------------------
(***************************************************************************)
(* The agent, the gateway and the remote provider                          *)
(***************************************************************************)
CallKind == [step: {"idle", "first", "pay", "paid", "served", "failed"},
             op: 0 .. MaxCalls, invoice: Nat]
RequestKind == [step: {"none", "sent", "quote", "verify", "lookup", "execute", "answered",
                       "settle", "deliver", "record", "ended"},
                since: Nat, answer: {"none", "quoted", "result", "refused"}, invoice: Nat]
InvocationKind == [state: {"authorized", "executed", "settled", "delivered"},
                   holder: (0 .. MaxCalls) \X {"none", "first", "paid"}, until: Nat]
MessageKind == [request: Agent!Requests, key: Agent!Keys, issuedAt: Nat, checked: Nat]
EffectKind == [key: Agent!Keys, at: Nat, checked: Nat]
Invoices == 1 .. Len(invoices)

AgentTypes ==
    /\ now \in Nat /\ offset \in Int /\ -Skew <= offset /\ sold \in Nat
    /\ call \in [Agent!Calls -> CallKind]
    /\ requests \in [Agent!Requests -> RequestKind]
    /\ invocation \in [Agent!Keys -> InvocationKind]
    /\ invoices \in Seq(Agent!Calls)
    /\ network \subseteq MessageKind /\ effects \subseteq EffectKind
    /\ bound \in [Agent!Calls -> Agent!Keys \cup {<<>>}]
    /\ live \subseteq Invoices /\ payments \subseteq Invoices /\ settled \subseteq Invoices

KeyOf(r) == <<call[r[1]].op, 0>>
InvoiceOf(r) == IF r[2] = "paid" THEN call[r[1]].invoice ELSE 0
StateOf(r) == invocation[KeyOf(r)].state
Done(k) == \E e \in effects : e.key = k
SettledFor(op) == \E i \in settled : invoices[i] = op

RecordsTrue ==
    /\ \A op \in Agent!Calls : bound[op] \in {<<>>, <<op, 0>>}
    /\ \A op \in Agent!Calls :
          /\ invocation[<<op, 0>>].state # "authorized" => Done(<<op, 0>>)
          /\ invocation[<<op, 0>>].state \in {"settled", "delivered"} => SettledFor(op)
    /\ \A i \in settled : Done(<<invoices[i], 0>>)
    /\ \A e \in evidence :
          e.invoice \in payments /\ Done(e.key) /\ SettledFor(invoices[e.invoice])

CallOK(c) ==
    /\ call[c].step = "idle" => requests[<<c, "first">>].step = "none"
    /\ call[c].step \in {"idle", "first", "pay"} => requests[<<c, "paid">>].step = "none"
    /\ call[c].step # "idle" => call[c].op \in Agent!Calls
    /\ call[c].step = "pay" => call[c].invoice \in Invoices

\* The owner was the owner at that time.
CheckedAt(time) == time <= now /\ (sold # Agent!Never => time <= sold)

Verified == {"lookup", "execute", "answered", "settle", "deliver", "record"}

\* What a request r relies on at the step q says it is at.
AskIs(r, q) ==
    /\ q.step \in Verified \cup {"verify"} => r[2] = "paid"
    /\ r[2] = "paid" /\ q.step # "none" => call[r[1]].invoice \in payments
    /\ q.answer = "quoted" => q.invoice \in Invoices
    /\ q.answer = "result" =>
          [request |-> r, key |-> KeyOf(r), invoice |-> InvoiceOf(r)] \in evidence
    /\ q.step \in Verified => invoices[InvoiceOf(r)] = call[r[1]].op
    /\ q.step = "answered" => Done(KeyOf(r))
    /\ q.step = "settle" => StateOf(r) # "authorized"
    /\ q.step = "deliver" => StateOf(r) \in {"settled", "delivered"}
    /\ q.step = "record" => StateOf(r) = "delivered"
    /\ q.step \in {"quote", "verify", "lookup"} =>
          CheckedAt(q.since) /\ now <= q.since + HandlerTime
    /\ q.answer # "none" => q.step = "ended"
    /\ q.step = "quote" \/ q.answer = "quoted" => r[2] = "first"

AskOK(r) == AskIs(r, requests[r])

NetworkOK ==
    \A m \in network :
        /\ requests[m.request].step # "none" /\ m.key = KeyOf(m.request)
        /\ CheckedAt(m.checked)
        /\ m.issuedAt <= m.checked + HandlerTime

EffectsOK ==
    \A e \in effects : CheckedAt(e.checked) /\ e.at < e.checked + HandlerTime + Ttl + Skew

AgentInv ==
    /\ AgentTypes /\ RecordsTrue /\ NetworkOK /\ EffectsOK
    /\ \A c \in Agent!Calls : CallOK(c)
    /\ \A r \in Agent!Requests : AskOK(r)

LEMMA AskedBy ==
    ASSUME AgentInv, NEW r \in Agent!Requests
    PROVE  /\ r[1] \in Agent!Calls /\ r[2] \in {"first", "paid"} /\ r = <<r[1], r[2]>>
           /\ Agent!Key(r) = KeyOf(r) /\ Agent!Invoice(r) = InvoiceOf(r)
           /\ Agent!Op(r) = call[r[1]].op
           /\ Agent!Of(r).state = StateOf(r)
           /\ requests[r].step # "none" => /\ call[r[1]].op \in Agent!Calls
                                           /\ KeyOf(r) \in Agent!Keys
           /\ requests[r] \in RequestKind /\ call[r[1]] \in CallKind
           /\ AskIs(r, requests[r])
<1>1. /\ r[1] \in Agent!Calls /\ r[2] \in {"first", "paid"} /\ r = <<r[1], r[2]>>
  BY DEF Agent!Requests
<1>2. /\ Agent!Key(r) = KeyOf(r) /\ Agent!Invoice(r) = InvoiceOf(r)
      /\ Agent!Op(r) = call[r[1]].op /\ Agent!Of(r).state = StateOf(r)
  BY DEF Agent!Key, Agent!ActionKey, KeyOf, Agent!Invoice, InvoiceOf, Agent!Op, Agent!Of, StateOf
<1>3. ASSUME requests[r].step # "none"
      PROVE  call[r[1]].op \in Agent!Calls /\ KeyOf(r) \in Agent!Keys
  <2>1. call[r[1]].step # "idle"
    BY <1>1, <1>3 DEF AgentInv, CallOK
  <2>2. call[r[1]].op \in Agent!Calls
    BY <1>1, <2>1 DEF AgentInv, CallOK
  <2>3. 0 \in 0 .. MaxCalls
    BY ClientsAssumption
  <2> QED
    BY <2>2, <2>3 DEF KeyOf, Agent!Keys
<1>4. requests[r] \in RequestKind /\ call[r[1]] \in CallKind /\ AskIs(r, requests[r])
  BY <1>1 DEF AgentInv, AgentTypes, AskOK
<1> QED
  BY <1>1, <1>2, <1>3, <1>4

LEMMA AgentInit == Agent!Init => AgentInv
<1> SUFFICES ASSUME Agent!Init PROVE AgentInv
  OBVIOUS
<1>1. /\ Agent!NotSent \in RequestKind /\ Agent!Idle \in CallKind
      /\ Agent!NoInvocation \in InvocationKind
      /\ Skew \in Nat
  BY ClientsAssumption DEF Agent!NotSent, RequestKind, Agent!Idle, CallKind,
     Agent!NoInvocation, InvocationKind
<1>2. /\ <<>> \in Seq(Agent!Calls)
      /\ offset \in Int /\ -Skew <= offset /\ sold \in Nat
  BY <1>1, EmptySeq, ClientsAssumption DEF Agent!Init, Agent!Never
<1>3. AgentTypes
  BY <1>1, <1>2 DEF Agent!Init, AgentTypes, Agent!NoKey
<1>4. ASSUME NEW r \in Agent!Requests
      PROVE  requests[r].step = "none" /\ requests[r].answer = "none"
  BY <1>4 DEF Agent!Init, Agent!NotSent
<1>5. \A r \in Agent!Requests : AskOK(r)
  BY <1>4 DEF AskOK, AskIs, Verified
<1>6. ASSUME NEW c \in Agent!Calls PROVE CallOK(c)
  <2>1. <<c, "first">> \in Agent!Requests /\ <<c, "paid">> \in Agent!Requests
    BY DEF Agent!Requests
  <2>2. call[c].step = "idle"
    BY DEF Agent!Init, Agent!Idle
  <2> QED
    BY <1>4, <2>1, <2>2 DEF CallOK
<1>7. ASSUME NEW op \in Agent!Calls PROVE invocation[<<op, 0>>].state = "authorized"
  <2>1. <<op, 0>> \in Agent!Keys
    BY ClientsAssumption DEF Agent!Keys
  <2> QED
    BY <2>1 DEF Agent!Init, Agent!NoInvocation
<1>8. RecordsTrue /\ NetworkOK /\ EffectsOK
  BY <1>7 DEF Agent!Init, Agent!NoKey, RecordsTrue, NetworkOK, EffectsOK
<1> QED
  BY <1>3, <1>5, <1>6, <1>8 DEF AgentInv

\* What no step takes back while the clock stands
Grown ==
    /\ now' = now /\ sold' \in {sold, now}
    /\ effects \subseteq effects' /\ evidence \subseteq evidence'
    /\ settled \subseteq settled' /\ payments \subseteq payments'
    /\ Invoices \subseteq 1 .. Len(invoices')
    /\ \A i \in Invoices : invoices'[i] = invoices[i]
    /\ \A op \in Agent!Calls :
          /\ invocation[<<op, 0>>].state # "authorized" =>
                invocation'[<<op, 0>>].state # "authorized"
          /\ invocation[<<op, 0>>].state \in {"settled", "delivered"} =>
                invocation'[<<op, 0>>].state \in {"settled", "delivered"}
          /\ invocation[<<op, 0>>].state = "delivered" =>
                invocation'[<<op, 0>>].state = "delivered"

LEMMA CheckedLater ==
    ASSUME Grown, NEW time, CheckedAt(time)
    PROVE  CheckedAt(time)'
  BY DEF Grown, CheckedAt

\* A request that does not move keeps what it relies on.
LEMMA AskKeeps ==
    ASSUME AgentInv, Grown, NEW r \in Agent!Requests, requests'[r] = requests[r],
           requests[r].step # "none" =>
               /\ call'[r[1]].op = call[r[1]].op
               /\ r[2] = "paid" => call'[r[1]].invoice = call[r[1]].invoice
    PROVE  AskOK(r)'
<1>0. PICK q : q = requests[r]
  OBVIOUS
<1>a. /\ AskIs(r, q) /\ requests'[r] = q
      /\ q.step # "none" =>
            /\ call'[r[1]].op = call[r[1]].op /\ call[r[1]].op \in Agent!Calls
            /\ r[2] = "paid" => call'[r[1]].invoice = call[r[1]].invoice
  BY <1>0, AskedBy
<1>1. CASE q.step = "none"
  BY <1>a, <1>1 DEF AskOK, AskIs, Verified
<1>2. CASE q.step # "none"
  <2>1. KeyOf(r)' = KeyOf(r) /\ (r[2] = "paid" => InvoiceOf(r)' = InvoiceOf(r))
    BY <1>2, <1>a DEF KeyOf, InvoiceOf
  <2>2. r[2] = "first" => InvoiceOf(r)' = InvoiceOf(r)
    BY DEF InvoiceOf
  <2>3. r[2] \in {"first", "paid"}
    BY AskedBy
  <2>4. InvoiceOf(r)' = InvoiceOf(r)
    BY <2>1, <2>2, <2>3
  <2>5. Done(KeyOf(r)) => Done(KeyOf(r))'
    BY <2>1 DEF Done, Grown
  <2>6. q.step \in Verified => InvoiceOf(r) \in Invoices
    BY <1>2, <1>a DEF AskIs, InvoiceOf, Verified, AgentInv, AgentTypes
  <2>7. q.step \in Verified => invoices'[InvoiceOf(r)] = call'[r[1]].op
    BY <1>2, <1>a, <2>6 DEF AskIs, Grown
  <2>8. q.step \in {"quote", "verify", "lookup"} =>
            CheckedAt(q.since)' /\ now' <= q.since + HandlerTime
    BY <1>a, CheckedLater DEF AskIs, Grown
  <2>9. /\ q.step = "settle" => StateOf(r)' # "authorized"
        /\ q.step = "deliver" => StateOf(r)' \in {"settled", "delivered"}
        /\ q.step = "record" => StateOf(r)' = "delivered"
    BY <1>2, <1>a, <2>1 DEF AskIs, Grown, StateOf, KeyOf
  <2>10. /\ r[2] = "paid" => call'[r[1]].invoice \in payments'
         /\ q.answer = "quoted" => q.invoice \in 1 .. Len(invoices')
         /\ q.answer = "result" =>
              [request |-> r, key |-> KeyOf(r)', invoice |-> InvoiceOf(r)'] \in evidence'
    BY <1>2, <1>a, <2>1, <2>4 DEF AskIs, Grown, Invoices
  <2> QED
    BY <1>a, <2>1, <2>4, <2>5, <2>7, <2>8, <2>9, <2>10 DEF AskOK, AskIs, Invoices
<1> QED
  BY <1>1, <1>2

-----------------------------------------------------------------------------
\* One request at the gateway goes on to new; the calls are where they were.
GoesTo(r, new) ==
    /\ requests' = [requests EXCEPT ![r] = new]
    /\ new.step # "none" /\ requests[r].step # "none"
    /\ call' = call

LEMMA CallsKeep ==
    ASSUME AgentInv, NEW r \in Agent!Requests, NEW new \in RequestKind, GoesTo(r, new),
           Invoices \subseteq 1 .. Len(invoices')
    PROVE  /\ requests' \in [Agent!Requests -> RequestKind]
           /\ \A q \in Agent!Requests : requests'[q].step = "none" <=> requests[q].step = "none"
           /\ \A c \in Agent!Calls : CallOK(c)'
<1>1. /\ requests' \in [Agent!Requests -> RequestKind]
      /\ \A q \in Agent!Requests : requests'[q].step = "none" <=> requests[q].step = "none"
  BY DEF GoesTo, AgentInv, AgentTypes
<1>2. ASSUME NEW c \in Agent!Calls PROVE CallOK(c)'
  <2>1. <<c, "first">> \in Agent!Requests /\ <<c, "paid">> \in Agent!Requests
    BY DEF Agent!Requests
  <2> QED
    BY <1>1, <2>1 DEF GoesTo, AgentInv, CallOK, Invoices
<1> QED
  BY <1>1, <1>2

\* The records and messages stay true when only more is done.
LEMMA RecordsKeep ==
    ASSUME AgentInv, Grown, UNCHANGED <<bound, invocation, settled, evidence>>
    PROVE  RecordsTrue'
<1>1. ASSUME NEW k, Done(k) PROVE Done(k)'
  BY <1>1 DEF Done, Grown
<1>2. \A i \in settled : invoices'[i] = invoices[i]
  BY DEF Grown, AgentInv, AgentTypes
<1>3. ASSUME NEW op, SettledFor(op) PROVE SettledFor(op)'
  BY <1>2, <1>3 DEF SettledFor
<1>4. \A e \in evidence : invoices'[e.invoice] = invoices[e.invoice]
  BY DEF Grown, AgentInv, AgentTypes, RecordsTrue
<1> QED
  BY <1>1, <1>2, <1>3, <1>4 DEF AgentInv, RecordsTrue, Grown

LEMMA EffectsKeep == ASSUME AgentInv, Grown, effects' = effects PROVE EffectsOK'
<1>1. ASSUME NEW e \in effects
      PROVE  CheckedAt(e.checked)' /\ e.at < e.checked + HandlerTime + Ttl + Skew
  BY CheckedLater DEF AgentInv, EffectsOK
<1> QED
  BY <1>1 DEF EffectsOK

LEMMA MessagesKeep ==
    ASSUME AgentInv, Grown, UNCHANGED <<network, effects>>,
           \A q \in Agent!Requests : requests[q].step # "none" =>
               requests'[q].step # "none" /\ call'[q[1]].op = call[q[1]].op
    PROVE  NetworkOK' /\ EffectsOK'
<1>1. ASSUME NEW m \in network
      PROVE  /\ requests'[m.request].step # "none" /\ m.key = KeyOf(m.request)'
             /\ CheckedAt(m.checked)' /\ m.issuedAt <= m.checked + HandlerTime
  <2>1. m.request \in Agent!Requests
    BY DEF AgentInv, AgentTypes, MessageKind
  <2> QED
    BY <2>1, CheckedLater DEF AgentInv, NetworkOK, KeyOf
<1> QED
  BY <1>1, EffectsKeep DEF NetworkOK

\* A step of the gateway's handler of the request r
LEMMA SendingStep ==
    ASSUME AgentInv, Grown, NEW r \in Agent!Requests, NEW new \in RequestKind, GoesTo(r, new),
           UNCHANGED <<offset, payments>>,
           network' \subseteq MessageKind, NetworkOK',
           effects' \subseteq EffectKind, EffectsOK',
           invocation' \in [Agent!Keys -> InvocationKind],
           invoices' \in Seq(Agent!Calls),
           bound' \in [Agent!Calls -> Agent!Keys \cup {<<>>}],
           live' \subseteq 1 .. Len(invoices'), settled' \subseteq 1 .. Len(invoices'),
           RecordsTrue', AskOK(r)'
    PROVE  AgentInv'
<1>1. Invoices \subseteq 1 .. Len(invoices')
  BY DEF Grown
<1>2. /\ requests' \in [Agent!Requests -> RequestKind]
      /\ \A q \in Agent!Requests : requests'[q].step = "none" <=> requests[q].step = "none"
      /\ \A c \in Agent!Calls : CallOK(c)'
  BY <1>1, CallsKeep
<1>3. ASSUME NEW q \in Agent!Requests, q # r PROVE AskOK(q)'
  <2>1. requests'[q] = requests[q] /\ call' = call
    BY <1>3 DEF GoesTo, AgentInv, AgentTypes
  <2> QED
    BY <2>1, AskKeeps
<1>4. AgentTypes'
  BY <1>1, <1>2 DEF AgentInv, AgentTypes, Invoices, GoesTo, Grown
<1> QED
  BY <1>2, <1>3, <1>4 DEF AgentInv

LEMMA GatewayStep ==
    ASSUME AgentInv, Grown, NEW r \in Agent!Requests, NEW new \in RequestKind, GoesTo(r, new),
           UNCHANGED <<offset, payments, network, effects>>,
           invocation' \in [Agent!Keys -> InvocationKind],
           invoices' \in Seq(Agent!Calls),
           bound' \in [Agent!Calls -> Agent!Keys \cup {<<>>}],
           live' \subseteq 1 .. Len(invoices'), settled' \subseteq 1 .. Len(invoices'),
           RecordsTrue', AskOK(r)'
    PROVE  AgentInv'
<1>1. Invoices \subseteq 1 .. Len(invoices') /\ call' = call
  BY DEF Grown, GoesTo
<1>2. \A q \in Agent!Requests : requests'[q].step = "none" <=> requests[q].step = "none"
  BY <1>1, CallsKeep
<1>3. NetworkOK'
  BY <1>1, <1>2, MessagesKeep
<1>4. /\ network' \subseteq MessageKind
      /\ effects' \subseteq EffectKind /\ EffectsOK'
  BY EffectsKeep DEF AgentInv, AgentTypes
<1> QED
  BY <1>3, <1>4, SendingStep

\* A step that changes nothing but where the request is
LEMMA PlainStep ==
    ASSUME AgentInv, NEW r \in Agent!Requests, NEW new \in RequestKind, GoesTo(r, new),
           UNCHANGED <<now, offset, sold, Agent!gateway, payments, network, effects>>,
           AskIs(r, new)
    PROVE  AgentInv'
<1>1. UNCHANGED <<bound, invocation, invoices, live, settled, evidence>>
  BY DEF Agent!gateway
<1>2. Grown
  BY <1>1 DEF Grown, Invoices
<1>3. RecordsTrue'
  BY <1>1, <1>2, RecordsKeep
<1>4. AskOK(r)'
  <2>1. requests'[r] = new
    BY DEF GoesTo, AgentInv, AgentTypes
  <2> QED
    BY <1>1, <2>1 DEF AskOK, AskIs, GoesTo, KeyOf, InvoiceOf, StateOf, Done, CheckedAt, Invoices
<1>5. /\ invocation' \in [Agent!Keys -> InvocationKind]
      /\ invoices' \in Seq(Agent!Calls)
      /\ bound' \in [Agent!Calls -> Agent!Keys \cup {<<>>}]
      /\ live' \subseteq 1 .. Len(invoices') /\ settled' \subseteq 1 .. Len(invoices')
  BY <1>1 DEF AgentInv, AgentTypes, Invoices
<1> QED
  BY <1>2, <1>3, <1>4, <1>5, GatewayStep

\* A request is refused, or ends without an answer.
LEMMA RefusedStep ==
    ASSUME AgentInv, NEW r \in Agent!Requests, requests[r].step # "none",
           Agent!Reply(r, "refused"),
           UNCHANGED <<now, offset, sold, call, Agent!gateway, payments, network, effects>>
    PROVE  AgentInv'
<1>1. PICK new \in RequestKind :
          /\ new = [Agent!NotSent EXCEPT !.step = "ended", !.answer = "refused"]
          /\ new.step = "ended" /\ new.answer = "refused"
  <2>1. Agent!NotSent \in RequestKind
    BY DEF RequestKind, Agent!NotSent
  <2>2. PICK ended : ended = [Agent!NotSent EXCEPT !.step = "ended", !.answer = "refused"]
    OBVIOUS
  <2>3. ended \in RequestKind /\ ended.step = "ended" /\ ended.answer = "refused"
    BY <2>1, <2>2 DEF RequestKind
  <2> QED
    BY <2>2, <2>3
<1>2. GoesTo(r, new)
  BY <1>1 DEF GoesTo, Agent!Reply
<1>3. AskIs(r, new)
  <2>1. r[2] = "paid" => call[r[1]].invoice \in payments
    BY AskedBy DEF AskIs
  <2> QED
    BY <1>1, <2>1 DEF AskIs, Verified
<1> QED
  BY <1>2, <1>3, PlainStep

-----------------------------------------------------------------------------
AskSteps == {"none", "sent", "quote", "verify", "lookup", "execute", "answered", "settle",
             "deliver", "record", "ended"}

LEMMA NewStep ==
    ASSUME NEW q \in RequestKind, NEW step \in AskSteps
    PROVE  /\ [q EXCEPT !.step = step] \in RequestKind
           /\ [q EXCEPT !.step = step].step = step
           /\ [q EXCEPT !.step = step].answer = q.answer
           /\ [q EXCEPT !.step = step].since = q.since
  BY DEF RequestKind, AskSteps

LEMMA NotSentKind == Agent!NotSent \in RequestKind /\ Agent!NotSent.answer = "none"
  BY DEF RequestKind, Agent!NotSent

\* All that a record, a quote and a payment are typed as
LEMMA RecordKinds ==
    ASSUME AgentInv
    PROVE  /\ invocation \in [Agent!Keys -> InvocationKind]
           /\ invoices \in Seq(Agent!Calls)
           /\ bound \in [Agent!Calls -> Agent!Keys \cup {<<>>}]
           /\ live \subseteq Invoices /\ settled \subseteq Invoices /\ payments \subseteq Invoices
  BY DEF AgentInv, AgentTypes

LEMMA AuthenticateStep ==
    ASSUME AgentInv, NEW r \in Agent!Requests, Agent!Authenticate(r)
    PROVE  AgentInv'
<1>1. /\ requests[r].step = "sent" /\ AskIs(r, requests[r]) /\ requests[r] \in RequestKind
      /\ r[1] \in Agent!Calls /\ r[2] \in {"first", "paid"}
      /\ Agent!Op(r) = call[r[1]].op /\ Agent!Key(r) = KeyOf(r)
      /\ call[r[1]].op \in Agent!Calls /\ KeyOf(r) \in Agent!Keys
      /\ UNCHANGED <<invocation, invoices, live, settled, evidence, now, offset, sold, call,
                     payments, network, effects>>
  BY AskedBy DEF Agent!Authenticate, Agent!At, Agent!others, Agent!remote
<1>2. CASE Agent!Reply(r, "refused") /\ UNCHANGED bound
  BY <1>1, <1>2, RefusedStep DEF Agent!gateway
<1>3. CASE bound[Agent!Op(r)] \notin {Agent!NoKey, Agent!Key(r)}
  BY <1>1, <1>3 DEF AgentInv, RecordsTrue, KeyOf, Agent!NoKey
<1>4. CASE /\ sold = Agent!Never
           /\ bound' = [bound EXCEPT ![Agent!Op(r)] = Agent!Key(r)]
           /\ requests' = [requests EXCEPT
                  ![r].step = IF r[2] = "first" THEN "quote" ELSE "verify", ![r].since = now]
  <2>1. PICK step \in {"quote", "verify"} :
            step = IF r[2] = "first" THEN "quote" ELSE "verify"
    OBVIOUS
  <2>2. PICK new : new = [requests[r] EXCEPT !.step = step, !.since = now]
    OBVIOUS
  <2>3. now \in Nat
    BY DEF AgentInv, AgentTypes
  <2>4. /\ new \in RequestKind /\ new.step = step /\ new.since = now
        /\ new.answer = requests[r].answer
    BY <1>1, <2>1, <2>2, <2>3 DEF RequestKind
  <2>5. requests' = [requests EXCEPT ![r] = new]
    BY <1>1, <1>4, <2>1, <2>2 DEF AgentInv, AgentTypes
  <2>6. GoesTo(r, new)
    BY <1>1, <2>1, <2>4, <2>5 DEF GoesTo
  <2>7. Grown
    BY <1>1 DEF Grown, Invoices
  <2>8. bound' \in [Agent!Calls -> Agent!Keys \cup {<<>>}]
    BY <1>1, <1>4, RecordKinds
  <2>9. RecordsTrue'
    <3>1. \A op \in Agent!Calls : bound'[op] \in {<<>>, <<op, 0>>}
      BY <1>1, <1>4, RecordKinds DEF AgentInv, RecordsTrue, KeyOf
    <3> QED
      BY <1>1, <3>1 DEF AgentInv, RecordsTrue, Done, SettledFor
  <2>10. AskOK(r)'
    <3>1. HandlerTime \in Nat
      BY ClientsAssumption
    <3>2. CheckedAt(now)' /\ now' <= new.since + HandlerTime
      BY <1>1, <1>4, <2>3, <2>4, <3>1 DEF CheckedAt
    <3>3. r[2] = "paid" => call'[r[1]].invoice \in payments'
      BY <1>1 DEF AskIs
    <3>4. new.answer = "none"
      BY <1>1, <2>4 DEF AskIs, RequestKind
    <3>5. requests'[r] = new
      BY <2>5 DEF AgentInv, AgentTypes
    <3> QED
      BY <1>1, <2>1, <2>4, <3>2, <3>3, <3>4, <3>5 DEF AskOK, AskIs, Verified
  <2> QED
    BY <1>1, <2>4, <2>6, <2>7, <2>8, <2>9, <2>10, RecordKinds, GatewayStep DEF Invoices
<1> QED
  BY <1>2, <1>3, <1>4 DEF Agent!Authenticate

LEMMA QuoteStep == ASSUME AgentInv, NEW r \in Agent!Requests, Agent!Quote(r) PROVE AgentInv'
<1>1. /\ requests[r].step = "quote" /\ AskIs(r, requests[r])
      /\ Agent!Op(r) = call[r[1]].op /\ call[r[1]].op \in Agent!Calls
      /\ UNCHANGED <<bound, invocation, settled, evidence, now, offset, sold, call,
                     payments, network, effects>>
  BY AskedBy DEF Agent!Quote, Agent!At, Agent!others, Agent!remote
<1>2. PICK n \in Nat : n = Len(invoices)
  BY RecordKinds, LenProperties
<1>3. PICK i \in 1 .. n + 1 :
          /\ requests' = [requests EXCEPT ![r] = [Agent!NotSent EXCEPT !.step = "ended",
                                                     !.answer = "quoted", !.invoice = i]]
          /\ \/ i \in live /\ UNCHANGED <<invoices, live>>
             \/ i = n + 1 /\ invoices' = Append(invoices, call[r[1]].op) /\ live' = live \cup {i}
  <2>1. live \subseteq 1 .. n /\ n + 1 \in 1 .. n + 1 /\ 1 .. n \subseteq 1 .. n + 1
    BY <1>2, RecordKinds DEF Invoices
  <2> QED
    BY <1>1, <1>2, <2>1 DEF Agent!Quote
<1>4. PICK new : new = [Agent!NotSent EXCEPT !.step = "ended", !.answer = "quoted", !.invoice = i]
  OBVIOUS
<1>5. new \in RequestKind /\ new.step = "ended" /\ new.answer = "quoted" /\ new.invoice = i
  <2>1. i \in Nat
    OBVIOUS
  <2> QED
    BY <1>4, <2>1, NotSentKind DEF RequestKind
<1>6. /\ invoices' \in Seq(Agent!Calls) /\ Invoices \subseteq 1 .. Len(invoices')
      /\ \A j \in Invoices : invoices'[j] = invoices[j]
      /\ i \in 1 .. Len(invoices') /\ live' \subseteq 1 .. Len(invoices')
  <2>1. CASE i \in live /\ UNCHANGED <<invoices, live>>
    BY <2>1, RecordKinds DEF Invoices
  <2>2. CASE i = n + 1 /\ invoices' = Append(invoices, call[r[1]].op) /\ live' = live \cup {i}
    <3>1. /\ invoices' \in Seq(Agent!Calls) /\ Len(invoices') = n + 1
          /\ \A j \in 1 .. n : invoices'[j] = invoices[j]
      BY <1>1, <1>2, <2>2, RecordKinds, AppendProperties
    <3> QED
      BY <1>2, <2>2, <3>1, RecordKinds DEF Invoices
  <2> QED
    BY <1>3, <2>1, <2>2
<1>7. Grown
  BY <1>1, <1>6 DEF Grown
<1>8. RecordsTrue'
  BY <1>1, <1>7, RecordsKeep
<1>9. AskOK(r)'
  <2>1. (r[2] = "paid" => call'[r[1]].invoice \in payments') /\ r[2] = "first"
    BY <1>1 DEF AskIs
  <2>2. /\ new.step \notin Verified \cup {"verify", "quote"}
        /\ new.step # "none" /\ new.answer # "result"
        /\ new.answer # "none" => new.step = "ended"
        /\ new.invoice \in 1 .. Len(invoices')
    BY <1>5, <1>6 DEF Verified
  <2>3. requests'[r] = new
    BY <1>3, <1>4 DEF AgentInv, AgentTypes
  <2> QED
    BY <2>1, <2>2, <2>3 DEF AskOK, AskIs, Verified, Invoices
<1>10. GoesTo(r, new)
  BY <1>1, <1>3, <1>4, <1>5 DEF GoesTo
<1>11. settled' \subseteq 1 .. Len(invoices')
  BY <1>1, <1>6, RecordKinds DEF Invoices
<1> QED
  BY <1>1, <1>5, <1>6, <1>7, <1>8, <1>9, <1>10, <1>11, RecordKinds, GatewayStep

LEMMA VerifyPaymentStep ==
    ASSUME AgentInv, NEW r \in Agent!Requests, Agent!VerifyPayment(r)
    PROVE  AgentInv'
<1>1. /\ requests[r].step = "verify" /\ AskIs(r, requests[r]) /\ requests[r] \in RequestKind
      /\ Agent!Op(r) = call[r[1]].op /\ Agent!Invoice(r) = InvoiceOf(r)
      /\ UNCHANGED <<now, offset, sold, call, Agent!gateway, payments, network, effects>>
  BY AskedBy DEF Agent!VerifyPayment, Agent!At, Agent!others, Agent!remote
<1>2. CASE Agent!Reply(r, "refused")
  BY <1>1, <1>2, RefusedStep
<1>3. CASE invoices[InvoiceOf(r)] = call[r[1]].op /\ Agent!To(r, "lookup")
  <2>1. PICK new : new = [requests[r] EXCEPT !.step = "lookup"]
    OBVIOUS
  <2>2. /\ new \in RequestKind /\ new.step = "lookup" /\ new.answer = requests[r].answer
        /\ new.since = requests[r].since
    BY <1>1, <2>1, NewStep DEF AskSteps
  <2>3. GoesTo(r, new)
    BY <1>1, <1>3, <2>1, <2>2 DEF GoesTo, Agent!To
  <2>4. AskIs(r, new)
    BY <1>1, <1>3, <2>2 DEF AskIs, Verified
  <2> QED
    BY <1>1, <2>2, <2>3, <2>4, PlainStep
<1> QED
  BY <1>1, <1>2, <1>3 DEF Agent!VerifyPayment

\* A delivered invocation is answered, a follower settles.
LEMMA FollowStep ==
    ASSUME AgentInv, NEW r \in Agent!Requests, Agent!Delivered(r) \/ Agent!Follow(r)
    PROVE  AgentInv'
<1>1. /\ requests[r].step = "lookup" /\ AskIs(r, requests[r])
      /\ Agent!Of(r).state = StateOf(r)
      /\ UNCHANGED <<now, offset, sold, call, Agent!gateway, payments, network, effects>>
  BY AskedBy DEF Agent!Delivered, Agent!Follow, Agent!At, Agent!others, Agent!remote
<1>2. PICK step \in {"record", "settle"} :
          /\ step = "record" => StateOf(r) = "delivered"
          /\ step = "settle" => StateOf(r) # "authorized"
          /\ Agent!Past(r, step)
  BY <1>1 DEF Agent!Delivered, Agent!Follow
<1>3. PICK new : new = [Agent!NotSent EXCEPT !.step = step]
  OBVIOUS
<1>4. new \in RequestKind /\ new.step = step /\ new.answer = "none"
  <2>1. step \in AskSteps
    BY DEF AskSteps
  <2> QED
    BY <1>3, <2>1, NewStep, NotSentKind
<1>5. GoesTo(r, new)
  BY <1>1, <1>2, <1>3, <1>4 DEF GoesTo, Agent!Past
<1>6. AskIs(r, new)
  BY <1>1, <1>2, <1>4 DEF AskIs, Verified
<1> QED
  BY <1>1, <1>4, <1>5, <1>6, PlainStep

\* The invocation of the request r advances to the state s.
LEMMA StateMoves ==
    ASSUME AgentInv, NEW r \in Agent!Requests, requests[r].step # "none",
           NEW s \in {"executed", "settled", "delivered"},
           invocation' = [invocation EXCEPT ![KeyOf(r)].state = s]
    PROVE  /\ invocation' \in [Agent!Keys -> InvocationKind]
           /\ \A op \in Agent!Calls : invocation'[<<op, 0>>].state =
                 IF op = call[r[1]].op THEN s ELSE invocation[<<op, 0>>].state
<1>1. KeyOf(r) \in Agent!Keys /\ invocation \in [Agent!Keys -> InvocationKind]
  BY AskedBy, RecordKinds
<1>2. [invocation[KeyOf(r)] EXCEPT !.state = s] \in InvocationKind
  BY <1>1 DEF InvocationKind
<1>3. ASSUME NEW op \in Agent!Calls
      PROVE  <<op, 0>> \in Agent!Keys /\ (<<op, 0>> = KeyOf(r) <=> op = call[r[1]].op)
  BY ClientsAssumption DEF Agent!Keys, KeyOf
<1>4. [invocation[KeyOf(r)] EXCEPT !.state = s].state = s
  BY <1>1 DEF InvocationKind
<1>5. invocation' = [invocation EXCEPT ![KeyOf(r)] = [invocation[KeyOf(r)] EXCEPT !.state = s]]
  BY <1>1
<1> QED
  BY <1>1, <1>2, <1>3, <1>4, <1>5

\* Records stay true when the invocation of r has advanced to s with what s stands for.
LEMMA StatesTrue ==
    ASSUME AgentInv, Grown, NEW r \in Agent!Requests, requests[r].step # "none",
           NEW s \in {"executed", "settled", "delivered"},
           invocation' = [invocation EXCEPT ![KeyOf(r)].state = s],
           UNCHANGED <<bound, invoices, evidence, effects>>,
           settled' = settled \/ settled' = settled \cup {InvoiceOf(r)},
           invoices[InvoiceOf(r)] = call[r[1]].op,
           Done(KeyOf(r)),
           s # "executed" => \E i \in settled' : invoices'[i] = call[r[1]].op
    PROVE  RecordsTrue'
<1>1. \A op \in Agent!Calls : invocation'[<<op, 0>>].state =
                 IF op = call[r[1]].op THEN s ELSE invocation[<<op, 0>>].state
  BY StateMoves
<1>2. ASSUME NEW op, SettledFor(op) PROVE SettledFor(op)'
  BY <1>2 DEF SettledFor, Grown
<1>3. \A k : Done(k)' <=> Done(k)
  BY DEF Done
<1>4. \A op \in Agent!Calls : op = call[r[1]].op => Done(<<op, 0>>)
  BY DEF KeyOf
<1>5. \A op \in Agent!Calls :
          /\ invocation'[<<op, 0>>].state # "authorized" => Done(<<op, 0>>)
          /\ invocation'[<<op, 0>>].state \in {"settled", "delivered"} => SettledFor(op)'
  <2>1. ASSUME NEW op \in Agent!Calls
        PROVE  /\ invocation'[<<op, 0>>].state # "authorized" => Done(<<op, 0>>)
               /\ invocation'[<<op, 0>>].state \in {"settled", "delivered"} => SettledFor(op)'
    <3>1. CASE op = call[r[1]].op
      <4>1. invocation'[<<op, 0>>].state = s /\ Done(<<op, 0>>)
        BY <1>1, <1>4, <3>1
      <4>2. s # "executed" => SettledFor(op)'
        BY <3>1 DEF SettledFor
      <4> QED
        BY <4>1, <4>2
    <3>2. CASE op # call[r[1]].op
      <4>1. invocation'[<<op, 0>>].state = invocation[<<op, 0>>].state
        BY <1>1, <3>2
      <4>2. /\ invocation[<<op, 0>>].state # "authorized" => Done(<<op, 0>>)
            /\ invocation[<<op, 0>>].state \in {"settled", "delivered"} => SettledFor(op)
        BY DEF AgentInv, RecordsTrue
      <4> QED
        BY <1>2, <4>1, <4>2
    <3> QED
      BY <3>1, <3>2
  <2> QED
    BY <2>1
<1>6. \A i \in settled' : Done(<<invoices[i], 0>>)
  BY DEF AgentInv, RecordsTrue, KeyOf
<1>7. \A e \in evidence :
          e.invoice \in payments' /\ Done(e.key) /\ SettledFor(invoices[e.invoice])'
  BY <1>2 DEF AgentInv, RecordsTrue, Grown
<1> QED
  BY <1>3, <1>5, <1>6, <1>7 DEF AgentInv, RecordsTrue

LEMMA AcquireStep == ASSUME AgentInv, NEW r \in Agent!Requests, Agent!Acquire(r) PROVE AgentInv'
<1>1. /\ requests[r].step = "lookup" /\ AskIs(r, requests[r]) /\ requests[r] \in RequestKind
      /\ Agent!Key(r) = KeyOf(r) /\ Agent!Invoice(r) = InvoiceOf(r)
      /\ StateOf(r) = "authorized" /\ KeyOf(r) \in Agent!Keys
      /\ r[1] \in Agent!Calls /\ r[2] = "paid" /\ r = <<r[1], r[2]>>
      /\ call[r[1]].op \in Agent!Calls /\ invoices[InvoiceOf(r)] = call[r[1]].op
      /\ UNCHANGED <<now, offset, sold, call, payments, bound, invoices, live, settled,
                     evidence, effects>>
  BY AskedBy DEF Agent!Acquire, Agent!At, AskIs, Verified
<1>2. r[2] = "paid" => call'[r[1]].invoice \in payments'
  BY <1>1 DEF AskIs
<1>3. requests[r].answer = "none"
  BY <1>1 DEF AskIs, RequestKind
<1>4. CASE /\ InvoiceOf(r) \in settled
           /\ invocation' = [invocation EXCEPT ![KeyOf(r)].state = "executed"]
           /\ Agent!Past(r, "settle") /\ network' = network
  <2>1. PICK new : new = [Agent!NotSent EXCEPT !.step = "settle"]
    OBVIOUS
  <2>2. new \in RequestKind /\ new.step = "settle" /\ new.answer = "none"
    <3>1. "settle" \in AskSteps
      BY DEF AskSteps
    <3> QED
      BY <2>1, <3>1, NewStep, NotSentKind
  <2>3. GoesTo(r, new)
    BY <1>1, <1>4, <2>1, <2>2 DEF GoesTo, Agent!Past
  <2>4. /\ invocation' \in [Agent!Keys -> InvocationKind]
        /\ \A op \in Agent!Calls : invocation'[<<op, 0>>].state =
                 IF op = call[r[1]].op THEN "executed" ELSE invocation[<<op, 0>>].state
    BY <1>1, <1>4, StateMoves
  <2>5. Grown
    BY <1>1, <2>4 DEF Grown, Invoices, StateOf, KeyOf
  <2>6. Done(KeyOf(r))
    BY <1>1, <1>4 DEF AgentInv, RecordsTrue, KeyOf
  <2>7. RecordsTrue'
    BY <1>1, <1>4, <2>5, <2>6, StatesTrue
  <2>8. AskOK(r)'
    <3>1. requests'[r] = new /\ StateOf(r)' = "executed"
      BY <1>1, <2>3, <2>4 DEF GoesTo, AgentInv, AgentTypes, StateOf, KeyOf
    <3>2. invoices'[InvoiceOf(r)'] = call'[r[1]].op
      BY <1>1 DEF InvoiceOf
    <3> QED
      BY <1>1, <1>2, <2>2, <3>1, <3>2 DEF AskOK, AskIs, Verified
  <2> QED
    BY <1>1, <1>4, <2>2, <2>3, <2>4, <2>5, <2>7, <2>8, RecordKinds, GatewayStep DEF Invoices
<1>5. CASE /\ invocation' = [invocation EXCEPT ![KeyOf(r)].holder = r,
                                               ![KeyOf(r)].until = now + LeaseTime]
           /\ Agent!Past(r, "execute") /\ network' = network \cup {Agent!Assertion(r)}
  <2>1. PICK new : new = [Agent!NotSent EXCEPT !.step = "execute"]
    OBVIOUS
  <2>2. new \in RequestKind /\ new.step = "execute" /\ new.answer = "none"
    <3>1. "execute" \in AskSteps
      BY DEF AskSteps
    <3> QED
      BY <2>1, <3>1, NewStep, NotSentKind
  <2>3. GoesTo(r, new)
    BY <1>1, <1>5, <2>1, <2>2 DEF GoesTo, Agent!Past
  <2>4. now \in Nat /\ LeaseTime \in Nat /\ HandlerTime \in Nat /\ now + LeaseTime \in Nat
    BY ClientsAssumption DEF AgentInv, AgentTypes
  <2>5. /\ invocation' \in [Agent!Keys -> InvocationKind]
        /\ \A k \in Agent!Keys : invocation'[k].state = invocation[k].state
    <3>1. PICK taken : taken = [invocation[KeyOf(r)] EXCEPT !.holder = r, !.until = now + LeaseTime]
      OBVIOUS
    <3>2. r \in (0 .. MaxCalls) \X {"none", "first", "paid"}
      BY <1>1, ClientsAssumption DEF Agent!Calls, Agent!Requests
    <3>3. invocation[KeyOf(r)] \in InvocationKind
      BY <1>1, RecordKinds
    <3>4. taken \in InvocationKind /\ taken.state = invocation[KeyOf(r)].state
      BY <2>4, <3>1, <3>2, <3>3 DEF InvocationKind
    <3>5. invocation' = [invocation EXCEPT ![KeyOf(r)] = taken]
      BY <1>1, <1>5, <3>1, RecordKinds
    <3> QED
      BY <1>1, <3>4, <3>5, RecordKinds
  <2>6. \A op \in Agent!Calls : invocation'[<<op, 0>>].state = invocation[<<op, 0>>].state
    BY <2>5, ClientsAssumption DEF Agent!Keys
  <2>7. Grown
    BY <1>1, <2>6 DEF Grown, Invoices
  <2>8. RecordsTrue'
    BY <1>1, <2>6 DEF AgentInv, RecordsTrue, Done, SettledFor
  <2>9. AskOK(r)'
    <3>1. requests'[r] = new
      BY <2>3 DEF GoesTo, AgentInv, AgentTypes
    <3>2. invoices'[InvoiceOf(r)'] = call'[r[1]].op
      BY <1>1 DEF InvoiceOf
    <3> QED
      BY <1>1, <1>2, <2>2, <3>1, <3>2 DEF AskOK, AskIs, Verified
  <2>10. PICK m : m = Agent!Assertion(r)
    OBVIOUS
  <2>11. /\ m.request = r /\ m.key = KeyOf(r) /\ m.issuedAt = now /\ m.checked = requests[r].since
         /\ m \in MessageKind
         /\ CheckedAt(m.checked) /\ m.issuedAt <= m.checked + HandlerTime
    BY <1>1, <2>4, <2>10 DEF Agent!Assertion, MessageKind, RequestKind, AskIs
  <2>12. network' \subseteq MessageKind
    BY <1>5, <2>10, <2>11 DEF AgentInv, AgentTypes
  <2>13. NetworkOK'
    <3>1. \A q \in Agent!Requests : requests'[q].step = "none" <=> requests[q].step = "none"
      BY <2>2, <2>3, CallsKeep, <2>7 DEF Grown
    <3>2. ASSUME NEW w \in network'
          PROVE  /\ requests'[w.request].step # "none" /\ w.key = KeyOf(w.request)'
                 /\ CheckedAt(w.checked)' /\ w.issuedAt <= w.checked + HandlerTime
      <4>1. CASE w = m
        BY <1>1, <2>2, <2>3, <2>7, <2>11, <4>1, CheckedLater
        DEF GoesTo, AgentInv, AgentTypes, KeyOf
      <4>2. CASE w \in network
        <5>1. w.request \in Agent!Requests
          BY <4>2 DEF AgentInv, AgentTypes, MessageKind
        <5> QED
          BY <1>1, <2>7, <3>1, <4>2, <5>1, CheckedLater DEF AgentInv, NetworkOK, KeyOf
      <4> QED
        BY <1>5, <2>10, <4>1, <4>2
    <3> QED
      BY <3>2 DEF NetworkOK
  <2>14. effects' \subseteq EffectKind /\ EffectsOK'
    BY <1>1, <2>7, EffectsKeep DEF AgentInv, AgentTypes
  <2> QED
    BY <1>1, <2>2, <2>3, <2>5, <2>7, <2>8, <2>9, <2>12, <2>13, <2>14, RecordKinds, SendingStep
    DEF Invoices
<1> QED
  BY <1>1, <1>4, <1>5 DEF Agent!Acquire

LEMMA CompleteStep ==
    ASSUME AgentInv, NEW r \in Agent!Requests, Agent!Complete(r)
    PROVE  AgentInv'
<1>1. /\ requests[r].step = "answered" /\ AskIs(r, requests[r]) /\ requests[r] \in RequestKind
      /\ Agent!Key(r) = KeyOf(r) /\ Agent!Of(r).state = StateOf(r)
      /\ r[1] \in Agent!Calls /\ r[2] = "paid" /\ Done(KeyOf(r))
      /\ call[r[1]].op \in Agent!Calls /\ invoices[InvoiceOf(r)] = call[r[1]].op
      /\ UNCHANGED <<now, offset, sold, call, payments, bound, invoices, live, settled,
                     evidence, network, effects>>
  BY AskedBy DEF Agent!Complete, Agent!At, AskIs, Verified, Agent!others, Agent!remote
<1>2. CASE Agent!Reply(r, "refused") /\ UNCHANGED invocation
  BY <1>1, <1>2, RefusedStep DEF Agent!gateway
<1>3. CASE /\ StateOf(r) = "authorized" /\ Agent!To(r, "settle")
           /\ invocation' = [invocation EXCEPT ![KeyOf(r)].state = "executed"]
  <2>1. PICK new : new = [requests[r] EXCEPT !.step = "settle"]
    OBVIOUS
  <2>2. new \in RequestKind /\ new.step = "settle" /\ new.answer = requests[r].answer
    BY <1>1, <2>1, NewStep DEF AskSteps
  <2>3. GoesTo(r, new)
    BY <1>1, <1>3, <2>1, <2>2 DEF GoesTo, Agent!To
  <2>4. /\ invocation' \in [Agent!Keys -> InvocationKind]
        /\ \A op \in Agent!Calls : invocation'[<<op, 0>>].state =
                 IF op = call[r[1]].op THEN "executed" ELSE invocation[<<op, 0>>].state
    BY <1>1, <1>3, StateMoves
  <2>5. Grown
    BY <1>1, <1>3, <2>4 DEF Grown, Invoices, StateOf, KeyOf
  <2>6. RecordsTrue'
    BY <1>1, <1>3, <2>5, StatesTrue
  <2>7. AskOK(r)'
    <3>1. requests'[r] = new /\ StateOf(r)' = "executed"
      BY <1>1, <2>3, <2>4 DEF GoesTo, AgentInv, AgentTypes, StateOf, KeyOf
    <3>2. invoices'[InvoiceOf(r)'] = call'[r[1]].op
      BY <1>1 DEF InvoiceOf
    <3>3. call'[r[1]].invoice \in payments' /\ new.answer = "none"
      BY <1>1, <2>2 DEF AskIs, RequestKind
    <3> QED
      BY <1>1, <2>2, <3>1, <3>2, <3>3 DEF AskOK, AskIs, Verified
  <2> QED
    BY <1>1, <2>2, <2>3, <2>4, <2>5, <2>6, <2>7, RecordKinds, GatewayStep DEF Invoices
<1> QED
  BY <1>1, <1>2, <1>3 DEF Agent!Complete

LEMMA SettleStep == ASSUME AgentInv, NEW r \in Agent!Requests, Agent!Settle(r) PROVE AgentInv'
<1>1. /\ requests[r].step = "settle" /\ AskIs(r, requests[r]) /\ requests[r] \in RequestKind
      /\ Agent!Key(r) = KeyOf(r) /\ Agent!Of(r).state = StateOf(r)
      /\ Agent!Invoice(r) = InvoiceOf(r) /\ KeyOf(r) \in Agent!Keys
      /\ r[1] \in Agent!Calls /\ r[2] = "paid" /\ StateOf(r) # "authorized"
      /\ call[r[1]].op \in Agent!Calls /\ invoices[InvoiceOf(r)] = call[r[1]].op
      /\ call[r[1]].invoice \in payments /\ InvoiceOf(r) \in Invoices
      /\ UNCHANGED <<now, offset, sold, call, payments, bound, invoices, evidence,
                     network, effects>>
  <2>1. /\ requests[r].step = "settle" /\ AskIs(r, requests[r])
        /\ UNCHANGED <<now, offset, sold, call, payments, bound, invoices, evidence,
                       network, effects>>
    BY AskedBy DEF Agent!Settle, Agent!At, Agent!others, Agent!remote
  <2>2. /\ r[2] = "paid" /\ call[r[1]].invoice \in payments /\ StateOf(r) # "authorized"
        /\ invoices[InvoiceOf(r)] = call[r[1]].op
    BY <2>1 DEF AskIs, Verified
  <2>3. InvoiceOf(r) \in Invoices
    BY <2>2, RecordKinds DEF InvoiceOf
  <2> QED
    BY <2>1, <2>2, <2>3, AskedBy
<1>2. PICK new : new = [requests[r] EXCEPT !.step = "deliver"]
  OBVIOUS
<1>3. new \in RequestKind /\ new.step = "deliver" /\ new.answer = "none"
  BY <1>1, <1>2, NewStep DEF AskSteps, AskIs, RequestKind
<1>4. GoesTo(r, new)
  BY <1>1, <1>2, <1>3 DEF GoesTo, Agent!Settle, Agent!To
<1>5. requests'[r] = new /\ InvoiceOf(r)' = InvoiceOf(r) /\ KeyOf(r)' = KeyOf(r)
  BY <1>1, <1>4 DEF GoesTo, AgentInv, AgentTypes, InvoiceOf, KeyOf
<1>6. CASE /\ StateOf(r) = "executed"
           /\ settled' = settled \cup {InvoiceOf(r)} /\ live' = live \ {InvoiceOf(r)}
           /\ invocation' = [invocation EXCEPT ![KeyOf(r)].state = "settled"]
  <2>1. /\ invocation' \in [Agent!Keys -> InvocationKind]
        /\ \A op \in Agent!Calls : invocation'[<<op, 0>>].state =
                 IF op = call[r[1]].op THEN "settled" ELSE invocation[<<op, 0>>].state
    BY <1>1, <1>6, StateMoves
  <2>2. Grown
    BY <1>1, <1>6, <2>1 DEF Grown, Invoices, StateOf, KeyOf
  <2>3. Done(KeyOf(r))
    BY <1>1 DEF AgentInv, RecordsTrue, KeyOf, StateOf
  <2>4. \E i \in settled' : invoices'[i] = call[r[1]].op
    BY <1>1, <1>6
  <2>5. RecordsTrue'
    BY <1>1, <1>6, <2>2, <2>3, <2>4, StatesTrue
  <2>6. AskOK(r)'
    <3>1. StateOf(r)' = "settled"
      BY <1>1, <2>1 DEF StateOf, KeyOf
    <3> QED
      BY <1>1, <1>3, <1>5, <3>1 DEF AskOK, AskIs, Verified
  <2>7. live' \subseteq 1 .. Len(invoices') /\ settled' \subseteq 1 .. Len(invoices')
    BY <1>1, <1>6, RecordKinds DEF Invoices
  <2> QED
    BY <1>1, <1>3, <1>4, <2>1, <2>2, <2>5, <2>6, <2>7, RecordKinds, GatewayStep
<1>7. CASE StateOf(r) # "executed" /\ UNCHANGED <<settled, live, invocation>>
  <2>1. StateOf(r) \in {"settled", "delivered"}
    BY <1>1, <1>7, RecordKinds DEF StateOf, InvocationKind
  <2>2. AskIs(r, new)
    BY <1>1, <1>3, <2>1 DEF AskIs, Verified
  <2> QED
    BY <1>1, <1>3, <1>4, <1>7, <2>2, PlainStep DEF Agent!gateway
<1> QED
  BY <1>1, <1>6, <1>7 DEF Agent!Settle

LEMMA DeliverStep == ASSUME AgentInv, NEW r \in Agent!Requests, Agent!Deliver(r) PROVE AgentInv'
<1>1. /\ requests[r].step = "deliver" /\ AskIs(r, requests[r]) /\ requests[r] \in RequestKind
      /\ Agent!Key(r) = KeyOf(r) /\ KeyOf(r) \in Agent!Keys
      /\ r[1] \in Agent!Calls /\ r[2] = "paid" /\ call[r[1]].op \in Agent!Calls
      /\ UNCHANGED <<now, offset, sold, call, payments, bound, invoices, live, settled,
                     evidence, network, effects>>
  BY AskedBy DEF Agent!Deliver, Agent!At, AskIs, Verified, Agent!others, Agent!remote
<1>2. /\ StateOf(r) \in {"settled", "delivered"} /\ invoices[InvoiceOf(r)] = call[r[1]].op
      /\ call[r[1]].invoice \in payments
  BY <1>1 DEF AskIs, Verified
<1>3. PICK new : new = [requests[r] EXCEPT !.step = "record"]
  OBVIOUS
<1>4. new \in RequestKind /\ new.step = "record" /\ new.answer = "none"
  BY <1>1, <1>3, NewStep DEF AskSteps, AskIs, RequestKind
<1>5. GoesTo(r, new)
  BY <1>1, <1>3, <1>4 DEF GoesTo, Agent!Deliver, Agent!To
<1>6. /\ invocation' = [invocation EXCEPT ![KeyOf(r)].state = "delivered"]
      /\ invocation' \in [Agent!Keys -> InvocationKind]
      /\ \A op \in Agent!Calls : invocation'[<<op, 0>>].state =
               IF op = call[r[1]].op THEN "delivered" ELSE invocation[<<op, 0>>].state
  BY <1>1, StateMoves DEF Agent!Deliver
<1>7. Grown
  BY <1>1, <1>6 DEF Grown, Invoices
<1>8. Done(KeyOf(r)) /\ SettledFor(call[r[1]].op)
  BY <1>1, <1>2 DEF AgentInv, RecordsTrue, KeyOf, StateOf
<1>9. \E i \in settled' : invoices'[i] = call[r[1]].op
  BY <1>1, <1>8 DEF SettledFor
<1>10. RecordsTrue'
  BY <1>1, <1>2, <1>6, <1>7, <1>8, <1>9, StatesTrue
<1>11. AskOK(r)'
  <2>1. requests'[r] = new /\ StateOf(r)' = "delivered"
    BY <1>1, <1>5, <1>6 DEF GoesTo, AgentInv, AgentTypes, StateOf, KeyOf
  <2>2. invoices'[InvoiceOf(r)'] = call'[r[1]].op
    BY <1>1, <1>2 DEF InvoiceOf
  <2> QED
    BY <1>1, <1>2, <1>4, <2>1, <2>2 DEF AskOK, AskIs, Verified
<1> QED
  BY <1>1, <1>4, <1>5, <1>6, <1>7, <1>10, <1>11, RecordKinds, GatewayStep DEF Invoices

LEMMA RecordStep == ASSUME AgentInv, NEW r \in Agent!Requests, Agent!Record(r) PROVE AgentInv'
<1>1. /\ requests[r].step = "record" /\ AskIs(r, requests[r])
      /\ Agent!Key(r) = KeyOf(r) /\ KeyOf(r) \in Agent!Keys /\ Agent!Invoice(r) = InvoiceOf(r)
      /\ r[1] \in Agent!Calls /\ r[2] = "paid" /\ call[r[1]].op \in Agent!Calls
      /\ UNCHANGED <<now, offset, sold, call, payments, bound, invocation, invoices, live,
                     settled, network, effects>>
  BY AskedBy DEF Agent!Record, Agent!At, AskIs, Verified, Agent!others, Agent!remote
<1>2. /\ StateOf(r) = "delivered" /\ invoices[InvoiceOf(r)] = call[r[1]].op
      /\ call[r[1]].invoice \in payments
  BY <1>1 DEF AskIs, Verified
<1>3. PICK e : e = [request |-> r, key |-> KeyOf(r), invoice |-> InvoiceOf(r)]
  OBVIOUS
<1>4. /\ evidence' = evidence \cup {e}
      /\ e.key = KeyOf(r) /\ e.invoice = InvoiceOf(r)
  BY <1>1, <1>3 DEF Agent!Record, Agent!Evidence
<1>5. PICK answer \in {"result", "refused"} : Agent!Reply(r, answer)
  BY DEF Agent!Record
<1>6. PICK new : new = [Agent!NotSent EXCEPT !.step = "ended", !.answer = answer]
  OBVIOUS
<1>7. new \in RequestKind /\ new.step = "ended" /\ new.answer = answer
  BY <1>6, NotSentKind DEF RequestKind
<1>8. GoesTo(r, new)
  BY <1>1, <1>5, <1>6, <1>7 DEF GoesTo, Agent!Reply
<1>9. Grown
  BY <1>1, <1>4 DEF Grown, Invoices
<1>10. RecordsTrue'
  <2>1. Done(KeyOf(r)) /\ SettledFor(invoices[InvoiceOf(r)]) /\ InvoiceOf(r) \in payments
    BY <1>1, <1>2 DEF AgentInv, RecordsTrue, KeyOf, StateOf, InvoiceOf
  <2>2. \A x \in evidence' :
            x.invoice \in payments /\ Done(x.key) /\ SettledFor(invoices[x.invoice])
    BY <1>4, <2>1 DEF AgentInv, RecordsTrue
  <2> QED
    BY <1>1, <2>2 DEF AgentInv, RecordsTrue, Done, SettledFor
<1>11. AskOK(r)'
  <2>1. requests'[r] = new /\ KeyOf(r)' = KeyOf(r) /\ InvoiceOf(r)' = InvoiceOf(r)
    BY <1>1, <1>8 DEF GoesTo, AgentInv, AgentTypes, KeyOf, InvoiceOf
  <2>2. /\ new.step \notin Verified \cup {"verify", "quote"}
        /\ new.step # "none" /\ new.answer # "quoted"
        /\ new.answer # "none" => new.step = "ended"
    BY <1>7 DEF Verified
  <2>3. [request |-> r, key |-> KeyOf(r)', invoice |-> InvoiceOf(r)'] \in evidence'
    BY <1>3, <1>4, <2>1
  <2> QED
    BY <1>1, <1>2, <2>1, <2>2, <2>3 DEF AskOK, AskIs, Verified
<1> QED
  BY <1>1, <1>7, <1>8, <1>9, <1>10, <1>11, RecordKinds, GatewayStep DEF Invoices

LEMMA RefusalSteps ==
    ASSUME AgentInv, NEW r \in Agent!Requests, Agent!GiveUp(r) \/ Agent!Crash(r)
    PROVE  AgentInv'
<1>1. requests[r].step # "none" /\ Agent!Reply(r, "refused")
  BY DEF Agent!GiveUp, Agent!Crash, Agent!At
<1>2. UNCHANGED <<now, offset, sold, call, Agent!gateway, payments, network, effects>>
  BY DEF Agent!GiveUp, Agent!Crash, Agent!others, Agent!remote
<1> QED
  BY <1>1, <1>2, RefusedStep

\* The provider acts within the life of the assertion, and that is soon after the check.
LEMMA ServeStep == ASSUME AgentInv, NEW m \in network, Agent!Serve(m) PROVE AgentInv'
<1>1. PICK r \in Agent!Requests : r = m.request
  BY DEF AgentInv, AgentTypes, MessageKind
<1>2. /\ requests[r].step # "none" /\ m.key = KeyOf(r)
      /\ CheckedAt(m.checked) /\ m.issuedAt <= m.checked + HandlerTime
      /\ requests[r] \in RequestKind /\ AskIs(r, requests[r])
      /\ r[1] \in Agent!Calls /\ KeyOf(r) \in Agent!Keys
  BY <1>1, AskedBy DEF AgentInv, NetworkOK
<1>3. UNCHANGED <<now, offset, sold, call, payments, bound, invocation, invoices, live, settled,
                  evidence>>
  BY DEF Agent!Serve, Agent!gateway
<1>4. /\ network' = network \ {m} /\ effects \subseteq effects'
      /\ \E e \in effects' : e.key = m.key
      /\ \A e \in effects' \ effects :
            e = [key |-> m.key, at |-> now, checked |-> m.checked]
  <2>1. PICK done : done = [key |-> m.key, at |-> now, checked |-> m.checked]
    OBVIOUS
  <2>2. done.key = m.key
    BY <2>1
  <2>3. /\ network' = network \ {m}
        /\ effects' = IF \E e \in effects : e.key = m.key THEN effects ELSE effects \cup {done}
    BY <2>1 DEF Agent!Serve
  <2> QED
    BY <2>1, <2>2, <2>3
<1>5. Grown
  BY <1>3, <1>4 DEF Grown, Invoices
<1>6. RecordsTrue'
  BY <1>3, <1>5, RecordsKeep
<1>7. effects' \subseteq EffectKind /\ EffectsOK'
  <2>1. /\ now \in Nat /\ offset \in Int /\ -Skew <= offset
        /\ m.issuedAt \in Nat /\ m.checked \in Nat /\ m.key \in Agent!Keys
        /\ HandlerTime \in Nat /\ Ttl \in Nat /\ Skew \in Nat
    BY ClientsAssumption DEF AgentInv, AgentTypes, MessageKind
  <2>2. now + offset < m.issuedAt + Ttl
    BY DEF Agent!Serve, Agent!VerifyAssertion
  <2>3. now < m.checked + HandlerTime + Ttl + Skew
    BY <1>2, <2>1, <2>2
  <2>4. ASSUME NEW e \in effects'
        PROVE  /\ e \in EffectKind /\ CheckedAt(e.checked)'
               /\ e.at < e.checked + HandlerTime + Ttl + Skew
    <3>1. CASE e \in effects
      BY <1>5, <3>1, CheckedLater DEF AgentInv, AgentTypes, EffectsOK
    <3>2. CASE e \notin effects
      <4>1. e = [key |-> m.key, at |-> now, checked |-> m.checked]
        BY <1>4, <3>2
      <4>2. e \in EffectKind /\ e.at = now /\ e.checked = m.checked
        BY <2>1, <4>1 DEF EffectKind
      <4>3. CheckedAt(m.checked)'
        BY <1>2, <1>5, CheckedLater
      <4> QED
        BY <2>3, <4>2, <4>3 DEF CheckedAt
    <3> QED
      BY <3>1, <3>2
  <2> QED
    BY <2>4 DEF EffectsOK
<1>8. PICK new \in RequestKind :
          /\ GoesTo(r, new)
          /\ \/ new = requests[r]
             \/ new = [requests[r] EXCEPT !.step = "answered"] /\ requests[r].step = "execute"
  <2>1. CASE requests[r].step = "execute" /\ Agent!To(r, "answered")
    <3>1. PICK new : new = [requests[r] EXCEPT !.step = "answered"]
      OBVIOUS
    <3>2. new \in RequestKind /\ new.step = "answered"
      BY <1>2, <3>1, NewStep DEF AskSteps
    <3> QED
      BY <1>2, <1>3, <2>1, <3>1, <3>2 DEF GoesTo, Agent!To
  <2>2. CASE requests' = requests
    <3>1. requests' = [requests EXCEPT ![r] = requests[r]]
      BY <2>2 DEF AgentInv, AgentTypes
    <3> QED
      BY <1>2, <1>3, <3>1 DEF GoesTo
  <2> QED
    BY <1>1, <2>1, <2>2 DEF Agent!Serve, Agent!At
<1>9. requests'[r] = new
  BY <1>8 DEF GoesTo, AgentInv, AgentTypes
<1>10. AskOK(r)'
  <2>1. CASE new = requests[r]
    BY <1>3, <1>5, <1>9, <2>1, AskKeeps
  <2>2. CASE new = [requests[r] EXCEPT !.step = "answered"] /\ requests[r].step = "execute"
    <3>1. new.step = "answered" /\ new.answer = "none"
      BY <1>2, <2>2 DEF RequestKind, AskIs
    <3>2. /\ r[2] = "paid" /\ call[r[1]].invoice \in payments
          /\ invoices[InvoiceOf(r)] = call[r[1]].op
      BY <1>2, <2>2 DEF AskIs, Verified
    <3>3. Done(KeyOf(r))' /\ invoices'[InvoiceOf(r)'] = call'[r[1]].op
      BY <1>2, <1>3, <1>4, <3>2 DEF Done, KeyOf, InvoiceOf
    <3> QED
      BY <1>3, <1>9, <3>1, <3>2, <3>3 DEF AskOK, AskIs, Verified
  <2> QED
    BY <1>8, <2>1, <2>2
<1>11. network' \subseteq MessageKind /\ NetworkOK'
  <2>1. \A q \in Agent!Requests : requests'[q].step = "none" <=> requests[q].step = "none"
    BY <1>5, <1>8, CallsKeep DEF Grown
  <2>2. ASSUME NEW w \in network'
        PROVE  /\ w \in MessageKind
               /\ requests'[w.request].step # "none" /\ w.key = KeyOf(w.request)'
               /\ CheckedAt(w.checked)' /\ w.issuedAt <= w.checked + HandlerTime
    <3>1. w \in network /\ w \in MessageKind /\ w.request \in Agent!Requests
      BY <1>4 DEF AgentInv, AgentTypes, MessageKind
    <3> QED
      BY <1>3, <1>5, <2>1, <3>1, CheckedLater DEF AgentInv, NetworkOK, KeyOf
  <2> QED
    BY <2>2 DEF NetworkOK
<1> QED
  BY <1>3, <1>5, <1>6, <1>7, <1>8, <1>10, <1>11, RecordKinds, SendingStep DEF Invoices

-----------------------------------------------------------------------------
\* The quotes, the owner, or nothing at all: no call, request or record moves.
LEMMA StandingStep ==
    ASSUME AgentInv, now' = now, sold' \in {sold, now}, live' \subseteq Invoices,
           UNCHANGED <<offset, call, requests, bound, invocation, invoices, payments, settled,
                       evidence, network, effects>>
    PROVE  AgentInv'
<1>1. Grown
  BY DEF Grown, Invoices
<1>2. RecordsTrue'
  BY <1>1, RecordsKeep
<1>3. NetworkOK' /\ EffectsOK'
  BY <1>1, MessagesKeep
<1>4. \A r \in Agent!Requests : AskOK(r)'
  BY <1>1, AskKeeps
<1>5. \A c \in Agent!Calls : CallOK(c)'
  BY DEF AgentInv, CallOK, Invoices
<1>6. AgentTypes'
  BY DEF AgentInv, AgentTypes, Invoices
<1> QED
  BY <1>2, <1>3, <1>4, <1>5, <1>6 DEF AgentInv

LEMMA TickStep == AgentInv /\ Agent!Tick => AgentInv'
<1> SUFFICES ASSUME AgentInv, Agent!Tick PROVE AgentInv'
  OBVIOUS
<1>1. /\ now' = now + 1 /\ now \in Nat
      /\ UNCHANGED <<offset, sold, call, requests, bound, invocation, invoices, live, payments,
                     settled, evidence, network, effects>>
  BY DEF Agent!Tick, Agent!gateway, Agent!remote, AgentInv, AgentTypes
<1>2. ASSUME NEW time, CheckedAt(time), time \in Nat PROVE CheckedAt(time)'
  BY <1>1, <1>2 DEF CheckedAt
<1>3. ASSUME NEW r \in Agent!Requests PROVE AskOK(r)'
  <2>1. PICK q \in RequestKind : q = requests[r]
    BY AskedBy
  <2>2. AskIs(r, q) /\ requests'[r] = q /\ q.since \in Nat /\ HandlerTime \in Nat
    BY <1>1, <2>1, AskedBy, ClientsAssumption DEF RequestKind
  <2>3. q.step \in {"quote", "verify", "lookup"} =>
            CheckedAt(q.since)' /\ now' <= q.since + HandlerTime
    <3>1. SUFFICES ASSUME q.step \in {"quote", "verify", "lookup"}
                   PROVE  CheckedAt(q.since)' /\ now' <= q.since + HandlerTime
      OBVIOUS
    <3>2. now < q.since + HandlerTime
      BY <2>1, <3>1 DEF Agent!Tick
    <3>3. CheckedAt(q.since)
      BY <2>2, <3>1 DEF AskIs
    <3> QED
      BY <1>1, <1>2, <2>2, <3>2, <3>3
  <2> QED
    BY <1>1, <2>2, <2>3 DEF AskOK, AskIs, KeyOf, InvoiceOf, StateOf, Done, Invoices
<1>4. NetworkOK'
  <2>1. ASSUME NEW m \in network
        PROVE  /\ requests[m.request].step # "none" /\ m.key = KeyOf(m.request)
               /\ CheckedAt(m.checked)' /\ m.issuedAt <= m.checked + HandlerTime
    <3>1. m.checked \in Nat
      BY DEF AgentInv, AgentTypes, MessageKind
    <3> QED
      BY <1>2, <3>1 DEF AgentInv, NetworkOK
  <2> QED
    BY <1>1, <2>1 DEF NetworkOK, KeyOf
<1>5. EffectsOK'
  <2>1. ASSUME NEW e \in effects
        PROVE  CheckedAt(e.checked)' /\ e.at < e.checked + HandlerTime + Ttl + Skew
    <3>1. e.checked \in Nat
      BY DEF AgentInv, AgentTypes, EffectKind
    <3> QED
      BY <1>2, <3>1 DEF AgentInv, EffectsOK
  <2> QED
    BY <1>1, <2>1 DEF EffectsOK
<1>6. RecordsTrue'
  BY <1>1 DEF AgentInv, RecordsTrue, Done, SettledFor
<1>7. \A c \in Agent!Calls : CallOK(c)'
  BY <1>1 DEF AgentInv, CallOK, Invoices
<1>8. AgentTypes'
  BY <1>1 DEF AgentInv, AgentTypes, Invoices
<1> QED
  BY <1>3, <1>4, <1>5, <1>6, <1>7, <1>8 DEF AgentInv

\* A call of the SDK becomes record; its requests are sent or stay where they are.
LEMMA ClientStep ==
    ASSUME AgentInv, NEW c \in Agent!Calls, NEW record \in CallKind,
           call' = [call EXCEPT ![c] = record],
           requests' \in [Agent!Requests -> RequestKind],
           \A r \in Agent!Requests : r[1] # c => requests'[r] = requests[r],
           \A r \in Agent!Requests : r[1] = c /\ requests[r].step # "none" =>
               requests'[r].step # "none" /\ record.op = call[c].op,
           payments \subseteq payments', payments' \subseteq Invoices,
           UNCHANGED <<now, offset, sold, Agent!gateway, network, effects>>,
           CallOK(c)',
           \A r \in Agent!Requests : r[1] = c => AskOK(r)'
    PROVE  AgentInv'
<1>1. UNCHANGED <<bound, invocation, invoices, live, settled, evidence>>
  BY DEF Agent!gateway
<1>2. Grown
  BY <1>1 DEF Grown, Invoices
<1>3. /\ call' \in [Agent!Calls -> CallKind]
      /\ call'[c] = record /\ \A d \in Agent!Calls : d # c => call'[d] = call[d]
  BY DEF AgentInv, AgentTypes
<1>4. ASSUME NEW r \in Agent!Requests PROVE AskOK(r)'
  <2>1. CASE r[1] = c
    BY <2>1
  <2>2. CASE r[1] # c
    <3>1. requests'[r] = requests[r] /\ call'[r[1]] = call[r[1]]
      BY <1>3, <2>2, AskedBy
    <3> QED
      BY <1>2, <3>1, AskKeeps
  <2> QED
    BY <2>1, <2>2
<1>5. ASSUME NEW d \in Agent!Calls PROVE CallOK(d)'
  <2>1. CASE d = c
    BY <2>1
  <2>2. CASE d # c
    <3>1. /\ <<d, "first">> \in Agent!Requests /\ <<d, "paid">> \in Agent!Requests
          /\ <<d, "first">>[1] = d /\ <<d, "paid">>[1] = d
      BY DEF Agent!Requests
    <3>2. /\ requests'[<<d, "first">>] = requests[<<d, "first">>]
          /\ requests'[<<d, "paid">>] = requests[<<d, "paid">>]
          /\ call'[d] = call[d]
      BY <1>3, <2>2, <3>1
    <3>3. CallOK(d)
      BY DEF AgentInv
    <3> QED
      BY <1>1, <3>2, <3>3 DEF CallOK, Invoices
  <2> QED
    BY <2>1, <2>2
<1>6. RecordsTrue'
  BY <1>1, <1>2, RecordsKeep
<1>7. NetworkOK' /\ EffectsOK'
  <2>1. ASSUME NEW q \in Agent!Requests, requests[q].step # "none"
        PROVE  requests'[q].step # "none" /\ call'[q[1]].op = call[q[1]].op
    BY <1>3, <2>1, AskedBy
  <2> QED
    BY <1>2, <2>1, MessagesKeep
<1>8. AgentTypes'
  BY <1>1, <1>3 DEF AgentInv, AgentTypes, Invoices
<1> QED
  BY <1>4, <1>5, <1>6, <1>7, <1>8 DEF AgentInv

\* The two requests a call may send
LEMMA Legs ==
    ASSUME NEW c \in Agent!Calls
    PROVE  /\ <<c, "first">> \in Agent!Requests /\ <<c, "paid">> \in Agent!Requests
           /\ <<c, "first">> # <<c, "paid">>
           /\ <<c, "first">>[1] = c /\ <<c, "first">>[2] = "first"
           /\ <<c, "paid">>[1] = c /\ <<c, "paid">>[2] = "paid"
           /\ \A r \in Agent!Requests : r[1] = c => r = <<c, "first">> \/ r = <<c, "paid">>
  BY DEF Agent!Requests

LEMMA StartStep == ASSUME AgentInv, NEW c \in Agent!Calls, Agent!Start(c) PROVE AgentInv'
<1>1. PICK f : f = <<c, "first">>
  OBVIOUS
<1>2. PICK p : p = <<c, "paid">>
  OBVIOUS
<1>3. /\ f \in Agent!Requests /\ p \in Agent!Requests /\ f # p
      /\ f[1] = c /\ f[2] = "first" /\ p[1] = c /\ p[2] = "paid"
      /\ \A r \in Agent!Requests : r[1] = c => r = f \/ r = p
  BY <1>1, <1>2, Legs
<1>4. PICK op \in Agent!Calls : op = IF supplies THEN 1 ELSE c
  BY ClientsAssumption DEF Agent!Calls
<1>5. PICK record : record = [step |-> "first", op |-> op, invoice |-> 0]
  OBVIOUS
<1>6. record \in CallKind /\ record.step = "first" /\ record.op = op
  BY <1>4, <1>5, ClientsAssumption DEF CallKind, Agent!Calls
<1>7. /\ call' = [call EXCEPT ![c] = record]
      /\ requests' = [requests EXCEPT ![f].step = "sent"]
      /\ UNCHANGED <<now, offset, sold, Agent!gateway, payments, network, effects>>
  BY <1>1, <1>4, <1>5 DEF Agent!Start, Agent!Send, Agent!remote
<1>8. requests[f].step = "none" /\ requests[p].step = "none"
  <2>1. call[c].step = "idle"
    BY DEF Agent!Start, Agent!Idle
  <2> QED
    BY <1>1, <1>2, <2>1 DEF AgentInv, CallOK
<1>9. PICK new : new = [requests[f] EXCEPT !.step = "sent"]
  OBVIOUS
<1>10. /\ new \in RequestKind /\ new.step = "sent" /\ new.answer = "none"
       /\ requests[p].answer = "none"
  <2>1. /\ requests[f] \in RequestKind /\ requests[p] \in RequestKind
        /\ requests[f].answer = "none" /\ requests[p].answer = "none"
    BY <1>3, <1>8, AskedBy DEF AskIs
  <2> QED
    BY <1>9, <2>1, NewStep DEF AskSteps
<1>11. /\ requests' \in [Agent!Requests -> RequestKind]
       /\ requests'[f] = new
       /\ \A r \in Agent!Requests : r # f => requests'[r] = requests[r]
  BY <1>3, <1>7, <1>9, <1>10 DEF AgentInv, AgentTypes
<1>12. call'[c] = record
  BY <1>7 DEF AgentInv, AgentTypes
<1>13. CallOK(c)'
  <2>1. requests'[<<c, "paid">>].step = "none"
    BY <1>2, <1>3, <1>8, <1>11
  <2> QED
    BY <1>6, <1>12, <2>1 DEF CallOK
<1>14. AskOK(f)' /\ AskOK(p)'
  <2>1. requests'[p] = requests[p]
    BY <1>3, <1>11
  <2> QED
    BY <1>3, <1>8, <1>10, <1>11, <2>1 DEF AskOK, AskIs, Verified
<1>15. \A r \in Agent!Requests : r[1] = c => AskOK(r)'
  <2>1. ASSUME NEW r \in Agent!Requests, r[1] = c PROVE AskOK(r)'
    <3>1. r = f \/ r = p
      BY <1>3, <2>1
    <3> QED
      BY <1>14, <3>1
  <2> QED
    BY <2>1
<1>16. \A r \in Agent!Requests : r[1] # c => requests'[r] = requests[r]
  BY <1>3, <1>11
<1>17. \A r \in Agent!Requests : r[1] = c => requests[r].step = "none"
  BY <1>3, <1>8
<1>18. payments' = payments /\ payments \subseteq Invoices
  BY <1>7, RecordKinds
<1> QED
  BY <1>6, <1>7, <1>11, <1>13, <1>15, <1>16, <1>17, <1>18, ClientStep

LEMMA PayStep == ASSUME AgentInv, NEW c \in Agent!Calls, Agent!Pay(c) PROVE AgentInv'
<1>1. PICK f : f = <<c, "first">>
  OBVIOUS
<1>2. PICK p : p = <<c, "paid">>
  OBVIOUS
<1>3. /\ f \in Agent!Requests /\ p \in Agent!Requests /\ f # p
      /\ f[1] = c /\ f[2] = "first" /\ p[1] = c /\ p[2] = "paid"
      /\ \A r \in Agent!Requests : r[1] = c => r = f \/ r = p
  BY <1>1, <1>2, Legs
<1>4. PICK record : record = [call[c] EXCEPT !.step = "paid"]
  OBVIOUS
<1>5. /\ record \in CallKind /\ record.step = "paid" /\ record.op = call[c].op
      /\ record.invoice = call[c].invoice
  BY <1>4 DEF AgentInv, AgentTypes, CallKind
<1>6. /\ call[c].step = "pay" /\ call' = [call EXCEPT ![c] = record]
      /\ requests' = [requests EXCEPT ![p].step = "sent"]
      /\ payments' = payments \cup {call[c].invoice}
      /\ UNCHANGED <<now, offset, sold, Agent!gateway, network, effects>>
  BY <1>2, <1>4 DEF Agent!Pay, Agent!Send, Agent!remote
<1>7. /\ requests[p].step = "none" /\ call[c].op \in Agent!Calls
      /\ call[c].invoice \in Invoices
  BY <1>2, <1>6 DEF AgentInv, CallOK
<1>8. PICK new : new = [requests[p] EXCEPT !.step = "sent"]
  OBVIOUS
<1>9. new \in RequestKind /\ new.step = "sent" /\ new.answer = "none"
  <2>1. requests[p] \in RequestKind /\ requests[p].answer = "none"
    BY <1>3, <1>7, AskedBy DEF AskIs
  <2> QED
    BY <1>8, <2>1, NewStep DEF AskSteps
<1>10. /\ requests' \in [Agent!Requests -> RequestKind]
       /\ requests'[p] = new
       /\ \A r \in Agent!Requests : r # p => requests'[r] = requests[r]
  BY <1>3, <1>6, <1>8, <1>9 DEF AgentInv, AgentTypes
<1>11. call'[c] = record
  BY <1>6 DEF AgentInv, AgentTypes
<1>12. CallOK(c)'
  BY <1>5, <1>7, <1>11 DEF CallOK
<1>13. Grown
  <2>1. UNCHANGED <<bound, invocation, invoices, live, settled, evidence>>
    BY <1>6 DEF Agent!gateway
  <2> QED
    BY <1>6, <2>1 DEF Grown, Invoices
<1>14. AskOK(f)'
  <2>1. requests'[f] = requests[f] /\ call'[f[1]].op = call[f[1]].op /\ f[2] # "paid"
    BY <1>3, <1>5, <1>10, <1>11
  <2> QED
    BY <1>3, <1>13, <2>1, AskKeeps
<1>15. AskOK(p)'
  <2>1. call'[p[1]].invoice \in payments'
    BY <1>3, <1>5, <1>6, <1>11
  <2> QED
    BY <1>3, <1>9, <1>10, <2>1 DEF AskOK, AskIs, Verified
<1>16. \A r \in Agent!Requests : r[1] = c => AskOK(r)'
  <2>1. ASSUME NEW r \in Agent!Requests, r[1] = c PROVE AskOK(r)'
    <3>1. r = f \/ r = p
      BY <1>3, <2>1
    <3> QED
      BY <1>14, <1>15, <3>1
  <2> QED
    BY <2>1
<1>17. \A r \in Agent!Requests : r[1] # c => requests'[r] = requests[r]
  BY <1>3, <1>10
<1>18. \A r \in Agent!Requests : r[1] = c /\ requests[r].step # "none" =>
           requests'[r].step # "none" /\ record.op = call[c].op
  BY <1>3, <1>5, <1>7, <1>10
<1>19. payments \subseteq payments' /\ payments' \subseteq Invoices
  BY <1>6, <1>7, RecordKinds
<1> QED
  BY <1>5, <1>6, <1>10, <1>12, <1>16, <1>17, <1>18, <1>19, ClientStep

\* A call hears an answer, or throws.
LEMMA HearStep ==
    ASSUME AgentInv, NEW c \in Agent!Calls,
           \/ Agent!Receive(c, "first")
           \/ Agent!Receive(c, "paid")
           \/ Agent!Throw(c)
    PROVE  AgentInv'
<1>1. PICK f : f = <<c, "first">>
  OBVIOUS
<1>2. PICK p : p = <<c, "paid">>
  OBVIOUS
<1>3. /\ f \in Agent!Requests /\ p \in Agent!Requests /\ f # p
      /\ f[1] = c /\ f[2] = "first" /\ p[1] = c /\ p[2] = "paid"
      /\ \A r \in Agent!Requests : r[1] = c => r = f \/ r = p
  BY <1>1, <1>2, Legs
<1>4. UNCHANGED <<now, offset, sold, requests, Agent!gateway, payments, network, effects>>
  BY DEF Agent!Receive, Agent!Throw, Agent!remote
<1>5. /\ call[c] \in CallKind /\ call[c].step # "idle" /\ call[c].op \in Agent!Calls
      /\ call[c].step \in {"first", "pay"} => requests[p].step = "none"
  <2>1. call[c].step # "idle"
    BY DEF Agent!Receive, Agent!Throw
  <2> QED
    BY <1>2, <2>1 DEF AgentInv, AgentTypes, CallOK
<1>6. PICK record \in CallKind :
          /\ call' = [call EXCEPT ![c] = record]
          /\ record.op = call[c].op /\ record.step \in {"pay", "served", "failed"}
          /\ \/ record.invoice = call[c].invoice /\ record.step # "pay"
             \/ /\ requests[p].step = "none"
                /\ record.step = "pay" => record.invoice \in Invoices
  <2>1. CASE Agent!Throw(c)
    <3>1. PICK record : record = [call[c] EXCEPT !.step = "failed"]
      OBVIOUS
    <3>2. /\ record \in CallKind /\ record.op = call[c].op /\ record.step = "failed"
          /\ record.invoice = call[c].invoice
      BY <1>5, <3>1 DEF CallKind
    <3>3. call' = [call EXCEPT ![c] = record]
      BY <2>1, <3>1 DEF Agent!Throw, AgentInv, AgentTypes
    <3> QED
      BY <3>2, <3>3
  <2>2. ASSUME NEW leg \in {"first", "paid"}, Agent!Receive(c, leg)
        PROVE  \E record \in CallKind :
                  /\ call' = [call EXCEPT ![c] = record]
                  /\ record.op = call[c].op /\ record.step \in {"pay", "served", "failed"}
                  /\ \/ record.invoice = call[c].invoice /\ record.step # "pay"
                     \/ /\ requests[p].step = "none"
                        /\ record.step = "pay" => record.invoice \in Invoices
    <3>1. PICK q \in RequestKind : q = requests[<<c, leg>>] /\ AskIs(<<c, leg>>, q)
      <4>1. <<c, leg>> \in Agent!Requests
        BY DEF Agent!Requests
      <4> QED
        BY <4>1, AskedBy
    <3>2. PICK step : step = CASE q.answer = "quoted" -> "pay"
                               [] q.answer = "result" -> "served"
                               [] OTHER -> "failed"
      OBVIOUS
    <3>3. step \in {"pay", "served", "failed"} /\ (step = "pay" => q.answer = "quoted")
      BY <3>2
    <3>4. PICK invoice \in Nat : invoice = IF leg = "first" THEN q.invoice ELSE call[c].invoice
      BY <1>5, <3>1 DEF RequestKind, CallKind
    <3>5. PICK record : record = [call[c] EXCEPT !.step = step, !.invoice = invoice]
      OBVIOUS
    <3>6. /\ record \in CallKind /\ record.op = call[c].op /\ record.step = step
          /\ record.invoice = invoice
      BY <1>5, <3>3, <3>4, <3>5 DEF CallKind
    <3>7. call' = [call EXCEPT ![c] = record] /\ call[c].step = leg
      BY <2>2, <3>1, <3>2, <3>4, <3>5 DEF Agent!Receive, AgentInv, AgentTypes
    <3>8. CASE leg = "first"
      <4>1. step = "pay" => invoice \in Invoices
        BY <3>1, <3>3, <3>4, <3>8 DEF AskIs
      <4> QED
        BY <1>5, <3>3, <3>6, <3>7, <3>8, <4>1
    <3>9. CASE leg = "paid"
      <4>1. step # "pay"
        BY <3>1, <3>3, <3>9 DEF AskIs
      <4> QED
        BY <3>3, <3>4, <3>6, <3>7, <3>9, <4>1
    <3> QED
      BY <3>8, <3>9
  <2> QED
    BY <2>1, <2>2
<1>7. call'[c] = record
  BY <1>6 DEF AgentInv, AgentTypes
<1>8. UNCHANGED <<bound, invocation, invoices, live, settled, evidence>>
  BY <1>4 DEF Agent!gateway
<1>9. Grown
  BY <1>4, <1>8 DEF Grown, Invoices
<1>10. CallOK(c)'
  BY <1>2, <1>4, <1>5, <1>6, <1>7, <1>8 DEF CallOK, Invoices
<1>11. AskOK(f)'
  <2>1. requests'[f] = requests[f] /\ call'[f[1]].op = call[f[1]].op /\ f[2] # "paid"
    BY <1>3, <1>4, <1>6, <1>7
  <2> QED
    BY <1>3, <1>9, <2>1, AskKeeps
<1>12. AskOK(p)'
  <2>1. /\ requests'[p] = requests[p] /\ call'[p[1]].op = call[p[1]].op
        /\ requests[p].step # "none" => call'[p[1]].invoice = call[p[1]].invoice
    BY <1>3, <1>4, <1>6, <1>7
  <2> QED
    BY <1>3, <1>9, <2>1, AskKeeps
<1>13. \A r \in Agent!Requests : r[1] = c => AskOK(r)'
  <2>1. ASSUME NEW r \in Agent!Requests, r[1] = c PROVE AskOK(r)'
    <3>1. r = f \/ r = p
      BY <1>3, <2>1
    <3> QED
      BY <1>11, <1>12, <3>1
  <2> QED
    BY <2>1
<1>14. /\ payments' = payments /\ payments \subseteq Invoices
       /\ requests' \in [Agent!Requests -> RequestKind]
  BY <1>4, RecordKinds DEF AgentInv, AgentTypes
<1> QED
  BY <1>4, <1>6, <1>10, <1>13, <1>14, ClientStep

-----------------------------------------------------------------------------
LEMMA AgentNext == AgentInv /\ (Agent!Next \/ UNCHANGED agentVars) => AgentInv'
<1> SUFFICES ASSUME AgentInv, Agent!Next \/ UNCHANGED agentVars PROVE AgentInv'
  OBVIOUS
<1>1. CASE \E c \in Agent!Calls : \/ Agent!Start(c) \/ Agent!Pay(c) \/ Agent!Throw(c)
                                  \/ Agent!Receive(c, "first") \/ Agent!Receive(c, "paid")
  BY <1>1, StartStep, PayStep, HearStep
<1>2. CASE \E r \in Agent!Requests :
          \/ Agent!Authenticate(r) \/ Agent!Quote(r) \/ Agent!VerifyPayment(r)
          \/ Agent!Delivered(r) \/ Agent!Follow(r) \/ Agent!GiveUp(r) \/ Agent!Acquire(r)
          \/ Agent!Complete(r) \/ Agent!Settle(r) \/ Agent!Deliver(r) \/ Agent!Record(r)
          \/ Agent!Crash(r)
  BY <1>2, AuthenticateStep, QuoteStep, VerifyPaymentStep, FollowStep, RefusalSteps,
     AcquireStep, CompleteStep, SettleStep, DeliverStep, RecordStep
<1>3. CASE \E m \in network : Agent!Serve(m)
  BY <1>3, ServeStep
<1>4. CASE Agent!Tick
  BY <1>4, TickStep
<1>5. ASSUME NEW i \in live, Agent!QuoteExpires(i) PROVE AgentInv'
  <2>1. /\ live' \subseteq Invoices
        /\ UNCHANGED <<now, offset, sold, call, requests, bound, invocation, invoices, payments,
                       settled, evidence, network, effects>>
    BY <1>5, RecordKinds DEF Agent!QuoteExpires, Agent!others, Agent!remote
  <2> QED
    BY <2>1, StandingStep
<1>6. CASE Agent!Sell
  <2>1. /\ sold' = now /\ live' = live
        /\ UNCHANGED <<now, offset, call, requests, bound, invocation, invoices, payments,
                       settled, evidence, network, effects>>
    BY <1>6 DEF Agent!Sell, Agent!gateway, Agent!remote
  <2> QED
    BY <2>1, RecordKinds, StandingStep
<1>7. CASE UNCHANGED agentVars
  <2>1. UNCHANGED <<now, sold, live, offset, call, requests, bound, invocation, invoices,
                    payments, settled, evidence, network, effects>>
    BY <1>7 DEF agentVars
  <2> QED
    BY <2>1, RecordKinds, StandingStep
<1> QED
  BY <1>1, <1>2, <1>3, <1>4, <1>5, <1>6, <1>7 DEF Agent!Next

LEMMA AgentAlways == EachClient => []AgentInv
<1>1. EachInit => AgentInv
  BY AgentInit DEF EachInit
<1>2. AgentInv /\ [EachNext]_allVars => AgentInv'
  BY AgentNext DEF EachNext, allVars
<1> QED
  BY <1>1, <1>2, PTL DEF EachClient, allVars

\* However often the agent calls again, and whichever handlers it gave up go on: none of its
\* requests is refused as another request under the operation id, and a result that is answered,
\* like the evidence that is stored, is of what the provider did under that key, for an invoice
\* that was paid: for any number of calls, leases and deadlines.
THEOREM AnswersTrue == EachClient => []AnswersAreTrue
<1>1. AgentInv => Agent!RetryIsNeverAConflict
  BY DEF AgentInv, AgentTypes, RequestKind, Agent!RetryIsNeverAConflict
<1>2. ASSUME AgentInv PROVE Agent!EvidenceIsTrue
  <2>1. ASSUME NEW r \in Agent!Requests, requests[r].answer = "result"
        PROVE  Agent!Evidence(r) \in evidence
    BY <1>2, <2>1, AskedBy DEF AskIs, Agent!Evidence
  <2>2. ASSUME NEW e \in evidence
        PROVE  /\ \E done \in effects : done.key = e.key
               /\ e.invoice \in payments
               /\ \E i \in settled : invoices[i] = invoices[e.invoice]
    BY <1>2 DEF AgentInv, RecordsTrue, Done, SettledFor
  <2> QED
    BY <2>1, <2>2 DEF Agent!EvidenceIsTrue
<1> QED
  BY <1>1, <1>2, AgentAlways, PTL DEF AnswersAreTrue

\* Once the owner has sold the capability the provider does nothing more for it when the deadline
\* of a handler, the life of an assertion and the skew of the clocks have passed, whatever those
\* are and however long the request to the provider was under way.
THEOREM OwnerIsRecent == EachClient => []OwnedRecently
<1>1. ASSUME AgentInv PROVE Agent!OwnedRecently
  <2>1. ASSUME NEW e \in effects, sold # Agent!Never
        PROVE  e.at < sold + HandlerTime + Ttl + Skew + 1
    <3>1. /\ e.at \in Nat /\ e.checked \in Nat
          /\ HandlerTime \in Nat /\ Ttl \in Nat /\ Skew \in Nat
      BY <1>1, ClientsAssumption DEF AgentInv, AgentTypes, EffectKind
    <3>2. sold \in Nat
      BY <1>1, <2>1 DEF AgentInv, AgentTypes
    <3>3. e.checked <= sold /\ e.at < e.checked + HandlerTime + Ttl + Skew
      BY <1>1, <2>1 DEF AgentInv, EffectsOK, CheckedAt
    <3> QED
      BY <3>1, <3>2, <3>3
  <2> QED
    BY <2>1 DEF Agent!OwnedRecently
<1> QED
  BY <1>1, AgentAlways, PTL DEF OwnedRecently

-----------------------------------------------------------------------------
(***************************************************************************)
(* The independent provider: whoever is served held the capability while   *)
(* it was decided, for any number of requesters, requests, capabilities    *)
(* and policies, and any transfers, blocks and expiries between the reads  *)
(* of a decision.                                                          *)
(***************************************************************************)
CellType == [cap: Capabilities, genuine: BOOLEAN, owner: Owners, point: Nat, block: Nat]

Steps == {"idle", "cell", "subject", "decide", "commit", "denied", "authorized"}

ReqType == [step: Steps, by: Owners \cup {None}, cap: Capabilities \cup {<<>>}, point: Nat,
            host: Hosts, late: BOOLEAN, owner: Owners \cup {None}, block: Nat, proofs: Nat]

TypeInv ==
    /\ cells \subseteq CellType
    /\ subject \in Owners
    /\ height \in Nat /\ moves \in Nat /\ expired \in BOOLEAN
    /\ req \in [Decisions -> ReqType]
    /\ holders \in [Decisions -> SUBSET Owners]
    /\ reholders \in [Decisions -> SUBSET Owners]
    /\ subjects \in [Decisions -> SUBSET Owners]

\* The capability is in one cell of the accepted contract; the copies say the same.
OneCell(g) ==
    /\ g \in cells /\ g.genuine
    /\ \A x \in cells : (x.genuine => x = g) /\ x.cap = g.cap

Read(r) == req[r].step \in {"subject", "decide", "commit"}

\* Stage by stage, what the histories contain of what a request has read.
RequestOK(r) ==
    /\ Busy(r) => /\ Genuine.owner \in holders[r]
                  /\ req[r].cap = Genuine.cap
                  /\ req[r].late => expired
    /\ Read(r) => /\ Genuine.owner \in reholders[r]
                  /\ subject \in subjects[r]
                  /\ req[r].owner \in holders[r] \cap reholders[r]
                  /\ ~req[r].late
    /\ req[r].step \in {"decide", "commit"} /\ BoundTo(req[r].cap) => req[r].owner \in subjects[r]
    /\ req[r].step = "commit" => req[r].by = req[r].owner
    /\ req[r].step = "authorized" =>
          /\ req[r].by \in holders[r] \cap reholders[r]
          /\ BoundTo(req[r].cap) /\ req[r].host # "client" => req[r].by \in subjects[r]
          /\ ~req[r].late

Inv ==
    /\ TypeInv
    /\ OneCell(Genuine)
    /\ \A r \in Decisions : RequestOK(r)

-----------------------------------------------------------------------------
\* The cell of the capability is the one that is chosen for it.
LEMMA GenuineIs ==
    ASSUME NEW g, OneCell(g)
    PROVE  Genuine = g
<1>1. /\ g \in cells /\ g.genuine
      /\ \A x \in cells : x.genuine => x = g
  BY DEF OneCell
<1>2. \E x \in cells : x.genuine
  BY <1>1
<1>3. Genuine \in cells /\ Genuine.genuine
  BY <1>2, Zenon DEF Genuine
<1> QED
  BY <1>1, <1>3

LEMMA InitInv ==
    ASSUME Init, MaxMoves \in Nat
    PROVE  Inv
<1>1. PICK c \in Capabilities, lock \in Owners, copier \in Owners :
          cells = {[cap |-> c, genuine |-> g, owner |-> IF g THEN lock ELSE copier,
                    point |-> IF g THEN 0 ELSE MaxMoves + 1, block |-> 0] : g \in BOOLEAN}
  BY DEF Init
<1> DEFINE real == [cap |-> c, genuine |-> TRUE, owner |-> lock, point |-> 0, block |-> 0]
           copy == [cap |-> c, genuine |-> FALSE, owner |-> copier, point |-> MaxMoves + 1,
                    block |-> 0]
<1>2. cells = {real, copy}
  <2>1. ASSUME NEW g \in BOOLEAN
        PROVE  [cap |-> c, genuine |-> g, owner |-> IF g THEN lock ELSE copier,
                point |-> IF g THEN 0 ELSE MaxMoves + 1, block |-> 0]
                  = IF g THEN real ELSE copy
    OBVIOUS
  <2>2. cells = {IF g THEN real ELSE copy : g \in BOOLEAN}
    BY <1>1, <2>1
  <2> HIDE DEF real, copy
  <2> QED
    BY <2>2
<1>3. real \in CellType /\ copy \in CellType
  BY DEF CellType
<1>4. OneCell(real)
  BY <1>2 DEF OneCell
<1>5. Genuine = real
  BY <1>4, GenuineIs
<1>6. TypeInv
  <2>1. Idle \in ReqType
    BY DEF Idle, ReqType, Steps, Hosts
  <2> QED
    BY <1>2, <1>3, <2>1 DEF Init, TypeInv
<1>7. ASSUME NEW r \in Decisions PROVE RequestOK(r)
  BY DEF Init, RequestOK, Busy, Read, Idle
<1> QED
  BY <1>4, <1>5, <1>6, <1>7 DEF Inv

-----------------------------------------------------------------------------
\* The capability changes hands.
LEMMA TransferInv ==
    ASSUME Inv, NEW w \in Owners, Transfer(w)
    PROVE  Inv'
<1>1. PICK old : old = Genuine
  OBVIOUS
<1>2. PICK new :
          new = [old EXCEPT !.owner = w, !.point = moves + 1, !.block = height + 1]
  OBVIOUS
<1>3. /\ old \in CellType /\ old \in cells /\ old.genuine
      /\ \A x \in cells : (x.genuine => x = old) /\ x.cap = old.cap
      /\ moves + 1 \in Nat /\ height + 1 \in Nat
      /\ cells' = (cells \ {old}) \cup {new}
  BY <1>1, <1>2 DEF Inv, OneCell, TypeInv, Transfer
<1>4. /\ new \in CellType
      /\ new.genuine /\ new.cap = old.cap /\ new.owner = w
  BY <1>2, <1>3 DEF CellType
<1>5. /\ new \in cells'
      /\ \A x \in cells' : (x.genuine => x = new) /\ x.cap = new.cap
  BY <1>3, <1>4
<1>6. Genuine' = new
  <2>1. Genuine' \in cells' /\ Genuine'.genuine
    BY <1>4, <1>5, Zenon DEF Genuine
  <2> QED
    BY <1>5, <2>1
<1>7. OneCell(Genuine)'
  BY <1>4, <1>5, <1>6 DEF OneCell
<1>8. TypeInv'
  <2>1. cells' \subseteq CellType
    BY <1>3, <1>4 DEF Inv, TypeInv
  <2> QED
    BY <2>1 DEF Inv, TypeInv, Transfer, Move
<1>9. ASSUME NEW r \in Decisions PROVE RequestOK(r)'
  <2>1. Genuine'.owner = w /\ Genuine'.cap = Genuine.cap
    BY <1>1, <1>4, <1>6
  <2>2. /\ holders'[r] = IF Busy(r) THEN holders[r] \cup {w} ELSE holders[r]
        /\ reholders'[r] = IF Busy(r) THEN reholders[r] \cup {w} ELSE reholders[r]
        /\ UNCHANGED <<req, subject, subjects, expired>>
    BY DEF Transfer
  <2>3. RequestOK(r)
    BY DEF Inv
  <2> QED
    BY <2>1, <2>2, <2>3 DEF RequestOK, Busy, Read, BoundTo
<1> QED
  BY <1>7, <1>8, <1>9 DEF Inv

\* The subject changes hands, a block is added, the capability expires.
LEMMA RestOfChainInv ==
    ASSUME Inv, (\E w \in Owners : MoveSubject(w)) \/ Mine \/ Expire
    PROVE  Inv'
<1>1. UNCHANGED <<cells, req, holders, reholders>>
  BY DEF MoveSubject, Mine, Expire, history
<1>2. TypeInv'
  <2>1. CASE \E w \in Owners : MoveSubject(w)
    BY <1>1, <2>1 DEF Inv, TypeInv, MoveSubject, Move
  <2>2. CASE Mine
    BY <1>1, <2>2 DEF Inv, TypeInv, Mine, Move, history
  <2>3. CASE Expire
    <3>1. expired' \in BOOLEAN /\ UNCHANGED <<subject, height, moves, subjects>>
      BY <2>3 DEF Expire, history
    <3> QED
      BY <1>1, <3>1 DEF Inv, TypeInv
  <2> QED
    BY <2>1, <2>2, <2>3
<1>3. Genuine' = Genuine /\ OneCell(Genuine)'
  BY <1>1 DEF Inv, OneCell, Genuine
<1>4. ASSUME NEW r \in Decisions PROVE RequestOK(r)'
  <2>1. RequestOK(r)
    BY DEF Inv
  <2>2. expired => expired'
    BY DEF MoveSubject, Mine, Expire
  <2>3. /\ subjects[r] \subseteq subjects'[r]
        /\ Busy(r) /\ subject \in subjects[r] => subject' \in subjects'[r]
    BY DEF MoveSubject, Mine, Expire, history, Inv, TypeInv
  <2> QED
    BY <1>1, <1>3, <2>1, <2>2, <2>3 DEF RequestOK, Busy, Read, BoundTo
<1> QED
  BY <1>2, <1>3, <1>4 DEF Inv

-----------------------------------------------------------------------------
\* A step of request r touches nothing of the chain or of the others.
LEMMA OwnStep ==
    ASSUME Inv, NEW r \in Decisions, UNCHANGED chain,
           req' \in [Decisions -> ReqType],
           NEW S \in SUBSET Owners, NEW T \in SUBSET Owners, NEW U \in SUBSET Owners,
           holders' = [holders EXCEPT ![r] = S],
           reholders' = [reholders EXCEPT ![r] = T],
           subjects' = [subjects EXCEPT ![r] = U],
           \A s \in Decisions \ {r} : req'[s] = req[s],
           RequestOK(r)'
    PROVE  Inv'
<1>1. TypeInv'
  BY DEF Inv, TypeInv, chain
<1>2. Genuine' = Genuine /\ OneCell(Genuine)'
  BY DEF Inv, OneCell, Genuine, chain
<1>3. ASSUME NEW s \in Decisions, s # r PROVE RequestOK(s)'
  <2>1. RequestOK(s)
    BY DEF Inv
  <2>2. req'[s] = req[s] /\ holders'[s] = holders[s] /\ reholders'[s] = reholders[s]
            /\ subjects'[s] = subjects[s]
    BY <1>3 DEF Inv, TypeInv
  <2> QED
    BY <1>2, <2>1, <2>2 DEF RequestOK, Busy, Read, BoundTo, chain
<1> QED
  BY <1>1, <1>2, <1>3 DEF Inv

\* The same where the histories stay.
LEMMA QuietStep ==
    ASSUME Inv, NEW r \in Decisions, UNCHANGED <<chain, history>>,
           req' \in [Decisions -> ReqType],
           \A s \in Decisions \ {r} : req'[s] = req[s],
           RequestOK(r)'
    PROVE  Inv'
<1>1. /\ holders' = [holders EXCEPT ![r] = holders[r]]
      /\ reholders' = [reholders EXCEPT ![r] = reholders[r]]
      /\ subjects' = [subjects EXCEPT ![r] = subjects[r]]
  BY DEF Inv, TypeInv, history
<1>2. holders[r] \in SUBSET Owners /\ reholders[r] \in SUBSET Owners /\ subjects[r] \in SUBSET Owners
  BY DEF Inv, TypeInv
<1> QED
  BY <1>1, <1>2, OwnStep

\* To deny is always safe.
LEMMA DenyInv ==
    ASSUME Inv, NEW r \in Decisions, Deny(r)
    PROVE  /\ req' \in [Decisions -> ReqType]
           /\ \A s \in Decisions \ {r} : req'[s] = req[s]
           /\ req'[r].step = "denied"
           /\ RequestOK(r)'
<1>1. req' = [req EXCEPT ![r].step = "denied"] /\ req \in [Decisions -> ReqType]
  BY DEF Deny, To, Inv, TypeInv
<1>2. req'[r] \in ReqType /\ req'[r].step = "denied"
  BY <1>1 DEF ReqType, Steps
<1> QED
  BY <1>1, <1>2 DEF RequestOK, Busy, Read

LEMMA BeginInv ==
    ASSUME Inv, NEW r \in Decisions, NEW w \in Owners, NEW x \in cells, NEW host \in Hosts,
           Begin(r, w, x, host)
    PROVE  Inv'
<1> DEFINE q == [Idle EXCEPT !.step = "cell", !.by = w, !.cap = x.cap,
                     !.point = IF host = "provider" THEN 0 ELSE x.point,
                     !.host = host, !.late = expired]
<1>1. x \in CellType /\ Genuine \in CellType /\ x.cap = Genuine.cap
  BY DEF Inv, TypeInv, OneCell
<1>2. /\ q \in ReqType
      /\ q.step = "cell" /\ q.cap = x.cap /\ q.late = expired
  BY <1>1 DEF Idle, ReqType, Steps, CellType, Inv, TypeInv, Hosts
<1>3. req' = [req EXCEPT ![r] = q]
  BY DEF Begin
<1> HIDE DEF q
<1>4. /\ holders' = [holders EXCEPT ![r] = {Genuine.owner}]
      /\ reholders' = [reholders EXCEPT ![r] = reholders[r]]
      /\ subjects' = [subjects EXCEPT ![r] = subjects[r]]
      /\ UNCHANGED chain
  BY DEF Begin, Inv, TypeInv
<1>5. req' \in [Decisions -> ReqType] /\ req'[r] = q /\ \A s \in Decisions \ {r} : req'[s] = req[s]
  BY <1>2, <1>3 DEF Inv, TypeInv
<1>6. Genuine' = Genuine
  BY <1>4 DEF chain, Genuine
<1>7. RequestOK(r)'
  BY <1>1, <1>2, <1>4, <1>5, <1>6 DEF RequestOK, Busy, Read, Inv, TypeInv, chain
<1>8. {Genuine.owner} \in SUBSET Owners /\ reholders[r] \in SUBSET Owners /\ subjects[r] \in SUBSET Owners
  BY <1>1 DEF CellType, Inv, TypeInv
<1> QED
  BY <1>4, <1>5, <1>7, <1>8, OwnStep

-----------------------------------------------------------------------------
\* What a cell of the accepted contract tells is true when it is read.
LEMMA ReadCellInv ==
    ASSUME Inv, NEW r \in Decisions, ReadCell(r)
    PROVE  Inv'
<1>1. /\ holders' = [holders EXCEPT ![r] = holders[r]]
      /\ reholders' = [reholders EXCEPT ![r] = {Genuine.owner}]
      /\ subjects' = [subjects EXCEPT ![r] = {subject}]
      /\ UNCHANGED chain
  BY DEF ReadCell, Inv, TypeInv
<1>2. /\ holders[r] \in SUBSET Owners
      /\ {Genuine.owner} \in SUBSET Owners
      /\ {subject} \in SUBSET Owners
  BY DEF Inv, TypeInv, OneCell, CellType
<1>3. Genuine' = Genuine
  BY <1>1 DEF chain, Genuine
<1>4. CASE Deny(r)
  BY <1>1, <1>2, <1>4, DenyInv, OwnStep
<1>5. CASE ~Deny(r)
  <2>1. PICK x \in Resolved(r) :
          /\ Acceptable(x, IF req[r].host = "gateway" THEN 0 ELSE MinConfirmations)
          /\ ~Late(r)
          /\ req' = [req EXCEPT ![r].owner = x.owner, ![r].block = x.block,
                                ![r].step = IF BoundTo(x.cap) THEN "subject" ELSE "decide"]
    BY <1>5 DEF ReadCell
  <2>2. x = Genuine /\ x \in CellType
    BY <2>1 DEF Resolved, Acceptable, Inv, OneCell, TypeInv
  <2>3. req[r] \in ReqType /\ req[r].step = "cell" /\ RequestOK(r)
    BY DEF ReadCell, Inv, TypeInv
  <2>4. Genuine.owner \in holders[r] /\ req[r].cap = Genuine.cap /\ ~req[r].late
    BY <2>1, <2>3 DEF RequestOK, Busy, Late
  <2>5. /\ req'[r] \in ReqType
        /\ req'[r].step = IF BoundTo(x.cap) THEN "subject" ELSE "decide"
        /\ req'[r].owner = x.owner /\ req'[r].cap = req[r].cap /\ req'[r].late = req[r].late
    BY <2>1, <2>2, <2>3 DEF Inv, TypeInv, ReqType, CellType, Steps
  <2>6. req' \in [Decisions -> ReqType] /\ \A s \in Decisions \ {r} : req'[s] = req[s]
    BY <2>1, <2>5 DEF Inv, TypeInv
  <2>7. /\ holders'[r] = holders[r] /\ reholders'[r] = {Genuine.owner}
        /\ subjects'[r] = {subject} /\ subject' = subject
    BY <1>1 DEF Inv, TypeInv, chain
  <2>8. RequestOK(r)'
    <3>1. req'[r].step \in {"subject", "decide"}
      BY <2>5
    <3>2. req'[r].step = "decide" => ~BoundTo(req'[r].cap)
      BY <2>2, <2>4, <2>5
    <3> QED
      BY <1>3, <2>2, <2>4, <2>5, <2>7, <3>1, <3>2 DEF RequestOK, Busy, Read, BoundTo
  <2> QED
    BY <1>1, <1>2, <2>6, <2>8, OwnStep
<1> QED
  BY <1>4, <1>5

LEMMA VerifyLiveCapabilityInv ==
    ASSUME Inv, NEW r \in Decisions, VerifyLiveCapability(r)
    PROVE  Inv'
<1>1. /\ holders' = [holders EXCEPT ![r] = holders[r]]
      /\ reholders' = [reholders EXCEPT ![r] = {Genuine.owner}]
      /\ subjects' = [subjects EXCEPT ![r] = subjects[r]]
      /\ UNCHANGED chain
  BY DEF VerifyLiveCapability, Inv, TypeInv
<1>2. /\ holders[r] \in SUBSET Owners
      /\ {Genuine.owner} \in SUBSET Owners
      /\ subjects[r] \in SUBSET Owners
  BY DEF Inv, TypeInv, OneCell, CellType
<1>3. CASE Deny(r)
  BY <1>1, <1>2, <1>3, DenyInv, OwnStep
<1>4. CASE ~Deny(r)
  <2>1. PICK x \in Resolved(r) : x.genuine /\ x.owner = req[r].by /\ ~Late(r) /\ To(r, "authorized")
    BY <1>4 DEF VerifyLiveCapability
  <2>2. x = Genuine
    BY <2>1 DEF Resolved, Inv, OneCell
  <2>3. /\ req[r] \in ReqType /\ req[r].step = "cell" /\ req[r].host = "client"
        /\ RequestOK(r)
    BY DEF VerifyLiveCapability, Inv, TypeInv
  <2>4. req[r].by \in holders[r] /\ req[r].by = Genuine.owner /\ ~req[r].late
    BY <2>1, <2>2, <2>3 DEF RequestOK, Busy, Late
  <2>5. /\ req'[r] \in ReqType
        /\ req'[r].step = "authorized" /\ req'[r].host = "client"
        /\ req'[r].by = req[r].by /\ req'[r].late = req[r].late
    BY <2>1, <2>3 DEF To, Inv, TypeInv, ReqType, Steps
  <2>6. req' \in [Decisions -> ReqType] /\ \A s \in Decisions \ {r} : req'[s] = req[s]
    BY <2>1, <2>5 DEF To, Inv, TypeInv
  <2>7. holders'[r] = holders[r] /\ reholders'[r] = {Genuine.owner}
    BY <1>1 DEF Inv, TypeInv
  <2>8. RequestOK(r)'
    BY <2>4, <2>5, <2>7 DEF RequestOK, Busy, Read
  <2> QED
    BY <1>1, <1>2, <2>6, <2>8, OwnStep
<1> QED
  BY <1>3, <1>4

-----------------------------------------------------------------------------
\* What a request has read stays in the histories when its step moves on.
LEMMA Moves ==
    ASSUME Inv, NEW r \in Decisions, NEW step \in Steps, To(r, step), UNCHANGED <<chain, history>>
    PROVE  /\ req' \in [Decisions -> ReqType]
           /\ \A s \in Decisions \ {r} : req'[s] = req[s]
           /\ req'[r].step = step
           /\ req'[r].by = req[r].by /\ req'[r].cap = req[r].cap /\ req'[r].host = req[r].host
           /\ req'[r].owner = req[r].owner /\ req'[r].late = req[r].late
           /\ Genuine' = Genuine
<1>1. req[r] \in ReqType /\ req' = [req EXCEPT ![r].step = step]
  BY DEF To, Inv, TypeInv
<1>2. Genuine' = Genuine
  BY DEF chain, Genuine
<1> QED
  BY <1>1, <1>2 DEF ReqType, Inv, TypeInv

LEMMA ReadSubjectInv ==
    ASSUME Inv, NEW r \in Decisions, ReadSubject(r)
    PROVE  Inv'
<1>1. UNCHANGED <<chain, history>> /\ RequestOK(r) /\ req[r].step = "subject"
  BY DEF ReadSubject, Inv
<1>2. CASE Deny(r)
  BY <1>1, <1>2, DenyInv, QuietStep
<1>3. CASE ~Deny(r)
  <2>1. subject = req[r].owner /\ To(r, "decide")
    BY <1>3 DEF ReadSubject, ResolveSubjectBinding, SubjectBound
  <2>2. RequestOK(r)'
    BY <1>1, <2>1, Moves DEF RequestOK, Busy, Read, BoundTo, Steps, chain, history
  <2> QED
    BY <1>1, <2>1, <2>2, Moves, QuietStep DEF Steps
<1> QED
  BY <1>2, <1>3

LEMMA DecideInv ==
    ASSUME Inv, NEW r \in Decisions, Decide(r)
    PROVE  Inv'
<1>1. UNCHANGED <<chain, history>> /\ RequestOK(r) /\ req[r].step = "decide"
  BY DEF Decide, Inv
<1>2. CASE Deny(r)
  BY <1>1, <1>2, DenyInv, QuietStep
<1>3. CASE Entitled(r) /\ To(r, "authorized")
  <2>1. RequestOK(r)'
    BY <1>1, <1>3, Moves DEF RequestOK, Busy, Read, BoundTo, Steps, chain, history, Entitled
  <2> QED
    BY <1>1, <1>3, <2>1, Moves, QuietStep DEF Steps
<1>4. CASE /\ Entitled(r)
           /\ req' = [req EXCEPT ![r].proofs = @ + 1,
                                 ![r].step = IF req[r].proofs = 0 THEN "cell" ELSE "commit"]
  <2>1. req[r] \in ReqType
    BY DEF Inv, TypeInv
  <2> DEFINE p == req[r].proofs + 1
             step == IF req[r].proofs = 0 THEN "cell" ELSE "commit"
             q == [req[r] EXCEPT !.proofs = p, !.step = step]
  <2>2. p \in Nat /\ step \in {"cell", "commit"}
    BY <2>1 DEF ReqType
  <2>3. req' = [req EXCEPT ![r] = q]
    BY <1>4
  <2> HIDE DEF p, step
  <2>4. /\ q \in ReqType
        /\ q.step \in {"cell", "commit"}
        /\ q.by = req[r].by /\ q.cap = req[r].cap
        /\ q.owner = req[r].owner /\ q.late = req[r].late
    BY <2>1, <2>2 DEF ReqType, Steps
  <2> HIDE DEF q
  <2>5. /\ req'[r] \in ReqType
        /\ req'[r].step \in {"cell", "commit"}
        /\ req'[r].by = req[r].by /\ req'[r].cap = req[r].cap
        /\ req'[r].owner = req[r].owner /\ req'[r].late = req[r].late
    BY <2>4, <2>3 DEF Inv, TypeInv
  <2>6. req' \in [Decisions -> ReqType] /\ \A s \in Decisions \ {r} : req'[s] = req[s]
    BY <2>4, <2>3 DEF Inv, TypeInv
  <2>7. Genuine' = Genuine
    BY <1>1 DEF chain, Genuine
  <2>8. RequestOK(r)'
    BY <1>1, <1>4, <2>5, <2>7 DEF RequestOK, Busy, Read, BoundTo, chain, history, Entitled
  <2> QED
    BY <1>1, <2>6, <2>8, QuietStep
<1> QED
  BY <1>2, <1>3, <1>4 DEF Decide

LEMMA CommitInv ==
    ASSUME Inv, NEW r \in Decisions, Commit(r)
    PROVE  Inv'
<1>1. UNCHANGED <<chain, history>> /\ RequestOK(r) /\ req[r].step = "commit" /\ To(r, "authorized")
  BY DEF Commit, Inv
<1>2. RequestOK(r)'
  BY <1>1, Moves DEF RequestOK, Busy, Read, BoundTo, Steps, chain, history
<1> QED
  BY <1>1, <1>2, Moves, QuietStep DEF Steps

-----------------------------------------------------------------------------
LEMMA NextInv ==
    ASSUME Inv, [Next]_vars
    PROVE  Inv'
<1>1. CASE UNCHANGED vars
  <2>1. Genuine' = Genuine
    BY <1>1 DEF vars, chain, Genuine
  <2> QED
    BY <1>1, <2>1 DEF vars, chain, history, Inv, TypeInv, OneCell, RequestOK, Busy, Read, BoundTo
<1>2. CASE Next
  BY <1>2, TransferInv, RestOfChainInv, BeginInv, ReadCellInv, VerifyLiveCapabilityInv,
     ReadSubjectInv, DecideInv, CommitInv DEF Next
<1> QED
  BY <1>1, <1>2

\* Whoever a provider, Care, the gateway or the client library serves owned the capability while
\* the request was decided, and the subject it is bound to after its cell was read; for any
\* numbers of owners, requests and moves (MaxMoves is only a bound).
THEOREM ServedHolder ==
    ASSUME MaxMoves \in Nat
    PROVE  Spec => []DecidedForHolder
<1>1. Init => Inv
  BY InitInv
<1>2. Inv /\ [Next]_vars => Inv'
  BY NextInv
<1>3. Inv => DecidedForHolder
  BY DEF Inv, RequestOK, DecidedForHolder
<1> QED
  BY <1>1, <1>2, <1>3, PTL DEF Spec
=============================================================================
