-------------------------------- MODULE WebApp --------------------------------
(***************************************************************************)
(* The web application of one browser tab: the wallet that is connected,   *)
(* the passes it shows, the request that is run, and the payment the       *)
(* server asks for.  Every button starts an asynchronous task that keeps   *)
(* the values of the render it was pressed in; meanwhile the wallet, the   *)
(* selection and the text may change, and other tasks may start and end.   *)
(* The server is modelled as far as the tab can tell: it quotes, checks    *)
(* that a payment belongs to the request, and serves.  Passes do not       *)
(* expire here, and what is only displayed is left out.                    *)
(***************************************************************************)
EXTENDS Naturals, Sequences, FiniteSets

CONSTANTS
    Accounts,     \* wallets of the user; an account is its address
    Passes,
    Services, Accepts,  \* [Services -> the passes a service accepts]
    Actions,      \* the services that are idempotent actions
    Inputs,       \* what the user may type
    Owners,       \* [Passes -> who owns the pass at first, or None]
    None,
    MaxTasks, MaxSwitches   \* bounds

VARIABLES
    config, online,      \* whether the server wants payments, once loaded; the last status answer
    signer, address,     \* the connected signer, and the address the tab shows for it
    reading,             \* addresses that are being read from a wallet
    caps, selected, service, text, busy,
    receipt,             \* lastReceipt: an answer is shown, with the token of its evidence
    pending,             \* pendingPayment
    tasks,               \* by number, the tasks in progress
    started, switches,
    owner,               \* the chain: who owns a pass
    quote, open,         \* the server: the request each invoice was made for; the live quotes
    paid, served,        \* invoices paid by the user; and those served
    dropped,             \* history: invoices the user closed the dialog on
    crossed              \* history: two requests were in progress at once

page == <<config, online, signer, address, reading, caps, selected, service, text, receipt>>
server == <<owner, quote, open, served>>
vars == <<page, busy, pending, tasks, started, switches, server, paid, dropped, crossed>>

NoPayment == [pass |-> None, input |-> None, service |-> None, op |-> 0, invoice |-> 0]

Init ==
    /\ config = None /\ online = TRUE
    /\ signer = None /\ address = None /\ reading = {}
    /\ caps = {} /\ selected = None /\ service = None /\ text \in Inputs
    /\ busy = "" /\ receipt = FALSE /\ pending = NoPayment
    /\ tasks = [n \in {} |-> None] /\ started = 0 /\ switches = 0
    /\ owner = Owners
    /\ quote = <<>> /\ open = {} /\ paid = {} /\ served = {}
    /\ dropped = {} /\ crossed = FALSE

\* caps.find(...) ?? caps[0], and the same for the services that accept the pass
FirstOf(S) == CHOOSE x \in S : TRUE
SelectedCap == IF selected \in caps THEN selected ELSE FirstOf(caps)
Compatible(p) == {s \in Services : p \in Accepts[s]}
SelectedService ==
    LET C == Compatible(SelectedCap) IN IF service \in C THEN service ELSE FirstOf(C)

ModalOpen == pending # NoPayment
SystemReady == config # None /\ online

-----------------------------------------------------------------------------
(***************************************************************************)
(* What the page lets the user do.  Passes are active, transferable and    *)
(* may be delegated (CapabilityCell has the rules).  The payment dialog    *)
(* covers the page.                                                        *)
(***************************************************************************)
Workspace == ~ModalOpen /\ signer # None
Idle == Workspace /\ busy = ""
PassShown == caps # {}

MayRefresh  == Workspace /\ busy # "refresh" /\ config # None
MayIssue    == Idle /\ config # None
MayTransfer == Idle /\ config # None /\ PassShown
MayVerify   == Idle /\ PassShown
MayDelegate == Idle /\ PassShown /\ address # None
MayRun      == Idle /\ PassShown /\ address # None /\ text # None /\ SystemReady
MayLoadEvidence == Workspace /\ PassShown /\ receipt /\ busy # "evidence"
MayVerifyPayment == ModalOpen /\ busy = "" /\ signer # None /\ address # None

-----------------------------------------------------------------------------
(***************************************************************************)
(* Tasks                                                                   *)
(***************************************************************************)
Request(a, p, i, s, op) == [address |-> a, pass |-> p, input |-> i, service |-> s, op |-> op]
NoRequest == Request(None, None, None, None, 0)

Task(kind, step, request, invoice) ==
    [kind |-> kind, by |-> signer, step |-> step, request |-> request, invoice |-> invoice]

IsRequest(t) == t.kind \in {"analyze", "paid-retry"}

Start(task) ==
    /\ started < MaxTasks
    /\ started' = started + 1
    /\ tasks' = [n \in DOMAIN tasks \cup {started + 1} |-> IF n = started + 1 THEN task ELSE tasks[n]]
    /\ busy' = task.kind
    /\ crossed' = (crossed \/ (IsRequest(task) /\ \E n \in DOMAIN tasks : IsRequest(tasks[n])))

Without(n) == [k \in DOMAIN tasks \ {n} |-> tasks[k]]

\* finally { setBusy("") }, also when busy is another task's by now
End(n) ==
    /\ tasks' = Without(n)
    /\ busy' = ""
    /\ UNCHANGED <<started, crossed>>

GoTo(n, step) ==
    /\ tasks' = [tasks EXCEPT ![n].step = step]
    /\ UNCHANGED <<busy, started, crossed>>

\* (slip) an error closes the payment dialog
PaymentForgotten == NoPayment

PaymentKept == pending

\* Any await may throw: no network, the wallet refuses, an answer is lost or an error.
Throws(n) ==
    /\ pending' = IF IsRequest(tasks[n]) THEN PaymentKept ELSE pending
    /\ End(n)
    /\ UNCHANGED <<page, switches, server, paid, dropped>>

-----------------------------------------------------------------------------
(***************************************************************************)
(* Start of the page, wallet and passes                                    *)
(***************************************************************************)
others == <<pending, switches, server, paid, dropped>>

\* An effect refreshes when the signer or the configuration arrives.
Refreshes(w, ready) ==
    IF w # None /\ ready
    THEN Start([Task("refresh", "find", NoRequest, 0) EXCEPT !.by = w])
    ELSE UNCHANGED <<tasks, busy, started, crossed>>

LoadConfig ==
    /\ config = None
    /\ config' \in {"paid", "free"}
    /\ Refreshes(signer, TRUE)
    /\ UNCHANGED <<online, signer, address, reading, caps, selected, service, text, receipt, others>>

RefreshHealth ==
    /\ config # None
    /\ online' = ~online
    /\ UNCHANGED <<config, signer, address, reading, caps, selected, service, text, receipt,
                   busy, tasks, started, crossed, others>>

\* The user connects, or chooses another account in the wallet; what the tab shows stays.
Connect(w) ==
    /\ w # signer /\ switches < MaxSwitches
    /\ switches' = switches + 1
    /\ signer' = w
    /\ reading' = reading \cup {w}
    /\ Refreshes(w, config # None)
    /\ UNCHANGED <<config, online, address, caps, selected, service, text, receipt,
                   pending, server, paid, dropped>>

\* Everything about the account is reset but a pending payment.
Disconnect ==
    /\ signer # None
    /\ signer' = None /\ address' = None /\ caps' = {} /\ selected' = None /\ receipt' = FALSE
    /\ UNCHANGED <<config, online, reading, service, text, busy, tasks, started, crossed, others>>

\* The promises of two accounts may be fulfilled in any order, or after a disconnect.
AddressArrives(w) ==
    /\ w \in reading
    /\ reading' = reading \ {w}
    /\ address' = w
    /\ UNCHANGED <<config, online, signer, caps, selected, service, text, receipt,
                   busy, tasks, started, crossed, others>>

Refresh ==
    /\ MayRefresh
    /\ Start(Task("refresh", "find", NoRequest, 0))
    /\ UNCHANGED <<page, others>>

\* The passes of the task's signer, whoever is connected by now.
RefreshEnds(n) ==
    LET found == {p \in Passes : owner[p] = tasks[n].by /\ Compatible(p) # {}} IN
    /\ tasks[n].kind = "refresh"
    /\ caps' = found
    /\ \/ selected \in found /\ selected' = selected
       \/ selected \notin found /\ selected' \in found
       \/ found = {} /\ selected' = None
    /\ End(n)
    /\ UNCHANGED <<config, online, signer, address, reading, service, text, receipt, others>>

SelectPass(p) ==
    /\ Workspace /\ p \in caps
    /\ selected' = p
    /\ receipt' = FALSE
    /\ UNCHANGED <<config, online, signer, address, reading, caps, service, text,
                   busy, tasks, started, crossed, others>>

\* An effect keeps the service one that accepts the pass (SelectedService); to choose another
\* clears the text.
SelectService(s) ==
    /\ Workspace /\ PassShown /\ s \in Compatible(SelectedCap)
    /\ service' = s
    /\ text' = None /\ receipt' = FALSE
    /\ UNCHANGED <<config, online, signer, address, reading, caps, selected,
                   busy, tasks, started, crossed, others>>

TypeText(i) ==
    /\ Workspace /\ PassShown
    /\ text' = i
    /\ UNCHANGED <<config, online, signer, address, reading, caps, selected, service, receipt,
                   busy, tasks, started, crossed, others>>

\* Issue a pass to a recipient, or transfer the selected one, and wait for the chain; then
\* refresh.
Issue(p, to) ==
    /\ MayIssue /\ owner[p] = None
    /\ Start(Task("issue", "sent", Request(to, p, None, None, 0), 0))
    /\ UNCHANGED <<page, others>>

Transfer(to) ==
    /\ MayTransfer
    /\ Start(Task("transfer", "sent", Request(to, SelectedCap, None, None, 0), 0))
    /\ UNCHANGED <<page, others>>

Moved(n) ==
    LET p == tasks[n].request.pass IN
    /\ tasks[n].kind \in {"issue", "transfer"}
    /\ owner[p] = IF tasks[n].kind = "issue" THEN None ELSE tasks[n].by
    /\ owner' = [owner EXCEPT ![p] = tasks[n].request.address]
    /\ tasks' = [tasks EXCEPT ![n].kind = "refresh", ![n].step = "find"]
    /\ busy' = "refresh"
    /\ UNCHANGED <<page, pending, started, switches, quote, open, paid, served, dropped, crossed>>

\* Three tasks that only show something at their end.
VerifyLiveOwner ==
    /\ MayVerify
    /\ Start(Task("capability-status", "sent", NoRequest, 0))
    /\ UNCHANGED <<page, others>>

\* The service is one that allows delegation; the wallet signs.
CreateDelegation ==
    /\ MayDelegate
    /\ Start(Task("delegate", "sent", NoRequest, 0))
    /\ UNCHANGED <<page, others>>

\* It is only refused while it runs itself.
FetchAuthorizationEvidence ==
    /\ MayLoadEvidence
    /\ Start(Task("evidence", "sent", NoRequest, 0))
    /\ UNCHANGED <<page, others>>

Looked(n) ==
    /\ tasks[n].kind \in {"capability-status", "delegate", "evidence"}
    /\ End(n)
    /\ UNCHANGED <<page, others>>

-----------------------------------------------------------------------------
(***************************************************************************)
(* Run, and run again with a payment                                       *)
(***************************************************************************)
\* A random operation id, if the service is an action and none is given
Operation(s, given) == IF s \in Actions /\ given = 0 THEN started + 1 ELSE given

UseService ==
    /\ MayRun
    /\ Start(Task("analyze", "challenge",
                  Request(address, SelectedCap, text, SelectedService, Operation(SelectedService, 0)), 0))
    /\ receipt' = FALSE
    /\ UNCHANGED <<config, online, signer, address, reading, caps, selected, service, text, others>>

\* (slip) the retry runs what the editor holds by now
EditedRequest ==
    Request(address, pending.pass, text, pending.service, Operation(pending.service, pending.op))

PendingRequest ==
    Request(address, pending.pass, pending.input, pending.service, Operation(pending.service, pending.op))

RetryPaidUse ==
    /\ MayVerifyPayment
    /\ Start(Task("paid-retry", "challenge", PendingRequest, pending.invoice))
    /\ UNCHANGED <<page, others>>

Challenged(n) ==
    /\ tasks[n].step = "challenge"
    /\ GoTo(n, "sign")
    /\ UNCHANGED <<page, others>>

\* The wallet signs with its own identity, which must be the address of the request.
Signed(n) ==
    /\ tasks[n].step = "sign"
    /\ IF tasks[n].by = tasks[n].request.address THEN GoTo(n, "sent") ELSE End(n)
    /\ UNCHANGED <<page, others>>

AtServer(n) ==
    /\ IsRequest(tasks[n]) /\ tasks[n].step = "sent"
    /\ owner[tasks[n].request.pass] = tasks[n].request.address

\* (slip) a dialog that is open takes the invoice only
AskInDialog(n, invoice) ==
    LET r == tasks[n].request IN
    pending' = IF ModalOpen THEN [pending EXCEPT !.invoice = invoice]
               ELSE [pass |-> r.pass, input |-> r.input, service |-> r.service, op |-> r.op,
                     invoice |-> invoice]

\* setPendingPayment, of whichever request is answered last
Ask(n, invoice) ==
    LET r == tasks[n].request IN
    pending' = [pass |-> r.pass, input |-> r.input, service |-> r.service, op |-> r.op,
                invoice |-> invoice]

\* 402: the server's quote for this request, or a new one
Quoted(n) ==
    LET r == tasks[n].request
        live == {i \in open : quote[i] = r} IN
    /\ AtServer(n) /\ config = "paid" /\ tasks[n].invoice = 0
    /\ IF live # {}
       THEN Ask(n, FirstOf(live)) /\ UNCHANGED <<quote, open>>
       ELSE /\ quote' = Append(quote, r)
            /\ open' = open \cup {Len(quote) + 1}
            /\ Ask(n, Len(quote) + 1)
    /\ End(n)
    /\ UNCHANGED <<page, switches, owner, paid, served, dropped>>

\* 402 to a payment that is not there yet: its own quote again
NotPaidYet(n) ==
    /\ AtServer(n) /\ tasks[n].invoice \in open
    /\ quote[tasks[n].invoice] = tasks[n].request
    /\ Ask(n, tasks[n].invoice)
    /\ End(n)
    /\ UNCHANGED <<page, switches, server, paid, dropped>>

\* The payment is for this request, or was settled for it before: it is executed and settled.
Serves(n) ==
    LET i == tasks[n].invoice IN
    /\ AtServer(n) /\ i \in paid /\ i \in open \cup served
    /\ quote[i] = tasks[n].request
    /\ served' = served \cup {i}
    /\ open' = open \ {i}

Answered(n) ==
    /\ Serves(n)
    /\ pending' = NoPayment /\ receipt' = TRUE
    /\ End(n)
    /\ UNCHANGED <<config, online, signer, address, reading, caps, selected, service, text,
                   switches, owner, quote, paid, dropped>>

\* No payment is required.
AnsweredFree(n) ==
    /\ AtServer(n) /\ config = "free"
    /\ pending' = NoPayment /\ receipt' = TRUE
    /\ End(n)
    /\ UNCHANGED <<config, online, signer, address, reading, caps, selected, service, text,
                   switches, server, paid, dropped>>

\* It is served and the answer is lost.
AnswerLost(n) ==
    /\ Serves(n)
    /\ pending' = PaymentKept
    /\ End(n)
    /\ UNCHANGED <<page, switches, owner, quote, paid, dropped>>

QuoteExpires(i) ==
    /\ i \in open
    /\ open' = open \ {i}
    /\ UNCHANGED <<page, busy, pending, tasks, started, switches, owner, quote, paid, served,
                   dropped, crossed>>

PayInvoice ==
    /\ ModalOpen /\ pending.invoice \notin paid
    /\ paid' = paid \cup {pending.invoice}
    /\ UNCHANGED <<page, busy, pending, tasks, started, switches, server, dropped, crossed>>

Cancel ==
    /\ ModalOpen /\ busy = ""
    /\ pending' = NoPayment
    /\ dropped' = dropped \cup {pending.invoice}
    /\ UNCHANGED <<page, busy, tasks, started, switches, server, paid, crossed>>

Next ==
    \/ LoadConfig \/ RefreshHealth \/ Disconnect \/ Refresh
    \/ VerifyLiveOwner \/ CreateDelegation \/ FetchAuthorizationEvidence
    \/ \E w \in Accounts : Connect(w) \/ AddressArrives(w)
    \/ \E p \in Passes : SelectPass(p)
    \/ \E s \in Services : SelectService(s)
    \/ \E i \in Inputs : TypeText(i)
    \/ \E to \in Accounts : Transfer(to) \/ \E p \in Passes : Issue(p, to)
    \/ UseService \/ RetryPaidUse \/ PayInvoice \/ Cancel
    \/ \E n \in DOMAIN tasks :
          \/ RefreshEnds(n) \/ Moved(n) \/ Looked(n) \/ Throws(n)
          \/ Challenged(n) \/ Signed(n)
          \/ Quoted(n) \/ NotPaidYet(n) \/ Answered(n) \/ AnsweredFree(n) \/ AnswerLost(n)
    \/ \E i \in open : QuoteExpires(i)

Spec == Init /\ [][Next]_vars

-----------------------------------------------------------------------------
\* A payment is presented only with the request it was asked for: the same pass, input,
\* service and operation, although the editor, the selection, the passes and the wallet may
\* have changed since, and answers come late.
PaymentForItsRequest ==
    \A n \in DOMAIN tasks :
        tasks[n].invoice # 0 =>
            [tasks[n].request EXCEPT !.address = None]
                = [quote[tasks[n].invoice] EXCEPT !.address = None]

\* As long as the user runs one request at a time, what was paid stays in the dialog until it
\* is served or the user closes the dialog: no error, late refresh or change of the wallet
\* loses it.  (An operation that ends clears busy for all, so a second request can be run
\* beside the first, and the one answered last takes the dialog.)
PaidIsKept == ~crossed => paid \subseteq served \cup dropped \cup {pending.invoice}
===============================================================================
