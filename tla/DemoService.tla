------------------------------ MODULE DemoService ------------------------------
(***************************************************************************)
(* The demonstration service: one process with a chain of its own, the     *)
(* challenges of its two test wallets, and invoices of a mock Fiber node.  *)
(* All of it is made again by a reset.  After the body of its request a    *)
(* handler awaits only promises that are resolved at once, so it ends      *)
(* before another body is read and every route is one step (requests       *)
(* pipelined in one packet aside).  The capability's day of validity does  *)
(* not end here.                                                           *)
(***************************************************************************)
EXTENDS Naturals, Sequences, FiniteSets

CONSTANTS
    Users, First,  \* the test wallets, and the one that is given the capability
    Issuer, Content,
    Texts,
    MaxRuntimes, MaxCells, MaxChallenges, MaxQuotes   \* bounds

VARIABLES
    runtime,     \* how often the runtime was made
    past,        \* history: what became of the capabilities of former runtimes
    cells,       \* InMemoryChain, by the place of the cell in the order of creation
    signer,      \* history: who signed the last transaction
    challenges,  \* ChallengeStore, in the order of issue
    invoices     \* the invoices of the node, with their quotes and what was answered

vars == <<runtime, past, cells, signer, challenges, invoices>>

Requests == [user : Users, point : 1 .. MaxCells, text : Texts]

Init ==
    /\ runtime = 0 /\ past = <<>> /\ cells = <<>>
    /\ signer \in Users \cup {Issuer}
    /\ challenges = <<>> /\ invoices = <<>>

-----------------------------------------------------------------------------
(***************************************************************************)
(* The chain                                                               *)
(***************************************************************************)
LiveCells == {p \in DOMAIN cells : cells[p].live}

RightOf ==
    IF Cardinality(LiveCells) = 1
    THEN [state |-> "owned", owner |-> cells[CHOOSE p \in LiveCells : TRUE].owner, content |-> Content]
    ELSE [state |-> "split"]

\* issue, of an identity drawn at random
Issued(w) == <<[owner |-> w, live |-> TRUE]>>

\* transfer
Moved(p, to) ==
    Append([cells EXCEPT ![p].live = FALSE], [owner |-> to, live |-> TRUE])

\* getLiveCell, and the lock of the requester; issuer and service are those of the policy.
Verified(w, p) == p \in LiveCells /\ cells[p].owner = w

-----------------------------------------------------------------------------
\* The module is loaded, or the demonstration reset: chain, challenges and payments are new,
\* and out points are counted from the beginning.
CreateRuntime ==
    /\ runtime < MaxRuntimes
    /\ runtime' = runtime + 1
    /\ past' = IF runtime = 0 THEN past ELSE Append(past, RightOf)
    /\ cells' = Issued(First)
    /\ signer' = Issuer
    /\ challenges' = <<>> /\ invoices' = <<>>

Transfer(from, to, p) ==
    /\ Len(cells) < MaxCells
    /\ p \in LiveCells /\ cells[p].owner = from
    /\ cells' = Moved(p, to)
    /\ signer' = from
    /\ UNCHANGED <<runtime, past, challenges, invoices>>

Challenge(w) ==
    /\ runtime > 0 /\ Len(challenges) < MaxChallenges
    /\ challenges' = Append(challenges, [identity |-> w, used |-> FALSE, late |-> FALSE])
    /\ UNCHANGED <<runtime, past, cells, signer, invoices>>

ChallengeExpires(n) ==
    /\ ~challenges[n].late
    /\ challenges' = [challenges EXCEPT ![n].late = TRUE]
    /\ UNCHANGED <<runtime, past, cells, signer, invoices>>

\* analyze: the challenge is used up if it is late or asked for by its identity; then the
\* proof and the cell decide on an answer, which is not stored.
Analyze(w, n) ==
    /\ ~challenges[n].used
    /\ challenges[n].late \/ challenges[n].identity = w
    /\ challenges' = [challenges EXCEPT ![n].used = TRUE]
    /\ UNCHANGED <<runtime, past, cells, signer, invoices>>

-----------------------------------------------------------------------------
(***************************************************************************)
(* Payments                                                                *)
(***************************************************************************)
\* paid-use without a payment: 402, whoever asks for whatever cell
NewPaymentQuote(request) ==
    /\ runtime > 0 /\ Len(invoices) < MaxQuotes
    /\ invoices' = Append(invoices, [request |-> request, quoted |-> TRUE, paid |-> FALSE,
                                     consumed |-> FALSE, answers |-> <<>>])
    /\ UNCHANGED <<runtime, past, cells, signer, challenges>>

\* Quotes older than ten minutes go, and the oldest of too many.
PruneQuotes(n) ==
    /\ invoices' = [i \in DOMAIN invoices |-> IF i <= n THEN [invoices[i] EXCEPT !.quoted = FALSE]
                                                        ELSE invoices[i]]
    /\ UNCHANGED <<runtime, past, cells, signer, challenges>>

Pay(i) ==
    /\ invoices' = [invoices EXCEPT ![i].paid = TRUE]
    /\ UNCHANGED <<runtime, past, cells, signer, challenges>>

\* verify: not consumed yet, and paid
Payable(i) == ~invoices[i].consumed /\ invoices[i].paid

\* (slip) a quote serves its user with any text
AnyTextOf(request) == <<request.user>>

\* paymentBinding: it hashes txHash and index of the out point, but an out point of this chain
\* is a string, which has neither, so that both are empty whatever the cell.
PaymentBinding(request) == <<request.user, request.text>>

\* paid-use with a payment: its quote, its binding, the payment, a challenge that is made and
\* used up at once, the cell, the analysis; then the settlement, which finds what verify found.
\* One that is refused on the way changes nothing.
PaidUse(request, i) ==
    /\ invoices[i].quoted /\ PaymentBinding(invoices[i].request) = PaymentBinding(request)
    /\ Payable(i)
    /\ Verified(request.user, request.point)
    /\ invoices' = [invoices EXCEPT ![i].consumed = TRUE, ![i].quoted = FALSE,
                                    ![i].answers = Append(@, request)]
    /\ UNCHANGED <<runtime, past, cells, signer, challenges>>

Next ==
    \/ CreateRuntime
    \/ \E from, to \in Users, p \in LiveCells : Transfer(from, to, p)
    \/ \E w \in Users : Challenge(w) \/ \E n \in DOMAIN challenges : Analyze(w, n)
    \/ \E n \in DOMAIN challenges : ChallengeExpires(n)
    \/ \E request \in Requests :
          NewPaymentQuote(request) \/ \E i \in DOMAIN invoices : PaidUse(request, i)
    \/ \E i \in DOMAIN invoices : Pay(i) \/ PruneQuotes(i)

Spec == Init /\ [][Next]_vars

-----------------------------------------------------------------------------
\* The capabilities of all runtimes, in the terms of the reference model
Identities == [issuer : {Issuer}, cap : 1 .. MaxRuntimes]

Rights ==
    [i \in Identities |->
        CASE i.cap < runtime -> past[i.cap]
          [] i.cap = runtime -> RightOf
          [] OTHER -> [state |-> "unissued"]]

Registry == INSTANCE CapabilityRegistry WITH
    Wallets <- Users \cup {Issuer}, Contents <- {Content}, right <- Rights

\* The chain in memory implements the reference model of the protocol, across resets: one live
\* cell, handed over by its owner, unchanged.
RegistryImplemented == Registry!Spec

\* An invoice buys one answer at most, of the user and the text it was quoted for, after it was
\* paid: although it may be paid late, presented again, with another cell of the user, or after a
\* reset in which the out points repeat.
OneAnswerPerPayment ==
    \A i \in DOMAIN invoices :
        LET answers == invoices[i].answers IN
        /\ Len(answers) <= 1
        /\ answers # <<>> => /\ invoices[i].paid
                             /\ answers[1].user = invoices[i].request.user
                             /\ answers[1].text = invoices[i].request.text
================================================================================
