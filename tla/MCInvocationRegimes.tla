------------------------ MODULE MCInvocationRegimes ------------------------
\* Both regimes of Invocation in one run: the constants describe executions that end within
\* their lease, Overrun those of two activations that need not.
EXTENDS MCInvocation

CONSTANT OverrunTokens

VARIABLE overrun

TwoWorkers == CHOOSE W \in SUBSET Workers : Cardinality(W) = 2

Overrun == INSTANCE Invocation WITH
    Workers <- TwoWorkers, Tokens <- OverrunTokens, Timely <- FALSE

BothInit == overrun \in BOOLEAN /\ IF overrun THEN Overrun!Init ELSE Init

BothNext ==
    /\ UNCHANGED overrun
    /\ \/ overrun /\ Overrun!Next
       \/ ~overrun /\ Next

BothRegimes ==
    /\ BothInit /\ [][BothNext]_<<vars, overrun>>
    /\ \A w \in Workers :
          /\ WF_vars(~overrun /\ Work(w))
          /\ WF_vars(~overrun /\ Arrive(w))
    /\ WF_vars(~overrun /\ LeaseExpires)

\* The protected service never runs in two activations at once, when executions end within
\* their lease.
OneExecutionWhenTimely == ~overrun => NoConcurrentExecution

\* Then the receipt, which answers retries once the record is gone, holds the result the
\* record holds.
ReceiptAgreesWhenTimely == ~overrun => ReceiptAgrees

\* And callers see one result register, written once.
OneResultWhenTimely ==
    /\ ~overrun => Register!Init
    /\ [][overrun \/ Register!Next]_<<rec.result, paid, answers>>

\* After finitely many crashes and failures, an invocation is delivered: a lease left behind
\* by a dead activation does not block the retries.
DeliveredWhenTimely == ~overrun ~> rec.state = "DELIVERED"
=============================================================================
