-------------------------- MODULE MCPaymentProcesses --------------------------
\* Two instances of PaymentFlow in one run: the constants describe one process with one invoice,
\* Two has a process for each of two handlers and two invoices, which may be of one request.
\* The invariants of PaymentFlow are about either.
EXTENDS MCPaymentFlow

VARIABLE two

Two == INSTANCE PaymentFlow WITH
    Instances <- {i1, i2}, RunsOn <- TwoProcesses, MaxHashes <- 2, MaxFailures <- 0

EachInit == two \in BOOLEAN /\ IF two THEN Two!Init ELSE Init

EachNext ==
    /\ UNCHANGED two
    /\ \/ two /\ Two!Next
       \/ ~two /\ Next

\* Handlers run to their end, and a client that has paid comes back with its payment.
EachProcesses ==
    /\ EachInit /\ [][EachNext]_<<vars, two>>
    /\ \A r \in Requests : WF_vars(~two /\ Serve(r))
    /\ \A h \in Hashes : SF_vars(~two /\ \E r \in Requests : Present(r, issued[h].binding, h))

\* A payment that was consumed ends in a delivered result, whatever crashes, unless its quote
\* expires before a receipt is stored.
ConsumedIsServed == ~two => ConsumedIsDelivered
===============================================================================
