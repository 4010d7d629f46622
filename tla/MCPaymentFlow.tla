---------------------------- MODULE MCPaymentFlow ----------------------------
\* Small instances of PaymentFlow for TLC.
EXTENDS PaymentFlow, TLC

CONSTANTS r1, r2, b1, b2, i1, i2

OneProcess == [r \in Requests |-> i1]
TwoProcesses == [r \in Requests |-> IF r = r1 THEN i1 ELSE i2]
=============================================================================
