------------------------ MODULE MCDelegationLedger ------------------------
\* Small instances of DelegationLedger for TLC.
EXTENDS DelegationLedger, TLC

CONSTANTS g1, g2, k1, k2, r1, r2, r3

OneGrant == {g1}
TwoGrants == {g1, g2}

\* A delegation of one call, of two calls with a spend limit, and of spend only.
OneUse == [g \in Grants |-> 1]
NoSpendLimit == [g \in Grants |-> NoLimit]
MixedUses == [g \in Grants |-> IF g = g1 THEN 1 ELSE NoLimit]
MixedSpend == [g \in Grants |-> IF g = g1 THEN NoLimit ELSE 2]

SameExpiry == [g \in Grants |-> 4]
StaggeredExpiry == [g \in Grants |-> IF g = g1 THEN 2 ELSE 4]

RequestSymmetry == Permutations(Requests)
KeyRequestSymmetry == Permutations(Requests) \cup Permutations(Keys)
=============================================================================
