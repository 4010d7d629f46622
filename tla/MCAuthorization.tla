--------------------------- MODULE MCAuthorization ---------------------------
\* Small instances of Authorization for TLC: alice's capability, which she can transfer
\* to bob and get back, and a grant of alice's for bob on her first cell.
EXTENDS Authorization, TLC

CONSTANTS alice, bob, direct, r1, r2, r3, input1, input2

AliceForBob == [owner |-> alice, delegate |-> bob, cell |-> 1, expires |-> 2]
OneGrant == {AliceForBob}

\* Without grants, over the cells of two transfers.
OwnCalls == {[cell |-> c, grant |-> direct, input |-> input1] : c \in {1, 2}}
OneCall == {[cell |-> 1, grant |-> direct, input |-> input1]}

\* A delegated call on the granted cell, and the same grant presented for another cell.
GrantedCalls == {[cell |-> c, grant |-> AliceForBob, input |-> input1] : c \in {1, 3}}

AllCalls == OwnCalls \cup GrantedCalls

RequestSymmetry == Permutations(Requests)
=============================================================================
