-------------------------- MODULE DelegationBudget --------------------------
(***************************************************************************)
(* What a delegation's call budget promises, with no clock, no counters    *)
(* and no reservations to reclaim: an invocation is opened, then spent or  *)
(* given back; opened and spent invocations together never exceed the      *)
(* limit of the one grant that owns the budget; what is spent stays spent. *)
(***************************************************************************)
EXTENDS Integers, FiniteSets

CONSTANTS
    Grants, Keys,
    Limit,       \* [Grants -> Nat \cup {NoLimit}]
    NoLimit,
    NoGrant,
    Forgettable  \* may the budget be forgotten (memory lost, grant expired)

VARIABLES owner, open, spent

budgetVars == <<owner, open, spent>>

Init == owner = NoGrant /\ open = {} /\ spent = {}

Claim(g) == owner \in {NoGrant, g} /\ owner' = g

Open(g, k) ==
    /\ Claim(g)
    /\ k \notin open \cup spent
    /\ Limit[g] # NoLimit => Cardinality(open \cup spent) < Limit[g]
    /\ open' = open \cup {k}
    /\ UNCHANGED spent

Spend(g, k) ==
    /\ Claim(g)
    /\ k \in open
    /\ open' = open \ {k}
    /\ spent' = spent \cup {k}

GiveBack(k) ==
    /\ k \in open
    /\ open' = open \ {k}
    /\ UNCHANGED <<owner, spent>>

\* A call that changes nothing else may still be the first to use the id.
Touch(g) == Claim(g) /\ UNCHANGED <<open, spent>>

Forget ==
    /\ Forgettable
    /\ owner' = NoGrant /\ open' = {} /\ spent' = {}

Next ==
    \/ \E g \in Grants : Touch(g) \/ \E k \in Keys : Open(g, k) \/ Spend(g, k)
    \/ \E k \in Keys : GiveBack(k)
    \/ Forget

Spec == Init /\ [][Next]_budgetVars
=============================================================================
