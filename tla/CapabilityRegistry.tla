-------------------------- MODULE CapabilityRegistry --------------------------
(***************************************************************************)
(* The reference model of the protocol (the deterministic chain): every    *)
(* capability is issued once, by its issuer, for its first owner; its      *)
(* owner may hand it over if it is transferable, unchanged, or retire it.  *)
(***************************************************************************)
CONSTANTS Wallets, Contents, Identities

VARIABLES
    right,   \* [Identities -> Unissued, Retired or who owns what]
    signer   \* who signed the last transaction

registryVars == <<right, signer>>

Unissued == [state |-> "unissued"]
Retired == [state |-> "retired"]
Owned(w, content) == [state |-> "owned", owner |-> w, content |-> content]

Init ==
    /\ right = [i \in Identities |-> Unissued]
    /\ signer \in Wallets

\* issue: an input of the issuer, an identity that was never issued
Issue(i, s, old, new) ==
    /\ old = Unissued
    /\ s = i.issuer
    /\ \E w \in Wallets, content \in Contents : new = Owned(w, content)

\* transfer: by the owner, nothing but the owner changes, and that only if transferable
Transfer(s, old, new) ==
    /\ old.state = "owned" /\ old.owner = s
    /\ \E w \in Wallets :
          /\ w = s \/ old.content.transferable
          /\ new = Owned(w, old.content)

\* surrender: by the owner, for ever
Surrender(s, old, new) ==
    /\ old.state = "owned" /\ old.owner = s
    /\ new = Retired

\* A transaction may move several capabilities of its signer.
Transaction(s) ==
    LET before == right
        after == right' IN
    /\ signer' = s
    /\ DOMAIN after = Identities
    /\ \A i \in Identities :
          LET old == before[i]  new == after[i] IN
          old = new \/ Issue(i, s, old, new) \/ Transfer(s, old, new) \/ Surrender(s, old, new)

Next == \E s \in Wallets : Transaction(s)

Spec == Init /\ [][Next]_registryVars
===============================================================================
