---------------------------- MODULE DurableRecords ----------------------------
(***************************************************************************)
(* What a record store promises: every key holds one record at a time,     *)
(* every answer is the record the store holds, and a crash takes back only *)
(* changes nobody was told about.  A record is the number of changes made  *)
(* to its key (n), and whether the key is there after the last (on).       *)
(***************************************************************************)
EXTENDS Naturals

CONSTANTS Keys, Calls

VARIABLES
    store,  \* [Keys -> record]
    told,   \* [Keys -> Nat]: the last change a caller was told about
    seen    \* the last answer to each call

recordVars == <<store, told, seen>>

Absent == [n |-> 0, on |-> FALSE]

Init ==
    /\ store = [k \in Keys |-> Absent]
    /\ told = [k \in Keys |-> 0]
    /\ seen = [c \in Calls |-> Absent]

\* One change, of one key or (prune) of several.
Change ==
    /\ store' \in [Keys -> [n: Nat, on: BOOLEAN]]
    /\ \A k \in Keys : store'[k] = store[k] \/ store'[k].n = store[k].n + 1
    /\ UNCHANGED <<told, seen>>

Answer(c, k) ==
    /\ seen' = [seen EXCEPT ![c] = store[k]]
    /\ UNCHANGED <<store, told>>

Tell ==
    /\ \A k \in Keys : told'[k] \in told[k] .. store[k].n
    /\ UNCHANGED <<store, seen>>

Crash ==
    /\ \A k \in Keys : store'[k].n \in told[k] .. store[k].n
    /\ UNCHANGED <<told, seen>>

Next == Change \/ (\E c \in Calls, k \in Keys : Answer(c, k)) \/ Tell \/ Crash

Spec == Init /\ [][Next]_recordVars
===============================================================================
