---------------------------- MODULE ResultRegister ----------------------------
(***************************************************************************)
(* What a durable invocation promises to its callers: one result is        *)
(* decided, the payer is charged only once there is a result to deliver,   *)
(* and every caller that is answered gets the decided result.              *)
(***************************************************************************)
CONSTANTS Results, NoResult

VARIABLES decided, paid, answers

registerVars == <<decided, paid, answers>>

Init == decided = NoResult /\ paid = FALSE /\ answers = {}

Decide(r) ==
    /\ decided = NoResult
    /\ decided' = r
    /\ UNCHANGED <<paid, answers>>

Charge ==
    /\ decided # NoResult
    /\ paid' = TRUE
    /\ UNCHANGED <<decided, answers>>

Answer ==
    /\ decided # NoResult
    /\ answers' = answers \cup {decided}
    /\ UNCHANGED <<decided, paid>>

Next == (\E r \in Results : Decide(r)) \/ Charge \/ Answer

Spec == Init /\ [][Next]_registerVars
=============================================================================
