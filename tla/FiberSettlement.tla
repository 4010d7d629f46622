--------------------------- MODULE FiberSettlement ---------------------------
(***************************************************************************)
(* The facilitator's /verify and /settle for one Fiber payment hash, and   *)
(* the replay store that remembers which claim consumed the payment.       *)
(*                                                                         *)
(* A claim is what settlementFingerprint hashes: the requirement, the      *)
(* payer and the proof mode.  Calls are well formed and carry the right    *)
(* preimage; others are refused without touching any state.                *)
(*                                                                         *)
(* Durable = TRUE is PostgresReplayStore: consume is one INSERT.  Durable  *)
(* = FALSE is ReplayStore: consume sets the map at once and then awaits    *)
(* the file, so other calls read an entry that is not on disk yet.         *)
(***************************************************************************)
EXTENDS Naturals, FiniteSets

CONSTANTS
    Calls,       \* requests the facilitator serves at the same time
    Claims,      \* what can be presented for this payment
    NoClaim,
    Durable,
    MaxCrashes   \* bound: crashes of the process and failed writes

ASSUME SettlementAssumption ==
    /\ NoClaim \notin Claims
    /\ Durable \in BOOLEAN
    /\ MaxCrashes \in Nat

VARIABLES
    memory,    \* the consumption record as calls read it
    disk,      \* the consumption record that survives a crash
    paid,      \* the invoice is paid on the Fiber node
    calls,
    granted,   \* history: claims answered with success
    fresh,     \* history: successes that were not marked idempotent
    crashes

vars == <<memory, disk, paid, calls, granted, fresh, crashes>>

Stages == {"idle", "lookup", "strict", "query", "consume", "persist", "won",
           "raced", "answered"}
Answers == {"none", "success", "valid", "unpaid", "consumed"}
Idle == [stage |-> "idle", op |-> "verify", claim |-> NoClaim, answer |-> "none"]

TypeOK ==
    /\ memory \in Claims \cup {NoClaim}
    /\ disk \in Claims \cup {NoClaim}
    /\ paid \in BOOLEAN
    /\ calls \in [Calls -> [stage: Stages, op: {"verify", "settle"},
                            claim: Claims \cup {NoClaim}, answer: Answers]]
    /\ \A c \in Calls :
          /\ calls[c].stage # "idle" => calls[c].claim # NoClaim
          /\ calls[c].stage \in {"lookup", "consume", "persist", "won", "raced"}
                => calls[c].op = "settle"
    /\ granted \subseteq Claims
    /\ fresh \in Nat
    /\ crashes \in 0 .. MaxCrashes

Init ==
    /\ memory = NoClaim
    /\ disk = NoClaim
    /\ paid = FALSE
    /\ calls = [c \in Calls |-> Idle]
    /\ granted = {}
    /\ fresh = 0
    /\ crashes = 0

-----------------------------------------------------------------------------
At(c, stage) == calls[c].stage = stage
To(c, stage) == calls' = [calls EXCEPT ![c].stage = stage]
Reply(c, answer) == calls' = [calls EXCEPT ![c].stage = "answered", ![c].answer = answer]

Arrive(c, op, claim) ==
    /\ At(c, "idle")
    /\ calls' = [calls EXCEPT ![c] = [stage |-> IF op = "settle" THEN "lookup" ELSE "strict",
                                      op |-> op, claim |-> claim, answer |-> "none"]]
    /\ UNCHANGED <<memory, disk, paid, granted, fresh, crashes>>

\* (slip) whoever consumed the payment, a later settlement is answered success
AnyRecordMatches(c) == memory # NoClaim

\* (slip) the fingerprint of a retry differs from the one on record
NoRecordMatches(c) == FALSE

\* replayRecordMatches
RecordMatches(c) == memory = calls[c].claim

\* idempotentSettlement: the claim on record is settled again, any other refused.
Idempotent(c) ==
    IF RecordMatches(c)
    THEN Reply(c, "success") /\ granted' = granted \cup {calls[c].claim}
    ELSE Reply(c, "consumed") /\ UNCHANGED granted

\* settle looks the payment up first.
Lookup(c) ==
    /\ At(c, "lookup")
    /\ IF memory # NoClaim THEN Idempotent(c) ELSE To(c, "strict") /\ UNCHANGED granted
    /\ UNCHANGED <<memory, disk, paid, fresh, crashes>>

\* verify, which settle calls too, refuses a consumed payment whoever consumed it.
Strict(c) ==
    /\ At(c, "strict")
    /\ IF memory # NoClaim THEN Reply(c, "consumed") ELSE To(c, "query")
    /\ UNCHANGED <<memory, disk, paid, granted, fresh, crashes>>

\* backend.isPaid
IsPaid == paid

\* (slip) verifying a payment consumes it
VerifyConsumes(c) == FALSE

\* verify only answers; settle goes on.
OnlyVerifies(c) == calls[c].op = "verify"

Query(c) ==
    /\ At(c, "query")
    /\ IF ~IsPaid THEN Reply(c, "unpaid")
       ELSE IF OnlyVerifies(c) THEN Reply(c, "valid")
       ELSE To(c, "consume")
    /\ UNCHANGED <<memory, disk, paid, granted, fresh, crashes>>

\* (slip) the row is written without looking whether it is there
Overwrites == TRUE

\* INSERT ... ON CONFLICT DO NOTHING, or the has() before the set()
Unconsumed == memory = NoClaim

Consume(c) ==
    /\ At(c, "consume")
    /\ IF Unconsumed
       THEN /\ memory' = calls[c].claim
            /\ disk' = IF Durable THEN calls[c].claim ELSE disk
            /\ To(c, IF Durable THEN "won" ELSE "persist")
       ELSE To(c, "raced") /\ UNCHANGED <<memory, disk>>
    /\ UNCHANGED <<paid, granted, fresh, crashes>>

\* Writes of the file are queued; each writes the whole map.
Persist(c) ==
    /\ At(c, "persist")
    /\ disk' = memory
    /\ To(c, "won")
    /\ UNCHANGED <<memory, paid, granted, fresh, crashes>>

\* A failed write fails this call; the entry stays in the map.
PersistFails(c) ==
    /\ At(c, "persist")
    /\ crashes < MaxCrashes
    /\ crashes' = crashes + 1
    /\ calls' = [calls EXCEPT ![c] = Idle]
    /\ UNCHANGED <<memory, disk, paid, granted, fresh>>

Won(c) ==
    /\ At(c, "won")
    /\ Reply(c, "success")
    /\ granted' = granted \cup {calls[c].claim}
    /\ fresh' = fresh + 1
    /\ UNCHANGED <<memory, disk, paid, crashes>>

\* consume was lost to another settle: its record decides.
Raced(c) ==
    /\ At(c, "raced")
    /\ Idempotent(c)
    /\ UNCHANGED <<memory, disk, paid, fresh, crashes>>

Leave(c) ==
    /\ At(c, "answered")
    /\ calls' = [calls EXCEPT ![c] = Idle]
    /\ UNCHANGED <<memory, disk, paid, granted, fresh, crashes>>

\* The payer pays the invoice on the Fiber network.
Pay ==
    /\ ~paid
    /\ paid' = TRUE
    /\ UNCHANGED <<memory, disk, calls, granted, fresh, crashes>>

\* A replica dies with the call it serves; the table is elsewhere.
ReplicaCrash(c) ==
    /\ Durable
    /\ ~At(c, "idle")
    /\ crashes < MaxCrashes
    /\ crashes' = crashes + 1
    /\ calls' = [calls EXCEPT ![c] = Idle]
    /\ UNCHANGED <<memory, disk, paid, granted, fresh>>

\* The one process of the file store dies and loads the file again.
ProcessCrash ==
    /\ ~Durable
    /\ crashes < MaxCrashes
    /\ crashes' = crashes + 1
    /\ memory' = disk
    /\ calls' = [c \in Calls |-> Idle]
    /\ UNCHANGED <<disk, paid, granted, fresh>>

Serve(c) ==
    \/ Lookup(c) \/ Strict(c) \/ Query(c) \/ Consume(c)
    \/ Persist(c) \/ Won(c) \/ Raced(c) \/ Leave(c)

Next ==
    \/ \E c \in Calls :
          \/ \E op \in {"verify", "settle"}, claim \in Claims : Arrive(c, op, claim)
          \/ Serve(c)
          \/ PersistFails(c) \/ ReplicaCrash(c)
    \/ Pay \/ ProcessCrash

Spec == Init /\ [][Next]_vars

\* The facilitator answers, and a payer who was not answered settles again.
FairSpec == /\ Spec
            /\ \A c \in Calls : WF_vars(Serve(c))
            /\ \A claim \in Claims : SF_vars(\E c \in Calls : Arrive(c, "settle", claim))

-----------------------------------------------------------------------------
(***************************************************************************)
(* Properties                                                              *)
(***************************************************************************)
\* One payment buys one claim: all successful settlements of a payment, over
\* crashes and concurrent calls, are for the same requirement and payer, the one
\* a restarted facilitator will find on record.
OneClaimPerPayment == granted \subseteq {disk}

\* The provider books a payment once: at most one settlement is reported as a
\* fresh consumption, whatever races, write failures and restarts occur.
FreshOnce == fresh <= 1

\* No settlement succeeds, and nothing is recorded as consumed, for an invoice
\* that was not paid.
OnlyPaidIsConsumed == granted # {} \/ memory # NoClaim => paid

\* A consumption that reached the durable record is never replaced or forgotten.
ConsumptionIsFinal == [][disk # NoClaim => disk' = disk]_vars

\* A paid invoice is settled in the end: a consumption whose answer was lost in a
\* crash does not shut its own payer out.
PaidIsSettled == paid ~> granted # {}
=============================================================================
