-------------------------- MODULE OperationBinding --------------------------
(***************************************************************************)
(* beginInvocation for one operationId of an idempotent action: the first  *)
(* request binds the operationId to its payload, others are refused, and   *)
(* then an invocation record is made for the payload.  Both records carry  *)
(* an expiry; PostgreSQL hides an expired row from get but not from INSERT *)
(* ... ON CONFLICT, the file store shows it until it is pruned.            *)
(***************************************************************************)
EXTENDS Naturals, FiniteSets

CONSTANTS
    Callers,      \* requests in progress, on any replicas
    Payloads,     \* the inputs they may carry; a payload determines requestHash, invocationKey
    HidesExpired, \* TRUE: PostgreSQL, FALSE: the JSON file store
    PaymentsOn,   \* PAYMENTS_REQUIRED
    TTL,          \* INVOCATION_TTL_SECONDS
    MaxTime,      \* bound on the clock
    MaxCrashes    \* bound on crashes

ASSUME OperationAssumption ==
    /\ HidesExpired \in BOOLEAN /\ PaymentsOn \in BOOLEAN
    /\ TTL \in Nat \ {0} /\ MaxTime \in Nat /\ MaxCrashes \in Nat

VARIABLES now, binding, invocation, caller, crashes,
    admitted  \* history: the payloads let through since the present binding was made

vars == <<now, binding, invocation, caller, crashes, admitted>>

NoRow == [payload |-> "none", expiresAt |-> 0]
Idle == [at |-> "idle", payload |-> "none", expiresAt |-> 0]

Init ==
    /\ now = 0
    /\ binding = NoRow
    /\ invocation = [p \in Payloads |-> NoRow]
    /\ caller = [c \in Callers |-> Idle]
    /\ crashes = 0
    /\ admitted = {}

There(row) == row # NoRow
Expired(row) == There(row) /\ row.expiresAt <= now
Shown(row) == There(row) /\ ~(HidesExpired /\ Expired(row))

Row(c) == [payload |-> caller[c].payload, expiresAt |-> caller[c].expiresAt]
GoTo(c, step) == caller' = [caller EXCEPT ![c].at = step]
Forget(c) == caller' = [caller EXCEPT ![c] = Idle]

-----------------------------------------------------------------------------
\* The request is authenticated; its records will expire a TTL from now.
Begin(c, p) ==
    /\ caller[c] = Idle
    /\ caller' = [caller EXCEPT ![c] = [at |-> "bind", payload |-> p, expiresAt |-> now + TTL]]
    /\ UNCHANGED <<now, binding, invocation, admitted>>

\* INSERT ... ON CONFLICT DO NOTHING; the map of the file store has the key or not.
Free(row) == ~There(row)

\* setIfAbsent inserts the binding.
Bind(c) ==
    /\ caller[c].at = "bind"
    /\ Free(binding)
    /\ binding' = Row(c)
    /\ admitted' = {caller[c].payload}
    /\ GoTo(c, "invoke")
    /\ UNCHANGED <<now, invocation>>

\* (slip) a binding is compared by the operationId alone
SameOperation(c) == TRUE

SameRequest(c) == binding.payload = caller[c].payload

\* A row it can read is compared with the request.  The file store reads in the same step.
Compare(c) ==
    /\ Shown(binding) /\ SameRequest(c)
    /\ admitted' = admitted \cup {caller[c].payload}
    /\ GoTo(c, "invoke")

Refuse(c) ==
    /\ Shown(binding) /\ ~SameRequest(c)
    /\ Forget(c)
    /\ UNCHANGED admitted

\* setIfAbsent finds a row; on PostgreSQL the row is read by another query, and once more
\* when that one finds nothing.
Conflict(c) ==
    /\ caller[c].at = "bind"
    /\ ~Free(binding)
    /\ IF HidesExpired THEN GoTo(c, "read") /\ UNCHANGED admitted
                       ELSE Compare(c) \/ Refuse(c)
    /\ UNCHANGED <<now, binding, invocation>>

ReadAgain == [read |-> "reread", reread |-> "overwrite"]

ReadBinding(c) ==
    /\ caller[c].at \in DOMAIN ReadAgain
    /\ \/ Compare(c)
       \/ Refuse(c)
       \/ ~Shown(binding) /\ GoTo(c, ReadAgain[caller[c].at]) /\ UNCHANGED admitted
    /\ UNCHANGED <<now, binding, invocation>>

\* Nothing to read although the insert conflicted: the binding is put there by set, whatever
\* is there by now.
Overwrite(c) ==
    /\ caller[c].at = "overwrite"
    /\ binding' = Row(c)
    /\ admitted' = {caller[c].payload} \cup IF Shown(binding) THEN admitted ELSE {}
    /\ GoTo(c, "invoke")
    /\ UNCHANGED <<now, invocation>>

\* setIfAbsent of the invocation record; a record that is there is of this payload.
Invoke(c) ==
    /\ caller[c].at = "invoke"
    /\ invocation' = [invocation EXCEPT ![caller[c].payload] = IF Free(@) THEN Row(c) ELSE @]
    /\ GoTo(c, "lookup")
    /\ UNCHANGED <<now, binding, admitted>>

\* The record is read, by setIfAbsent or once more after it.
Lookup(c) ==
    /\ caller[c].at = "lookup"
    /\ GoTo(c, IF Shown(invocation[caller[c].payload]) THEN "begun" ELSE "quote")
    /\ UNCHANGED <<now, binding, invocation, admitted>>

-----------------------------------------------------------------------------
(***************************************************************************)
(* Pruning: only createPaymentQuote and verifyPaymentHeader call it, at    *)
(* most once in an interval, so a deployment without payments never does.  *)
(* The two prefixes are deleted by two statements.                         *)
(***************************************************************************)
Unexpired(row) == IF Expired(row) THEN NoRow ELSE row

Paying(c) == PaymentsOn /\ caller[c].at \in {"quote", "begun"}

PruneBinding(c) ==
    /\ Paying(c) /\ Expired(binding)
    /\ binding' = NoRow
    /\ admitted' = {}
    /\ UNCHANGED <<now, invocation, caller>>

\* (slip) the invocation records are missing from the list of pruned prefixes
InvocationsKept == invocation

InvocationsPruned == [p \in Payloads |-> Unexpired(invocation[p])]

PruneInvocations(c) ==
    /\ Paying(c)
    /\ invocation' = InvocationsPruned
    /\ UNCHANGED <<now, binding, caller, admitted>>

-----------------------------------------------------------------------------
\* "quote": an expired row is not returned, so the request has no invocation and fails with
\* INVOCATION_NOT_FOUND or is told to pay first; "begun": it goes on to its end.
Leave(c) ==
    /\ caller[c].at \in {"quote", "begun"}
    /\ Forget(c)
    /\ UNCHANGED <<now, binding, invocation, admitted>>

\* The replica of the caller dies, between any two queries.
Crash(c) ==
    /\ caller[c] # Idle
    /\ crashes < MaxCrashes
    /\ crashes' = crashes + 1
    /\ Forget(c)
    /\ UNCHANGED <<now, binding, invocation, admitted>>

Tick ==
    /\ now < MaxTime
    /\ now' = now + 1
    /\ UNCHANGED <<binding, invocation, caller, admitted>>

Step(c) == Bind(c) \/ Conflict(c) \/ ReadBinding(c) \/ Overwrite(c) \/ Invoke(c) \/ Lookup(c) \/ Leave(c)

Next ==
    \/ \E c \in Callers : Crash(c)
    \/ /\ UNCHANGED crashes
       /\ \/ Tick
          \/ \E c \in Callers : \/ \E p \in Payloads : Begin(c, p)
                                \/ Step(c) \/ PruneBinding(c) \/ PruneInvocations(c)

\* A handler that is not killed goes on; of requests that keep coming, one prunes.
Fairness == \A c \in Callers : /\ WF_vars(Step(c) /\ UNCHANGED crashes)
                               /\ SF_vars(PruneInvocations(c) /\ UNCHANGED crashes)

Spec == Init /\ [][Next]_vars /\ Fairness

-----------------------------------------------------------------------------
\* One operationId never has two payloads that were let through while one binding was alive.
OneInterpretation == Cardinality(admitted) <= 1

\* The same where it can hold: on the file store at all times, with expired bindings found,
\* pruned and made anew while callers are between their steps; on PostgreSQL until the first
\* binding expires, with two racing inserts, a reader that comes late, and crashes.
OneInterpretationWhileKept == (HidesExpired => now < TTL) => OneInterpretation

Trying(c, p) == caller[c].at = "bind" /\ caller[c].payload = p

\* With payments on, a request that is tried over and over is begun again and again, or refused
\* because its operationId belongs to another: an expired record that is hidden but in the
\* way of an insert does not lock the operation out for ever.
EventuallyBegun ==
    \A p \in Payloads :
        (PaymentsOn /\ []<>(\E c \in Callers : Trying(c, p)))
            => []<>(\/ \E c \in Callers : caller[c].at = "begun" /\ caller[c].payload = p
                    \/ binding.payload \notin {"none", p})
=============================================================================
