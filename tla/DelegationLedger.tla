-------------------------- MODULE DelegationLedger --------------------------
(***************************************************************************)
(* The delegation usage ledger and the request handlers that drive it.     *)
(*                                                                         *)
(* An owner-signed grant bounds how many protected calls (maxUses) and how *)
(* much spend (maxSpendAtomic) a delegate may make.  The ledger keeps one  *)
(* usage row per grantId and one record per invocation key; a handler      *)
(* reserves a slot before the protected call, commits it after delivery    *)
(* and releases it when anything after the reservation fails.              *)
(*                                                                         *)
(* One grantId is modelled (rows of different ids share nothing).  Grants  *)
(* is the set of signed grants that carry this id: they differ in          *)
(* fingerprint, and the row belongs to the first that used it.             *)
(*                                                                         *)
(* Transactional = TRUE is PostgresDelegationUsageLedger: the expiry check *)
(* runs before the connection is awaited, everything after it is a         *)
(* transaction under a row lock, and an error rolls all of it back.        *)
(* Transactional = FALSE is LocalDelegationUsageLedger: check and body are *)
(* one synchronous step and whatever was written before a throw stays.     *)
(***************************************************************************)
EXTENDS Integers, FiniteSets, FiniteSetsExt

CONSTANTS
    Grants,          \* signed grants that share the modelled grantId
    Keys,            \* invocation keys
    Requests,        \* handler activations of the live service
    Prices,          \* spendAtomic values a request can carry
    MaxUses,         \* [Grants -> Nat \cup {NoLimit}]
    MaxSpend,        \* [Grants -> Nat \cup {NoLimit}]
    ExpiresAt,       \* [Grants -> Nat]
    NoLimit,         \* the null of maxUses and maxSpendAtomic
    NoGrant, NoKey,
    ReservationTtl,  \* reservationTtlMs
    HandlerTime,     \* how long an activation may work after it reserved
    MaxTime,         \* bound on the clock
    Transactional,   \* the PostgreSQL ledger, or the in-memory one
    Pruning          \* does anyone call pruneExpired (the live service does not)

ASSUME LedgerAssumption ==
    /\ IsFiniteSet(Keys)
    /\ NoGrant \notin Grants
    /\ NoKey \notin Keys
    /\ NoLimit \notin Nat
    /\ Prices \subseteq Nat
    /\ MaxUses \in [Grants -> (Nat \ {0}) \cup {NoLimit}]
    /\ MaxSpend \in [Grants -> Nat \cup {NoLimit}]
    /\ ExpiresAt \in [Grants -> Nat \ {0}]
    /\ ReservationTtl \in Nat \ {0}
    /\ HandlerTime \in Nat
    /\ MaxTime \in Nat
    /\ Transactional \in BOOLEAN
    /\ Pruning \in BOOLEAN

VARIABLES
    now,      \* the clock (Date.now() and clock_timestamp())
    row,      \* the usage row of the grantId
    inv,      \* the invocation records under the grantId
    sweep,    \* pruneExpired deleted the row, not yet the invocations
    req,      \* the handler activations
    charged   \* history: what each grant was charged for

vars == <<now, row, inv, sweep, req, charged>>

Statuses == {"none", "reserved", "committed", "released"}
Stages == {"idle", "reserving", "held", "committing", "failed"}

NoRow == [grant |-> NoGrant, usedCalls |-> 0, usedSpend |-> 0,
          reservedCalls |-> 0, reservedSpend |-> 0]
NoInvocation == [status |-> "none", spend |-> 0, updatedAt |-> 0]
IdleRequest == [stage |-> "idle", grant |-> NoGrant, key |-> NoKey,
                spend |-> 0, since |-> 0, owns |-> FALSE]

TypeOK ==
    /\ now \in Nat
    /\ row \in [grant: Grants \cup {NoGrant}, usedCalls: Nat, usedSpend: Nat,
                reservedCalls: Nat, reservedSpend: Nat]
    /\ inv \in [Keys -> [status: Statuses, spend: Nat, updatedAt: Nat]]
    /\ sweep \in BOOLEAN
    /\ req \in [Requests -> [stage: Stages, grant: Grants \cup {NoGrant},
                             key: Keys \cup {NoKey}, spend: Nat, since: Nat,
                             owns: BOOLEAN]]
    /\ \A r \in Requests :
          req[r].stage # "idle" => req[r].grant \in Grants /\ req[r].key \in Keys
    /\ charged \in [Grants -> [Keys -> Nat]]

Init ==
    /\ now = 0
    /\ row = NoRow
    /\ inv = [k \in Keys |-> NoInvocation]
    /\ sweep = FALSE
    /\ req = [r \in Requests |-> IdleRequest]
    /\ charged = [g \in Grants |-> [k \in Keys |-> 0]]

(***************************************************************************)
(* The ledger's own computations.                                          *)
(***************************************************************************)
Active(g) == now < ExpiresAt[g]

\* The row a call works on: created, all zero, by the first grant to use the id.
LockedRow(g) == IF row.grant = NoGrant THEN [NoRow EXCEPT !.grant = g] ELSE row

\* (slip) the counters are decremented without the GREATEST(0, ..)
LessUnclamped(a, b) == a - b

Less(a, b) == IF a >= b THEN a - b ELSE 0

\* A reserved slot goes back; the counters saturate at zero.
WithoutReservation(rw, spend) ==
    [rw EXCEPT !.reservedCalls = Less(@, 1), !.reservedSpend = Less(@, spend)]

WithReservation(rw, spend) ==
    [rw EXCEPT !.reservedCalls = @ + 1, !.reservedSpend = @ + spend]

WithCharge(rw, spend) ==
    [WithoutReservation(rw, spend) EXCEPT !.usedCalls = @ + 1, !.usedSpend = @ + spend]

\* (slip) any reservation may be reclaimed at once
AlwaysStale(k) == inv[k].status = "reserved"

Stale(k) == inv[k].status = "reserved" /\ now - inv[k].updatedAt >= ReservationTtl

\* (slip) the stale slot is taken over without being given back first
ReclaimedWithoutRefund(g, k) == LockedRow(g)

\* What reserve works on once a stale reservation of the same key is reclaimed.
Reclaimed(g, k) ==
    IF Stale(k) THEN WithoutReservation(LockedRow(g), inv[k].spend) ELSE LockedRow(g)

WithinLimit(amount, limit) == limit # NoLimit => amount <= limit

\* (slip) reservations of others are not counted against the limits
FitsIgnoringReserved(rw, g, spend) ==
    /\ WithinLimit(rw.usedCalls + 1, MaxUses[g])
    /\ WithinLimit(rw.usedSpend + spend, MaxSpend[g])

Fits(rw, g, spend) ==
    /\ WithinLimit(rw.usedCalls + rw.reservedCalls + 1, MaxUses[g])
    /\ WithinLimit(rw.usedSpend + rw.reservedSpend + spend, MaxSpend[g])

Collides(g, k, spend) ==
    \/ LockedRow(g).grant # g
    \/ inv[k].status # "none" /\ inv[k].spend # spend

\* What an erroring call leaves behind: nothing in a transaction, the row that
\* was created (and a reclaim already made) in memory.
KeptRow(rw) == IF Transactional THEN row ELSE rw

(***************************************************************************)
(* reserve                                                                 *)
(***************************************************************************)
ReserveRejected(r, g, k, s) ==
    /\ \/ Collides(g, k, s)
       \/ ~Collides(g, k, s) /\ inv[k].status = "reserved" /\ ~Stale(k)
    /\ row' = KeptRow(LockedRow(g))
    /\ req' = [req EXCEPT ![r] = IdleRequest]
    /\ UNCHANGED <<now, inv, sweep, charged>>

ReserveReplayed(r, g, k, s) ==
    /\ ~Collides(g, k, s)
    /\ inv[k].status = "committed"
    /\ row' = LockedRow(g)
    /\ req' = [req EXCEPT ![r] = [stage |-> "held", grant |-> g, key |-> k,
                                  spend |-> s, since |-> now, owns |-> FALSE]]
    /\ UNCHANGED <<now, inv, sweep, charged>>

Reservable(g, k, s) ==
    /\ ~Collides(g, k, s)
    /\ inv[k].status \in {"none", "released"} \/ Stale(k)

ReserveExhausted(r, g, k, s) ==
    /\ Reservable(g, k, s)
    /\ ~Fits(Reclaimed(g, k), g, s)
    /\ row' = KeptRow(Reclaimed(g, k))
    /\ inv' = IF Stale(k) /\ ~Transactional
              THEN [inv EXCEPT ![k].status = "released", ![k].updatedAt = now]
              ELSE inv
    /\ req' = [req EXCEPT ![r] = IdleRequest]
    /\ UNCHANGED <<now, sweep, charged>>

ReserveGranted(r, g, k, s) ==
    /\ Reservable(g, k, s)
    /\ Fits(Reclaimed(g, k), g, s)
    /\ row' = WithReservation(Reclaimed(g, k), s)
    /\ inv' = [inv EXCEPT ![k] = [status |-> "reserved", spend |-> s, updatedAt |-> now]]
    /\ req' = [req EXCEPT ![r] = [stage |-> "held", grant |-> g, key |-> k,
                                  spend |-> s, since |-> now, owns |-> TRUE]]
    /\ UNCHANGED <<now, sweep, charged>>

ReserveBody(r, g, k, s) ==
    \/ ReserveRejected(r, g, k, s)
    \/ ReserveReplayed(r, g, k, s)
    \/ ReserveExhausted(r, g, k, s)
    \/ ReserveGranted(r, g, k, s)

\* In memory the whole call is one synchronous step.
ReserveLocal(r, g, k, s) ==
    /\ ~Transactional
    /\ req[r].stage = "idle"
    /\ Active(g)
    /\ ReserveBody(r, g, k, s)

\* On PostgreSQL the expiry check is passed first ...
ReserveCheck(r, g, k, s) ==
    /\ Transactional
    /\ req[r].stage = "idle"
    /\ Active(g)
    /\ req' = [req EXCEPT ![r] = [stage |-> "reserving", grant |-> g, key |-> k,
                                  spend |-> s, since |-> 0, owns |-> FALSE]]
    /\ UNCHANGED <<now, row, inv, sweep, charged>>

\* ... and the transaction runs when a connection and the row lock are free.
ReserveTransaction(r) ==
    /\ req[r].stage = "reserving"
    /\ ReserveBody(r, req[r].grant, req[r].key, req[r].spend)

(***************************************************************************)
(* commit                                                                  *)
(***************************************************************************)
Commitable(g, k, s) == ~Collides(g, k, s) /\ inv[k].status = "reserved"

CommitRefused(r, g, k, s) ==
    /\ Collides(g, k, s) \/ inv[k].status \in {"none", "released"}
    /\ row' = KeptRow(LockedRow(g))
    /\ req' = [req EXCEPT ![r].stage = "failed"]
    /\ UNCHANGED <<now, inv, sweep, charged>>

CommitReplayed(r, g, k, s) ==
    /\ ~Collides(g, k, s)
    /\ inv[k].status = "committed"
    /\ row' = LockedRow(g)
    /\ req' = [req EXCEPT ![r] = IdleRequest]
    /\ UNCHANGED <<now, inv, sweep, charged>>

CommitGranted(r, g, k, s) ==
    /\ Commitable(g, k, s)
    /\ row' = WithCharge(LockedRow(g), s)
    /\ inv' = [inv EXCEPT ![k].status = "committed", ![k].updatedAt = now]
    /\ req' = [req EXCEPT ![r] = IdleRequest]
    /\ charged' = [charged EXCEPT ![g][k] = @ + 1]
    /\ UNCHANGED <<now, sweep>>

CommitBody(r, g, k, s) ==
    \/ CommitRefused(r, g, k, s)
    \/ CommitReplayed(r, g, k, s)
    \/ CommitGranted(r, g, k, s)

CommitLocal(r) ==
    /\ ~Transactional
    /\ req[r].stage = "held"
    /\ Active(req[r].grant)
    /\ CommitBody(r, req[r].grant, req[r].key, req[r].spend)

\* (slip) commit does not look at the expiry again
CommitCheckOfExpired(r) ==
    /\ Transactional
    /\ req[r].stage = "held"
    /\ req' = [req EXCEPT ![r].stage = "committing"]
    /\ UNCHANGED <<now, row, inv, sweep, charged>>

\* commit, too, passes its check before its transaction.
CommitCheck(r) ==
    /\ Transactional
    /\ req[r].stage = "held"
    /\ Active(req[r].grant)
    /\ req' = [req EXCEPT ![r].stage = "committing"]
    /\ UNCHANGED <<now, row, inv, sweep, charged>>

CommitTransaction(r) ==
    /\ req[r].stage = "committing"
    /\ CommitBody(r, req[r].grant, req[r].key, req[r].spend)

\* The protected call or the settlement throws, or the grant expired meanwhile
\* and commit refuses it: the handler's catch block is next.
Fail(r) ==
    /\ req[r].stage = "held"
    /\ req' = [req EXCEPT ![r].stage = "failed"]
    /\ UNCHANGED <<now, row, inv, sweep, charged>>

(***************************************************************************)
(* release: the catch block of the handler.  It checks no expiry, and it   *)
(* identifies the reservation by its key only.                             *)
(***************************************************************************)
\* (slip) release does not look at the status of the invocation
ReleasableAlways(g, k, s) == row.grant = g /\ inv[k].spend = s

Releasable(g, k, s) ==
    /\ row.grant = g
    /\ inv[k].status = "reserved"
    /\ inv[k].spend = s

Release(r) ==
    LET g == req[r].grant
        k == req[r].key
        s == req[r].spend
    IN  /\ req[r].stage = "failed"
        /\ IF Releasable(g, k, s)
           THEN /\ row' = WithoutReservation(row, s)
                /\ inv' = [inv EXCEPT ![k].status = "released", ![k].updatedAt = now]
           ELSE UNCHANGED <<row, inv>>
        /\ req' = [req EXCEPT ![r] = IdleRequest]
        /\ UNCHANGED <<now, sweep, charged>>

(***************************************************************************)
(* pruneExpired                                                            *)
(***************************************************************************)
Prunable == Pruning /\ row.grant # NoGrant /\ ExpiresAt[row.grant] <= now

\* In memory the row goes with the invocations it holds.
PruneLocal ==
    /\ ~Transactional
    /\ Prunable
    /\ row' = NoRow
    /\ inv' = [k \in Keys |-> NoInvocation]
    /\ UNCHANGED <<now, sweep, req, charged>>

\* On PostgreSQL the rows are deleted by one statement ...
PruneRows ==
    /\ Transactional
    /\ ~sweep
    /\ Prunable
    /\ row' = NoRow
    /\ sweep' = TRUE
    /\ UNCHANGED <<now, inv, req, charged>>

\* ... and the invocations of those grant ids by a second.
PruneInvocations ==
    /\ sweep
    /\ inv' = [k \in Keys |-> NoInvocation]
    /\ sweep' = FALSE
    /\ UNCHANGED <<now, row, req, charged>>

(***************************************************************************)
(* The environment                                                         *)
(***************************************************************************)
\* Nothing cancels a handler; HandlerTime is the sum of the timeouts on its path
\* (follower wait, upstream call, facilitator call).
Overdue(r) == req[r].stage \in {"held", "committing", "failed"}
              /\ now - req[r].since >= HandlerTime

Tick ==
    /\ now < MaxTime
    /\ \A r \in Requests : ~Overdue(r)
    /\ now' = now + 1
    /\ UNCHANGED <<row, inv, sweep, req, charged>>

\* A replica dies while it serves r; the shared ledger keeps what r reserved.
ReplicaCrash(r) ==
    /\ Transactional
    /\ req[r].stage # "idle"
    /\ req' = [req EXCEPT ![r] = IdleRequest]
    /\ UNCHANGED <<now, row, inv, sweep, charged>>

\* The single process of the in-memory ledger dies with everything it holds;
\* the history counts the charges of one process life.
ProcessRestart ==
    /\ ~Transactional
    /\ row' = NoRow
    /\ inv' = [k \in Keys |-> NoInvocation]
    /\ req' = [r \in Requests |-> IdleRequest]
    /\ charged' = [g \in Grants |-> [k \in Keys |-> 0]]
    /\ UNCHANGED <<now, sweep>>

Handler(r) ==
    \/ ReserveTransaction(r)
    \/ CommitLocal(r) \/ CommitCheck(r) \/ CommitTransaction(r)
    \/ Fail(r) \/ Release(r)

Next ==
    \/ \E r \in Requests :
          \/ \E g \in Grants, k \in Keys, s \in Prices :
                ReserveLocal(r, g, k, s) \/ ReserveCheck(r, g, k, s)
          \/ Handler(r)
          \/ ReplicaCrash(r)
    \/ PruneLocal \/ PruneRows \/ PruneInvocations
    \/ Tick \/ ProcessRestart

Spec == Init /\ [][Next]_vars

-----------------------------------------------------------------------------
(***************************************************************************)
(* Properties                                                              *)
(***************************************************************************)
KeysIn(status) == {k \in Keys : inv[k].status = status}
SpendOf(S) == MapThenSumSet(LAMBDA k : inv[k].spend, S)
RowLive == row.grant # NoGrant /\ Active(row.grant)

\* r works, or is about to commit, under a reservation the ledger granted it.
Working(r) == /\ req[r].stage \in {"held", "committing"}
              /\ req[r].owns
              /\ Active(req[r].grant)

\* While a grant can be used, the call counters of its usage row are exactly
\* what its invocation records add up to: no interleaving of reserve, commit,
\* release and reclaim leaks a slot or gives one back twice (the counters are
\* stored beside the records, never derived from them).
CallCountersAgree ==
    RowLive => /\ row.reservedCalls = Cardinality(KeysIn("reserved"))
               /\ row.usedCalls = Cardinality(KeysIn("committed"))

\* What is used and what is reserved together never exceed the maxUses of the
\* grant that owns the row, although each request brings its own copy of the
\* limit (the fingerprint check is what keeps a second grant out).
CallsWithinLimit ==
    row.grant # NoGrant =>
        WithinLimit(row.usedCalls + row.reservedCalls, MaxUses[row.grant])

\* The same two facts about spend: the amounts agree with the records, whatever
\* prices they were taken at, and stay within maxSpendAtomic.
SpendWithinBudget ==
    RowLive => /\ row.reservedSpend = SpendOf(KeysIn("reserved"))
               /\ row.usedSpend = SpendOf(KeysIn("committed"))
               /\ WithinLimit(row.usedSpend + row.reservedSpend, MaxSpend[row.grant])

\* Two activations never work under a reservation of the same key at once, so a
\* release or a commit, which name only the key, act on the caller's own
\* reservation.  Holds when no activation outlives reservationTtlMs.
OneHolderPerKey ==
    \A q, r \in Requests :
        Working(q) /\ Working(r) /\ req[q].key = req[r].key => q = r

\* A committed charge is final while the grant lives: no late release by an
\* overtaken activation and no new reservation undoes it or charges it again.
CommitsAreFinal ==
    [][\A k \in Keys :
          inv[k].status = "committed" /\ RowLive
              => inv'[k].status = "committed" \/ row'.grant = NoGrant]_vars

\* The release notes' promise that concurrent requests cannot oversubscribe a
\* bounded delegation: the invocations charged over its whole life, across expiry
\* and replica crashes, together with those being executed under a reservation younger
\* than reservationTtlMs, fit in maxUses.
FreshlyHeld(g) ==
    {req[r].key : r \in {q \in Requests : /\ Working(q)
                                         /\ req[q].grant = g
                                         /\ now - req[q].since < ReservationTtl}}

ChargedKeys(g) == {k \in Keys : charged[g][k] > 0}

NoOversubscription ==
    \A g \in Grants :
        WithinLimit(Cardinality(FreshlyHeld(g) \cup ChargedKeys(g)), MaxUses[g])

\* The ledger implements the call budget: reserved keys are open, committed keys
\* are spent, and reclaiming a stale reservation for its own key is invisible.
Budget == INSTANCE DelegationBudget WITH
    Limit <- MaxUses,
    Forgettable <- ~Transactional,
    owner <- row.grant,
    open <- KeysIn("reserved"),
    spent <- KeysIn("committed")

BudgetRefined == Budget!Spec
=============================================================================
