# TLA+ models of SkillPass

SkillPass lets the owner of a live CKB *Capability Cell* call protected services of
independent providers, directly or through a delegate, optionally paying per call over
Fiber. This directory models the parts of the program whose correctness depends on
interleavings, crashes, retries and time, checks them with TLC and proves the most important
results with TLAPS. Paths below are relative to the repository root.

## The system

| component | code | state it keeps | operations |
|---|---|---|---|
| live service gateway | `apps/live-service/server.mjs` | in-process maps (quotes in flight, burst counters, chain tip) | `handleInvokeRequest`: rate limit, authenticate, quote or verify payment, begin, reserve, lease, execute, settle, commit, deliver, store evidence |
| durable invocations | `apps/live-service/state.mjs` | one record per invocation key: state, lease, result, settlement | `acquireExecutionLease`, `completeExecutionLease`, `advanceInvocation` |
| operation bindings | `apps/live-service/state.mjs` | one binding per operationId, expiring | `beginInvocation` |
| quotes, receipts, evidence, revocations | `apps/live-service/state.mjs` | records by prefix, quote pointers | set, get, delete, prune |
| record stores | `packages/production-store/src/stores.mjs`, `packages/x402-fiber/src/record-store.mjs` | a table, or a map saved to one JSON file | get, set, setIfAbsent, compare-and-set, delete, prune |
| delegation ledger | `packages/production-store/src/stores.mjs`, `packages/delegation/src/usage-ledger.mjs` | a usage row per grant, a record per invocation key | reserve, commit, release, pruneExpired |
| facilitator | `packages/x402-fiber/src/facilitator.mjs`, `replay-store.mjs`, `apps/fiber-facilitator/server.mjs` | one consumption record per payment hash | verify, settle, invoice |
| challenge stores | `stores.mjs`, `apps/live-service/runtime-state.mjs`, `packages/verifier` | one message per nonce | issue, consume |
| rate limiters | `stores.mjs`, `runtime-state.mjs`, `server.mjs` | a counter per window and subject; a closed-until mark | consume |
| capability contract | `contracts/capability-type/src/main.rs` | the cells of a transaction | issue, transition, surrender |
| client library | `packages/ckb-client/src/live.ts`, `packages/capability-codec` | none (reads and writes the chain) | discover, issue, transfer, surrender, verify |
| verification by providers | `packages/provider-verifier`, `service-rights`, `care-bridge`, `server.mjs` | none (reads the chain) | contract, finality, policy, owner, subject binding |
| agent | `packages/agent-sdk`, `services.mjs`, `packages/service-gateway` | a payment while a call lasts | invoke, invoke with payment; the gateway's call of a remote provider |
| web application | `apps/web/src/App.tsx` | the state of one page | connect, refresh, issue, transfer, delegate, use, pay, retry |
| demonstration | `apps/demo-service/server.mjs`, `packages/verifier/src/in-memory-chain.mjs` | a chain, challenges and invoices in memory | reset, transfer, challenge, use, paid use |
| schema migration | `packages/production-store/src/postgres.mjs`, started by `runtime-state.mjs` and the facilitator | `skillpass_schema_migrations`, a session advisory lock | `migratePostgres` |
| readiness | `apps/live-service/server.mjs` | a cached report, a computation in flight | `GET /readyz` |
| discovery, pool, scripts | `discovery.mjs`, `postgres.mjs`, `scripts` | - | - |

How they interact: any number of gateway replicas share PostgreSQL (and Redis); every handler
awaits a store, the chain, an upstream service or the facilitator between its steps, and
nothing cancels a handler whose client went away. One request touches, in this order, the
rate limiters, a challenge, the live cell, the operation binding and invocation record, the
quote or receipt, the delegation ledger, the execution lease, the protected service, the
facilitator, the receipt, the invocation record, the ledger, the invocation record again and
the evidence. Each of these is atomic on its own; nothing makes the sequence atomic. Around
the gateway, clients read the chain and act later on what they read. That is where the hard
behaviour is:

* *interleavings* of handlers, or of the tasks of a page, between a read and the write
  computed from it;
* *crashes and thrown errors* between two steps, and the retry that follows;
* *time*: leases, reservations, quotes, grants, bindings, assertions and challenges expire
  while somebody who holds one is still working, and not everybody sees them expire alike;
* *lost answers* of a facilitator, a service, a chain node or the gateway that has already
  acted;
* *moving data*: a capability is sold between any two reads of it.

What makes each part correct:

* ledger: counters equal the records, limits hold for used plus reserved, a commit is final,
  a key is charged once, slots of dead holders come back;
* invocation: the state only advances, one activation executes at a time, one result, nothing
  is charged before a result is durable, a dead worker blocks nobody for ever;
* operation bindings: one payload per operationId, and no operation is locked out for ever;
* record store: a durable map; what a caller was told is not lost;
* facilitator: one payment buys one claim, is booked once, and its payer can always settle;
* authorization: one request per nonce, exactly as signed, by an address that owned the live
  cell while the request was served, or under its grant;
* quotes and receipts: a payment serves the request it was quoted for and no other, and no
  crash loses it;
* rate limiters: a bound on what passes of the requests of a window, and no subject that shuts
  out the others;
* migration and readiness: whoever serves has the whole schema of its release, and a probe is
  told what the dependencies answered recently;
* contract and client library: an id is issued once, changes hands only by its owner, and a
  wallet loses nothing by accident;
* providers: whoever is served held the capability, and its subject, while it was decided;
* agent and page: a payment is presented for its own request, is kept until it is served,
  and answers are true.

## Modules

| module | what it is |
|---|---|
| `DelegationLedger` | the ledger (PostgreSQL and in-memory) and the handlers that use it |
| `DelegationBudget` | abstract: a call budget with no clock and no counters |
| `Invocation` | one invocation record, its execution lease, its payment, and the handler activations |
| `ResultRegister` | abstract: a result decided once, charged after, answered to everybody |
| `OperationBinding` | `beginInvocation`: the binding, the invocation record, their expiry and pruning |
| `FiberSettlement` | the facilitator's verify and settle over both replay stores |
| `Authorization` | challenges, grants, the live cell, revocation and finality, and the requests that are checked against them |
| `PaymentFlow` | quotes, their pointers, receipts, and the handlers that quote, verify, settle and deliver |
| `FileStore` | the JSON record store: the shared load, the map, the chain of persist tasks |
| `DurableRecords` | abstract: a durable map that keeps what callers were told |
| `RateLimit` | the burst gate, the closed-until mark and the three limiters of a route |
| `Migration` | the advisory lock and the migrations that servers of several releases apply |
| `Readiness` | probes, the shared computation and the kept report |
| `CapabilityCell` | capability cells, the contract, arbitrary transactions, and wallets with the client library |
| `CapabilityRegistry` | abstract: who owns what; the rules of `protocol-core` |
| `ProviderDecision` | an independent provider, the Care bridge, the gateway's own verification and the client library's, deciding from a moving chain |
| `AgentCall` | the agent SDK, the gateway and a remote provider, end to end |
| `WebApp` | one page of the web application and its asynchronous tasks |
| `DemoService` | the demonstration and its chain in memory |
| `DelegationLedgerProofs`, `InvocationProofs`, `FiberSettlementProofs`, `AuthorizationProofs`, `PaymentFlowProofs` | TLAPS proofs about the modules they are named for (`AuthorizationProofs` also about `MCAuthorizationStores`) |
| `LedgerDeploymentsProofs` | proofs about the deployments of the ledger that the run `Ledger` chooses from |
| `StoresProofs` | proofs about `OperationBinding`, `FileStore`, `RateLimit`, `Migration` and `Readiness` |
| `ClientsProofs` | proofs about `CapabilityCell`, `ProviderDecision`, `AgentCall`, `WebApp` and `DemoService` |
| `MC...` | constants and symmetry for TLC, and the modules that put several parts or deployments into one run |

Composition. `DelegationLedger`, `Invocation`, `OperationBinding`, `PaymentFlow` and
`Authorization` each model the same handler, with the steps of the others reduced to one; their
order is that of `handleInvokeRequest`. `AgentCall` composes all of them once more with the
client before and the provider behind the gateway, each store access being one step; it is
where a property needs both ends. `PaymentFlow!Settle` is one step of `FiberSettlement`, and
the stores under them are what `FileStore` and the PostgreSQL statements promise.

Definitions whose comment starts with `(slip)` are not part of a specification: each is a
plausible mistake in the definition below it, used to show that the checked properties would
notice it.

### DelegationLedger

One `grantId` is modelled; rows of different ids share nothing. `Grants` are the signed grants
that carry this id (they differ in fingerprint and limits); the row belongs to the first that
used it. `row` is the usage row, `inv` the invocation records, `req` the handler activations
(`reserving` and `committing` are the stages between the expiry check and the transaction),
`charged` a history of what was committed. Each of `reserve`, `commit` and `release` is split
along the outcomes of the code: rejected, replayed, exhausted, granted, refused. With
`Transactional` the body is one step under the row lock and an error changes nothing; without
it check and body are one step and an error keeps the row that was created and a reclaim that
was made (`KeptRow`). `pruneExpired` is two steps on PostgreSQL. `Tick` advances the clock; it
waits while an activation has worked `HandlerTime`, which is how "handlers end within their
timeouts" is stated.

### Invocation

`rec` is the record, `receipt` the result in the delivery receipt, `act` the activations. An
activation reads the record in one step (`Verify`, `LeaseRead`, ...) and writes by
compare-and-set in a later one (`VerifyWrite`, `LeaseWrite`, ...), from the copy `seen` that it
read. `LeaseExpires` is the passing of the lease time; with `Timely` it waits for the owner to
finish. `Fail` covers a crash, a thrown error and an upstream failure at any point,
`GiveUp` a follower's 409.

### FiberSettlement

One payment hash. `memory` is the consumption record as calls read it, `disk` what survives a
crash; on PostgreSQL they are the same. `Lookup`, `Strict` (the `has` inside `verify`),
`Query` (`isPaid`), `Consume`, `Raced` follow `settle`; every await is a boundary.

### Authorization

One capability. `live`, `owner` and `born` are its cells on the chain (`Transfer` makes the next
one, `Burn` ends it), `pending` the nonces the challenge store holds, `issued` what each nonce
was issued for, `req` the requests. `Send` lets a client combine any nonce, address, signer and
intent. The handler then follows `authenticateProtectedRequest`: `Consume` (the store removes
the nonce before anything about it is compared), `VerifySignature`, `CheckGrant`, `ReadCell`,
`ReadRevocation`, `Authorize`; every await is a boundary, and transfers, revocations and ticks
happen between them. `Authorize` draws the chain tip from `Tips`, because it is cached.
`Local` chooses the in-process store, whose `#prune` evicts the oldest entries beyond its
capacity, and which a restart empties. `witnessed` is a history of the owners the live cell had
and of moments without a revocation while a request was served: the properties say "at some
moment of the request", which is all a sequence of reads can promise.

### PaymentFlow

A binding is a semantic request, a hash an invoice. `createPaymentQuote` is `ReadPointer`,
`ReadPointedQuote`, `DropPointer`, `Lead`, `Invoice`, `SetQuote`, `SetPointer`, `Quoted`; the
followers of `inFlight` are answered in the leader's last step. `verifyPaymentHeader` is
`ReadReceipt`, `ReadQuote`, `Verify`; the rest of `handleInvokeRequest` is `Begin`, `Execute`
(one step: `Invocation` has its lease), `Settle` (one step: `FiberSettlement` has its inside),
`SetReceipt`, `ReadOwnQuote`, `DeleteQuote`, `ReadOwnPointer`, `DeletePointer`, `Advance`,
`Deliver`. An action reads its record before the payment is looked at and again after; only
the later read decides, so `Begin` stands after `Verify` for both kinds of service. `Fail` ends a
handler before any of these steps. `issued` is a history of what every invoice was made for
and when its quote ends.

### OperationBinding

One operationId. `binding` is its row, `invocation` the record of each payload, `caller` a
request between the queries of `beginInvocation`: `Bind` or `Conflict` (setIfAbsent),
`ReadBinding` (the get of setIfAbsent and the get after it), `Overwrite` (the `set` when
neither returned a row), `Invoke` and `Lookup`. `HidesExpired` distinguishes PostgreSQL, whose
`get` filters expired rows that still conflict with an insert, from the file store, whose
`setIfAbsent` checks, inserts and reads in one step of the event loop. `PruneBinding` and
`PruneInvocations` are the two statements of the prune, which only a payment triggers.

### FileStore

`entries` is the map, `load` the shared promise of the first call, `chain` the queued persist
tasks, `temp` the temporary file of the running one. A mutation changes the map at once and
its caller is answered by `Rename`; a task saves the map as it is when the task runs. Faults are
an unreadable file, a failing write and a restart. A record is the number of changes made to a
key, which is all that `DurableRecords` needs to tell old from new. The replay store of the
facilitator has the same structure.

### RateLimit

One route. `Arrive` is the code before the first await (the mark `globalBlockedUntil`, the
burst gate, the time the window is taken from), `CountSubject` and `CountGlobal` the two calls
of `consume`, `Close` the arrival of a refusal for all subjects. `Trim` is the eviction of the
in-process maps, which are sets of entries here, each with its place in the order of insertion.
`Wait`, the longest time between a call of `consume` and its count, is at most a window: a query
that is answered a minute late would be counted in a window nobody looks at any more.

### Migration

`lock` is the session advisory lock, `schema` the versions in the table, `server` where each
process stands and what it has read. `Start`, `Lock`, `ReadVersions`, `Migrate`, `Commit` and
`Unlock` follow `migratePostgres`, every query being a step. `QueryFails` is any error of a
query, the statement timeout of a server that waits for the lock among them; `SessionEnds` a
process or a connection that dies, with which PostgreSQL gives the lock back. Servers may be of
releases that differ in the number of their migrations. The lock belongs to a session, so the
model assumes a pool that keeps one (no transaction pooler between the server and PostgreSQL).

### Readiness

`Probe` takes the kept report, joins the computation in flight or starts one; `Ask` and
`Complete` are the answers of the dependencies, which are asked one after the other. `told` is a
history of the last report a probe got and when. A dependency answers or fails within
`Timeout`; the Redis `PING` has no timeout in the code, so that the bound on the age of a report
assumes that Redis, where it is used, answers.

### CapabilityCell

`cells` are the live cells, `mempool` signed transactions, which may be committed much later
(`Commit`) or not at all (`Refuse`). `Contract` is what `main.rs` decides for each type a
transaction touches: parsing, the shape of the group, identity, issuer, what may change. Wallets
with the client library (`Honest`) build from `view`, what they have discovered (`BuildIssue`,
`BuildTransfer`, `BuildSurrender`), and `waiting` is the transaction they wait for before they
give up; `Foreign` is any other software, with arbitrary outputs.

### ProviderDecision

One capability that is transferred (`Transfer`), a subject that moves by itself (`MoveSubject`),
and requests at four hosts. `ReadCell` is `verifyResolvedCapabilityCell` with the policy,
`ReadSubject` the subject binding, `Decide` `verifyServiceRight`, `Commit` the Care bridge's
database; every await is a boundary. `holders`, `reholders` and `subjects` are histories of the
owners there were while a request was decided.

### AgentCall

`call` is what the SDK does, `req` its HTTP requests at the gateway: `Authenticate`, `Quote`,
`VerifyPayment`, `Delivered`, `Follow`, `Acquire`, `Complete`, `Settle`, `Deliver`, `Record`, with
`Crash` anywhere. Requests to the provider are in `network` and arrive at any time; the provider
checks the assertion with its own clock. `Sell` transfers the capability.

### WebApp

`tasks` are the asynchronous functions in progress, with the values of the render they were
started in; each of their awaits is a boundary at which the wallet, the selection, the text and
`busy` may have changed. The server is what the page can tell of it.

### DemoService

Every route is one step, because after its body is read a handler awaits only resolved
promises. A reset makes chain, challenges and invoices anew. `PaymentBinding` is what a quote is
bound to: requester and text, but no cell, because `paymentBinding` reads `txHash` and `index` of
an out point that is a string here (see the list under Findings).

## Runs

A run may have several parts: a variable that never changes (`part`, `deployment`, `overrun`,
`inProcess`, `inFile`, `two`) chooses in the initial state which specification a behaviour belongs to,
the variables of the others rest, and a property that belongs to one part says so. Every part
is explored in full; parts share nothing.

| run | result | what it shows |
|---|---|---|
| `Ledger` | pass | PostgreSQL, PostgreSQL with somebody who prunes, and in memory with restarts: counters exact, call and spend limits, no oversubscription, one holder per key, refinement of `DelegationBudget` |
| `Invocation` | pass | executions that end within their lease: one at a time, receipt and record agree, refinement of `ResultRegister`, delivery in the end; executions that need not: nobody is charged before a result is durable, the state never goes back |
| `Settlement` | pass | both replay stores: one claim per payment (PostgreSQL), booked once, never forgotten, settled in the end although answers get lost |
| `Authorization` | pass | who passes owned the named, confirmed, unrevoked cell, or held a grant in scope of its owner, while being served; a nonce authorizes one request, also on the in-process store at its capacity |
| `Payment` | pass | a payment serves only the request it was quoted for and nothing is delivered unpaid, with one process and one invoice and a failure at any await, and with two processes and two invoices, of one request or of two; a receipt is earned, a crash leaves the payment usable, and with the failure a consumed payment ends in a delivered result, while its quote lasts |
| `Stores` | pass | the file store implements `DurableRecords`; one payload per operationId while its binding is kept, on both stores, and no operation is locked out; at most twice the limit passes of the requests of one window and one subject cannot close a route; servers of two releases migrate the schema while they fail and die and serve with the whole of it, and a probe gets recent answers |
| `Clients` | pass | capability cells and the demonstration's chain implement `CapabilityRegistry`, no honest wallet loses a capability; the page uses a payment for its own request and keeps it; in the demonstration a payment buys one answer, of its user and text; an agent's answers and evidence are true and a former owner is served only for a bounded time; a provider decides for who held the capability meanwhile |
| `LedgerOverdue` | violation | finding 1 |
| `InvocationLateResult` | violation | finding 2 |
| `PaymentRetryRace` | violation | finding 3 |
| `OperationRebind` | violation | finding 4 |
| `AgentPaysTwice` | violation | finding 5 |

Bounds. `Ledger` uses two activations, keys, grants and prices, a clock of 5 with
`ReservationTtl` 2 and `HandlerTime` 1, grants expiring at 2 and 4: a reservation can go stale
and be reclaimed before and after a grant expires, both limits can be exhausted by one call and
by two, and the two grants can collide. `MaxUses` 1 and 2-unit spend limits make every boundary
reachable. In its pruned deployment one grant has the id: of two, one can find the records a
prune of the other has left, and counters and records part (ids are 16 random bytes, and the live
service never calls `pruneExpired`). What this part adds is a reserve or commit whose expiry
check passed before the grant expired and its row was pruned. In memory a reservation is left to
reclaim by a handler that is killed.
`LedgerOverdue` needs a third activation and a `HandlerTime` above the TTL.

`Invocation` uses three activations, enough for an owner, a worker that takes over and a
follower, and two where executions overrun; tokens never run out because one out of use can be
drawn again. Failures and crashes are bounded by a constant (1), which liveness needs.
`Settlement` has three calls of two claims and one crash: a winner, the loser of a race and a
late replay.

`Authorization` uses, on the shared stores, one request and one nonce but three cells, so that a
cell can be transferred away and back to its first owner, every combination of address, signer,
cell and grant, two confirmations and a tip that is at most one block old; on the in-process
store two requests, three nonces and a capacity of one. Blocks are one per unit of time and
never reorganised. `Payment` has two handlers of one process, an action, a call, one invoice, one
failure and a clock in which a quote expires while its payment is being served, on the store that
returns expired rows; its other part has a second process and a second invoice, so that both
processes quote one request at once, and no failure. The proofs about `PaymentFlow` hold for any
number of all of these. `PaymentRetryRace` has two invoices.

`Stores`: two keys, two calls, two changes of a key and one fault for the file (a change under
way, one queued behind it, and a crash between); two callers, two payloads, a TTL of 1 in a
clock of 2 and one crash for the bindings (a binding expires, is found, pruned and made again
within a behaviour), three callers in `OperationRebind`, as the first one's row has to be there; four
requests, limits of 1 per subject and 2 for all (3 on Redis, three times the one per subject, as
with the defaults), windows of 2 and maps of two entries for the limiters (a boundary between two
windows, a request counted a window late, a map that has to evict); three servers of two
releases, with 3 and 5 migrations (an older server that starts on a newer schema); two probes of
three dependencies, timeouts of 1, a report kept for 2 and a clock of 6.
`Clients`: transactions with two inputs and two capability outputs, three of them in a behaviour
(issue, hand over, and one that was signed before); three tasks and two wallet switches on the
page (a paid retry and a refresh that is late, or an account that was changed meanwhile), and in a
part of its own five tasks of one account that refreshes and runs requests with two texts (two
paid requests beside each other, and the retry of one); `MaxTasks` 5 is of that part, `FewTasks` 3
of the other;
two calls of the agent with two HTTP
requests each, handlers of 1, leases of 2, assertions that live 1, a call of 4 and clocks one
apart; three moves of the chain, which are a transfer away, one back and a subject that moves, and
two confirmations; two runtimes, three cells, one
challenge and one invoice per runtime in the demonstration, with two texts, so that an invoice
meets a cell that was sold and bought back, another text and a reset. In the `agent` part, the
provider's clock is behind for operations the agent named and ahead for the others: the two extremes.

Deadlock is checked in `Invocation`, `Settlement` and `InvocationLateResult`, where the system
cannot stop. The other runs switch it off: their clocks and their numbers of nonces, cells,
tasks and calls are bounded, and a behaviour ends when they are used up.

Fairness. `Invocation`: handlers run to their end (each await is bounded by a timeout), callers
come back (the protocol tells them to retry), leases expire; the part with overrunning
executions has none. `Settlement`: the facilitator answers, and a payer that got no answer calls
`settle` again (strong fairness, as all calls may be busy in between). `Payment`, in the part with
a failure: handlers run to their end, and a client whose payment was not answered presents it again
(strong fairness: handlers may be busy in between); a handler that gets no invoice fails.
`OperationBinding`: a caller that is not killed goes on, and of the requests that keep coming one
prunes (strong fairness: the prune runs in the first payment path after `PAYMENT_PRUNE_INTERVAL_MS`, and
the run has payments on). The other specifications state none, and no liveness is claimed of them.

## Findings

1. **A stale reservation's first holder frees the second one's slot** (`LedgerOverdue`).
   A reservation is named by its key only; `release` of a handler that outlived
   `reservationTtlMs` acts on the reservation of the activation that reclaimed the key, and a
   delegation of one call executes two.
2. **A late worker overwrites the persisted result** (`InvocationLateResult`). When the lease
   was taken over and completed by another worker, `completeExecutionLease` returns that
   worker's record, but the handler goes on with its own result and the `DELIVERED` write
   stores it.
3. **A concurrent retry is sent away to pay again** (`PaymentRetryRace`). It looks for the
   receipt before the first attempt stores it and for the quote after that attempt deletes it,
   and is told to request a fresh quote although its payment was settled.
4. **Two payloads under one operationId** (`OperationRebind`). When a binding has expired but is
   not pruned, PostgreSQL's insert conflicts and no read returns it; `beginInvocation` then
   stores its own binding with an unconditional `set` (`state.mjs:132`). A second request at
   the same place overwrites the fresh binding of the first, and both go on.
5. **An agent pays twice for one operation** (`AgentPaysTwice`). The gateway asks for a payment
   before it looks whether the invocation is delivered (`server.mjs:1575`), the settled quote
   is gone, and the SDK keeps its payment in a local variable (`agent-sdk/src/index.mjs:149`):
   after a lost answer a call with the same operation id gets a new invoice and pays it. The
   result is not computed again.

Smaller ones came up while modelling and are left out of the properties, or are exceptions
their comments name:

* A payment of the demonstration is not bound to the capability cell. `paymentBinding`
  (`apps/demo-service/server.mjs:192`) hashes `outPoint.txHash` and `outPoint.index`, which a
  string does not have; an invoice quoted for one cell buys the answer for a later one of the same
  user, after the capability was sold and bought back, although the refusal at line 304 names the
  capability among what a quote is issued for. `OneAnswerPerPayment` promises requester and text
  only; the cell is still checked for ownership.
* A payment that was consumed but has no receipt is recovered only until its quote expires:
  `verifyPaymentHeader` refuses an expired quote (`server.mjs:1073`) before it looks at the
  evidence that its recovery rests on. `SECURITY.md:63` says without a time that such a crash is
  recovered; `RecoverableWhileQuoted` and `ConsumedIsServed` state what holds until then.
* An identical concurrent `settle` that loses the race between its lookup and the replay-strict
  `verify` is told `payment_already_consumed`, and succeeds when it settles again.
* `getQuoteByBinding` decides that a pointer is stale, awaits, and deletes whatever the binding
  points to by then, so one process can make a second quote for a request.
* On PostgreSQL a grant that reuses the id of a pruned one could find invocation records that
  `pruneExpired` has not deleted yet, and would count without them.
* The gateway keeps no proof of atomicity from its subject resolvers, so it refuses every
  capability that is bound atomically (`server.mjs:716`).
* Only the payment paths prune. Without payments an expired record on PostgreSQL stays hidden
  and in the way: a repeated operation ends in `INVOCATION_NOT_FOUND` for ever.
* A load of the JSON store that fails once is kept as a rejected promise, and every call fails
  until the process restarts.
* `busy` of the page is cleared by whichever task ends first, so a second request can be run
  beside the first and its answer takes the payment dialog; a page reload or Cancel after
  paying loses the payment, which is state of the component only.
* The client library's `verifyLiveCapability` asks neither for confirmations nor for the
  subject, unlike every other verifier here.
* The reads of a capability and of its subject each hold at some moment of the request; nothing
  says they held at the same one.

## Proofs

Every theorem holds for all values of the constants that satisfy the assumption of its module
(`LedgerAssumption`, `AuthorizationAssumption`, ...), and for as many handlers, keys, replicas,
crashes and ticks as one likes: the bounds of the runs are constants like the others. Each
follows from an inductive invariant, which is named below with what it adds to the property.
All have the form `Init => Inv`, `Inv /\ [Next]_vars => Inv'`, `Inv => Property`, with one lemma
per action under the second.

**Ledger** (`DelegationLedgerProofs`, `LedgerDeploymentsProofs`), where nobody prunes, as in the
live service, or the ledger is in memory (`Stable`):

* `CallsBounded`, `CountersAgree`: used plus reserved calls stay within the limit and equal the
  records. `CallsWithinLimit` alone is not inductive: a release or a reclaim must be known to
  give back a slot that was counted. `Core` adds that the counters are the cardinalities of the
  sets of reserved and committed keys and that an unused row is blank (`StatusMoves` says how
  the cardinalities move when one record changes).
* `SpendBounded`: the same of the amounts, at whatever prices. `Spends` ties the counters to sums
  over sets of keys; that a sum over a set without one key is less by that key's amount is proved
  from the fold's definition by induction on finite sets, in first-order lemmas.
* `OneHolder`, `NeverOversubscribed`: two activations never work under a reservation of one key,
  and what was ever charged under a grant fits, together with what is worked on, in its limit. The
  invariant `Holders` says of each activation that works that the reservation it made is still
  its own, and follows the history `charged` over expiries and over grants that share the id.
  Both assume `HandlerTime < ReservationTtl`. The code justifies it by its defaults: a
  reservation lasts `reservationTtlMs`, 120 s unless configured between 10 and 600 s
  (`usage-ledger.mjs:33`, `stores.mjs:414`), while the awaits between `reserve` and `commit` are
  bounded by the upstream timeout (8 s, at most 15 s) and the followers' wait (at most 10 s).
  Finding 1 is what happens where it is configured otherwise.
* `ImplementsBudget`, `LedgerImplementsBudget`: the ledger implements `DelegationBudget`, step by
  step; the second is about the run's choice of deployments and takes the proofs for the ledger
  of one process from an instance of the first module.

**Invocation** (`InvocationProofs`). `Inv` says, stage by stage, how the copy that an activation
read and the record relate (`ActivationOK`), and `LawfulStep` what any step may do to the record;
one lemma then keeps `ActivationOK` for all activations that do not move. From it follow
`DurableBeforePaid`, `NeverBack` and `TakenOverExpired`, for executions of any length.
`FinalResult`, `OneExecution`, `ReceiptIsTheResult` and the refinement `ImplementsRegister` hold
where executions end within their lease (`Timely`); `TimelyInv` adds that whoever executes has
the live lease. Finding 2 is what happens otherwise.

**Facilitator** (`FiberSettlementProofs`), both stores: `BookedOnce`, `PaidBefore` (stated of the
model only, no run needs it beside the others) and `FinalConsumption`; on PostgreSQL `OneClaim` and
`OneClaimWhereDurable`. `FreshOnce` is not inductive: `SettlementInv` adds that the call whose
consume succeeded carries the claim in `memory`, that there is one such call, that an entry on
disk is the one in memory, and that an answered consumption is on disk. That last conjunct is
what the order "persist, then answer" of `ReplayStore.consume` buys.

**Authorization** (`AuthorizationProofs`), both kinds of challenge store: `OneRequest`,
`OneRequestInProcess`, `OnlySigned` (no run needs it beside the others), `OnlyOwners`, `OnlyGranted`,
`OnlyUnrevoked`, `DeepEnough`.
`OneRequestInProcess` is about the store of one process in `MCAuthorizationStores`, at the
capacity of that run: `ChallengeInv` says that every nonce in it was issued, that the nonce of a
request past `Consume` is not in it, and that no two such requests share one. For the rest,
`NonceInv` says that a nonce some request has got past `Consume` with is no longer in the store and
that no other request is past `Consume` with it, and that such a request carries what was issued
and, after `VerifySignature`, the right signer: only the order "remove, then compare" makes it
inductive. `WitnessInv` says of each request, stage by stage, which of its reads the history
already contains. `DepthInv` says that the block a request has read is that of its cell for good
and that no cell is younger than the chain, so that a tip, however old, cannot make it deeper.

**Payments** (`PaymentFlowProofs`), any number of requests, processes and invoices, both stores,
all kinds of service: `ServesItsRequest`, `OnlyPaidDelivered`, `StaysRecoverable`,
`ReceiptsAreEarned`. One invariant carries all. `RecordsOK` says that a quote is the one its
invoice was issued with, that receipts are earned, and that a settled or delivered invocation is
covered by some consumed payment, which for an idempotent action may be another invoice of the
same request. `RequestOK` says stage by stage what a handler relies on: from the accepted quote
on, its invoice was made for its request and can still be recovered; from verification on it is
paid; from execution on there is a result; before a quote is deleted there is a receipt. `Grows`
collects what no step takes back, so that one lemma (`OthersOK`) keeps `RequestOK` for every
handler that does not move.

**Stores** (`StoresProofs`):

* `OnePayload`, `OnePayloadOnBoth`: one payload at most is let through under an operationId
  while its binding is kept, always on the file store, and on PostgreSQL until the first binding
  expires. `Readable` says why: a binding that is there can be read, and therefore no caller is
  on the way to `Overwrite`, which is the step that finding 4 takes. It is claimed only while it
  is `Young` (on PostgreSQL `now < TTL`), and time never makes it young again. The file store
  needs no such clause (`KeptInv`).
* `FileStoreIsDurable`: the JSON store implements `DurableRecords`. `FileInv` orders the copies:
  what was told is on disk; disk, file being written and memory follow each other; and the file
  that is being written has what the first in the chain waits for.
* `TrueStart`: `SchemaInv` says that the versions in the table have no gaps and that whoever
  migrates has the lock and knows the table, or has read a prefix of it; `HealthInv` that each
  answer of a computation is at most one timeout older than the next.
* `PassesTwice`, `RouteStaysOpen`: at most twice the limit of a subject passes of the requests of
  one window, and no subject closes a route by itself, for any limits that stand in the relation
  the routes have (the one for all is at least three times the one of a subject on Redis, at
  least twice in one process). `RedisInv` keeps count by what a key has *spent*: its count up to
  the limit, and the limit once more if its counter was started a window after its own, which can
  happen once. What only one subject was counted for is within what its keys of this window and
  the one before have spent (`Sole`), together with the requests that have passed and wait to be
  counted. In one process (`LocalInv`) the live entry of a subject covers the requests of the
  window unless it ends after it, when one entry before it may have let through a limit of
  them; the live entry for all holds at most what two entries of the subject let through.

**Clients** (`ClientsProofs`), each about the run `Clients` as a whole:

* `PaymentFits`, `PaidStays`: `WebInv` says that every task of the page carries a payment and a
  body that belong together, with the dialog and the quotes of the server, however many tasks
  there are.
* `OneAnswerForAPayment`: `InvoicesOK` says of each invoice of the demonstration that it has no
  answer until it is consumed, and then one, of its user and text, and that it is paid.
* `NothingIsLost`: `CellsInv` says that every signed transaction of a wallet that uses the client
  library spends what it names, pays its fees with plain cells or cells it gives away, and that
  whatever such a wallet held is there or was given.
* `ImplementsRegistry`: cells, contract and mempool, and the demonstration's chain, implement
  `CapabilityRegistry`. `Ownership` says that a capability has one live cell, held by whom the
  registry says, and that the cell its identity was minted from is gone for good; `Accepted`
  turns the rules of the contract, group by group, into an issue, a transfer or a surrender, and
  the steps of the abstract specification are put together from these.
* `AnswersTrue`, `OwnerIsRecent`: `AgentInv` says of every HTTP request what it relies on at its
  step (record, lease, payment), that the messages to the provider were made from a check of the
  owner not longer ago than a handler lasts, and the same of the effects.
* `ServedHolder`: there is one genuine cell; a request past `ReadCell` carries an owner who is in
  its history (and, past the second proof of the Care bridge, in the part that starts there); a
  request past `ReadSubject` has seen the subject with that owner.

What stays with TLC: liveness (`ConsumedIsServed`, `DeliveredWhenTimely`,
`EventuallyBegunOnPostgres`, `PaidIsSettled`), as the prover knows neither fairness nor ENABLED
here; and the findings, which are counterexamples.

## Not modelled

* Provider discovery (`discovery.mjs`), the auth protocol's strings, HTTP security, provider
  conformance: stateless functions over text and schemas.
* Connection pool, configuration, scripts and deployment: start-up I/O and linear operator
  tooling. The SQL of a migration is its version number.
* Acceptance records of `service-rights`, provider administration and static routes of the
  gateway; `listPrefix` and the Redis record operations; display, wallet dialogs and
  administration in the web application.
* Contents of results, prices beyond a small set, hashing and signatures (a claim, a grant and a
  key are model values; collisions of SHA-256 do not happen), the byte layout of cells, HTTP.
* Clock skew between replicas and the database (skew between gateway and provider is in
  `AgentCall`), chain reorganisations, and a database that loses committed rows.
* The PostgreSQL limiter is in `RateLimit`, but the runs use the Redis and the in-process one,
  whose counters have more ways to go wrong.
* Ledger and invocation record in one run: a grant that expires between reserve and commit
  (`server.mjs:1657`), or a release after the result is persisted, leaves the two disagreeing
  until a retry. Each module has its side (`Fail`, and the refused commit), but their product
  does not fit a run.

## Plan

1. done: `DelegationLedger`, `Invocation`, `FiberSettlement`, `Authorization`, `PaymentFlow`,
   `OperationBinding`, `FileStore`, `RateLimit`, `CapabilityCell`, `ProviderDecision`,
   `AgentCall`, `WebApp`, `DemoService`, `Migration`, `Readiness`, and the proofs above.
2. `InvokeGateway`: ledger and invocation record together, with both reduced to their abstract
   specifications `DelegationBudget` and `ResultRegister`.
