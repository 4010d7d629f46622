---------------------------- MODULE CapabilityCell ----------------------------
(***************************************************************************)
(* Capabilities as CKB cells.  A transaction consumes live cells of its    *)
(* signer and creates new ones; for every type (issuer, capability id) it  *)
(* touches, the contract of the capability type decides.  Wallets build    *)
(* transactions with the client library from what it read of the chain,    *)
(* and with any other software; what they build may be committed much      *)
(* later, or after the client has given up waiting.                        *)
(***************************************************************************)
EXTENDS Naturals, Sequences, SequencesExt, FiniteSets

CONSTANTS
    Wallets,   \* lock scripts; an issuer id is the hash of a lock
    Honest,    \* the wallets that use the client library and nothing else
    Contents,  \* what a cell's data says besides its identity
    MaxTx      \* bound on the transactions built

VARIABLES
    cells,     \* live cells by out point
    mempool,   \* built and signed transactions
    waiting,   \* the transaction a client waits for, per wallet
    view,      \* the capabilities a wallet's client has discovered
    built,
    held,      \* history: the capabilities that were ever locked to a wallet
    given,     \* history: those its client was told to transfer or surrender
    signer     \* history: who signed the last committed transaction

vars == <<cells, mempool, waiting, view, built, held, given, signer>>

NoType == [issuer |-> "none", cap |-> <<>>]
NoData == [issuer |-> "none", cap |-> <<>>, content |-> "none"]
Nothing == [n |-> 0]

Cell(lock, type, data) == [lock |-> lock, type |-> type, data |-> data]
Plain(lock) == Cell(lock, NoType, NoData)

\* Every wallet starts with a cell for fees: the outputs of transaction 0.
Genesis == CHOOSE f \in [Wallets -> 1 .. Cardinality(Wallets)] : IsInjective(f)

Points == {<<0, Genesis[w]>> : w \in Wallets} \cup (1 .. MaxTx) \X (1 .. 3)

Init ==
    /\ cells = [p \in {<<0, Genesis[w]>> : w \in Wallets} |->
                   Plain(CHOOSE w \in Wallets : p = <<0, Genesis[w]>>)]
    /\ mempool = {}
    /\ waiting = [w \in Wallets |-> Nothing]
    /\ view = [w \in Wallets |-> {}]
    /\ built = 0
    /\ held = [w \in Wallets |-> {}]
    /\ given = [w \in Wallets |-> {}]
    /\ signer \in Wallets

IsCapability(cell) == cell.type # NoType

-----------------------------------------------------------------------------
(***************************************************************************)
(* The contract                                                            *)
(***************************************************************************)
\* parse_capability: version and length, no unknown flag, a subject of version 2 that is
\* named exactly if it has a type, and a binding other than to the holder only with a subject.
Parses(data) ==
    LET c == data.content IN
    /\ data # NoData
    /\ c.version \in {1, 2}
    /\ c.length = IF c.version = 1 THEN 106 ELSE 172
    /\ c.flags = "known"
    /\ c.version = 2 =>
          /\ c.binding \in {"holder", "owner", "atomic", "license"}
          /\ (c.subject = "none") = c.zeroSubject
          /\ c.binding = "holder" \/ c.subject # "none"

\* (slip) the issuer in the data is not compared with the one in the arguments
SameCapability(data, type) == data.cap = type.cap

EnforcesIdentity(data, type) == data.issuer = type.issuer /\ data.cap = type.cap

\* validate_type_id of ckb-std: the id commits to the first input and to the place of the output.
CreationId(ins, n) == <<ins[1], n>>

Inputs(tx, t) == {p \in ToSet(tx.ins) : cells[p].type = t}
Outputs(tx, t) == {n \in DOMAIN tx.outs : tx.outs[n].type = t}

VerifyIssue(tx, t, n) ==
    LET out == tx.outs[n] IN
    /\ Parses(out.data) /\ EnforcesIdentity(out.data, t)
    /\ t.cap = CreationId(tx.ins, n)
    /\ \E p \in ToSet(tx.ins) : cells[p].lock = t.issuer

\* (slip) any lock may follow
AnyLock(in, out) == TRUE

LockMayChange(in, out) == in.lock = out.lock \/ in.data.content.transferable

VerifyTransition(tx, t, p, n) ==
    LET in == cells[p]  out == tx.outs[n] IN
    /\ Parses(in.data) /\ Parses(out.data)
    /\ EnforcesIdentity(in.data, t) /\ EnforcesIdentity(out.data, t)
    /\ in.data = out.data
    /\ LockMayChange(in, out)

VerifySurrender(t, p) == Parses(cells[p].data) /\ EnforcesIdentity(cells[p].data, t)

\* main: the shape of the group of cells with this type
Contract(tx, t) ==
    LET I == Inputs(tx, t)  O == Outputs(tx, t) IN
    \/ I = {} /\ Cardinality(O) = 1 /\ \A n \in O : VerifyIssue(tx, t, n)
    \/ Cardinality(I) = 1 /\ Cardinality(O) = 1 /\ \A p \in I, n \in O : VerifyTransition(tx, t, p, n)
    \/ Cardinality(I) = 1 /\ O = {} /\ \A p \in I : VerifySurrender(t, p)

Types(tx) == ({cells[p].type : p \in ToSet(tx.ins)} \cup {o.type : o \in ToSet(tx.outs)}) \ {NoType}

\* The chain: inputs are live, their lock lets the signer spend them, every script accepts.
Valid(tx) ==
    /\ ToSet(tx.ins) \subseteq DOMAIN cells
    /\ \A p \in ToSet(tx.ins) : cells[p].lock = tx.by
    /\ \A t \in Types(tx) : Contract(tx, t)

Created(tx) == {<<tx.n, k>> : k \in DOMAIN tx.outs}

Commits(tx) ==
    /\ Valid(tx)
    /\ cells' = [p \in (DOMAIN cells \ ToSet(tx.ins)) \cup Created(tx) |->
                    IF p \in Created(tx) THEN tx.outs[p[2]] ELSE cells[p]]
    /\ signer' = tx.by
    /\ held' = [w \in Wallets |->
                  held[w] \cup {o.type : o \in {o \in ToSet(tx.outs) : IsCapability(o) /\ o.lock = w}}]

-----------------------------------------------------------------------------
(***************************************************************************)
(* The client library                                                      *)
(***************************************************************************)
Own(w) == {p \in DOMAIN cells : cells[p].lock = w}

\* normalizeCapability: a subject of version 2 is named exactly if it has a type, and only a
\* named one is bound.
Normalizes(c) ==
    /\ c.version \in {1, 2} /\ c.flags = "known"
    /\ c.version = 2 => /\ c.binding \in {"holder", "owner", "atomic", "license"}
                        /\ c.subject = "none" <=> c.zeroSubject
                        /\ c.subject = "none" => c.binding = "holder"

\* decodeCapability
Decodes(data) ==
    /\ data # NoData
    /\ <<data.content.version, data.content.length>> \in {<<1, 106>>, <<2, 172>>}
    /\ Normalizes(data.content)

\* encodeTypeArgs
TypeArgs(data) == [issuer |-> data.issuer, cap |-> data.cap]

Matches(cell) == Decodes(cell.data) /\ cell.type = TypeArgs(cell.data)

\* discoverOwnedCapabilities
Discover(w) ==
    /\ view' = [view EXCEPT ![w] = {p \in Own(w) : IsCapability(cells[p]) /\ Matches(cells[p])}]
    /\ UNCHANGED <<cells, mempool, waiting, built, held, given, signer>>

\* What CCC may choose to pay capacity and fees with.
Fees(w) == {<<>>} \cup {<<p>> : p \in Own(w)} \cup {s \in Own(w) \X Own(w) : s[1] # s[2]}

\* (slip) nothing looks at the inputs that were added for the fee
AnyFunding(fees) == TRUE

NoCapabilityFunding(fees) == \A p \in ToSet(fees) : ~IsCapability(cells[p])

Send(w, ins, outs) ==
    LET tx == [n |-> built + 1, by |-> w, ins |-> ins, outs |-> outs] IN
    /\ waiting[w] = Nothing /\ built < MaxTx
    /\ built' = built + 1
    /\ mempool' = mempool \cup {tx}
    /\ waiting' = [waiting EXCEPT ![w] = tx]
    /\ UNCHANGED <<cells, view, held, signer>>

\* deriveCapabilityId
DeriveCapabilityId(input, n) == <<input, n>>

\* buildIssueCapabilityTx: the id is derived from the first input chosen for capacity, and the
\* inputs added later leave that one in place.
BuildIssue(w, recipient, content, fees) ==
    LET data == [issuer |-> w, cap |-> DeriveCapabilityId(fees[1], 1), content |-> content] IN
    /\ fees # <<>> /\ NoCapabilityFunding(fees)
    /\ Normalizes(content)
    /\ ~(content.version = 2 /\ content.binding = "atomic")
    /\ Send(w, fees, <<Cell(recipient, TypeArgs(data), data), Plain(w)>>)
    /\ UNCHANGED given

Named(w, p) == p \in DOMAIN cells /\ IsCapability(cells[p]) /\ Matches(cells[p]) /\ cells[p].lock = w

\* buildTransferCapabilityTx: the cell discovered earlier is read again
BuildTransfer(w, p, recipient, fees) ==
    LET cell == cells[p]  content == cell.data.content IN
    /\ Named(w, p) /\ p \notin ToSet(fees)
    /\ content.transferable
    /\ ~(content.version = 2 /\ content.binding = "atomic")
    /\ recipient # w
    /\ NoCapabilityFunding(fees)
    /\ Send(w, <<p>> \o fees, <<[cell EXCEPT !.lock = recipient], Plain(w)>>)
    /\ given' = [given EXCEPT ![w] = @ \cup {cell.type}]

\* buildSurrenderCapabilityTx: allowed for any owner
BuildSurrender(w, p, fees) ==
    /\ Named(w, p) /\ p \notin ToSet(fees)
    /\ NoCapabilityFunding(fees)
    /\ Send(w, <<p>> \o fees, <<Plain(w), Plain(w)>>)
    /\ given' = [given EXCEPT ![w] = @ \cup {cells[p].type}]

\* sendAndWait: confirmed, refused by the chain, or the time is up (and the transaction goes on)
Stopped(tx) == [w \in Wallets |-> IF waiting[w] = tx THEN Nothing ELSE waiting[w]]

Commit(tx) ==
    /\ Commits(tx)
    /\ mempool' = mempool \ {tx}
    /\ waiting' = Stopped(tx)
    /\ UNCHANGED <<view, built, given>>

Refuse(tx) ==
    /\ ~Valid(tx)
    /\ mempool' = mempool \ {tx}
    /\ waiting' = Stopped(tx)
    /\ UNCHANGED <<cells, view, built, held, given, signer>>

GiveUp(w) ==
    /\ waiting[w] # Nothing
    /\ waiting' = [waiting EXCEPT ![w] = Nothing]
    /\ UNCHANGED <<cells, mempool, view, built, held, given, signer>>

-----------------------------------------------------------------------------
\* Other software: one or two inputs of the wallet, and no, one or two capability outputs of any
\* type and data in sight.
CapsInSight(ins) ==
    ({cells[p].type.cap : p \in DOMAIN cells} \ {<<>>}) \cup {CreationId(ins, n) : n \in 1 .. 2}

Outs(ins) ==
    {Cell(lock, [issuer |-> i, cap |-> c], [issuer |-> j, cap |-> c, content |-> content]) :
        lock \in Wallets, i \in Wallets, j \in Wallets, c \in CapsInSight(ins), content \in Contents}

OutLists(ins) ==
    {<<>>} \cup {<<o>> : o \in Outs(ins)}
           \cup {<<o, [o EXCEPT !.lock = l]>> : o \in Outs(ins), l \in Wallets}

Foreign(w, ins) ==
    /\ w \notin Honest /\ ins # <<>> /\ built < MaxTx
    /\ \E outs \in OutLists(ins) :
          Commits([n |-> built + 1, by |-> w, ins |-> ins, outs |-> Append(outs, Plain(w))])
    /\ built' = built + 1
    /\ UNCHANGED <<mempool, waiting, view, given>>

Next ==
    \/ \E w \in Wallets : Discover(w) \/ GiveUp(w)
    \/ \E w \in Wallets, fees \in UNION {Fees(w) : w \in Wallets} :
          /\ fees \in Fees(w)
          /\ \/ \E r \in Wallets, content \in Contents : BuildIssue(w, r, content, fees)
             \/ \E p \in view[w], r \in Wallets : BuildTransfer(w, p, r, fees)
             \/ \E p \in view[w] : BuildSurrender(w, p, fees)
             \/ Foreign(w, fees)
    \/ \E tx \in mempool : Commit(tx) \/ Refuse(tx)

Spec == Init /\ [][Next]_vars

-----------------------------------------------------------------------------
Identities == [issuer : Wallets, cap : Points \X (1 .. 3)]

LiveOf(t) == {p \in DOMAIN cells : cells[p].type = t}

Forged == [state |-> "forged"]

RightOf(t) ==
    LET L == LiveOf(t) IN
    CASE L = {} -> [state |-> "retired"]
      [] Cardinality(L) = 1 /\ (\A p \in L : cells[p].data.issuer = t.issuer) ->
             LET cell == cells[CHOOSE p \in L : TRUE] IN
             [state |-> "owned", owner |-> cell.lock, content |-> cell.data.content]
      [] OTHER -> Forged

\* What is neither live nor was ever held is not issued.
Rights ==
    LET issued == {cells[p].type : p \in DOMAIN cells} \cup UNION {held[w] : w \in Wallets} IN
    [t \in Identities |-> IF t \in issued THEN RightOf(t) ELSE [state |-> "unissued"]]

\* The contract makes the chain implement the reference model: whatever transactions are built,
\* an identity is issued once and by its issuer, has one live cell, keeps its data through every
\* change of owner, changes owner only if it may, and a retired one never comes back.
Registry == INSTANCE CapabilityRegistry WITH right <- Rights

RegistryImplemented == Registry!Spec

\* A wallet that uses the client keeps every capability it did not tell the client to give away:
\* none is spent as a fee, by a transaction built on a stale view, or by one sent twice.
NothingLost ==
    \A w \in Honest : \A t \in held[w] : (\E p \in LiveOf(t) : cells[p].lock = w) \/ t \in given[w]
===============================================================================
