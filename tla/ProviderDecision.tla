--------------------------- MODULE ProviderDecision ---------------------------
(***************************************************************************)
(* How an independent provider decides from the chain alone: the verifier  *)
(* package reads the capability's cell, then the cell of the subject it is *)
(* bound to, and decides.  It is used by providers with a resolver of      *)
(* their own; by the Care bridge, which has the owner proved twice and     *)
(* then commits in its own database; and by the gateway, which inspects    *)
(* the cell of the out point it is given and hands the verifier what it    *)
(* found.  The client library has a simpler check of one live cell.        *)
(* Between the reads the cells change hands, blocks are added, and the     *)
(* capability expires.                                                     *)
(***************************************************************************)
EXTENDS Naturals, FiniteSets

CONSTANTS
    Owners,         \* lock hashes
    Decisions,
    Capabilities,   \* what a cell says: version, service, issuer, flags, subject, binding, terms
    Policies,       \* what a provider may configure: the entitlements and issuers it accepts,
                    \* the entitlement it issues, and what else it asks for
    MinConfirmations,
    MaxMoves        \* bound on what happens on the chain

VARIABLES
    cells,      \* live cells that hold a capability's data, of the accepted contract or not
    subject,    \* who owns the subject
    height, expired, moves,
    policy,
    req,
    holders,    \* history: per request, the owners of its capability while it was decided
    reholders,  \* history: those since the owner was last proved
    subjects    \* history: the owners of its subject since its cell was read

chain == <<cells, subject, height, expired, moves, policy>>
history == <<holders, reholders, subjects>>
vars == <<chain, req, history>>

None == "none"
Hosts == {"provider", "care", "gateway", "client"}
Idle == [step |-> "idle", by |-> None, cap |-> <<>>, point |-> 0, host |-> "provider",
         late |-> FALSE, owner |-> None, block |-> 0, proofs |-> 0]

\* createServicePolicy takes this configuration.
Normalizes(p) ==
    /\ p.issuance \in p.services
    /\ p.delegatable => p.delegation
    /\ p.issuers # {}

\* A capability has a cell of the accepted contract; a copy of its data, in a cell of another
\* contract, may be anybody's.
Init ==
    /\ \E c \in Capabilities, owner, copier \in Owners :
          cells = {[cap |-> c, genuine |-> g, owner |-> IF g THEN owner ELSE copier,
                    point |-> IF g THEN 0 ELSE MaxMoves + 1, block |-> 0] : g \in BOOLEAN}
    /\ policy \in {p \in Policies : Normalizes(p)}
    /\ subject \in Owners
    /\ height = 0 /\ expired = FALSE /\ moves = 0
    /\ req = [r \in Decisions |-> Idle]
    /\ holders = [r \in Decisions |-> {}] /\ reholders = holders /\ subjects = holders

\* What the policy wants to be flagged in a capability
RequiredFlags ==
    (IF policy.transferable THEN {"transferable"} ELSE {})
        \cup (IF policy.delegatable THEN {"delegatable"} ELSE {})
        \cup (IF policy.mode = "license" THEN {"revocable"} ELSE {})

\* verifyServicePolicy, but for the expiry.  A capability of version 1 is bound to its
\* holder, has no subject and names no terms.
Suits(c) ==
    /\ c.service \in policy.services /\ c.issuer \in policy.issuers
    /\ RequiredFlags \subseteq c.flags
    /\ policy.bound => c.version = 2 /\ c.subject # "none" /\ c.binding # "holder"
    /\ policy.subjects # {} /\ c.version = 2 => c.subject \in policy.subjects
    /\ policy.terms # None => c.version = 2 /\ c.terms = policy.terms

BoundTo(c) == c.version = 2 /\ c.binding # "holder"

To(r, step) == req' = [req EXCEPT ![r].step = step]
Deny(r) == To(r, "denied")
Busy(r) == req[r].step \in {"cell", "subject", "decide", "commit"}
Confirmations(c) == height - c.block + 1

-----------------------------------------------------------------------------
(***************************************************************************)
(* The chain                                                               *)
(***************************************************************************)
Genuine == CHOOSE x \in cells : x.genuine

Move == moves < MaxMoves /\ moves' = moves + 1 /\ UNCHANGED policy

Transfer(w) ==
    /\ Move
    /\ cells' = (cells \ {Genuine})
                  \cup {[Genuine EXCEPT !.owner = w, !.point = moves + 1, !.block = height + 1]}
    /\ height' = height + 1
    /\ holders' = [r \in Decisions |-> IF Busy(r) THEN holders[r] \cup {w} ELSE holders[r]]
    /\ reholders' = [r \in Decisions |-> IF Busy(r) THEN reholders[r] \cup {w} ELSE reholders[r]]
    /\ UNCHANGED <<subject, expired, req, subjects>>

MoveSubject(w) ==
    /\ Move
    /\ subject' = w
    /\ height' = height + 1
    /\ subjects' = [r \in Decisions |-> IF Busy(r) THEN subjects[r] \cup {w} ELSE subjects[r]]
    /\ UNCHANGED <<cells, expired, req, holders, reholders>>

Mine ==
    /\ Move
    /\ height' = height + 1
    /\ UNCHANGED <<cells, subject, expired, req, history>>

Expire ==
    /\ ~expired
    /\ expired' = TRUE
    /\ UNCHANGED <<cells, subject, height, moves, policy, req, history>>

-----------------------------------------------------------------------------
(***************************************************************************)
(* verifySkillPassAuthorization                                            *)
(***************************************************************************)
\* A requester who has signed names the capability, and for Care and the gateway the out
\* point of a cell.  An independent provider, or the caller of the client library, reads the time
\* the expiry is compared with now.
Begin(r, w, x, host) ==
    /\ req[r].step = "idle"
    /\ req' = [req EXCEPT ![r] = [Idle EXCEPT !.step = "cell", !.by = w, !.cap = x.cap,
                  !.point = IF host = "provider" THEN 0 ELSE x.point,
                  !.host = host, !.late = expired]]
    /\ holders' = [holders EXCEPT ![r] = {Genuine.owner}]
    /\ UNCHANGED <<chain, reholders, subjects>>

\* The provider's resolver finds the capability by its data, the others by out point.
Resolved(r) == {x \in cells : req[r].host # "provider" => x.point = req[r].point}

Late(r) == IF req[r].host \in {"provider", "client"} THEN req[r].late ELSE expired

\* (slip) the cell's data is compared, but not its contract
SameData(x, min) == Confirmations(x) >= min

\* verifyResolvedCapabilityCell
Acceptable(x, min) == x.genuine /\ Confirmations(x) >= min

\* The gateway inspects the cell first, and has its confirmations checked with the rest.
ReadCell(r) ==
    /\ req[r].step = "cell" /\ req[r].host # "client"
    /\ \/ \E x \in Resolved(r) :
             IF /\ Acceptable(x, IF req[r].host = "gateway" THEN 0 ELSE MinConfirmations)
                /\ Suits(x.cap) /\ ~Late(r)
             THEN req' = [req EXCEPT ![r].owner = x.owner, ![r].block = x.block,
                                     ![r].step = IF BoundTo(x.cap) THEN "subject" ELSE "decide"]
             ELSE Deny(r)
       \/ Deny(r)   \* not found, or no answer
    /\ reholders' = [reholders EXCEPT ![r] = {Genuine.owner}]
    /\ subjects' = [subjects EXCEPT ![r] = {subject}]
    /\ UNCHANGED <<chain, holders>>

\* verifyLiveCapability of the client library, which asks neither for confirmations nor for
\* the subject
VerifyLiveCapability(r) ==
    /\ req[r].step = "cell" /\ req[r].host = "client"
    /\ \/ \E x \in Resolved(r) :
             /\ x.genuine /\ x.owner = req[r].by /\ ~Late(r)
             /\ x.cap.service = policy.issuance /\ x.cap.issuer \in policy.issuers
             /\ policy.transferable => "transferable" \in x.cap.flags
             /\ To(r, "authorized")
       \/ Deny(r)
    /\ reholders' = [reholders EXCEPT ![r] = {Genuine.owner}]
    /\ UNCHANGED <<chain, holders, subjects>>

\* verifySubjectBinding: the subject is the capability owner's, and an adapter of its kind has
\* proved that it moves together with an atomically bound capability.
SubjectBound(r, proved) ==
    subject = req[r].owner /\ (req[r].cap.binding = "atomic" => proved)

\* resolveSubjectBinding of the gateway, which keeps no such proof of what a resolver answers,
\* and may have no resolver for subjects of this kind.
ResolveSubjectBinding(r) ==
    /\ req[r].host = "gateway"
    /\ IF SubjectBound(r, FALSE) THEN To(r, "decide") ELSE Deny(r)

\* The Care adapter has no resolver for subjects.
ReadSubject(r) ==
    /\ req[r].step = "subject"
    /\ \/ \E proved \in BOOLEAN :
             req[r].host = "provider" /\ SubjectBound(r, proved) /\ To(r, "decide")
       \/ ResolveSubjectBinding(r)
       \/ Deny(r)
    /\ UNCHANGED <<chain, history>>

\* The gateway's confirmations are counted up to a tip read after the cell, or cached.
Final(r) ==
    req[r].host = "gateway" =>
        \E tip \in req[r].block .. height : tip - req[r].block + 1 >= MinConfirmations

\* verifyServiceRight: the requester is the owner the cell was read with.
Entitled(r) == req[r].by = req[r].owner

\* authorizeRequest.  The Care bridge proves the owner a second time before it commits.
Decide(r) ==
    /\ req[r].step = "decide"
    /\ \/ /\ Entitled(r) /\ Final(r)
          /\ IF req[r].host = "care"
             THEN req' = [req EXCEPT ![r].proofs = @ + 1,
                                     ![r].step = IF req[r].proofs = 0 THEN "cell" ELSE "commit"]
             ELSE (req[r].host = "gateway" => ~expired) /\ To(r, "authorized")
       \/ (~Entitled(r) \/ req[r].host = "gateway") /\ Deny(r)
    /\ UNCHANGED <<chain, history>>

\* commitCoverageEvent, in a database that knows nothing of the chain
Commit(r) ==
    /\ req[r].step = "commit"
    /\ To(r, "authorized")
    /\ UNCHANGED <<chain, history>>

Next ==
    \/ \E w \in Owners : Transfer(w) \/ MoveSubject(w)
    \/ Mine \/ Expire
    \/ \E r \in Decisions :
          \/ \E w \in Owners, x \in cells, host \in Hosts : Begin(r, w, x, host)
          \/ ReadCell(r) \/ VerifyLiveCapability(r) \/ ReadSubject(r) \/ Decide(r) \/ Commit(r)

Spec == Init /\ [][Next]_vars

-----------------------------------------------------------------------------
\* Whoever a provider serves owned the capability, in a cell of the accepted contract, while
\* the request was decided, and again when Care had it proved the second time; a subject the
\* capability is bound to was theirs, too, after the capability's cell was read, unless only
\* the client library was asked; and the capability had not expired when the decision was begun.
DecidedForHolder ==
    \A r \in Decisions : req[r].step = "authorized" =>
        /\ req[r].by \in holders[r] \cap reholders[r]
        /\ BoundTo(req[r].cap) /\ req[r].host # "client" => req[r].by \in subjects[r]
        /\ ~req[r].late
===============================================================================
