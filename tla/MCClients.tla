------------------------------ MODULE MCClients ------------------------------
(* What lives outside the gateway: the capabilities on the chain and the     *)
(* client library, the web application, an agent that calls through the      *)
(* gateway to a remote provider, an independent provider that decides from   *)
(* the chain, and the demonstration service.  A behaviour is of one part;    *)
(* the others rest.  The names of ProviderDecision are used as they are.     *)
EXTENDS ProviderDecision

CONSTANTS Wallets, Honest, Accounts, Passes, Nobody, p1, p2, Alice,
          CallService, JobService, Typed, Contents,
          HandlerTime, LeaseTime, Ttl, Skew, CallTime,
          MaxTx, FewTasks, MaxTasks, MaxSwitches, MaxCalls,
          MaxRuntimes, MaxCells, MaxChallenges, MaxQuotes   \* bounds

ASSUME ClientsAssumption ==
    /\ Nobody \notin {"paid", "free"} /\ Honest \subseteq Wallets
    /\ Alice \in Accounts /\ Alice \in Owners
    /\ {MaxCalls, HandlerTime, LeaseTime, Ttl, Skew, CallTime} \subseteq Nat

VARIABLES part,
    capabilityCells, mempool, waiting, view, built, held, given, signer,
    config, online, connected, address, reading, caps, selected, service, text, busy, pending,
    receipt, tasks, started, switches, owner, quote, open, paid, served, dropped, crossed,
    now, offset, supplies, sold, call, requests, bound, invocation, invoices, live, payments,
    settled, evidence, network, effects,
    runtime, past, demoCells, demoSigner, challenges, demoInvoices

CapContent(version, transferable, binding, subj) ==
    [version |-> version, length |-> IF version = 1 THEN 106 ELSE 172, flags |-> "known",
     transferable |-> transferable, subject |-> subj, zeroSubject |-> subj = "none",
     binding |-> binding]

\* a transferable pass, a bound license that is not, and data that does not parse
SomeContents == {CapContent(1, TRUE, "holder", "none"), CapContent(2, FALSE, "license", "agent"),
                 [CapContent(2, TRUE, "owner", "agent") EXCEPT !.zeroSubject = TRUE]}

Cells == INSTANCE CapabilityCell WITH cells <- capabilityCells

Web == INSTANCE WebApp WITH
    signer <- connected, None <- Nobody, Inputs <- Typed,
    Services <- {CallService, JobService}, Actions <- {JobService},
    Accepts <- [s \in {CallService, JobService} |-> IF s = CallService THEN {p1, p2} ELSE {p1}],
    Owners <- [p \in Passes |-> IF p = p1 THEN Alice ELSE Nobody]

Agent == INSTANCE AgentCall WITH
    req <- requests, quote <- invoices, open <- live, paid <- payments, MaxTime <- CallTime

Pass(binding, to) ==
    [version |-> 2, service |-> to, issuer |-> "issuer", flags |-> {"transferable", "revocable"},
     subject |-> IF binding = "holder" THEN "none" ELSE "agent", binding |-> binding,
     terms |-> "terms"]

\* A license; with the same for agents only, and a policy nobody can configure, it is what a
\* provider has.
License == [services |-> {"this"}, issuance |-> "this", issuers |-> {"issuer"},
            transferable |-> TRUE, delegation |-> FALSE, delegatable |-> FALSE,
            mode |-> "license", bound |-> FALSE, subjects |-> {}, terms |-> "none"]

SomePasses == {Pass("holder", "this"), Pass("owner", "this"), Pass("atomic", "this"),
               Pass("holder", "other")}

SomePolicies == {License, [License EXCEPT !.mode = "owned", !.subjects = {"agent"}],
                 [License EXCEPT !.delegatable = TRUE]}

Demo == INSTANCE DemoService WITH
    cells <- demoCells, signer <- demoSigner, invoices <- demoInvoices,
    Users <- Owners, First <- Alice, Issuer <- "issuer",
    Content <- CapContent(1, TRUE, "holder", "none"),
    Texts <- Typed

cellVars == <<capabilityCells, mempool, waiting, view, built, held, given, signer>>
webVars == <<config, online, connected, address, reading, caps, selected, service, text, busy,
             receipt, pending, tasks, started, switches, owner, quote, open, paid, served,
             dropped, crossed>>
agentVars == <<now, offset, supplies, sold, call, requests, bound, invocation, invoices, live,
               payments, settled, evidence, network, effects>>
demoVars == <<runtime, past, demoCells, demoSigner, challenges, demoInvoices>>

\* The initial states of the parts that rest are fixed, so that no part is repeated for them.
Resting(this) ==
    /\ this # "cells" => signer = Alice
    /\ this \notin {"web", "one account"} => text = CHOOSE i \in Typed : TRUE
    /\ this # "agent" => offset = Skew /\ supplies
    /\ this # "provider" =>
          /\ subject = CHOOSE w \in Owners : TRUE
          /\ policy = License
          /\ \A c \in cells : c.owner = subject /\ c.cap = Pass("holder", "this")
    /\ this # "demo" => demoSigner = Alice

EachInit ==
    /\ part \in {"cells", "web", "one account", "agent", "provider", "demo"}
    /\ Cells!Init /\ Web!Init /\ Agent!Init /\ Init /\ Demo!Init
    /\ Resting(part)
    \* The clocks differ as much as they may.  With the provider's behind, assertions last
    \* longest; that is for the agent whose retries are of one operation.
    /\ part = "agent" => offset # 0 /\ (supplies <=> offset < 0)

\* The page in two regimes: few tasks, of whatever wallets, passes and services; and enough tasks
\* for two paid requests beside each other, of one account that only looks for its pass and uses it.
SomeTasks == started' <= FewTasks

OneAccount ==
    /\ connected' \in {Alice, Nobody} /\ switches' <= 1
    /\ service' = service
    /\ \A n \in DOMAIN tasks' : tasks'[n].kind \in {"refresh", "analyze", "paid-retry"}

EachNext ==
    /\ UNCHANGED part
    /\ \/ part = "cells" /\ Cells!Next /\ UNCHANGED <<webVars, agentVars, vars, demoVars>>
       \/ part = "web" /\ Web!Next /\ SomeTasks /\ UNCHANGED <<cellVars, agentVars, vars, demoVars>>
       \/ part = "one account" /\ Web!Next /\ OneAccount
            /\ UNCHANGED <<cellVars, agentVars, vars, demoVars>>
       \/ part = "agent" /\ Agent!Next /\ UNCHANGED <<cellVars, webVars, vars, demoVars>>
       \/ part = "provider" /\ Next /\ UNCHANGED <<cellVars, webVars, agentVars, demoVars>>
       \/ part = "demo" /\ Demo!Next /\ UNCHANGED <<cellVars, webVars, agentVars, vars>>

EachClient == EachInit /\ [][EachNext]_<<part, cellVars, webVars, agentVars, vars, demoVars>>

\* What the registry is in the other models is a function of these.
chains == <<capabilityCells, held, signer, demoCells, past, runtime, demoSigner>>

\* The cells of capabilities, and the chain in memory of the demonstration, implement the
\* registry of who owns what: Registry!Spec, for the behaviours of those parts.
RegistryImplemented ==
    /\ Cells!Registry!Init /\ Demo!Registry!Init
    /\ [][chains' # chains =>
            /\ part = "cells" => [Cells!Registry!Next]_(Cells!Registry!registryVars)
            /\ part = "demo" => [Demo!Registry!Next]_(Demo!Registry!registryVars)]_chains

\* A wallet that uses the client library loses a capability only by its own transfer or
\* surrender.
NothingLost == Cells!NothingLost

\* The page presents a payment only with the request it was asked for.
PaymentForItsRequest == Web!PaymentForItsRequest

\* The demonstration gives one answer for a payment, to the user and for the text of its quote.
OneAnswerPerPayment == Demo!OneAnswerPerPayment

\* What the user has paid stays in the dialog until it is served or given up.
PaidIsKept == Web!PaidIsKept

\* A retry of the agent's job is never refused as another request, and what is answered and
\* stored as evidence has been done and paid for.
AnswersAreTrue == Agent!RetryIsNeverAConflict /\ Agent!EvidenceIsTrue

\* The provider does nothing for a former owner once the deadlines have passed.
OwnedRecently == Agent!OwnedRecently
==============================================================================
