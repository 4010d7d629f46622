------------------------------ MODULE Readiness ------------------------------
(***************************************************************************)
(* GET /readyz of the gateway: the dependencies are asked one after the    *)
(* other, one computation serves all probes that come meanwhile, and its   *)
(* report is kept for a while.  A dependency may fail or recover at any    *)
(* time.                                                                   *)
(***************************************************************************)
EXTENDS Naturals, Sequences

CONSTANTS
    Probes,
    Count,        \* the dependencies: CKB, the facilitator if payments are on, the state backend
    CacheTime,    \* READINESS_CACHE_MS, not zero
    Timeout,      \* of one dependency: UPSTREAM_TIMEOUT_MS, the pool's for the state backend
    MaxTime       \* bound on the clock

VARIABLES
    now,
    cache,    \* readinessCache
    asking,   \* readinessInFlight: the answers so far, and since when the next is waited for
    waiting,  \* the probes that share it
    told      \* history: the last report a probe got, and when

vars == <<now, cache, asking, waiting, told>>

\* What the dependencies have answered, in the order they are asked, and when it was reported.
NoReport == [answers |-> <<>>, at |-> 0]
NotAsking == [busy |-> FALSE, answers |-> <<>>, since |-> 0]

Init ==
    /\ now = 0
    /\ cache = NoReport /\ asking = NotAsking /\ waiting = {}
    /\ told = [report |-> NoReport, at |-> 0]

There(report) == report.answers # <<>>

Fresh == There(cache) /\ now < cache.at + CacheTime

\* readiness(): the kept report, the computation that is in flight, or a new one.
Probe(p) ==
    /\ p \notin waiting
    /\ IF Fresh
       THEN told' = [report |-> cache, at |-> now] /\ UNCHANGED <<asking, waiting>>
       ELSE /\ waiting' = waiting \cup {p}
            /\ asking' = IF asking.busy THEN asking
                                        ELSE [NotAsking EXCEPT !.busy = TRUE, !.since = now]
            /\ UNCHANGED told
    /\ UNCHANGED <<now, cache>>

\* computeReadiness: a dependency answers well, or it fails or its timeout passes.
Answers(ok) == Append(asking.answers, [ok |-> ok, at |-> now])

Ask(ok) ==
    /\ asking.busy /\ Len(asking.answers) + 1 < Count
    /\ asking' = [busy |-> TRUE, answers |-> Answers(ok), since |-> now]
    /\ UNCHANGED <<now, cache, waiting, told>>

\* After the last one the report is kept, and all that wait get it.
Complete(ok) ==
    LET report == [answers |-> Answers(ok), at |-> now] IN
    /\ asking.busy /\ Len(asking.answers) + 1 = Count
    /\ cache' = report
    /\ told' = [report |-> report, at |-> now]
    /\ asking' = NotAsking /\ waiting' = {}
    /\ UNCHANGED now

\* withTimeout: no dependency is waited for beyond its timeout.
Tick ==
    /\ now < MaxTime
    /\ asking.busy => now < asking.since + Timeout
    /\ now' = now + 1
    /\ UNCHANGED <<cache, asking, waiting, told>>

Next ==
    \/ Tick
    \/ \E p \in Probes : Probe(p)
    \/ \E ok \in BOOLEAN : Ask(ok) \/ Complete(ok)

Spec == Init /\ [][Next]_vars

-----------------------------------------------------------------------------
\* A probe is told what the dependencies answered not longer ago than a report is kept and
\* the others may take, whether it was served from the cache or joined a computation; and
\* nobody waits for a computation that is not running.
ReportIsRecent ==
    /\ There(told.report) =>
          told.at < told.report.answers[1].at + CacheTime + (Count - 1) * Timeout
    /\ waiting # {} => asking.busy
=============================================================================
