------------------------------ MODULE RateLimit ------------------------------
(***************************************************************************)
(* The rate limits of one route: a closed-until mark and a burst gate in   *)
(* every replica, then a limit per subject and one for all subjects in the *)
(* limiter the replicas share.  The PostgreSQL and Redis limiters count in *)
(* fixed windows, the in-process limiter from a subject's first request.   *)
(* One tick is one second.                                                 *)
(***************************************************************************)
EXTENDS Naturals, FiniteSetsExt

CONSTANTS
    Replicas, Subjects, Handlers,
    Store,        \* "postgres", "redis" or "local" (then there is one replica)
    PerIp, Global,\* the limits of a window
    Window,       \* windowMs
    Burst,        \* the limit of the burst gate: max(2, ceil(1.5 perIpLimit))
    Capacity,     \* entries of a map in a replica: 5000 in the gate, 20000 in the limiter
    Wait,         \* assumption: a query is answered within this time
    MaxTime, MaxRequests  \* bounds on the clock and on the requests

VARIABLES
    now, requests,
    closedUntil,  \* globalBlockedUntil of each replica
    burst,        \* localBurst of each replica: a map, as the set of its entries
    entries,      \* the map of the in-process limiter
    counters,     \* [window][key]: the row or Redis key and when it expires
    handler,
    passed,       \* history: requests let through by the limit of their subject, by window
    charged,      \* history: the subjects counted in each global window
    evicted       \* history: a live entry of the in-process limiter was dropped

vars == <<now, requests, closedUntil, burst, entries, counters, handler, passed, charged, evicted>>

AllSubjects == "global"
Keys == Subjects \cup {AllSubjects}
WindowOf(t) == t \div Window
EndOf(w) == (w + 1) * Window
Windows == 0 .. WindowOf(MaxTime)
Idle == [at |-> "idle", replica |-> "none", subject |-> "none", since |-> 0, retry |-> 0]

Init ==
    /\ now = 0 /\ requests = 0
    /\ closedUntil = [r \in Replicas |-> 0]
    /\ burst = [r \in Replicas |-> {}]
    /\ entries = {}
    /\ counters = [w \in Windows |-> [k \in Keys |-> [count |-> 0, expires |-> 0]]]
    /\ handler = [h \in Handlers |-> Idle]
    /\ passed = [s \in Subjects |-> [w \in Windows |-> 0]]
    /\ charged = [w \in Windows |-> {}]
    /\ evicted = FALSE

-----------------------------------------------------------------------------
(***************************************************************************)
(* A counting map inside a process                                         *)
(***************************************************************************)
Live(e) == now < e.resetAt

Of(es, k) == {e \in es : e.key = k}

\* The entry of k after one more request: an entry that is over starts again, in its place.
Hit(es, k) ==
    LET live == {e \in Of(es, k) : Live(e)} IN
    [key |-> k,
     count |-> IF live = {} THEN 1 ELSE (CHOOSE e \in live : TRUE).count + 1,
     resetAt |-> IF live = {} THEN now + Window ELSE (CHOOSE e \in live : TRUE).resetAt,
     place |-> IF Of(es, k) = {} THEN Max({0} \cup {e.place : e \in es}) + 1
               ELSE (CHOOSE e \in Of(es, k) : TRUE).place]

Put(es, item) == (es \ Of(es, item.key)) \cup {item}

\* Beyond the capacity entries that are over are dropped, then the oldest.
Trim(es) ==
    LET live == {e \in es : Live(e)} IN
    IF Cardinality(es) <= Capacity THEN es
    ELSE {e \in live : Cardinality({f \in live : f.place > e.place}) < Capacity}

-----------------------------------------------------------------------------
(***************************************************************************)
(* The limiters                                                            *)
(***************************************************************************)
\* (slip) the request that is one too many is let through
AllowedOneMore(count, limit) == count <= limit + 1

Allowed(count, limit) == count <= limit

\* A row stays for ten minutes; a Redis key expires a window after its first request.
Counter(w, k) ==
    LET c == counters[w][k] IN
    IF Store = "redis" /\ c.count > 0 /\ c.expires <= now THEN [count |-> 0, expires |-> 0] ELSE c

\* INSERT ... ON CONFLICT DO UPDATE, or the script that increments and sets the expiry.
Counted(w, k) ==
    LET c == Counter(w, k) IN
    [count |-> c.count + 1, expires |-> IF c.count = 0 THEN now + Window ELSE c.expires]

\* retryAfterSeconds: of a row the time from the call to the end of the window, of a Redis
\* key what it has left, of an entry the time to its reset; a second at least.
Retry(since, until) == Max({1, until - since})

\* consume(k) at the time t of its call: the count, the time to wait, and the new state.
Consume(t, k) ==
    IF Store = "local"
    THEN LET item == Hit(entries, k) IN
         [count |-> item.count, retry |-> Retry(now, item.resetAt),
          entries |-> Trim(Put(entries, item)), counters |-> counters,
          evicted |-> \E e \in Put(entries, item) \ Trim(Put(entries, item)) : Live(e)]
    ELSE LET c == Counted(WindowOf(t), k) IN
         [count |-> c.count,
          retry |-> IF Store = "redis" THEN Retry(now, c.expires) ELSE Retry(t, EndOf(WindowOf(t))),
          entries |-> entries, counters |-> [counters EXCEPT ![WindowOf(t)][k] = c],
          evicted |-> FALSE]

Record(result) ==
    /\ entries' = result.entries
    /\ counters' = result.counters
    /\ evicted' = (evicted \/ result.evicted)

-----------------------------------------------------------------------------
(***************************************************************************)
(* rateLimit                                                               *)
(***************************************************************************)
Closed(r) == now < closedUntil[r]

\* The part before the first await: the mark, the gate, and the time of the first consume.
Arrive(h, r, s) ==
    LET item == Hit(burst[r], s) IN
    /\ handler[h] = Idle /\ requests < MaxRequests /\ ~Closed(r)
    /\ requests' = requests + 1
    /\ burst' = [burst EXCEPT ![r] = Trim(Put(@, item))]
    /\ handler' = IF Allowed(item.count, Burst)
                  THEN [handler EXCEPT ![h] = [at |-> "subject", replica |-> r, subject |-> s,
                                               since |-> now, retry |-> 0]]
                  ELSE handler
    /\ UNCHANGED <<now, closedUntil, entries, counters, passed, charged, evicted>>

\* (slip) a refused request is counted for all subjects too
CountedAnyway(count) == TRUE

CountedForAll(count) == Allowed(count, PerIp)

\* The limit of the subject; a request that passes is counted for all subjects next.
CountSubject(h) ==
    LET s == handler[h].subject  t == handler[h].since  result == Consume(t, s) IN
    /\ handler[h].at = "subject"
    /\ Record(result)
    /\ passed' = [passed EXCEPT ![s][WindowOf(t)] = IF Allowed(result.count, PerIp) THEN @ + 1 ELSE @]
    /\ handler' = [handler EXCEPT ![h] = IF CountedForAll(result.count)
                                         THEN [@ EXCEPT !.at = "global", !.since = now] ELSE Idle]
    /\ UNCHANGED <<now, requests, closedUntil, burst, charged>>

CountGlobal(h) ==
    LET t == handler[h].since  result == Consume(t, AllSubjects) IN
    /\ handler[h].at = "global"
    /\ Record(result)
    /\ charged' = [charged EXCEPT ![WindowOf(t)] = @ \cup {handler[h].subject}]
    /\ handler' = [handler EXCEPT ![h] = IF Allowed(result.count, Global) THEN Idle
                                         ELSE [@ EXCEPT !.at = "close", !.retry = result.retry]]
    /\ UNCHANGED <<now, requests, closedUntil, burst, passed>>

\* The answer arrives: the replica refuses the route without asking for that long.
Close(h) ==
    /\ handler[h].at = "close"
    /\ closedUntil' = [closedUntil EXCEPT ![handler[h].replica] = now + handler[h].retry]
    /\ handler' = [handler EXCEPT ![h] = Idle]
    /\ UNCHANGED <<now, requests, burst, entries, counters, passed, charged, evicted>>

\* In one process nothing but promise callbacks lies between the counts.
Patience == IF Store = "local" THEN 0 ELSE Wait

Tick ==
    /\ now < MaxTime
    /\ \A h \in Handlers : handler[h] = Idle \/ now < handler[h].since + Patience
    /\ now' = now + 1
    /\ UNCHANGED <<requests, closedUntil, burst, entries, counters, handler, passed, charged, evicted>>

Next ==
    \/ Tick
    \/ \E h \in Handlers :
          \/ \E r \in Replicas, s \in Subjects : Arrive(h, r, s)
          \/ CountSubject(h) \/ CountGlobal(h) \/ Close(h)

Spec == Init /\ [][Next]_vars

-----------------------------------------------------------------------------
\* However its requests are spread over replicas and delayed in them, at most twice the limit
\* of a subject passes of its requests of one window: through a Redis key that expired before
\* a request of its window came, or an entry of one process that ends within the window.
AtMostTwice ==
    ~evicted =>
        \A s \in Subjects, w \in Windows : passed[s][w] <= 2 * PerIp

\* One subject alone cannot close the route for the others: it is refused by its own limit
\* before it is counted for all, also when its earlier requests are counted a window late.
\* (GlobalLimit is at least three times the limit of a subject: the requests it passes late, on
\* a Redis key that was started twice, and those of the window itself.)
OneSubjectCannotClose ==
    ~evicted =>
        \A h \in Handlers :
            handler[h].at = "close" =>
                LET w == WindowOf(handler[h].since)
                    span == IF Store = "local" /\ w > 0 THEN {w - 1, w} ELSE {w} IN
                Cardinality(UNION {charged[v] : v \in span}) > 1
=============================================================================
