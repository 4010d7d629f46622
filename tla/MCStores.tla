------------------------------ MODULE MCStores ------------------------------
(* The stores under the gateway: the JSON record store, the operation        *)
(* bindings on PostgreSQL and on the JSON store, the rate limiters on Redis  *)
(* and in one process, and what a server relies on when it starts and is     *)
(* probed: the migrated schema and the readiness of its dependencies.  A     *)
(* behaviour is of one part; the others rest.                                *)
(* The constants of OperationBinding describe PostgreSQL, Kept the JSON      *)
(* store.                                                                    *)
EXTENDS OperationBinding

CONSTANTS FileKeys, Calls, MaxChanges, MaxFaults,
          Replicas, Subjects, Handlers, PerIp, SharedGlobal, OwnGlobal, Window, Burst, Capacity,
          Wait, MaxRequests,
          Servers, Nobody, Release,
          Probes, Dependencies, CacheTime, Timeout, HealthTime

ASSUME StoresAssumption ==
    /\ IsFiniteSet(Handlers) /\ "global" \notin Subjects
    /\ PerIp \in Nat /\ Window \in Nat \ {0} /\ Wait \in Nat /\ Wait <= Window
    /\ SharedGlobal \in Nat /\ SharedGlobal >= 3 * PerIp
    /\ OwnGlobal \in Nat /\ OwnGlobal >= 2 * PerIp
    /\ Nobody \notin Servers /\ Release \in [Servers -> Nat]
    /\ Dependencies \in Nat \ {0} /\ CacheTime \in Nat \ {0} /\ Timeout \in Nat

VARIABLES part,
    disk, entries, load, chain, temp, call, told, seen, faults,
    requests, closedUntil, burst, items, counters, handler, passed, charged, evicted,
    lock, schema, server,
    cache, asking, waiting, heard

File == INSTANCE FileStore WITH Keys <- FileKeys

Kept == INSTANCE OperationBinding WITH HidesExpired <- FALSE

Redis == INSTANCE RateLimit WITH
    Store <- "redis", entries <- items, Global <- SharedGlobal

Local == INSTANCE RateLimit WITH
    Store <- "local", Replicas <- {"host"}, entries <- items, Global <- OwnGlobal

Schema == INSTANCE Migration

Health == INSTANCE Readiness WITH Count <- Dependencies, told <- heard, MaxTime <- HealthTime

\* The fourth and fifth migration are of the newer release.
SomeReleases == [s \in Servers |-> IF s = "older" THEN 3 ELSE 5]

fileVars == <<disk, entries, load, chain, temp, call, told, seen, faults>>
operationVars == <<binding, invocation, caller, crashes, admitted>>
rateVars == <<requests, closedUntil, burst, items, counters, handler, passed, charged, evicted>>
schemaVars == <<lock, schema, server>>
healthVars == <<cache, asking, waiting, heard>>

EachInit ==
    /\ part \in {"file", "operation on PostgreSQL", "operation on file",
                 "Redis limiter", "local limiter", "schema", "health"}
    /\ File!Init
    /\ Init
    /\ Schema!Init /\ Health!Init
    /\ IF part = "local limiter" THEN Local!Init ELSE Redis!Init

OnPostgres(Action) == part = "operation on PostgreSQL" /\ Action

EachNext ==
    /\ UNCHANGED part
    /\ \/ part = "file" /\ File!Next
            /\ UNCHANGED <<now, operationVars, rateVars, schemaVars, healthVars>>
       \/ OnPostgres(Next) /\ UNCHANGED <<fileVars, rateVars, schemaVars, healthVars>>
       \/ part = "operation on file" /\ Kept!Next
            /\ UNCHANGED <<fileVars, rateVars, schemaVars, healthVars>>
       \/ part = "Redis limiter" /\ Redis!Next
            /\ UNCHANGED <<fileVars, operationVars, schemaVars, healthVars>>
       \/ part = "local limiter" /\ Local!Next
            /\ UNCHANGED <<fileVars, operationVars, schemaVars, healthVars>>
       \/ part = "schema" /\ Schema!Next
            /\ UNCHANGED <<now, fileVars, operationVars, rateVars, healthVars>>
       \/ part = "health" /\ Health!Next
            /\ UNCHANGED <<fileVars, operationVars, rateVars, schemaVars>>

EachFairness ==
    \A c \in Callers :
        /\ WF_operationVars(OnPostgres(Step(c)) /\ UNCHANGED crashes)
        /\ SF_operationVars(OnPostgres(PruneInvocations(c)) /\ UNCHANGED crashes)

eachVars == <<part, now, fileVars, operationVars, rateVars, schemaVars, healthVars>>

EachStore == EachInit /\ [][EachNext]_eachVars /\ EachFairness

\* The JSON file store is a durable map: no call is answered from a map that is still being
\* read, and no change a caller was told about is lost by a crash or a failed write.
RecordsImplemented == File!RecordsImplemented

\* While a binding of an operationId is kept, one payload at most is let through under it.
OneInterpretationOnBoth ==
    /\ part = "operation on PostgreSQL" => OneInterpretationWhileKept
    /\ part = "operation on file" => Kept!OneInterpretationWhileKept

\* An operation that is tried over and over is begun or refused for another payload, although
\* expired records of it are hidden and in the way of an insert.
EventuallyBegunOnPostgres == part = "operation on PostgreSQL" => EventuallyBegun

\* A server migrates a schema it knows and serves with the whole of its release's, and a probe
\* of its health is told of answers that are recent.
StartsOnTrueState == Schema!SchemaIsKnown /\ Health!ReportIsRecent

\* Of the requests of one window at most twice the limit of their subject passes.
AtMostTwice == Redis!AtMostTwice

\* One subject alone cannot make a replica close the route for all.
OneSubjectCannotClose ==
    /\ part = "Redis limiter" => Redis!OneSubjectCannotClose
    /\ part = "local limiter" => Local!OneSubjectCannotClose
=============================================================================
