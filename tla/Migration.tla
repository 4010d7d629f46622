------------------------------ MODULE Migration ------------------------------
(***************************************************************************)
(* migratePostgres: before it serves, every gateway replica and every      *)
(* facilitator brings the schema of their database up to its release.  The *)
(* servers of a roll-out start at once, are of several releases, and lose  *)
(* their sessions or die between any two queries.  A session lock of       *)
(* PostgreSQL keeps them apart; it ends with its session.                  *)
(***************************************************************************)
EXTENDS Naturals

CONSTANTS
    Servers,  \* processes that share the database
    Nobody,   \* none of them
    Release   \* [Servers -> Nat]: the number of migrations in its release

VARIABLES
    lock,     \* the server whose session has the advisory lock
    schema,   \* the versions in skillpass_schema_migrations
    server    \* of each: where it is, and the versions it takes for applied

vars == <<lock, schema, server>>

Down == [at |-> "down", known |-> {}, version |-> 0]

Init == lock = Nobody /\ schema = {} /\ server = [s \in Servers |-> Down]

GoTo(s, step) == server' = [server EXCEPT ![s].at = step]

Unlocked(s) == IF lock = s THEN Nobody ELSE lock

\* The server starts: it has a pool and asks it for a session.
Start(s) ==
    /\ server[s].at = "down"
    /\ GoTo(s, "lock")
    /\ UNCHANGED <<lock, schema>>

\* (slip) the lock is tried, and the answer is not looked at
Granted == TRUE

Free == lock = Nobody

\* SELECT pg_advisory_lock
Lock(s) ==
    /\ server[s].at = "lock" /\ Free
    /\ lock' = s
    /\ GoTo(s, "read")
    /\ UNCHANGED schema

\* CREATE TABLE IF NOT EXISTS, and the versions in the table
ReadVersions(s) ==
    /\ server[s].at = "read"
    /\ server' = [server EXCEPT ![s].at = "migrate", ![s].known = schema]
    /\ UNCHANGED <<lock, schema>>

\* The migrations of a release, in their order
Versions(s) == 1 .. Release[s]

Pending(s) == Versions(s) \ server[s].known

\* BEGIN, the statements of the first migration that is pending, and the INSERT of its
\* version, which is refused if the version is there.
Migrate(s) ==
    /\ server[s].at = "migrate"
    /\ \E v \in Pending(s) :
          /\ \A w \in Pending(s) : v <= w
          /\ server' = [server EXCEPT ![s].version = v,
                                      ![s].at = IF v \in schema THEN "throw" ELSE "commit"]
    /\ UNCHANGED <<lock, schema>>

Committed(s) == schema \cup {server[s].version}

Commit(s) ==
    /\ server[s].at = "commit"
    /\ schema' = Committed(s)
    /\ server' = [server EXCEPT ![s].at = "migrate", ![s].known = @ \cup {server[s].version}]
    /\ UNCHANGED lock

\* A query fails.  One that waits for the lock longer than statement_timeout has nothing to
\* undo; otherwise ROLLBACK, and the session is unlocked before the error is thrown.
QueryFails(s) ==
    /\ server[s].at \in {"lock", "read", "migrate", "commit"}
    /\ GoTo(s, IF server[s].at = "lock" THEN "down" ELSE "throw")
    /\ UNCHANGED <<lock, schema>>

\* pg_advisory_unlock; after an error the process exits and is started again.
Unlock(s) ==
    /\ \/ server[s].at = "migrate" /\ Pending(s) = {} /\ GoTo(s, "serving")
       \/ server[s].at = "throw" /\ server' = [server EXCEPT ![s] = Down]
    /\ lock' = Unlocked(s)
    /\ UNCHANGED schema

\* The session is lost, or the server dies: an open transaction is rolled back, unless its
\* COMMIT had reached the database, and the lock is free.
SessionEnds(s) ==
    /\ server[s].at # "down"
    /\ server' = [server EXCEPT ![s] = Down]
    /\ lock' = Unlocked(s)
    /\ \/ UNCHANGED schema
       \/ server[s].at = "commit" /\ schema' = Committed(s)

Next ==
    \E s \in Servers :
        \/ Start(s) \/ Lock(s) \/ ReadVersions(s) \/ Migrate(s) \/ Commit(s)
        \/ QueryFails(s) \/ Unlock(s) \/ SessionEnds(s)

Spec == Init /\ [][Next]_vars

-----------------------------------------------------------------------------
\* What a server has read of the schema stays true while it migrates, so no migration is run
\* twice or refused; migrations are applied in their order; and a server that serves has
\* every table and column of its release: with any starts, releases and crashes.
SchemaIsKnown ==
    /\ \A s \in Servers :
          /\ server[s].at \in {"migrate", "commit"} => server[s].known = schema
          /\ server[s].at = "serving" => Versions(s) \subseteq schema
    /\ \A v \in schema : 1 .. v \subseteq schema
=============================================================================
