-------------------------- MODULE MCFiberSettlement --------------------------
\* Both replay stores in one run: the constants describe PostgreSQL, File is the store that
\* one process keeps in a file.
EXTENDS FiberSettlement, TLC

VARIABLE inFile

File == INSTANCE FiberSettlement WITH Durable <- FALSE

BothInit == Init /\ inFile \in BOOLEAN

BothNext ==
    /\ UNCHANGED inFile
    /\ \/ inFile /\ File!Next
       \/ ~inFile /\ Next

BothStores ==
    /\ BothInit /\ [][BothNext]_<<vars, inFile>>
    /\ \A c \in Calls : WF_vars(IF inFile THEN File!Serve(c) ELSE Serve(c))
    /\ \A claim \in Claims : SF_vars(\E c \in Calls : Arrive(c, "settle", claim))

\* A crash of the file store's process can lose an entry that other calls have read.
OneClaimOnPostgres == ~inFile => OneClaimPerPayment
=============================================================================
