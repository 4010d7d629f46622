------------------------ MODULE MCLedgerDeployments ------------------------
\* Three deployments of the ledger in one run: the constants describe PostgreSQL, Pruned has
\* somebody who prunes, and a grant that shares its id with no other (ids are 16 random bytes),
\* Memory is the ledger of one process, which restarts and prunes.
EXTENDS MCDelegationLedger

VARIABLE deployment

Pruned == INSTANCE DelegationLedger WITH Grants <- {g1}, Pruning <- TRUE
Memory == INSTANCE DelegationLedger WITH Transactional <- FALSE, Pruning <- TRUE

EachInit == Init /\ deployment \in {"postgres", "pruned", "memory"}

EachNext ==
    /\ UNCHANGED deployment
    /\ \/ deployment = "postgres" /\ Next
       \/ deployment = "pruned" /\ Pruned!Next
       \/ deployment = "memory" /\ Memory!Next

EachDeployment == EachInit /\ [][EachNext]_<<vars, deployment>>

\* The ledger implements the call budget: reserved keys are open, committed keys are spent, and
\* reclaiming a stale reservation for its own key is invisible; a process that restarts forgets
\* its budget.  (Between the two statements of a prune the records outlive their row.)
BudgetImplemented ==
    /\ Budget!Init
    /\ [][\/ deployment = "postgres" /\ Budget!Next
          \/ deployment = "memory" /\ Memory!Budget!Next
          \/ deployment = "pruned"]_<<row.grant, KeysIn("reserved"), KeysIn("committed")>>
=============================================================================
