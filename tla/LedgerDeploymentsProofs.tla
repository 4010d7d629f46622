----------------------- MODULE LedgerDeploymentsProofs -----------------------
(***************************************************************************)
(* The deployments of the ledger: what DelegationLedgerProofs shows of the *)
(* PostgreSQL ledger holds of the ledger of one process as well, through   *)
(* an instance of those proofs.                                            *)
(***************************************************************************)
EXTENDS MCLedgerDeployments, DelegationLedgerProofs

M == INSTANCE DelegationLedgerProofs WITH Transactional <- FALSE, Pruning <- TRUE

\* What the proofs assume of the constants holds of the ledger of one process.
LEMMA MemoryStable == M!LedgerAssumption /\ M!Stable
  BY LedgerAssumption DEF M!LedgerAssumption, M!Stable, IsFiniteSet, M!IsFiniteSet

LEMMA MemoryNext == Memory!Next = M!Next
  BY
  DEF M!Next, M!Handler, M!ReserveLocal, M!ReserveCheck, M!ReserveTransaction, M!ReserveBody,
      M!ReserveRejected, M!ReserveReplayed, M!ReserveExhausted, M!ReserveGranted, M!Reservable,
      M!Fits, M!WithinLimit, M!Collides, M!Reclaimed, M!KeptRow, M!Stale, M!LockedRow,
      M!WithReservation, M!WithoutReservation, M!WithCharge, M!Less, M!CommitLocal,
      M!CommitCheck, M!CommitTransaction, M!CommitBody, M!CommitRefused, M!CommitReplayed,
      M!CommitGranted, M!Commitable, M!Fail, M!Release, M!Releasable, M!ReplicaCrash,
      M!PruneLocal, M!PruneRows, M!PruneInvocations, M!Prunable, M!Tick, M!Overdue,
      M!ProcessRestart, M!Active, M!NoRow, M!NoInvocation, M!IdleRequest, Memory!Next,
      Memory!Handler, Memory!ReserveLocal, Memory!ReserveCheck, Memory!ReserveTransaction,
      Memory!ReserveBody, Memory!ReserveRejected, Memory!ReserveReplayed,
      Memory!ReserveExhausted, Memory!ReserveGranted, Memory!Reservable, Memory!Fits,
      Memory!WithinLimit, Memory!Collides, Memory!Reclaimed, Memory!KeptRow, Memory!Stale,
      Memory!LockedRow, Memory!WithReservation, Memory!WithoutReservation, Memory!WithCharge,
      Memory!Less, Memory!CommitLocal, Memory!CommitCheck, Memory!CommitTransaction,
      Memory!CommitBody, Memory!CommitRefused, Memory!CommitReplayed, Memory!CommitGranted,
      Memory!Commitable, Memory!Fail, Memory!Release, Memory!Releasable, Memory!ReplicaCrash,
      Memory!PruneLocal, Memory!PruneRows, Memory!PruneInvocations, Memory!Prunable,
      Memory!Tick, Memory!Overdue, Memory!ProcessRestart, Memory!Active, Memory!NoRow,
      Memory!NoInvocation, Memory!IdleRequest

LEMMA MemoryBudget == Memory!Budget!Next = M!Budget!Next
  BY DEF M!KeysIn, Memory!KeysIn,
      M!Budget!Next, M!Budget!Touch, M!Budget!Claim, M!Budget!Open, M!Budget!Spend,
      M!Budget!GiveBack, M!Budget!Forget, M!Budget!Cardinality, M!Budget!IsFiniteSet,
      Memory!Budget!Next, Memory!Budget!Touch, Memory!Budget!Claim, Memory!Budget!Open,
      Memory!Budget!Spend, Memory!Budget!GiveBack, Memory!Budget!Forget,
      Memory!Budget!Cardinality, Memory!Budget!IsFiniteSet

LEMMA MemoryInit == Init => M!Init
  BY DEF Init, M!Init, NoRow, M!NoRow, NoInvocation, M!NoInvocation, IdleRequest, M!IdleRequest

\* What is known of each deployment; of the pruned one nothing is needed.
DeploymentInv ==
  /\ deployment = "postgres" => Core
  /\ deployment = "memory" => M!Core

LEMMA DeploymentInit == EachInit => DeploymentInv
  BY CoreInit, MemoryInit, MemoryStable, M!CoreInit DEF EachInit, DeploymentInv

BudgetVisible == <<row.grant, KeysIn("reserved"), KeysIn("committed")>>

BudgetMove ==
  \/ deployment = "postgres" /\ Budget!Next
  \/ deployment = "memory" /\ Memory!Budget!Next
  \/ deployment = "pruned"

LEMMA DeploymentStep ==
  ASSUME Stable, DeploymentInv, [EachNext]_<<vars, deployment>>,
         deployment \in {"postgres", "pruned", "memory"}
  PROVE  DeploymentInv' /\ [BudgetMove]_BudgetVisible
  <1>1. deployment' = deployment
    BY DEF EachNext
  <1>2. CASE deployment = "postgres"
    <2>1. [Next]_vars
      BY <1>2 DEF EachNext
    <2>2. Core' /\ BudgetStep
      BY <1>2, <2>1, CoreStep, StepImplementsBudget DEF DeploymentInv
    <2> QED
      BY <1>1, <1>2, <2>2 DEF DeploymentInv, BudgetStep, BudgetMove, BudgetVisible
  <1>3. CASE deployment = "memory"
    <2>1. [M!Next]_M!vars
      BY <1>3, MemoryNext DEF EachNext, vars, M!vars
    <2>2. M!Core' /\ M!BudgetStep
      BY <1>3, <2>1, MemoryStable, M!CoreStep, M!StepImplementsBudget DEF DeploymentInv
    <2>3. Memory!Budget!Next \/ UNCHANGED BudgetVisible
      BY <2>2, MemoryBudget DEF M!BudgetStep, BudgetVisible, KeysIn, M!KeysIn
    <2> QED
      BY <1>1, <1>3, <2>2, <2>3 DEF DeploymentInv, BudgetMove
  <1>4. CASE deployment = "pruned"
    BY <1>1, <1>4 DEF DeploymentInv, BudgetMove
  <1> QED
    BY <1>2, <1>3, <1>4

\* The ledger on PostgreSQL, and the ledger of one process with its restarts and prunes,
\* implement the call budget: an invocation is opened, then spent or given back, within the
\* limit of the one grant that owns the id, and what is spent stays spent.
THEOREM LedgerImplementsBudget ==
  ASSUME Stable
  PROVE  EachDeployment => BudgetImplemented
  <1> DEFINE Known == DeploymentInv /\ deployment \in {"postgres", "pruned", "memory"}
  <1>1. EachInit => Known /\ Budget!Init
    BY DeploymentInit, BudgetInit DEF EachInit
  <1>2. Known /\ [EachNext]_<<vars, deployment>> => Known' /\ [BudgetMove]_BudgetVisible
    BY DeploymentStep DEF EachNext
  <1>3. EachDeployment => Budget!Init /\ [][BudgetMove]_BudgetVisible
    BY <1>1, <1>2, PTL DEF EachDeployment
  <1> QED
    BY <1>3 DEF BudgetImplemented, BudgetMove, BudgetVisible
=============================================================================
