-------------------------- MODULE MCPriorityMutex ----------------------------
(***************************************************************************)
(* Four tasks and the two priorities of the blockchain lock.               *)
(***************************************************************************)
EXTENDS PriorityMutex

\* BlockchainMutexPriority: low = 1, high = 0
BlockchainMutexPriority == {0, 1}
==============================================================================
