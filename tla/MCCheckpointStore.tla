------------------------- MODULE MCCheckpointStore -------------------------
(* Deployments of the checkpoint store for TLC. *)
EXTENDS CheckpointStore

\* What each store withstands.
SafeDeployments ==
    {[store |-> "fs", twoPhase |-> FALSE, keep |-> 2, faults |-> {"error", "damage"}],
     [store |-> "fs", twoPhase |-> TRUE, keep |-> 1, faults |-> {"error"}],
     [store |-> "overwrite", twoPhase |-> TRUE, keep |-> 2, faults |-> {"error"}],
     [store |-> "object", twoPhase |-> FALSE, keep |-> 2, faults |-> {"error", "damage"}],
     [store |-> "object", twoPhase |-> TRUE, keep |-> 1, faults |-> {}]}

\* Sinks whose commit fails, and a crash during the retry.
RetryDeployments ==
    {[store |-> "fs", twoPhase |-> TRUE, keep |-> 2, faults |-> {"commit"}]}

\* Nothing fails but the process.
ObjectDeployments ==
    {[store |-> "object", twoPhase |-> TRUE, keep |-> 2, faults |-> {}]}
=============================================================================
