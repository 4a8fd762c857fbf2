------------------------- MODULE MCCheckpointCommit -------------------------
(* Deployments of two sinks, or one, for TLC. *)
EXTENDS CheckpointCommit

SinkFaults == {"write", "begin", "pre", "commit", "rollback"}
ProcessFaults == {"crash", "stop"}

\* What each connector and store withstands.
SafeDeployments ==
    {[sinks |-> <<"kafka", "kafka">>, store |-> "fs",
      faults |-> SinkFaults \cup ProcessFaults \cup
                 {"preTimeout", "commitTimeout", "size", "save", "update"}],
     [sinks |-> <<"kafka", "kafka">>, store |-> "object",
      faults |-> {"write", "begin", "pre", "preTimeout", "size", "save",
                  "saveTimeout", "update", "updateTimeout"} \cup ProcessFaults],
     [sinks |-> <<"delta", "files">>, store |-> "fs",
      faults |-> {"crash", "update"}],
     [sinks |-> <<"postgres", "files">>, store |-> "fs", faults |-> {"update"}]}

LiveDeployments ==
    {[sinks |-> <<"kafka", "kafka">>, store |-> "fs",
      faults |-> SinkFaults \cup ProcessFaults \cup
                 {"preTimeout", "commitTimeout", "size", "save", "saveTimeout",
                  "update"}]}

LossDeployments ==
    {[sinks |-> <<"kafka">>, store |-> "fs", faults |-> {"crash"}]}
=============================================================================
