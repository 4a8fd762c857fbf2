----------------------- MODULE MCStreamingCoordinator -----------------------
(* Bounds for TLC that cut the coordinator's behaviours in three scopes.   *)
EXTENDS StreamingCoordinator

\* One checkpoint without faults and two records of each source; or faults
\* and two checkpoints, with one record in all or with the first source's.
Within ==
    \/ timeouts = 0 /\ errors = 0 /\ nextId <= 2 /\ pos[0] <= 2 /\ pos[1] <= 2
    \/ pos[0] + pos[1] <= 1
    \/ pos[1] = 0

=============================================================================
