------------------------- MODULE MCStreamExecutor -------------------------
(* Small deployments of the SQL cycle for TLC.                             *)
EXTENDS StreamExecutor

\* A 6-bit i64.
MCMinTs == -32
MCMaxTs == 31

\* Negative timestamps exercise the floor of a negative quotient.
Around == -1..3
After == 0..3

NoFaults == [f \in Faults |-> 0]

Q(kind, left_, right_, size, slide, late) ==
    [kind |-> kind, left |-> left_, right |-> right_, size |-> size, slide |-> slide,
     late |-> late]

Deployment(queries, rows, times_, keys, delay, faults) ==
    [queries |-> queries, rows |-> rows, times |-> times_, keys |-> keys,
     delay |-> delay, faults |-> faults]

\* A tumbling window on one of two sources: the other holds the watermark
\* back.
Tumbling == Deployment(<<Q("window", "a", "a", 2, 2, 0)>>, [a |-> 2, b |-> 2], After, {1}, 1,
                       [NoFaults EXCEPT !["crash"] = 1])

\* Hops that do not divide the size, allowed lateness, external watermarks.
Hopping == Deployment(<<Q("window", "a", "a", 3, 2, 1)>>, [a |-> 3], Around, {1}, 0,
                      [NoFaults EXCEPT !["external"] = 1, !["error"] = 1])

Session == Deployment(<<Q("session", "a", "a", 2, 1, 0)>>, [a |-> 3], Around, {1, 2}, 2,
                      [NoFaults EXCEPT !["crash"] = 1])

RawTumbling == Deployment(<<Q("raw", "a", "a", 2, 2, 0)>>, [a |-> 3], Around, {1}, 1,
                          [NoFaults EXCEPT !["crash"] = 1, !["error"] = 1])

RawSliding == Deployment(<<Q("raw", "a", "a", 3, 2, 0)>>, [a |-> 3], Around, {1}, 1,
                         [NoFaults EXCEPT !["error"] = 1])

Join == Deployment(<<Q("join", "a", "b", 1, 1, 0)>>, [a |-> 2, b |-> 2], After, {1}, 0,
                   [NoFaults EXCEPT !["crash"] = 1, !["error"] = 1])

\* Two queries: the budget, an error of the first and DDL reach the second.
Pair == Deployment(<<Q("window", "a", "a", 2, 2, 0), Q("aggregate", "a", "a", 1, 1, 0)>>,
                   [a |-> 2], Around, {1}, 0,
                   [NoFaults EXCEPT !["crash"] = 2, !["error"] = 1, !["skip"] = 1, !["ddl"] = 1])

MCDeployments == {Tumbling, Hopping, Session, RawTumbling, RawSliding, Join, Pair}

============================================================================
