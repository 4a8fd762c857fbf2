------------------------- MODULE MCStreamingChannel -------------------------
(* Instances of StreamingChannel for TLC. *)
EXTENDS StreamingChannel, TLC

CONSTANTS t1, t2

\* Five items for four slots: the first slot is used twice.
Pushes == t1 :> 3 @@ t2 :> 2

\* Every producer handle has its own thread.
Owned == [shared : {FALSE}, backpressure : {"Block", "DropOldest", "Reject"}]

\* The catalog's one producer, used from several threads.
Shared == [shared : {TRUE}, backpressure : {"Block"}]
=============================================================================
