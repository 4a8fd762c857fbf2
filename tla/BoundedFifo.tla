---------------------------- MODULE BoundedFifo ----------------------------
(***************************************************************************)
(* What a streaming channel promises: items put by the producers are taken *)
(* once each, in the order they were put, and at most Room of them wait.   *)
(***************************************************************************)
EXTENDS Naturals, Sequences

CONSTANTS Items,     \* everything that may be put
          Room       \* how many items may wait

VARIABLES queue,     \* the items that wait, oldest first
          taken      \* the items taken so far, oldest first

Holds(s, x) == \E i \in 1..Len(s) : s[i] = x

FifoInit == queue = <<>> /\ taken = <<>>

Put(x) ==
    /\ ~ Holds(queue, x) /\ ~ Holds(taken, x)
    /\ Len(queue) < Room
    /\ queue' = Append(queue, x)
    /\ UNCHANGED taken

Take ==
    /\ queue # <<>>
    /\ queue' = Tail(queue)
    /\ taken' = Append(taken, Head(queue))

FifoNext == Take \/ \E x \in Items : Put(x)

FifoSpec == FifoInit /\ [][FifoNext]_<<queue, taken>>
=============================================================================
