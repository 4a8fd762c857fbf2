-------------------------- MODULE StreamingChannel --------------------------
(***************************************************************************)
(* The lock-free channel behind every streaming::Source and Subscription   *)
(* (laminar-core/src/streaming): a ring buffer of Cap slots that starts    *)
(* with one producer and no lock, and that serialises its producers with a *)
(* spin lock once a producer has been cloned.  One atomic load, store or   *)
(* read-modify-write, or one access to a slot, is one step.                *)
(*                                                                         *)
(* A Producer handle either has a thread of its own (Source::clone, as in  *)
(* bridge_query_stream and push_to_streams), or it is shared: the catalog  *)
(* keeps one Source in an Arc<SourceEntry>, and every SourceHandle, Writer *)
(* and Connection::insert pushes through that one producer.                *)
(***************************************************************************)
EXTENDS Naturals, Sequences

CONSTANTS Threads,      \* the threads that may push
          First,        \* the thread that created the channel
          Cap,          \* number of slots, a power of two, at least 4
          Quota,        \* bound: the pushes of each thread
          Deployments,  \* what Init chooses env from
          NoItem, NoThread

ASSUME ChannelAssumption ==
    /\ First \in Threads /\ NoThread \notin Threads
    /\ Cap \in Nat /\ Cap >= 4
    /\ Quota \in [Threads -> Nat]
    /\ NoItem \notin Threads \X Nat
    /\ Deployments \subseteq [shared : BOOLEAN,
                              backpressure : {"Block", "DropOldest", "Reject"}]

VARIABLES
    env,        \* who holds producers, and the backpressure strategy
    buffer, head, tail,                \* RingBuffer
    mode, lock, producerCount, closed, \* ChannelInner
    holds,      \* the threads that hold a producer handle
    pc,         \* where a thread is in push, clone or drop
    slot,       \* the tail it has loaded
    pushed,     \* how many pushes it has begun; the latest pushes Item(p)
    cpc,        \* where the consumer is
    op,         \* which call of the consumer that is
    next,       \* the consumer's own head: the slot it reads next
    todo,       \* how many items it may still read before it stores head
    accepted,   \* items whose push returned Ok and was not a drop
    received,   \* items the consumer was given, oldest first
    disconnected  \* a call has returned Disconnected

ring == <<buffer, head, tail>>
chan == <<mode, lock, producerCount, closed, holds>>
prod == <<pc, slot, pushed, accepted>>
cons == <<cpc, op, next, todo, received, disconnected>>
vars == <<env, ring, chan, prod, cons>>

Items == UNION {{p} \X (1..Quota[p]) : p \in Threads}
Item(p) == <<p, pushed[p]>>
Slots == 0..(Cap - 1)

\* next_index
NextIndex(i) == (i + 1) % Cap

\* How many published slots the consumer has not read, and what they hold.
Available == (tail + Cap - next) % Cap
Unread == [i \in 1..Available |-> buffer[(next + i - 1) % Cap]]

Elems(s) == {s[i] : i \in 1..Len(s)}

Init ==
    /\ env \in Deployments
    /\ buffer = [s \in Slots |-> NoItem] /\ head = 0 /\ tail = 0
    /\ mode = "Spsc" /\ lock = NoThread /\ producerCount = 1 /\ closed = FALSE
    /\ holds = IF env.shared THEN Threads ELSE {First}
    /\ pc = [p \in Threads |-> "idle"]
    /\ slot = [p \in Threads |-> 0]
    /\ pushed = [p \in Threads |-> 0]
    /\ cpc = "idle" /\ op = "none" /\ next = 0 /\ todo = 0
    /\ accepted = {} /\ received = <<>> /\ disconnected = FALSE

-----------------------------------------------------------------------------
\* A producer thread.

Goto(p, from, to) == pc[p] = from /\ pc' = [pc EXCEPT ![p] = to]

\* push is called with the thread's next item.
Push(p) ==
    /\ p \in holds /\ pushed[p] < Quota[p]
    /\ Goto(p, "idle", "try")
    /\ pushed' = [pushed EXCEPT ![p] = @ + 1]
    /\ UNCHANGED <<env, ring, chan, slot, accepted, cons>>

\* try_push looks at closed ...
CheckClosed(p) ==
    /\ Goto(p, "try", IF closed THEN "idle" ELSE "mode")
    /\ UNCHANGED <<env, ring, chan, slot, pushed, accepted, cons>>

\* ... and at the mode, which decides between try_push_spsc and try_push_mpsc.
ReadMode(p) ==
    /\ Goto(p, "mode", IF mode = "Mpsc" THEN "lock" ELSE "tail")
    /\ UNCHANGED <<env, ring, chan, slot, pushed, accepted, cons>>

AcquireMpscLock(p) ==
    /\ lock = NoThread
    /\ Goto(p, "lock", "tail")
    /\ lock' = p
    /\ UNCHANGED <<env, ring, mode, producerCount, closed, holds>>
    /\ UNCHANGED <<slot, pushed, accepted, cons>>

LoadTail(p) ==
    /\ Goto(p, "tail", "head")
    /\ slot' = [slot EXCEPT ![p] = tail]
    /\ UNCHANGED <<env, ring, chan, pushed, accepted, cons>>

\* What push does with a full buffer: wait_for_space and try again, or give up.
AfterFull == IF env.backpressure = "Block" THEN "wait" ELSE "idle"

\* Variant of CheckFull: all Cap slots are used.
CheckFullOffByOne(p) ==
    /\ Goto(p, "head", "write")
    /\ UNCHANGED <<env, ring, chan, slot, pushed, accepted, cons>>

CheckFull(p) ==
    LET full == NextIndex(slot[p]) = head IN
    /\ Goto(p, "head", IF ~ full THEN "write"
                       ELSE IF lock = p THEN "unlock" ELSE AfterFull)
    /\ UNCHANGED <<env, ring, chan, slot, pushed, accepted, cons>>

WriteSlot(p) ==
    /\ Goto(p, "write", "publish")
    /\ buffer' = [buffer EXCEPT ![slot[p]] = Item(p)]
    /\ UNCHANGED <<env, head, tail, chan, slot, pushed, accepted, cons>>

Publish(p) ==
    /\ Goto(p, "publish", IF lock = p THEN "unlockOk" ELSE "idle")
    /\ tail' = NextIndex(slot[p])
    /\ accepted' = IF lock = p THEN accepted ELSE accepted \cup {Item(p)}
    /\ UNCHANGED <<env, buffer, head, chan, slot, pushed, cons>>

\* Variant of ReleaseMpscLock: a full buffer returns early, with the lock held.
ReleaseMpscLockLeaks(p) ==
    /\ \/ /\ Goto(p, "unlockOk", "idle")
          /\ lock' = NoThread
          /\ accepted' = accepted \cup {Item(p)}
       \/ /\ Goto(p, "unlock", AfterFull)
          /\ UNCHANGED <<lock, accepted>>
    /\ UNCHANGED <<env, ring, mode, producerCount, closed, holds>>
    /\ UNCHANGED <<slot, pushed, cons>>

\* release_mpsc_lock, and try_push_mpsc returns.
ReleaseMpscLock(p) ==
    /\ lock' = NoThread
    /\ \/ /\ Goto(p, "unlockOk", "idle")
          /\ accepted' = accepted \cup {Item(p)}
       \/ /\ Goto(p, "unlock", AfterFull)
          /\ UNCHANGED accepted
    /\ UNCHANGED <<env, ring, mode, producerCount, closed, holds>>
    /\ UNCHANGED <<slot, pushed, cons>>

\* wait_for_space: the loop looks at nothing but is_full.
WaitForSpace(p) ==
    /\ NextIndex(tail) # head
    /\ Goto(p, "wait", "try")
    /\ UNCHANGED <<env, ring, chan, slot, pushed, accepted, cons>>

\* Variant of UpgradeToMpsc: the mode stays Spsc.
UpgradeToMpscSkipped(p) ==
    /\ ~ env.shared /\ p \in holds
    /\ Threads \ holds # {}
    /\ Goto(p, "idle", "clone")
    /\ UNCHANGED <<env, ring, chan, slot, pushed, accepted, cons>>

\* Producer::clone, first half.  A producer is cloned by the thread that owns
\* it and moved to another one.
UpgradeToMpsc(p) ==
    /\ ~ env.shared /\ p \in holds
    /\ Threads \ holds # {}
    /\ Goto(p, "idle", "clone")
    /\ mode' = "Mpsc"
    /\ UNCHANGED <<env, ring, lock, producerCount, closed, holds>>
    /\ UNCHANGED <<slot, pushed, accepted, cons>>

AddProducer(p) ==
    /\ Goto(p, "clone", "idle")
    /\ producerCount' = producerCount + 1
    /\ \E q \in Threads \ holds : holds' = holds \cup {q}
    /\ UNCHANGED <<env, ring, mode, lock, closed>>
    /\ UNCHANGED <<slot, pushed, accepted, cons>>

\* Variant of DropProducer: the new count, not the previous one, is compared
\* with one.
DropProducerNewCount(p) ==
    LET dropped == ~ env.shared \/ holds = {p} IN
    /\ p \in holds
    /\ Goto(p, "idle", IF dropped /\ producerCount = 2 THEN "close" ELSE "idle")
    /\ holds' = holds \ {p}
    /\ producerCount' = IF dropped THEN producerCount - 1 ELSE producerCount
    /\ UNCHANGED <<env, ring, mode, lock, closed>>
    /\ UNCHANGED <<slot, pushed, accepted, cons>>

\* A handle goes out of scope.  A shared producer is dropped with the last
\* Arc; an owned one is dropped here, and the last one closes the channel.
DropProducer(p) ==
    LET dropped == ~ env.shared \/ holds = {p} IN
    /\ p \in holds
    /\ Goto(p, "idle", IF dropped /\ producerCount = 1 THEN "close" ELSE "idle")
    /\ holds' = holds \ {p}
    /\ producerCount' = IF dropped THEN producerCount - 1 ELSE producerCount
    /\ UNCHANGED <<env, ring, mode, lock, closed>>
    /\ UNCHANGED <<slot, pushed, accepted, cons>>

CloseChannel(p) ==
    /\ Goto(p, "close", "idle")
    /\ closed' = TRUE
    /\ UNCHANGED <<env, ring, mode, lock, producerCount, holds>>
    /\ UNCHANGED <<slot, pushed, accepted, cons>>

-----------------------------------------------------------------------------
\* The consumer.

Calls == {"poll", "recv", "recv_timeout", "pop_each"}

\* The consumer is at from and goes on to to, where "idle" is a return.
CGoto(from, to) ==
    /\ cpc = from
    /\ cpc' = to
    /\ op' = IF to = "idle" THEN "none" ELSE op

\* poll, recv, recv_timeout or pop_each is called.
Call(o) ==
    /\ cpc = "idle"
    /\ cpc' = "check" /\ op' = o
    /\ UNCHANGED <<env, ring, chan, prod, next, todo, received, disconnected>>

\* Variant of CheckEmpty: pop_each does not bound its limit by what it sees.
CheckEmptyUnbounded ==
    /\ \/ /\ Available = 0
          /\ CGoto("check", IF op \in {"recv", "recv_timeout"} THEN "closed"
                                                            ELSE "idle")
          /\ UNCHANGED todo
       \/ /\ Available > 0
          /\ CGoto("check", "read")
          /\ todo' \in IF op = "pop_each" THEN 1..(Cap - 1) ELSE {1}
    /\ UNCHANGED <<env, ring, chan, prod, next, received, disconnected>>

\* pop loads tail and compares it with its own head; pop_each does the same
\* and takes what it sees, up to its limit.
CheckEmpty ==
    /\ \/ /\ Available = 0
          /\ CGoto("check", IF op \in {"recv", "recv_timeout"} THEN "closed"
                                                            ELSE "idle")
          /\ UNCHANGED todo
       \/ /\ Available > 0
          /\ CGoto("check", "read")
          /\ todo' \in IF op = "pop_each" THEN 1..Available ELSE {1}
    /\ UNCHANGED <<env, ring, chan, prod, next, received, disconnected>>

\* The slot is read; pop_each goes on until it has what it wants.
ReadSlot ==
    /\ CGoto("read", IF todo = 1 THEN "store" ELSE "read")
    /\ received' = Append(received, buffer[next])
    /\ next' = NextIndex(next)
    /\ todo' = todo - 1
    /\ UNCHANGED <<env, ring, chan, prod, disconnected>>

StoreHead ==
    /\ CGoto("store", "idle")
    /\ head' = next
    /\ UNCHANGED <<env, buffer, tail, chan, prod, next, todo, received, disconnected>>

\* is_disconnected looks at closed ...
LoadClosed ==
    /\ CGoto("closed", IF closed THEN "empty" ELSE "again")
    /\ UNCHANGED <<env, ring, chan, prod, next, todo, received, disconnected>>

\* Variant of LoadEmpty: closed is enough.
LoadEmptyIgnored ==
    /\ CGoto("empty", "idle")
    /\ disconnected' = TRUE
    /\ UNCHANGED <<env, ring, chan, prod, next, todo, received>>

\* ... and, only if it is set, at the buffer once more.
LoadEmpty ==
    /\ CGoto("empty", IF Available = 0 THEN "idle" ELSE "again")
    /\ disconnected' = (disconnected \/ Available = 0)
    /\ UNCHANGED <<env, ring, chan, prod, next, todo, received>>

\* wait_for_item returns and the loop goes round, or the deadline has passed.
Again ==
    /\ \/ CGoto("again", "check")
       \/ op = "recv_timeout" /\ CGoto("again", "idle")
    /\ UNCHANGED <<env, ring, chan, prod, next, todo, received, disconnected>>

DropConsumer ==
    /\ CGoto("idle", "dropped")
    /\ closed' = TRUE
    /\ UNCHANGED <<env, ring, mode, lock, producerCount, holds, prod>>
    /\ UNCHANGED <<next, todo, received, disconnected>>

-----------------------------------------------------------------------------
PushStep(p) ==
    \/ CheckClosed(p) \/ ReadMode(p) \/ AcquireMpscLock(p) \/ LoadTail(p)
    \/ CheckFull(p) \/ WriteSlot(p) \/ Publish(p) \/ ReleaseMpscLock(p)
    \/ WaitForSpace(p) \/ AddProducer(p) \/ CloseChannel(p)

ConsumerStep ==
    CheckEmpty \/ ReadSlot \/ StoreHead \/ LoadClosed \/ LoadEmpty \/ Again

\* Everybody has let go of the channel, but for threads that spin in
\* wait_for_space or acquire_mpsc_lock.
Done ==
    /\ cpc = "dropped"
    /\ \A p \in Threads : \/ p \notin holds /\ pc[p] = "idle"
                          \/ pc[p] = "wait" /\ NextIndex(tail) = head
                          \/ pc[p] = "lock" /\ lock # NoThread
    /\ UNCHANGED vars

Next ==
    \/ \E p \in Threads : \/ Push(p) \/ PushStep(p)
                          \/ UpgradeToMpsc(p) \/ DropProducer(p)
    \/ \E o \in Calls : Call(o)
    \/ ConsumerStep
    \/ DropConsumer
    \/ Done

Spec == Init /\ [][Next]_vars

\* A thread that is inside push, clone or drop goes on, the thread that reads
\* goes on, and it calls the channel again until it drops its handle.
LiveSpec ==
    /\ Spec
    /\ \A p \in Threads : WF_vars(PushStep(p))
    /\ WF_vars(ConsumerStep)
    /\ WF_vars(\E o \in Calls : Call(o))

-----------------------------------------------------------------------------
\* The SAFETY comments of RingBuffer::push and pop: a producer that writes a
\* slot is the only one to do so, and the slot is none that has been published
\* and not yet been read.
ExclusiveSlot ==
    \A p \in Threads : pc[p] \in {"write", "publish"} =>
        /\ \A q \in Threads \ {p} :
              pc[q] \in {"write", "publish"} => slot[q] # slot[p]
        /\ (slot[p] + Cap - next) % Cap >= Available

\* Ok from push or try_push, other than for an item that DropOldest discarded,
\* means that the item has been received or waits in a published slot.
AcceptedKept == accepted \subseteq Elems(received) \cup Elems(Unread)

\* The channel is a bounded FIFO queue: publishing an item puts it, reading a
\* slot takes it, and nothing else does either.
Fifo == INSTANCE BoundedFifo
            WITH queue <- Unread, taken <- received, Room <- Cap - 1

ImplementsFifo == Fifo!FifoSpec

\* Every accepted item has been received.
CaughtUp == accepted \subseteq Elems(received)

\* Disconnected, from recv or recv_timeout, is final: no handle is left, no
\* push or clone is under way, and every accepted item has been received.
DisconnectIsFinal ==
    disconnected =>
        /\ holds = {} /\ \A p \in Threads : pc[p] = "idle"
        /\ CaughtUp

\* A push under backpressure Block, and the lock it takes, never hang while
\* there is a consumer.  (With the consumer gone wait_for_space waits for ever
\* for a full buffer to drain: it does not look at closed.)
PushReturns ==
    \A p \in Threads : []<>(pc[p] = "idle" \/ cpc = "dropped")

\* What pushes have accepted reaches a consumer that keeps calling: it catches
\* up with the producers.
Delivered == []<>(CaughtUp \/ cpc = "dropped")

\* A recv that waits returns once the last producer is gone.
RecvReturns == (holds = {} /\ cpc # "idle") ~> cpc \in {"idle", "dropped"}

=============================================================================
