------------------------ MODULE StreamingCoordinator ------------------------
(***************************************************************************)
(* The pipeline of laminar-db: one task per source polls its connector and *)
(* sends batches and checkpoint barriers over one bounded mpsc channel to  *)
(* the coordinator task, which drains the channel in cycles, executes the  *)
(* SQL cycle on what it drained, and aligns the barriers of all sources    *)
(* into a checkpoint.                                                      *)
(*                                                                         *)
(* crates/laminar-db/src/pipeline/streaming_coordinator.rs                 *)
(* crates/laminar-core/src/checkpoint/barrier.rs                           *)
(*                                                                         *)
(* A batch is one record, named by its offset in its source: record n is   *)
(* the n-th record the connector returned.  A row dropped as late counts   *)
(* as consumed.  Fields and variables marked "history" do not exist in the *)
(* code; no guard reads them.                                              *)
(***************************************************************************)
EXTENDS Integers, Sequences

CONSTANTS
    N,               \* number of source tasks
    ChanCap,         \* capacity of the mpsc channel (8192 in the code)
    MaxPos,          \* bound: records a source ever delivers
    MaxId,           \* bound: checkpoints ever triggered
    MaxTimeouts,     \* bound: alignments cancelled by BARRIER_TIMEOUT
    MaxCycleErrors,  \* bound: SQL cycles that fail
    MaxRequests,     \* bound: checkpoint requests raised by sources
    MayShutdown      \* whether LaminarDB::shutdown is ever called

ASSUME ConstantsAssumption ==
    /\ N \in Nat /\ MaxPos \in Nat /\ MaxId \in Nat
    /\ ChanCap \in Nat \ {0}
    /\ MaxTimeouts \in Nat /\ MaxCycleErrors \in Nat /\ MaxRequests \in Nat
    /\ MayShutdown \in BOOLEAN

VARIABLES
    pos,        \* connector position: records polled so far
    watch,      \* offset published on the source's watch channel
    spc,        \* where the source task is
    held,       \* barrier taken from the injector, not yet sent
    inj,        \* the injector's packed word: pending barrier, 0 for none
    requested,  \* sources whose checkpoint-request flag is set
    chan,       \* the mpsc channel of SourceMsg
    cpc,        \* where the coordinator task is
    batches,    \* source_batches_buf: per source, in arrival order
    post,       \* post_barrier_buf, per source
    seen,       \* barrier_seen
    barriers,   \* barriers_buf
    pending,    \* pending_barrier
    nextId,     \* next_checkpoint_id
    cycled,     \* the callback's cycles counter is not 0
    applied,    \* operator state: the records it reflects, per source
    last,       \* history: the last checkpoint that completed
    shutdown,   \* LaminarDB::shutdown notified the coordinator
    timeouts, errors, requests  \* how much of each bound is used

sourceVars == <<pos, watch, spc, held>>
cycleVars == <<batches, post, seen, barriers>>
boundVars == <<timeouts, errors, requests>>
vars == <<pos, watch, spc, held, inj, requested, chan, cpc, batches, post, seen,
          barriers, pending, nextId, cycled, applied, last, shutdown,
          timeouts, errors, requests>>

Sources == 0 .. N - 1
Zeros == [s \in Sources |-> 0]
Empty == [s \in Sources |-> <<>>]

\* SourceMsg.  "at" is history: the position at which a barrier was taken.
Batch(s, n) == [kind |-> "batch", src |-> s, n |-> n, at |-> 0]
Barrier(s, id, p) == [kind |-> "barrier", src |-> s, n |-> id, at |-> p]
Msg == [kind : {"batch", "barrier"}, src : Sources, n : Nat, at : Nat]

\* PendingBarrier.  "cut" (where each barrier was taken) and "trig" (where the
\* sources were when the barrier was triggered) are history.
PendingBarrier == [id : Nat, active : BOOLEAN, aligned : SUBSET Sources,
                   offs : [Sources -> Nat], cut : [Sources -> Nat],
                   trig : [Sources -> Nat]]
NoBarrier == [id |-> 0, active |-> FALSE, aligned |-> {}, offs |-> Zeros,
              cut |-> Zeros, trig |-> Zeros]

\* PendingBarrier::reset
Reset(id) == [id |-> id, active |-> TRUE, aligned |-> {}, offs |-> Zeros,
              cut |-> Zeros, trig |-> pos]

\* A completed checkpoint: what went into its manifest, with its history.
\* "sameCycle" is the set of sources whose barrier came in the last cycle.
Checkpoint == [id : Nat, offs : [Sources -> Nat], cut : [Sources -> Nat],
               trig : [Sources -> Nat], snap : [Sources -> SUBSET Nat],
               sameCycle : SUBSET Sources]
NoCheckpoint == [id |-> 0, offs |-> Zeros, cut |-> Zeros, trig |-> Zeros,
                 snap |-> [s \in Sources |-> {}], sameCycle |-> {}]

\* Type invariant; the channel never holds more than its capacity.
TypeOK ==
    /\ pos \in [Sources -> Nat] /\ watch \in [Sources -> Nat]
    /\ spc \in [Sources -> {"poll", "sendBatch", "pollBarrier", "sendBarrier",
                            "stopped"}]
    /\ held \in [Sources -> Nat] /\ inj \in [Sources -> Nat]
    /\ requested \subseteq Sources
    /\ chan \in Seq(Msg) /\ Len(chan) <= ChanCap
    /\ cpc \in {"wait", "drain", "execute", "barriers", "checkpoint",
                "timeout", "stopping", "stopped"}
    /\ batches \in [Sources -> Seq(Nat)] /\ post \in [Sources -> Seq(Nat)]
    /\ seen \subseteq Sources /\ barriers \in Seq(Msg)
    /\ pending \in PendingBarrier
    /\ nextId \in Nat \ {0}
    /\ cycled \in BOOLEAN
    /\ applied \in [Sources -> SUBSET Nat]
    /\ last \in Checkpoint
    /\ shutdown \in BOOLEAN
    /\ timeouts \in Nat /\ errors \in Nat /\ requests \in Nat

\* StreamingCoordinator::new, after every source was opened and restored.
Init ==
    /\ pos = Zeros /\ watch = Zeros
    /\ spc = [s \in Sources |-> "poll"]
    /\ held = Zeros /\ inj = Zeros
    /\ requested = {}
    /\ chan = <<>>
    /\ cpc = "wait"
    /\ batches = Empty /\ post = Empty /\ seen = {} /\ barriers = <<>>
    /\ pending = NoBarrier
    /\ nextId = 1
    /\ cycled = FALSE
    /\ applied = [s \in Sources |-> {}]
    /\ last = NoCheckpoint
    /\ shutdown = FALSE
    /\ timeouts = 0 /\ errors = 0 /\ requests = 0

-----------------------------------------------------------------------------
(* The source tasks. *)

\* The coordinator's handle.shutdown.notify_one() reaches every source task.
Notified == cpc = "stopping"

\* poll_batch returns a batch; its offset is published before it is sent.
PollBatch(s) ==
    /\ spc[s] = "poll" /\ ~Notified
    /\ pos[s] < MaxPos
    /\ pos' = [pos EXCEPT ![s] = @ + 1]
    /\ watch' = [watch EXCEPT ![s] = pos[s] + 1]
    /\ spc' = [spc EXCEPT ![s] = "sendBatch"]
    /\ UNCHANGED <<held, inj, requested, chan, cpc, cycleVars, pending, nextId,
                   cycled, applied, last, shutdown, boundVars>>

\* Variant of PollNone: the sleep is not selected against the shutdown signal.
PollNoneDeaf(s) ==
    /\ spc[s] = "poll"
    /\ spc' = [spc EXCEPT ![s] = "pollBarrier"]
    /\ UNCHANGED <<pos, watch, held, inj, requested, chan, cpc, cycleVars,
                   pending, nextId, cycled, applied, last, shutdown, boundVars>>

\* poll_batch returns no data or an error; the task sleeps and goes on.
PollNone(s) ==
    /\ spc[s] = "poll" /\ ~Notified
    /\ spc' = [spc EXCEPT ![s] = "pollBarrier"]
    /\ UNCHANGED <<pos, watch, held, inj, requested, chan, cpc, cycleVars,
                   pending, nextId, cycled, applied, last, shutdown, boundVars>>

\* task_tx.send(Batch).await: waits while the channel is full.
SendBatch(s) ==
    /\ spc[s] = "sendBatch"
    /\ Len(chan) < ChanCap
    /\ chan' = Append(chan, Batch(s, pos[s]))
    /\ spc' = [spc EXCEPT ![s] = "pollBarrier"]
    /\ UNCHANGED <<pos, watch, held, inj, requested, cpc, cycleVars, pending,
                   nextId, cycled, applied, last, shutdown, boundVars>>

\* Variant of PollBarrier: a full channel loses the barrier that was taken.
PollBarrierLossy(s) ==
    /\ spc[s] = "pollBarrier"
    /\ spc' = [spc EXCEPT ![s] = IF inj[s] = 0 \/ Len(chan) = ChanCap
                                  THEN "poll" ELSE "sendBarrier"]
    /\ held' = [held EXCEPT ![s] = inj[s]]
    /\ inj' = [inj EXCEPT ![s] = 0]
    /\ watch' = [watch EXCEPT ![s] = pos[s]]
    /\ UNCHANGED <<pos, requested, chan, cpc, cycleVars, pending, nextId,
                   cycled, applied, last, shutdown, boundVars>>

\* barrier_handle.poll: the compare-exchange takes the pending barrier.
PollBarrier(s) ==
    /\ spc[s] = "pollBarrier"
    /\ IF inj[s] = 0
         THEN /\ spc' = [spc EXCEPT ![s] = "poll"]
              /\ UNCHANGED <<held, inj, watch>>
         ELSE /\ spc' = [spc EXCEPT ![s] = "sendBarrier"]
              /\ held' = [held EXCEPT ![s] = inj[s]]
              /\ inj' = [inj EXCEPT ![s] = 0]
              /\ watch' = [watch EXCEPT ![s] = pos[s]]
    /\ UNCHANGED <<pos, requested, chan, cpc, cycleVars, pending, nextId,
                   cycled, applied, last, shutdown, boundVars>>

\* Variant of SendBarrier: try_send semantics, the channel's capacity ignored.
SendBarrierUnbounded(s) ==
    /\ spc[s] = "sendBarrier"
    /\ chan' = Append(chan, Barrier(s, held[s], pos[s]))
    /\ held' = [held EXCEPT ![s] = 0]
    /\ spc' = [spc EXCEPT ![s] = "poll"]
    /\ UNCHANGED <<pos, watch, inj, requested, cpc, cycleVars, pending, nextId,
                   cycled, applied, last, shutdown, boundVars>>

\* task_tx.send(Barrier).await
SendBarrier(s) ==
    /\ spc[s] = "sendBarrier"
    /\ Len(chan) < ChanCap
    /\ chan' = Append(chan, Barrier(s, held[s], pos[s]))
    /\ held' = [held EXCEPT ![s] = 0]
    /\ spc' = [spc EXCEPT ![s] = "poll"]
    /\ UNCHANGED <<pos, watch, inj, requested, cpc, cycleVars, pending, nextId,
                   cycled, applied, last, shutdown, boundVars>>

\* The biased select of the poll or of the sleep sees the notification.
StopSource(s) ==
    /\ spc[s] = "poll" /\ Notified
    /\ spc' = [spc EXCEPT ![s] = "stopped"]
    /\ UNCHANGED <<pos, watch, held, inj, requested, chan, cpc, cycleVars,
                   pending, nextId, cycled, applied, last, shutdown, boundVars>>

\* A connector raises its checkpoint_requested flag (a Kafka rebalance).
RequestCheckpoint(s) ==
    /\ spc[s] # "stopped"
    /\ requests < MaxRequests
    /\ requested' = requested \union {s}
    /\ requests' = requests + 1
    /\ UNCHANGED <<sourceVars, inj, chan, cpc, cycleVars, pending, nextId,
                   cycled, applied, last, shutdown, timeouts, errors>>

-----------------------------------------------------------------------------
(* The coordinator task. *)

\* LaminarDB::shutdown calls notify_one, which stores a permit.
Shutdown ==
    /\ MayShutdown /\ ~shutdown
    /\ shutdown' = TRUE
    /\ UNCHANGED <<sourceVars, inj, requested, chan, cpc, cycleVars, pending,
                   nextId, cycled, applied, last, boundVars>>

\* What one cycle collects: batches, barriers, deferred batches, barrier_seen.
Cycle == [b : [Sources -> Seq(Nat)], r : Seq(Msg), p : [Sources -> Seq(Nat)],
          s : SUBSET Sources]

\* Variants of ProcessMsg: batches after a barrier are not deferred; or one
\* source's barrier defers the batches of every source.
ProcessMsgNoDefer(c, m) ==
    IF m.kind = "barrier"
      THEN [c EXCEPT !.s = @ \union {m.src}, !.r = Append(@, m)]
    ELSE [c EXCEPT !.b[m.src] = Append(@, m.n)]

ProcessMsgDeferAll(c, m) ==
    IF m.kind = "barrier"
      THEN [c EXCEPT !.s = @ \union {m.src}, !.r = Append(@, m)]
    ELSE IF c.s # {}
      THEN [c EXCEPT !.p[m.src] = Append(@, m.n)]
    ELSE [c EXCEPT !.b[m.src] = Append(@, m.n)]

\* process_msg
ProcessMsg(c, m) ==
    IF m.kind = "barrier"
      THEN [c EXCEPT !.s = @ \union {m.src}, !.r = Append(@, m)]
    ELSE IF m.src \in c.s
      THEN [c EXCEPT !.p[m.src] = Append(@, m.n)]
    ELSE [c EXCEPT !.b[m.src] = Append(@, m.n)]

\* Variant of FreshCycle: the deferred batches are cleared with the rest.
FreshCycleCleared == [b |-> Empty, r |-> <<>>, p |-> Empty, s |-> {}]

\* The buffers at the start of a cycle: cleared, then filled with the batches
\* deferred by the previous cycle.  These are batches only, and barrier_seen is
\* empty, so process_msg takes every one of them.
FreshCycle == [b |-> post, r |-> <<>>, p |-> Empty, s |-> {}]
ThisCycle == [b |-> batches, r |-> barriers, p |-> post, s |-> seen]

SetCycle(c) ==
    /\ batches' = c.b /\ barriers' = c.r /\ post' = c.p /\ seen' = c.s

\* The biased select takes a message before the idle timeout.
Recv ==
    /\ cpc = "wait" /\ ~shutdown
    /\ chan # <<>>
    /\ SetCycle(ProcessMsg(FreshCycle, Head(chan)))
    /\ chan' = Tail(chan)
    /\ cpc' = "drain"
    /\ UNCHANGED <<sourceVars, inj, requested, pending, nextId, cycled, applied,
                   last, shutdown, boundVars>>

\* IDLE_TIMEOUT passes with no message.
Idle ==
    /\ cpc = "wait" /\ ~shutdown
    /\ chan = <<>> /\ \E s \in Sources : spc[s] # "stopped"
    /\ SetCycle(FreshCycle)
    /\ cpc' = "drain"
    /\ UNCHANGED <<sourceVars, inj, requested, chan, pending, nextId, cycled,
                   applied, last, shutdown, boundVars>>

\* try_recv within the drain budget.
Drain ==
    /\ cpc = "drain"
    /\ chan # <<>>
    /\ SetCycle(ProcessMsg(ThisCycle, Head(chan)))
    /\ chan' = Tail(chan)
    /\ UNCHANGED <<sourceVars, inj, requested, cpc, pending, nextId, cycled,
                   applied, last, shutdown, boundVars>>

\* The channel is empty or the drain budget is used up.
EndDrain ==
    /\ cpc = "drain"
    /\ cpc' = IF batches = Empty THEN "barriers" ELSE "execute"
    /\ UNCHANGED <<sourceVars, inj, requested, chan, cycleVars, pending, nextId,
                   cycled, applied, last, shutdown, boundVars>>

Elems(q) == {q[i] : i \in 1 .. Len(q)}

\* execute_cycle succeeds; record_cycle counts it.
ExecuteCycle ==
    /\ cpc = "execute"
    /\ applied' = [s \in Sources |-> applied[s] \union Elems(batches[s])]
    /\ batches' = Empty
    /\ cycled' = TRUE
    /\ cpc' = "barriers"
    /\ UNCHANGED <<sourceVars, inj, requested, chan, post, seen, barriers,
                   pending, nextId, last, shutdown, boundVars>>

\* execute_cycle fails: a warning, and the batches of the cycle are gone.
CycleError ==
    /\ cpc = "execute"
    /\ errors < MaxCycleErrors
    /\ errors' = errors + 1
    /\ batches' = Empty
    /\ cycled' = TRUE
    /\ cpc' = "barriers"
    /\ UNCHANGED <<sourceVars, inj, requested, chan, post, seen, barriers,
                   pending, nextId, applied, last, shutdown, timeouts, requests>>

\* Variant of Matches: a barrier of a cancelled checkpoint counts.
MatchesAnyId(b) == pending.active

\* handle_barrier for the next barrier of this cycle.  A barrier of another
\* checkpoint, or one that comes when none is pending, is ignored.
Matches(b) == pending.active /\ b.n = pending.id

\* Variant of Record: the offset is the one at the trigger, not at the barrier.
RecordAtTrigger(b) ==
    [pending EXCEPT !.aligned = @ \union {b.src},
                    !.offs[b.src] = pending.trig[b.src],
                    !.cut[b.src] = b.at]

\* What handle_barrier records: the offset on the watch channel NOW.
Record(b) ==
    [pending EXCEPT !.aligned = @ \union {b.src},
                    !.offs[b.src] = watch[b.src],
                    !.cut[b.src] = b.at]

Completed(p) ==
    [id |-> p.id, offs |-> p.offs, cut |-> p.cut, trig |-> p.trig,
     snap |-> applied, sameCycle |-> seen]

HandleBarrier ==
    /\ cpc = "barriers" /\ barriers # <<>>
    /\ LET b == Head(barriers)
           p == Record(b)
       IN  IF ~Matches(b)
             THEN UNCHANGED <<pending, last>>
           ELSE IF p.aligned # Sources
             THEN pending' = p /\ UNCHANGED last
           ELSE \* checkpoint_with_barrier: refused before the first cycle,
                \* and it may fail; either way the alignment is over.
                /\ pending' = [p EXCEPT !.active = FALSE]
                /\ \/ cycled /\ last' = Completed(p)
                   \/ UNCHANGED last
    /\ barriers' = Tail(barriers)
    /\ UNCHANGED <<sourceVars, inj, requested, chan, cpc, batches, post, seen,
                   nextId, cycled, applied, shutdown, boundVars>>

EndBarriers ==
    /\ cpc = "barriers" /\ barriers = <<>>
    /\ cpc' = "checkpoint"
    /\ UNCHANGED <<sourceVars, inj, requested, chan, cycleVars, pending, nextId,
                   cycled, applied, last, shutdown, boundVars>>

\* maybe_checkpoint is skipped (background budget), returns because a barrier
\* is pending, or finds nothing due.
SkipCheckpoint ==
    /\ cpc = "checkpoint"
    /\ cpc' = "timeout"
    /\ UNCHANGED <<sourceVars, inj, requested, chan, cycleVars, pending, nextId,
                   cycled, applied, last, shutdown, boundVars>>

\* Variant of Trigger: a retry after a timeout uses the same checkpoint id.
TriggerSameId ==
    /\ cpc = "checkpoint"
    /\ ~pending.active
    /\ nextId <= MaxId
    /\ pending' = Reset(nextId)
    /\ inj' = [s \in Sources |-> nextId]
    /\ cpc' = "timeout"
    /\ UNCHANGED <<sourceVars, chan, cycleVars, nextId, cycled, applied, last,
                   shutdown, boundVars>>

\* maybe_checkpoint injects a barrier into every source task.  An injector's
\* barrier that was not taken yet is overwritten.
Trigger ==
    /\ cpc = "checkpoint"
    /\ ~pending.active
    /\ nextId <= MaxId
    /\ pending' = Reset(nextId)
    /\ inj' = [s \in Sources |-> nextId]
    /\ nextId' = nextId + 1
    /\ cpc' = "timeout"
    /\ UNCHANGED <<sourceVars, chan, cycleVars, cycled, applied, last, shutdown,
                   boundVars>>

\* The interval elapsed: the request flags are not looked at.
TriggerOnInterval == Trigger /\ UNCHANGED requested

\* Variant of TriggerOnRequest: the flag is cleared and nothing is triggered.
TriggerOnRequestForgotten ==
    /\ cpc = "checkpoint" /\ ~pending.active /\ nextId <= MaxId
    /\ requested # {} /\ requested' = {}
    /\ cpc' = "timeout"
    /\ UNCHANGED <<sourceVars, inj, chan, cycleVars, pending, nextId, cycled,
                   applied, last, shutdown, boundVars>>

\* iter().any(swap(false)): the first flag that is set is cleared, and only it.
TriggerOnRequest ==
    /\ Trigger
    /\ \E s \in requested :
         /\ \A t \in requested : s <= t
         /\ requested' = requested \ {s}

\* BARRIER_TIMEOUT cancels the alignment.
BarrierTimeout ==
    /\ cpc = "timeout"
    /\ pending.active
    /\ timeouts < MaxTimeouts
    /\ timeouts' = timeouts + 1
    /\ pending' = [pending EXCEPT !.active = FALSE]
    /\ cpc' = "wait"
    /\ UNCHANGED <<sourceVars, inj, requested, chan, cycleVars, nextId, cycled,
                   applied, last, shutdown, errors, requests>>

EndCycle ==
    /\ cpc = "timeout"
    /\ cpc' = "wait"
    /\ UNCHANGED <<sourceVars, inj, requested, chan, cycleVars, pending, nextId,
                   cycled, applied, last, shutdown, boundVars>>

\* The loop is left on the shutdown signal, or when every sender is dropped.
Leave ==
    /\ cpc = "wait"
    /\ \/ shutdown
       \/ chan = <<>> /\ \A s \in Sources : spc[s] = "stopped"
    /\ cpc' = "stopping"
    /\ UNCHANGED <<sourceVars, inj, requested, chan, cycleVars, pending, nextId,
                   cycled, applied, last, shutdown, boundVars>>

\* handle.join.await for every source; only then is the receiver dropped.
Join ==
    /\ cpc = "stopping"
    /\ \A s \in Sources : spc[s] = "stopped"
    /\ cpc' = "stopped"
    /\ UNCHANGED <<sourceVars, inj, requested, chan, cycleVars, pending, nextId,
                   cycled, applied, last, shutdown, boundVars>>

\* run has returned.
Returned == cpc = "stopped" /\ UNCHANGED vars

SourceStep(s) ==
    \/ PollBatch(s) \/ PollNone(s) \/ SendBatch(s)
    \/ PollBarrier(s) \/ SendBarrier(s) \/ StopSource(s)

CoordinatorStep ==
    \/ Recv \/ Idle \/ Drain \/ EndDrain \/ ExecuteCycle \/ CycleError
    \/ HandleBarrier \/ EndBarriers \/ SkipCheckpoint \/ TriggerOnInterval
    \/ TriggerOnRequest \/ BarrierTimeout \/ EndCycle \/ Leave \/ Join

Next ==
    \/ \E s \in Sources : SourceStep(s) \/ RequestCheckpoint(s)
    \/ CoordinatorStep
    \/ Shutdown
    \/ Returned

Spec == Init /\ [][Next]_vars

\* Both runtimes keep scheduling their tasks: a task that can take a step takes
\* one.  The background budget is not used up in every cycle, so a request that
\* maybe_checkpoint could serve again and again is served.
Fairness ==
    /\ \A s \in Sources : WF_vars(SourceStep(s))
    /\ WF_vars(CoordinatorStep)
    /\ SF_vars(TriggerOnRequest)

FairSpec == Spec /\ Fairness

-----------------------------------------------------------------------------
(* Properties. *)

\* Where the records of source s are between the connector and the operators.
InChan(s) == {chan[i].n : i \in {k \in 1 .. Len(chan) : chan[k].kind = "batch"
                                                        /\ chan[k].src = s}}
InHand(s) == IF spc[s] = "sendBatch" THEN {pos[s]} ELSE {}
Below(A, B) == \A a \in A : \A b \in B : a < b
Increasing(q) == \A i, j \in 1 .. Len(q) : i < j => q[i] < q[j]

\* The deferral of post-barrier batches to the next cycle neither loses, nor
\* duplicates, nor reorders a source's records on their way to the operators.
\* A failed SQL cycle drops its batches and may leave a gap, never more.
InOrder ==
    \A s \in Sources :
      /\ Increasing(batches[s]) /\ Increasing(post[s])
      /\ \A i, j \in 1 .. Len(chan) :
           i < j /\ chan[i].kind = "batch" /\ chan[j].kind = "batch"
             /\ chan[i].src = s /\ chan[j].src = s => chan[i].n < chan[j].n
      /\ Below(applied[s], Elems(batches[s]) \union Elems(post[s])
                             \union InChan(s) \union InHand(s))
      /\ Below(Elems(batches[s]), Elems(post[s]) \union InChan(s) \union InHand(s))
      /\ Below(Elems(post[s]), InChan(s) \union InHand(s))
      /\ Below(InChan(s), InHand(s))
      /\ errors = 0 =>
           1 .. pos[s] = applied[s] \union Elems(batches[s]) \union Elems(post[s])
                           \union InChan(s) \union InHand(s)

\* Without timeouts and failed cycles, a completed checkpoint contains all the
\* data each source sent before its barrier (barriers are handled after the
\* cycle's SQL execution).
PreBarrierIncluded ==
    last.id # 0 /\ errors = 0 /\ timeouts = 0 =>
      \A s \in Sources : 1 .. last.cut[s] \subseteq last.snap[s]

\* Without timeouts and failed cycles, a source whose barrier arrived in the
\* cycle that completed the checkpoint contributes exactly the records before
\* its barrier: process_msg deferred the others.
SameCycleExact ==
    last.id # 0 /\ errors = 0 /\ timeouts = 0 =>
      \A s \in last.sameCycle : last.snap[s] = 1 .. last.cut[s]

\* Every barrier a checkpoint was built from was taken by its source after that
\* checkpoint was triggered: a late barrier of a cancelled alignment never
\* stands in for one of the current alignment.
FreshCut ==
    last.id # 0 => \A s \in Sources : last.trig[s] <= last.cut[s]

\* The offset captured for a source is never behind its barrier, and not behind
\* the operator state if the barrier came in the completing cycle: after a
\* restore no such source sends a record again that the state reflects.
OffsetCoversState ==
    last.id # 0 =>
      \A s \in Sources :
        /\ last.cut[s] <= last.offs[s]
        /\ s \in last.sameCycle => last.snap[s] \subseteq 1 .. last.offs[s]

\* Checkpoint ids are used once and in order, and a completed checkpoint is
\* never replaced by one triggered before it.
IdsStep ==
    /\ pending.id <= pending'.id
    /\ pending.id = pending'.id /\ ~pending.active => ~pending'.active
    /\ last' # last => last.id < last'.id

IdsAdvance == [][IdsStep]_vars

\* Every alignment ends, without the help of the timeout: a barrier injected
\* into a running source reaches the coordinator.
AlignmentEnds == pending.active ~> (~pending.active \/ shutdown)

\* A checkpoint requested by a source is triggered (while ids are left).
RequestServed ==
    \A k \in 1 .. MaxId :
      (requested # {} /\ nextId = k) ~> (nextId > k \/ shutdown)

\* run joins a source task that waits for room in the channel nobody drains.
Stuck == cpc = "stopping" /\ Len(chan) = ChanCap
           /\ \E s \in Sources : spc[s] \in {"sendBatch", "sendBarrier"}

\* run returns after a shutdown was signalled, unless the channel is full when
\* it leaves its loop.
ShutdownReturns == shutdown ~> (cpc = "stopped" \/ Stuck)

-----------------------------------------------------------------------------
\* streaming_coordinator.rs:270 "Capture offset at barrier point (consistent
\* cut)": the offset in the checkpoint is the position at the barrier.  The
\* code does not keep this.
OffsetIsCut ==
    last.id # 0 => \A s \in Sources : last.offs[s] = last.cut[s]
=============================================================================
