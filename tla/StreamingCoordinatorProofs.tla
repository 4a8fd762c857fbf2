--------------------- MODULE StreamingCoordinatorProofs ---------------------
(***************************************************************************)
(* Proofs about the source tasks and the coordinator for any number of     *)
(* sources, any channel capacity and any value of the bounds.              *)
(***************************************************************************)
EXTENDS StreamingCoordinator, TLAPS

\* The values the initial state is built from have their types.
LEMMA ConstantTypes ==
    /\ Zeros \in [Sources -> Nat]
    /\ Empty \in [Sources -> Seq(Nat)]
    /\ NoBarrier \in PendingBarrier
    /\ NoCheckpoint \in Checkpoint
BY DEF Zeros, Empty, NoBarrier, PendingBarrier, NoCheckpoint, Checkpoint

\* process_msg keeps the buffers of a cycle well typed.
LEMMA ProcessMsgType ==
    ASSUME NEW c \in Cycle, NEW m \in Msg
    PROVE  ProcessMsg(c, m) \in Cycle
<1>1. CASE m.kind = "barrier"
  <2>1. Append(c.r, m) \in Seq(Msg) /\ c.s \union {m.src} \in SUBSET Sources
    BY DEF Cycle, Msg
  <2> QED
    BY <1>1, <2>1, Zenon DEF ProcessMsg, Cycle
<1>2. CASE m.kind # "barrier" /\ m.src \in c.s
  <2>1. [c.p EXCEPT ![m.src] = Append(@, m.n)] \in [Sources -> Seq(Nat)]
    BY DEF Cycle, Msg
  <2> QED
    BY <1>2, <2>1, Zenon DEF ProcessMsg, Cycle
<1>3. CASE m.kind # "barrier" /\ m.src \notin c.s
  <2>1. [c.b EXCEPT ![m.src] = Append(@, m.n)] \in [Sources -> Seq(Nat)]
    BY DEF Cycle, Msg
  <2> QED
    BY <1>3, <2>1, Zenon DEF ProcessMsg, Cycle
<1> QED
  BY <1>1, <1>2, <1>3

\* The head of the channel is a message, and what remains is a shorter channel.
LEMMA HeadTailType ==
    ASSUME NEW S, NEW q \in Seq(S), q # <<>>
    PROVE  /\ Head(q) \in S
           /\ Tail(q) \in Seq(S)
           /\ Len(Tail(q)) = Len(q) - 1
           /\ Len(q) \in Nat \ {0}
OBVIOUS

\* The elements of a sequence of offsets are offsets.
LEMMA ElemsType ==
    ASSUME NEW q \in Seq(Nat)
    PROVE  Elems(q) \subseteq Nat
BY DEF Elems

\* What SetCycle does to the four buffers of a cycle.
LEMMA SetCycleType ==
    ASSUME NEW c \in Cycle, SetCycle(c)
    PROVE  /\ batches' \in [Sources -> Seq(Nat)]
           /\ post' \in [Sources -> Seq(Nat)]
           /\ seen' \in SUBSET Sources
           /\ barriers' \in Seq(Msg)
BY DEF SetCycle, Cycle

\* TypeOK holds initially and every step of a source task or of the
\* coordinator preserves it; in particular the channel stays within ChanCap.
THEOREM TypeCorrect == Spec => []TypeOK
<1>1. Init => TypeOK
  <2> SUFFICES ASSUME Init PROVE TypeOK
    OBVIOUS
  <2>1. chan \in Seq(Msg) /\ Len(chan) <= ChanCap /\ barriers \in Seq(Msg)
    BY ConstantsAssumption DEF Init
  <2>2. [s \in Sources |-> {}] \in [Sources -> SUBSET Nat]
    OBVIOUS
  <2>3. [s \in Sources |-> "poll"] \in
          [Sources -> {"poll", "sendBatch", "pollBarrier", "sendBarrier", "stopped"}]
    OBVIOUS
  <2>4. /\ pos \in [Sources -> Nat] /\ watch \in [Sources -> Nat]
        /\ held \in [Sources -> Nat] /\ inj \in [Sources -> Nat]
        /\ batches \in [Sources -> Seq(Nat)] /\ post \in [Sources -> Seq(Nat)]
        /\ pending \in PendingBarrier /\ last \in Checkpoint
    BY ConstantTypes DEF Init
  <2>5. /\ requested \subseteq Sources /\ seen \subseteq Sources
        /\ cpc = "wait" /\ nextId \in Nat \ {0} /\ cycled = FALSE
        /\ shutdown = FALSE
        /\ timeouts \in Nat /\ errors \in Nat /\ requests \in Nat
    BY DEF Init
  <2>6. spc = [s \in Sources |-> "poll"] /\ applied = [s \in Sources |-> {}]
    BY DEF Init
  <2> QED
    BY <2>1, <2>2, <2>3, <2>4, <2>5, <2>6, Zenon DEF TypeOK
<1>2. TypeOK /\ [Next]_vars => TypeOK'
  <2> SUFFICES ASSUME TypeOK, [Next]_vars PROVE TypeOK'
    OBVIOUS
  <2> USE ConstantsAssumption
  <2>1. ASSUME NEW s \in Sources, PollBatch(s) PROVE TypeOK'
    <3>1. /\ pos' \in [Sources -> Nat] /\ watch' \in [Sources -> Nat]
          /\ spc' \in [Sources -> {"poll", "sendBatch", "pollBarrier", "sendBarrier",
                                   "stopped"}]
      BY <2>1, SMTT(30) DEF PollBatch, TypeOK
    <3>2. UNCHANGED <<held, inj, requested, chan, cpc, cycleVars, pending, nextId,
                      cycled, applied, last, shutdown, boundVars>>
      BY <2>1 DEF PollBatch
    <3> QED
      BY <3>1, <3>2, SMTT(30) DEF TypeOK, cycleVars, boundVars
  <2>2. ASSUME NEW s \in Sources, PollNone(s) PROVE TypeOK'
    BY <2>2, SMTT(30) DEF PollNone, TypeOK, cycleVars, boundVars
  <2>3. ASSUME NEW s \in Sources, SendBatch(s) PROVE TypeOK'
    <3>1. Batch(s, pos[s]) \in Msg
      BY DEF TypeOK, Batch, Msg
    <3> QED
      BY <2>3, <3>1, SMTT(30) DEF SendBatch, TypeOK, cycleVars, boundVars
  <2>4. ASSUME NEW s \in Sources, PollBarrier(s) PROVE TypeOK'
    <3>1. CASE inj[s] = 0
      BY <2>4, <3>1, Zenon DEF PollBarrier, TypeOK, cycleVars, boundVars
    <3>2. CASE inj[s] # 0
      <4>1. /\ spc' = [spc EXCEPT ![s] = "sendBarrier"]
            /\ held' = [held EXCEPT ![s] = inj[s]]
            /\ inj' = [inj EXCEPT ![s] = 0]
            /\ watch' = [watch EXCEPT ![s] = pos[s]]
        BY <2>4, <3>2 DEF PollBarrier
      <4>2. /\ held' \in [Sources -> Nat] /\ inj' \in [Sources -> Nat]
            /\ watch' \in [Sources -> Nat]
        BY <4>1 DEF TypeOK
      <4>3. UNCHANGED <<pos, requested, chan, cpc, cycleVars, pending, nextId,
                        cycled, applied, last, shutdown, boundVars>>
        BY <2>4 DEF PollBarrier
      <4> QED
        BY <4>1, <4>2, <4>3 DEF TypeOK, cycleVars, boundVars
    <3> QED
      BY <3>1, <3>2
  <2>5. ASSUME NEW s \in Sources, SendBarrier(s) PROVE TypeOK'
    <3>1. Barrier(s, held[s], pos[s]) \in Msg
      BY DEF TypeOK, Barrier, Msg
    <3> QED
      BY <2>5, <3>1, SMTT(30) DEF SendBarrier, TypeOK, cycleVars, boundVars
  <2>6. ASSUME NEW s \in Sources, StopSource(s) PROVE TypeOK'
    BY <2>6, SMTT(30) DEF StopSource, TypeOK, cycleVars, boundVars
  <2>7. ASSUME NEW s \in Sources, RequestCheckpoint(s) PROVE TypeOK'
    BY <2>7, SMTT(30) DEF RequestCheckpoint, TypeOK, sourceVars, cycleVars, boundVars
  <2>8. CASE Recv
    <3>1. /\ Head(chan) \in Msg /\ Tail(chan) \in Seq(Msg)
          /\ Len(Tail(chan)) <= ChanCap
      BY <2>8, HeadTailType DEF Recv, TypeOK
    <3>2. FreshCycle \in Cycle
      BY ConstantTypes DEF FreshCycle, Cycle, TypeOK
    <3>3. ProcessMsg(FreshCycle, Head(chan)) \in Cycle
      BY <3>1, <3>2, ProcessMsgType
    <3> QED
      BY <2>8, <3>1, <3>3, SetCycleType DEF Recv, TypeOK, sourceVars, boundVars
  <2>9. CASE Idle
    <3>1. FreshCycle \in Cycle
      BY ConstantTypes DEF FreshCycle, Cycle, TypeOK
    <3> QED
      BY <2>9, <3>1, SetCycleType, SMTT(30) DEF Idle, TypeOK, sourceVars, boundVars
  <2>10. CASE Drain
    <3>1. /\ Head(chan) \in Msg /\ Tail(chan) \in Seq(Msg)
          /\ Len(Tail(chan)) <= ChanCap
      BY <2>10, HeadTailType DEF Drain, TypeOK
    <3>2. ThisCycle \in Cycle
      BY DEF ThisCycle, Cycle, TypeOK
    <3>3. ProcessMsg(ThisCycle, Head(chan)) \in Cycle
      BY <3>1, <3>2, ProcessMsgType
    <3> QED
      BY <2>10, <3>1, <3>3, SetCycleType DEF Drain, TypeOK, sourceVars, boundVars
  <2>11. CASE EndDrain
    BY <2>11 DEF EndDrain, TypeOK, sourceVars, cycleVars, boundVars
  <2>12. CASE ExecuteCycle
    <3>1. \A s \in Sources : Elems(batches[s]) \subseteq Nat
      BY ElemsType DEF TypeOK
    <3> QED
      BY <2>12, <3>1, ConstantTypes DEF ExecuteCycle, TypeOK, sourceVars, boundVars
  <2>13. CASE CycleError
    BY <2>13, ConstantTypes DEF CycleError, TypeOK, sourceVars
  <2>14. CASE HandleBarrier
    <3>1. Head(barriers) \in Msg /\ Tail(barriers) \in Seq(Msg)
      BY <2>14, HeadTailType DEF HandleBarrier, TypeOK
    <3>2. Record(Head(barriers)) \in PendingBarrier
      BY <3>1, Zenon DEF Record, TypeOK, PendingBarrier, Msg
    <3>3. Completed(Record(Head(barriers))) \in Checkpoint
      BY <3>2, Zenon DEF Completed, Checkpoint, PendingBarrier, TypeOK
    <3>4. [Record(Head(barriers)) EXCEPT !.active = FALSE] \in PendingBarrier
      BY <3>2, Zenon DEF PendingBarrier
    <3>5. pending' \in PendingBarrier /\ last' \in Checkpoint
      BY <2>14, <3>2, <3>3, <3>4, Zenon DEF HandleBarrier, TypeOK
    <3> QED
      BY <2>14, <3>1, <3>5, Zenon DEF HandleBarrier, TypeOK, sourceVars, boundVars
  <2>15. CASE EndBarriers
    BY <2>15 DEF EndBarriers, TypeOK, sourceVars, cycleVars, boundVars
  <2>16. CASE SkipCheckpoint
    BY <2>16 DEF SkipCheckpoint, TypeOK, sourceVars, cycleVars, boundVars
  <2>17. ASSUME Trigger, requested' \in SUBSET Sources PROVE TypeOK'
    <3>1. Reset(nextId) \in PendingBarrier
      BY ConstantTypes DEF Reset, PendingBarrier, TypeOK
    <3> QED
      BY <2>17, <3>1 DEF Trigger, TypeOK, sourceVars, cycleVars, boundVars
  <2>18. CASE TriggerOnInterval
    BY <2>17, <2>18 DEF TriggerOnInterval, TypeOK
  <2>19. CASE TriggerOnRequest
    BY <2>17, <2>19, Zenon DEF TriggerOnRequest, TypeOK
  <2>20. CASE BarrierTimeout
    <3>1. [pending EXCEPT !.active = FALSE] \in PendingBarrier
      BY Zenon DEF PendingBarrier, TypeOK
    <3>2. pending' \in PendingBarrier /\ timeouts' \in Nat /\ cpc' = "wait"
      BY <2>20, <3>1, SMTT(30) DEF BarrierTimeout, TypeOK
    <3> QED
      BY <2>20, <3>2, Zenon DEF BarrierTimeout, TypeOK, sourceVars, cycleVars
  <2>21. CASE EndCycle
    BY <2>21 DEF EndCycle, TypeOK, sourceVars, cycleVars, boundVars
  <2>22. CASE Leave
    BY <2>22 DEF Leave, TypeOK, sourceVars, cycleVars, boundVars
  <2>23. CASE Join
    BY <2>23 DEF Join, TypeOK, sourceVars, cycleVars, boundVars
  <2>24. CASE Shutdown
    BY <2>24 DEF Shutdown, TypeOK, sourceVars, cycleVars, boundVars
  <2>25. CASE UNCHANGED vars
    BY <2>25 DEF vars, TypeOK
  <2> QED
    BY <2>1, <2>2, <2>3, <2>4, <2>5, <2>6, <2>7, <2>8, <2>9, <2>10, <2>11,
       <2>12, <2>13, <2>14, <2>15, <2>16, <2>18, <2>19, <2>20, <2>21, <2>22,
       <2>23, <2>24, <2>25
       DEF Next, SourceStep, CoordinatorStep, Returned
<1> QED
  BY <1>1, <1>2, PTL DEF Spec

-----------------------------------------------------------------------------
\* Barrier m belongs to the pending checkpoint or to an earlier one, and if to
\* the pending one, its source took it after the trigger.
FreshBarrier(m) ==
    /\ m.n <= pending.id
    /\ m.n = pending.id => pending.trig[m.src] <= m.at

\* Why a late barrier cannot stand in for a current one: a checkpoint id is
\* used for one trigger, and every barrier on its way carries the id of the
\* trigger that made it.
FreshInv ==
    /\ nextId = pending.id + 1
    /\ \A s \in Sources : inj[s] <= pending.id /\ held[s] <= pending.id
    /\ \A s \in Sources : pending.trig[s] <= pos[s]
    /\ \A i \in 1 .. Len(chan) :
         chan[i].kind = "barrier" => FreshBarrier(chan[i])
    /\ \A i \in 1 .. Len(barriers) : FreshBarrier(barriers[i])
    /\ \A s \in pending.aligned : pending.trig[s] <= pending.cut[s]
    /\ last.id <= pending.id
    /\ pending.active => last.id < pending.id
    /\ FreshCut

\* process_msg adds a message to the barriers of the cycle iff it is one.
LEMMA ProcessMsgBarriers ==
    ASSUME NEW c \in Cycle, NEW m \in Msg
    PROVE  ProcessMsg(c, m).r = IF m.kind = "barrier" THEN Append(c.r, m) ELSE c.r
BY DEF ProcessMsg, Cycle

\* Taking the next message off the channel into a cycle c keeps FreshInv, if
\* the barriers of c are fresh.
LEMMA FreshTake ==
    ASSUME TypeOK, FreshInv, chan # <<>>,
           NEW c \in Cycle, \A i \in 1 .. Len(c.r) : FreshBarrier(c.r[i]),
           SetCycle(ProcessMsg(c, Head(chan))), chan' = Tail(chan),
           UNCHANGED <<sourceVars, inj, pending, nextId, last>>
    PROVE  FreshInv'
<1> DEFINE m == Head(chan)
<1>1. /\ m \in Msg /\ m = chan[1] /\ Len(chan) \in Nat \ {0}
      /\ Len(chan') = Len(chan) - 1
      /\ \A i \in 1 .. Len(chan') : chan'[i] = chan[i + 1] /\ i + 1 \in 1 .. Len(chan)
  BY DEF TypeOK
<1>2. barriers' = IF m.kind = "barrier" THEN Append(c.r, m) ELSE c.r
  BY <1>1, ProcessMsgBarriers DEF SetCycle
<1>3. m.kind = "barrier" => FreshBarrier(m)
  BY <1>1 DEF FreshInv
<1>4. \A i \in 1 .. Len(chan') : chan'[i].kind = "barrier" => FreshBarrier(chan'[i])
  BY <1>1 DEF FreshInv
<1>5. c.r \in Seq(Msg)
  BY DEF Cycle
<1>6. \A i \in 1 .. Len(barriers') : FreshBarrier(barriers'[i])
  <2>1. CASE m.kind = "barrier"
    <3>1. barriers' = Append(c.r, m)
      BY <1>2, <2>1
    <3>2. \A i \in 1 .. Len(barriers') :
            barriers'[i] = m \/ (i \in 1 .. Len(c.r) /\ barriers'[i] = c.r[i])
      BY <1>1, <1>5, <3>1
    <3> QED
      BY <1>3, <2>1, <3>2
  <2>2. CASE m.kind # "barrier"
    BY <1>2, <2>2
  <2> QED
    BY <2>1, <2>2
<1> QED
  BY <1>4, <1>6 DEF FreshInv, FreshBarrier, FreshCut, sourceVars

\* A step that touches nothing FreshInv is about keeps it.
LEMMA FreshStutter ==
    ASSUME FreshInv,
           UNCHANGED <<pending, nextId, inj, held, pos, chan, barriers, last>>
    PROVE  FreshInv'
BY DEF FreshInv, FreshBarrier, FreshCut

\* FreshInv is preserved by every step.
LEMMA FreshStep ==
    ASSUME TypeOK, FreshInv, [Next]_vars
    PROVE  FreshInv'
<1> USE ConstantsAssumption
<1>1. ASSUME NEW s \in Sources, PollBatch(s) PROVE FreshInv'
  <2>1. \A t \in Sources : pos[t] <= pos'[t] /\ pos[t] \in Nat /\ pos'[t] \in Nat
    BY <1>1, SMTT(30) DEF PollBatch, TypeOK
  <2>2. \A t \in Sources : pending.trig[t] \in Nat
    BY DEF TypeOK, PendingBarrier
  <2>3. \A t \in Sources : pending.trig[t] <= pos'[t]
    BY <2>1, <2>2 DEF FreshInv
  <2> QED
    BY <1>1, <2>3 DEF PollBatch, FreshInv, FreshBarrier, FreshCut, cycleVars
<1>2. ASSUME NEW s \in Sources, PollNone(s) PROVE FreshInv'
  BY <1>2, FreshStutter DEF PollNone, cycleVars
<1>3. ASSUME NEW s \in Sources, SendBatch(s) PROVE FreshInv'
  <2>0. chan' = Append(chan, Batch(s, pos[s])) /\ chan \in Seq(Msg)
    BY <1>3 DEF SendBatch, TypeOK
  <2>1. \A i \in 1 .. Len(chan') :
          \/ chan'[i] = Batch(s, pos[s])
          \/ i \in 1 .. Len(chan) /\ chan'[i] = chan[i]
    BY <2>0, SMTT(30)
  <2>2. \A i \in 1 .. Len(chan') :
          chan'[i].kind = "barrier" => FreshBarrier(chan'[i])
    BY <2>1 DEF FreshInv, Batch
  <2> QED
    BY <1>3, <2>2 DEF SendBatch, FreshInv, FreshBarrier, FreshCut, cycleVars
<1>4. ASSUME NEW s \in Sources, PollBarrier(s) PROVE FreshInv'
  <2>0. /\ inj \in [Sources -> Nat] /\ held \in [Sources -> Nat]
        /\ pending.id \in Nat
        /\ \A t \in Sources : inj[t] <= pending.id /\ held[t] <= pending.id
    BY Zenon DEF FreshInv, TypeOK, PendingBarrier
  <2>1. \A t \in Sources : inj'[t] <= pending.id /\ held'[t] <= pending.id
    <3>1. CASE inj[s] = 0
      BY <1>4, <2>0, <3>1 DEF PollBarrier
    <3>2. CASE inj[s] # 0
      <4>1. held' = [held EXCEPT ![s] = inj[s]] /\ inj' = [inj EXCEPT ![s] = 0]
        BY <1>4, <3>2, Zenon DEF PollBarrier
      <4> QED
        BY <2>0, <4>1
    <3> QED
      BY <3>1, <3>2
  <2> QED
    BY <1>4, <2>1 DEF PollBarrier, FreshInv, FreshBarrier, FreshCut, cycleVars
<1>5. ASSUME NEW s \in Sources, SendBarrier(s) PROVE FreshInv'
  <2>1. \A i \in 1 .. Len(chan') :
          \/ chan'[i] = Barrier(s, held[s], pos[s])
          \/ i \in 1 .. Len(chan) /\ chan'[i] = chan[i]
    BY <1>5, SMTT(30) DEF SendBarrier, TypeOK
  <2>2. FreshBarrier(Barrier(s, held[s], pos[s]))
    BY DEF FreshBarrier, Barrier, FreshInv
  <2>3. \A i \in 1 .. Len(chan') :
          chan'[i].kind = "barrier" => FreshBarrier(chan'[i])
    BY <2>1, <2>2 DEF FreshInv
  <2>4. \A t \in Sources : held'[t] <= pending.id
    BY <1>5, SMTT(30) DEF SendBarrier, FreshInv, TypeOK, PendingBarrier
  <2> QED
    BY <1>5, <2>3, <2>4 DEF SendBarrier, FreshInv, FreshBarrier, FreshCut, cycleVars
<1>6. ASSUME NEW s \in Sources, StopSource(s) PROVE FreshInv'
  BY <1>6, FreshStutter DEF StopSource, cycleVars
<1>7. ASSUME NEW s \in Sources, RequestCheckpoint(s) PROVE FreshInv'
  BY <1>7, FreshStutter DEF RequestCheckpoint, sourceVars, cycleVars
<1>8. CASE Recv
  <2>1. FreshCycle \in Cycle /\ \A i \in 1 .. Len(FreshCycle.r) : FALSE
    BY ConstantTypes, SMTT(30) DEF FreshCycle, Cycle, TypeOK
  <2> QED
    BY <1>8, <2>1, FreshTake DEF Recv
<1>9. CASE Idle
  <2>1. barriers' = <<>>
    BY <1>9 DEF Idle, SetCycle, FreshCycle
  <2> QED
    BY <1>9, <2>1, SMTT(30) DEF Idle, FreshInv, FreshBarrier, FreshCut, sourceVars
<1>10. CASE Drain
  <2>1. ThisCycle \in Cycle /\ ThisCycle.r = barriers
    BY DEF ThisCycle, Cycle, TypeOK
  <2>2. \A i \in 1 .. Len(ThisCycle.r) : FreshBarrier(ThisCycle.r[i])
    BY <2>1 DEF FreshInv
  <2> QED
    BY <1>10, <2>1, <2>2, FreshTake DEF Drain
<1>11. CASE EndDrain
  BY <1>11, FreshStutter DEF EndDrain, sourceVars, cycleVars
<1>12. CASE ExecuteCycle
  BY <1>12, FreshStutter DEF ExecuteCycle, sourceVars
<1>13. CASE CycleError
  BY <1>13, FreshStutter DEF CycleError, sourceVars
<1>14. CASE HandleBarrier
  <2> DEFINE b == Head(barriers)
  <2>1. /\ b \in Msg /\ b = barriers[1] /\ Len(barriers) \in Nat \ {0}
        /\ Len(barriers') = Len(barriers) - 1
        /\ \A i \in 1 .. Len(barriers') :
             barriers'[i] = barriers[i + 1] /\ i + 1 \in 1 .. Len(barriers)
    BY <1>14, SMTT(30) DEF HandleBarrier, TypeOK
  <2>2. FreshBarrier(b) /\ \A i \in 1 .. Len(barriers') : FreshBarrier(barriers'[i])
    BY <2>1 DEF FreshInv
  <2>3. UNCHANGED <<sourceVars, inj, chan, nextId>>
    BY <1>14 DEF HandleBarrier
  <2>4. CASE ~Matches(b)
    <3>1. UNCHANGED <<pending, last>>
      BY <1>14, <2>4 DEF HandleBarrier
    <3> QED
      BY <2>2, <2>3, <3>1 DEF FreshInv, FreshBarrier, FreshCut, sourceVars
  <2>5. CASE Matches(b)
    <3> DEFINE p == Record(b)
    <3>1. /\ p \in PendingBarrier
          /\ p.id = pending.id /\ p.trig = pending.trig
          /\ p.active = pending.active
          /\ p.aligned = pending.aligned \union {b.src}
          /\ \A s \in Sources : p.cut[s] = IF s = b.src THEN b.at ELSE pending.cut[s]
      BY <2>1, Zenon DEF Record, TypeOK, PendingBarrier, Msg
    <3>2. \A s \in p.aligned : p.trig[s] <= p.cut[s]
      BY <2>1, <2>2, <2>5, <3>1, Zenon DEF Matches, FreshBarrier, FreshInv, Msg, TypeOK,
                                    PendingBarrier
    <3>3. last.id < pending.id
      BY <2>5, Zenon DEF Matches, FreshInv
    <3>4. CASE p.aligned # Sources
      <4>1. pending' = p /\ last' = last
        BY <1>14, <2>5, <3>4 DEF HandleBarrier
      <4> QED
        BY <2>2, <2>3, <3>1, <3>2, <4>1 DEF FreshInv, FreshBarrier, FreshCut, sourceVars
    <3>5. CASE p.aligned = Sources
      <4> DEFINE q == [p EXCEPT !.active = FALSE]
      <4>1. pending' = q /\ (last' = Completed(p) \/ last' = last)
        BY <1>14, <2>5, <3>5 DEF HandleBarrier
      <4>2. /\ q.id = pending.id /\ q.trig = pending.trig /\ q.active = FALSE
            /\ q.aligned = p.aligned /\ q.cut = p.cut
        BY <3>1 DEF PendingBarrier
      <4>3. /\ Completed(p).id = pending.id
            /\ Completed(p).trig = p.trig /\ Completed(p).cut = p.cut
        BY <3>1 DEF Completed
      <4>4. \A s \in Sources : Completed(p).trig[s] <= Completed(p).cut[s]
        BY <3>2, <3>5, <4>3
      <4>5. FreshCut'
        BY <4>1, <4>4 DEF FreshCut, FreshInv
      <4>6. pending.id \in Nat /\ last.id \in Nat
        BY DEF TypeOK, PendingBarrier, Checkpoint
      <4>7. last'.id <= pending.id
        BY <3>3, <4>1, <4>3, <4>6
      <4> QED
        BY <2>2, <2>3, <3>1, <3>2, <4>1, <4>2, <4>5, <4>7, Zenon
           DEF FreshInv, FreshBarrier, sourceVars
    <3> QED
      BY <3>4, <3>5
  <2> QED
    BY <2>4, <2>5
<1>15. CASE EndBarriers
  BY <1>15, FreshStutter DEF EndBarriers, sourceVars, cycleVars
<1>16. CASE SkipCheckpoint
  BY <1>16, FreshStutter DEF SkipCheckpoint, sourceVars, cycleVars
<1>17. CASE Trigger
  <2>1. /\ pending'.id = nextId /\ pending'.trig = pos /\ pending'.aligned = {}
        /\ nextId' = nextId + 1
        /\ \A s \in Sources : inj'[s] = nextId
        /\ UNCHANGED <<pos, held, chan, barriers, last>>
    BY <1>17 DEF Trigger, Reset, sourceVars, cycleVars
  <2>0. nextId = pending.id + 1 /\ pending.id \in Nat /\ nextId \in Nat
    BY SMTT(30) DEF FreshInv, TypeOK, PendingBarrier
  <2>2. /\ nextId = pending.id + 1 /\ pending.id \in Nat /\ last.id \in Nat
        /\ pos \in [Sources -> Nat] /\ held \in [Sources -> Nat]
        /\ \A i \in 1 .. Len(chan) : chan[i] \in Msg
        /\ \A i \in 1 .. Len(barriers) : barriers[i] \in Msg
    BY SMTT(30) DEF FreshInv, TypeOK, PendingBarrier, Checkpoint
  <2>3. ASSUME NEW m \in Msg, FreshBarrier(m) PROVE m.n < nextId
    <3>1. m.n \in Nat /\ m.n <= pending.id
      BY <2>3 DEF FreshBarrier, Msg
    <3> QED
      BY <2>0, <3>1
  <2>4. /\ \A i \in 1 .. Len(chan) :
             chan[i].kind = "barrier" => chan[i].n < nextId /\ chan[i].n \in Nat
        /\ \A i \in 1 .. Len(barriers) :
             barriers[i].n < nextId /\ barriers[i].n \in Nat
    BY <2>2, <2>3 DEF FreshInv, Msg
  <2>5. /\ \A i \in 1 .. Len(chan) :
             chan[i].kind = "barrier" => chan[i].n <= nextId /\ chan[i].n # nextId
        /\ \A i \in 1 .. Len(barriers) :
             barriers[i].n <= nextId /\ barriers[i].n # nextId
    BY <2>2, <2>4, SMTT(30)
  <2>6. /\ \A s \in Sources : inj'[s] <= pending'.id /\ held'[s] <= pending'.id
        /\ \A s \in Sources : pending'.trig[s] <= pos'[s]
    BY <2>1, <2>2, SMTT(30) DEF FreshInv
  <2>7. last'.id < pending'.id /\ last'.id <= pending'.id /\ FreshCut'
    BY <2>1, <2>2, SMTT(30) DEF FreshInv, FreshCut
  <2> QED
    BY <2>1, <2>5, <2>6, <2>7 DEF FreshInv, FreshBarrier
<1>18. CASE BarrierTimeout
  <2>1. /\ pending'.id = pending.id /\ pending'.trig = pending.trig
        /\ pending'.cut = pending.cut /\ pending'.aligned = pending.aligned
        /\ pending'.active = FALSE
        /\ UNCHANGED <<sourceVars, inj, chan, cycleVars, nextId, last>>
    BY <1>18 DEF BarrierTimeout, TypeOK, PendingBarrier
  <2> QED
    BY <2>1 DEF FreshInv, FreshBarrier, FreshCut, sourceVars, cycleVars
<1>19. CASE EndCycle
  BY <1>19, FreshStutter DEF EndCycle, sourceVars, cycleVars
<1>20. CASE Leave
  BY <1>20, FreshStutter DEF Leave, sourceVars, cycleVars
<1>21. CASE Join
  BY <1>21, FreshStutter DEF Join, sourceVars, cycleVars
<1>22. CASE Shutdown
  BY <1>22, FreshStutter DEF Shutdown, sourceVars, cycleVars
<1>23. CASE UNCHANGED vars
  BY <1>23, FreshStutter DEF vars
<1> QED
  BY <1>1, <1>2, <1>3, <1>4, <1>5, <1>6, <1>7, <1>8, <1>9, <1>10, <1>11,
     <1>12, <1>13, <1>14, <1>15, <1>16, <1>17, <1>18, <1>19, <1>20, <1>21,
     <1>22, <1>23
     DEF Next, SourceStep, CoordinatorStep, Returned, TriggerOnInterval,
         TriggerOnRequest

\* FreshInv is an invariant.
LEMMA FreshInvariant == Spec => []FreshInv
<1>1. Init => FreshInv
  <2> SUFFICES ASSUME Init PROVE FreshInv
    OBVIOUS
  <2>1. pending.id = 0 /\ pending.active = FALSE /\ pending.aligned = {}
        /\ pending.trig = Zeros /\ last.id = 0
    BY DEF Init, NoBarrier, NoCheckpoint
  <2>2. chan = <<>> /\ barriers = <<>> /\ nextId = 1
    BY DEF Init
  <2>3. \A s \in Sources : inj[s] = 0 /\ held[s] = 0 /\ pos[s] = 0
                           /\ pending.trig[s] = 0
    BY <2>1 DEF Init, Zeros
  <2> QED
    BY <2>1, <2>2, <2>3 DEF FreshInv, FreshCut
<1>2. TypeOK /\ FreshInv /\ [Next]_vars => FreshInv'
  BY FreshStep
<1> QED
  BY <1>1, <1>2, TypeCorrect, PTL DEF Spec

\* Every checkpoint that completes is built from barriers its sources took
\* after it was triggered, however late the barriers of cancelled alignments
\* arrive (handle_barrier compares checkpoint ids).
THEOREM CutsAreFresh == Spec => []FreshCut
<1>1. FreshInv => FreshCut
  BY DEF FreshInv
<1> QED
  BY <1>1, FreshInvariant, PTL

\* maybe_checkpoint never uses an id again, handle_barrier never reopens an
\* alignment that ended, and completed checkpoints come in the order of their
\* triggers.
THEOREM IdsOnlyAdvance == Spec => IdsAdvance
<1>1. TypeOK /\ FreshInv /\ [Next]_vars => [IdsStep]_vars
  <2> SUFFICES ASSUME TypeOK, FreshInv, Next PROVE IdsStep \/ UNCHANGED vars
    OBVIOUS
  <2>1. pending.id \in Nat /\ last.id \in Nat /\ nextId = pending.id + 1
    BY DEF TypeOK, PendingBarrier, Checkpoint, FreshInv
  <2>2. ASSUME UNCHANGED <<pending, last>> PROVE IdsStep
    BY <2>1, <2>2 DEF IdsStep
  <2>3. CASE Trigger
    <3>1. pending'.id = nextId /\ last' = last
      BY <2>3 DEF Trigger, Reset
    <3> QED
      BY <2>1, <3>1 DEF IdsStep
  <2>4. CASE BarrierTimeout
    <3>1. pending'.id = pending.id /\ pending'.active = FALSE /\ last' = last
      BY <2>4 DEF BarrierTimeout, TypeOK, PendingBarrier
    <3> QED
      BY <2>1, <3>1 DEF IdsStep
  <2>5. CASE HandleBarrier
    <3> DEFINE b == Head(barriers)
    <3>1. CASE ~Matches(b)
      BY <2>2, <2>5, <3>1 DEF HandleBarrier
    <3>2. CASE Matches(b)
      <4>1. /\ Record(b).id = pending.id
            /\ [Record(b) EXCEPT !.active = FALSE].id = pending.id
            /\ Completed(Record(b)).id = pending.id
        BY DEF Record, Completed, TypeOK, PendingBarrier
      <4>2. pending'.id = pending.id /\ (last' = last \/ last'.id = pending.id)
        BY <2>5, <3>2, <4>1, Zenon DEF HandleBarrier
      <4>3. pending.active /\ last.id < pending.id
        BY <3>2 DEF Matches, FreshInv
      <4> QED
        BY <2>1, <4>2, <4>3 DEF IdsStep
    <3> QED
      BY <3>1, <3>2
  <2>6. ASSUME NEW s \in Sources, SourceStep(s) \/ RequestCheckpoint(s)
        PROVE  UNCHANGED <<pending, last>>
    BY <2>6 DEF SourceStep, RequestCheckpoint, PollBatch, PollNone, SendBatch,
                PollBarrier, SendBarrier, StopSource
  <2>7. CASE Recv \/ Idle \/ Drain \/ EndDrain \/ ExecuteCycle \/ CycleError
             \/ EndBarriers \/ SkipCheckpoint \/ EndCycle \/ Leave \/ Join
             \/ Shutdown
    <3>1. UNCHANGED <<pending, last>>
      BY <2>7 DEF Recv, Idle, Drain, EndDrain, ExecuteCycle, CycleError,
                  EndBarriers, SkipCheckpoint, EndCycle, Leave, Join, Shutdown
    <3> QED
      BY <2>2, <3>1, Zenon
  <2> QED
    BY <2>2, <2>3, <2>4, <2>5, <2>6, <2>7
       DEF Next, CoordinatorStep, Returned, TriggerOnInterval, TriggerOnRequest
<1> QED
  BY <1>1, TypeCorrect, FreshInvariant, PTL DEF Spec, IdsAdvance
=============================================================================
