----------------------- MODULE CheckpointCommitProofs -----------------------
(***************************************************************************)
(* The two-phase commit for any number of sinks, any capacity of their     *)
(* queues and any value of the bounds: types and epochs for every          *)
(* connector, and exactly-once delivery through Kafka with manifests in a  *)
(* file system.                                                            *)
(***************************************************************************)
EXTENDS CheckpointCommit, Integers, TLAPS

-----------------------------------------------------------------------------
(* Types of the connectors.                                                *)

\* A record that the final file of an epoch holds is visible.
ConnOK(c) ==
    /\ c \in Conn
    /\ c.kind \in {"files", "append"} => \A r \in c.staged : c.out[r] >= 1

\* Connector d is of the kind of c.
Same(c, d) == ConnOK(d) /\ d.kind = c.kind

Good(c, res) == res.ok \in BOOLEAN /\ Same(c, res.c)

LEMMA PublishType ==
    ASSUME NEW c, ConnOK(c), NEW rs
    PROVE  Same(c, Publish(c, rs))
<1>1. c \in Conn /\ c.out \in [Records -> Nat]
  BY DEF ConnOK, Conn
<1> DEFINE o == [r \in Records |-> IF r \in rs THEN c.out[r] + 1 ELSE c.out[r]]
<1>2. o \in [Records -> Nat] /\ \A r \in Records : o[r] >= c.out[r]
  BY <1>1
<1>3. Publish(c, rs) = [c EXCEPT !.out = o]
  BY DEF Publish
<1> HIDE DEF o
<1>4. c.staged \subseteq Records /\ \A r \in Records : o[r] \in Nat /\ c.out[r] \in Nat
  BY <1>1, <1>2 DEF Conn
<1> QED BY <1>1, <1>2, <1>3, <1>4 DEF ConnOK, Conn, Same

LEMMA KafkaType ==
    ASSUME NEW c, ConnOK(c), c.kind = "kafka", NEW e \in Nat
    PROVE  /\ (\A r \in Records : Good(c, KafkaWrite(c, r))) /\ Good(c, KafkaBegin(c, e))
           /\ Good(c, KafkaPreCommit(c, e)) /\ Good(c, KafkaCommit(c, e))
           /\ Good(c, KafkaRollback(c, e))
           /\ \A op : \A d \in KafkaFailures(op, c, e) : Same(c, d)
<1> DEFINE d == Publish(c, c.buf)
<1>1. ConnOK(d) /\ d.kind = "kafka"
  BY PublishType DEF Same
<1> HIDE DEF d
<1>2. (\A r \in Records : Good(c, KafkaWrite(c, r))) /\ Good(c, KafkaBegin(c, e)) /\ Good(c, KafkaPreCommit(c, e))
  BY Zenon DEF KafkaWrite, KafkaBegin, KafkaPreCommit, Good, Result, Same, ConnOK, Conn
<1>3. Good(c, KafkaCommit(c, e))
  BY <1>1, Zenon DEF KafkaCommit, Good, Result, Same, ConnOK, Conn, d
<1>4. Good(c, KafkaRollback(c, e))
  BY Zenon DEF KafkaRollback, Good, Result, Same, ConnOK, Conn
<1>5. \A op : \A x \in KafkaFailures(op, c, e) : Same(c, x)
  <2>1. Same(c, [c EXCEPT !.epoch = e])
    BY Zenon DEF Same, ConnOK, Conn
  <2>2. Same(c, [d EXCEPT !.txn = "committing", !.buf = {}])
    BY <1>1, Zenon DEF Same, ConnOK, Conn
  <2>3. Same(c, c)
    BY Zenon DEF Same
  <2> QED BY <2>1, <2>2, <2>3, Zenon DEF KafkaFailures, d
<1> QED BY <1>2, <1>3, <1>4, <1>5

LEMMA PostgresType ==
    ASSUME NEW c, ConnOK(c), c.kind = "postgres", NEW e \in Nat
    PROVE  /\ (\A r \in Records : Good(c, PostgresWrite(c, r))) /\ Good(c, PostgresBegin(c, e))
           /\ Good(c, PostgresPreCommit(c, e)) /\ Good(c, PostgresCommit(c, e))
           /\ Good(c, PostgresRollback(c, e)) /\ Same(c, PostgresFlush(c))
           /\ \A op : \A d \in PostgresFailures(op, c, e) : Same(c, d)
<1> DEFINE d == Publish(c, c.buf)
<1>1. ConnOK(d) /\ d.kind = "postgres"
  BY PublishType DEF Same
<1> HIDE DEF d
<1>2. (\A r \in Records : Good(c, PostgresWrite(c, r))) /\ Good(c, PostgresBegin(c, e))
  BY DEF PostgresWrite, PostgresBegin, Good, Result, Same, ConnOK, Conn
<1>3. Good(c, PostgresCommit(c, e)) /\ Good(c, PostgresRollback(c, e))
  BY DEF PostgresCommit, PostgresRollback, Good, Result, Same, ConnOK, Conn
<1>4. Good(c, PostgresPreCommit(c, e))
  BY <1>1, Zenon DEF PostgresPreCommit, Good, Result, Same, ConnOK, Conn, d
<1>5. Same(c, PostgresFlush(c))
  BY <1>1 DEF PostgresFlush, Same, ConnOK, Conn, d
<1>6. \A op : \A x \in PostgresFailures(op, c, e) : Same(c, x)
  BY <1>4 DEF PostgresFailures, Good, Same, ConnOK, Conn
<1> QED BY <1>2, <1>3, <1>4, <1>5, <1>6

LEMMA DeltaType ==
    ASSUME NEW c, ConnOK(c), c.kind = "delta", NEW e \in Nat
    PROVE  /\ (\A r \in Records : Good(c, DeltaWrite(c, r))) /\ Good(c, DeltaBegin(c, e))
           /\ Good(c, DeltaPreCommit(c, e)) /\ Good(c, DeltaCommit(c, e))
           /\ Good(c, DeltaRollback(c, e))
           /\ \A op : \A d \in DeltaFailures(op, c, e) : Same(c, d)
<1>1. (\A r \in Records : Good(c, DeltaWrite(c, r))) /\ Good(c, DeltaBegin(c, e))
  BY Zenon DEF DeltaWrite, DeltaBegin, Good, Result, Same, ConnOK, Conn
<1>2. Good(c, DeltaPreCommit(c, e)) /\ Good(c, DeltaRollback(c, e))
  BY Zenon DEF DeltaPreCommit, DeltaRollback, Good, Result, Same, ConnOK, Conn
<1>3. Same(c, DeltaFlushStaged(c))
  <2> DEFINE d == Publish(c, c.staged)
  <2>1. ConnOK(d) /\ d.kind = "delta"
    BY PublishType DEF Same
  <2> HIDE DEF d
  <2> QED BY <2>1, Zenon DEF DeltaFlushStaged, Same, ConnOK, Conn, d
<1>4. Good(c, DeltaCommit(c, e))
  BY <1>3 DEF DeltaCommit, Good, Result, Same, ConnOK, Conn
<1>5. \A op : \A x \in DeltaFailures(op, c, e) : Same(c, x)
  BY <1>3 DEF DeltaFailures, Same, ConnOK, Conn
<1> QED BY <1>1, <1>2, <1>4, <1>5

LEMMA FilesType ==
    ASSUME NEW c, ConnOK(c), c.kind \in {"files", "append"}, NEW e \in Nat
    PROVE  /\ (\A r \in Records : Good(c, FilesWrite(c, r))) /\ Good(c, FilesBegin(c, e))
           /\ Good(c, FilesPreCommit(c, e)) /\ Good(c, FilesCommit(c, e))
           /\ Good(c, FilesRollback(c, e))
           /\ \A op : \A d \in FilesFailures(op, c, e) : Same(c, d)
<1>1. (\A r \in Records : Good(c, FilesWrite(c, r))) /\ Good(c, FilesBegin(c, e)) /\ Good(c, FilesPreCommit(c, e))
  BY Zenon DEF FilesWrite, FilesBegin, FilesPreCommit, Good, Result, Same, ConnOK, Conn
<1>2. Good(c, FilesRollback(c, e)) /\ \A op : \A d \in FilesFailures(op, c, e) : Same(c, d)
  BY Zenon DEF FilesRollback, FilesFailures, Good, Result, Same, ConnOK, Conn
<1>3. Good(c, FilesCommit(c, e))
  <2> DEFINE o == [x \in Records |-> IF x \in c.staged THEN c.out[x] - 1 ELSE c.out[x]]
             b == c.buf
             p == [x \in Records |-> IF x \in b THEN o[x] + 1 ELSE o[x]]
             g == [c EXCEPT !.out = o]
             f == [Publish(g, b) EXCEPT !.staged = b, !.buf = {}]
  <2>1. c.out \in [Records -> Nat] /\ \A x \in Records : x \in c.staged => c.out[x] >= 1
    BY DEF ConnOK, Conn
  <2>2. \A x \in Records : c.out[x] \in Nat
    BY <2>1
  <2>3. o \in [Records -> Nat]
    BY <2>1, <2>2
  <2>4. \A x \in Records : o[x] \in Nat
    BY <2>3
  <2> HIDE DEF o
  <2>5. p \in [Records -> Nat]
    BY <2>4
  <2>6. \A x \in Records : x \in b => p[x] >= 1
    BY <2>4
  <2>7. Publish(g, b) = [g EXCEPT !.out = p] /\ b \subseteq Records
    BY <2>3 DEF Publish, ConnOK, Conn
  <2> HIDE DEF p
  <2>8. Same(c, f)
    BY <2>3, <2>5, <2>6, <2>7, Zenon DEF Same, ConnOK, Conn
  <2>9. FilesCommit(c, e) = Result(TRUE, IF c.kind = "append" \/ c.buf = {} THEN c ELSE f)
    BY DEF FilesCommit, o
  <2> QED BY <2>8, <2>9 DEF Good, Result, Same
<1> QED BY <1>1, <1>2, <1>3

LEMMA ConnectorType ==
    ASSUME NEW c, ConnOK(c), NEW e \in Nat
    PROVE  /\ (\A r \in Records : Good(c, Write(c, r))) /\ Good(c, BeginEpoch(c, e)) /\ Good(c, PreCommit(c, e))
           /\ Good(c, CommitEpoch(c, e)) /\ Good(c, RollbackEpoch(c, e))
           /\ \A op : \A d \in Failures(op, c, e) : Same(c, d)
<1>1. c.kind \in Kinds
  BY DEF ConnOK, Conn
<1>2. CASE c.kind = "kafka"
  BY <1>2, KafkaType, Zenon DEF Write, BeginEpoch, PreCommit, CommitEpoch, RollbackEpoch, Failures
<1>3. CASE c.kind = "postgres"
  BY <1>3, PostgresType, Zenon DEF Write, BeginEpoch, PreCommit, CommitEpoch, RollbackEpoch, Failures
<1>4. CASE c.kind = "delta"
  BY <1>4, DeltaType, Zenon DEF Write, BeginEpoch, PreCommit, CommitEpoch, RollbackEpoch, Failures
<1>5. CASE c.kind \in {"files", "append"}
  BY <1>5, FilesType, Zenon DEF Write, BeginEpoch, PreCommit, CommitEpoch, RollbackEpoch, Failures
<1> QED BY <1>1, <1>2, <1>3, <1>4, <1>5 DEF Kinds

\* Flushing, closing and opening a connector.
LEMMA LifeType ==
    ASSUME NEW c, ConnOK(c)
    PROVE  Same(c, Flush(c)) /\ Same(c, Close(c)) /\ Same(c, Open(c))
<1>1. c \in Conn /\ c.kind \in Kinds /\ c.epoch \in Nat /\ c.out \in [Records -> Nat] /\ c.mark \in Nat
  BY DEF ConnOK, Conn
<1>2. Same(c, Open(c))
  BY <1>1, Zenon DEF Open, NewConn, Same, ConnOK, Conn
<1>3. ASSUME c.kind = "postgres" PROVE Same(c, PostgresFlush(c))
  <2> DEFINE d == Publish(c, c.buf)
  <2>1. ConnOK(d) /\ d.kind = "postgres"
    BY <1>3, PublishType DEF Same
  <2> HIDE DEF d
  <2> QED BY <1>3, <2>1 DEF PostgresFlush, Same, ConnOK, Conn, d
<1>4. ASSUME c.kind = "delta" PROVE Same(c, DeltaClose(c))
  <2>1. Good(c, DeltaPreCommit(c, c.epoch))
    BY <1>1, <1>4, DeltaType
  <2> DEFINE d == DeltaPreCommit(c, c.epoch).c
  <2>2. ConnOK(d) /\ d.kind = "delta"
    BY <1>4, <2>1 DEF Good, Same
  <2> HIDE DEF d
  <2>3. Good(d, DeltaCommit(d, c.epoch))
    BY <1>1, <2>2, DeltaType
  <2> QED BY <1>4, <2>2, <2>3 DEF DeltaClose, Good, Same, d
<1>5. Same(c, c)
  BY DEF Same
<1>6. Same(c, Flush(c))
  BY <1>3, <1>5, Zenon DEF Flush
<1>7. Same(c, Close(c))
  BY <1>3, <1>4, <1>5, Zenon DEF Close
<1> QED BY <1>2, <1>6, <1>7

-----------------------------------------------------------------------------
(* Types of the coordinator, the sink tasks and the store.                 *)

\* A write carries a record.
Order == {m \in Command : m.cmd = "write" => m.n \in Records}

CoordType ==
    /\ env \in Deployments
    /\ pos \in 0..MaxPos /\ epoch \in Nat \ {0}
    /\ cpc \in {"down", "boot", "idle", "pre", "persist", "commit", "update", "begin", "stopping"}
    /\ cur \in Sinks /\ ack \in {"unsent", "sent", "ok", "err"}
    /\ status \in [Sinks -> Status]
    /\ faults \in 0..MaxFaults /\ floor \in 0..MaxPos /\ done \in 0..MaxPos

\* A process that is down has no queues.
SinkType ==
    /\ queue \in [Sinks -> Seq(Order)] /\ \A s \in Sinks : Len(queue[s]) <= QueueCap
    /\ poisoned \in [Sinks -> BOOLEAN]
    /\ conn \in [Sinks -> Conn] /\ \A s \in Sinks : ConnOK(conn[s])
    /\ cpc = "down" => \A s \in Sinks : queue[s] = <<>>

StoreType == manifest \in Manifest /\ late \subseteq [op : {"save", "update"}, m : Manifest]

TypeInv == CoordType /\ SinkType /\ StoreType

\* What a connector does with a command, and how the command may end.
Normal(op, c, n) ==
    CASE op = "write"    -> Write(c, n)
      [] op = "begin"    -> BeginEpoch(c, n)
      [] op = "pre"      -> PreCommit(c, n)
      [] op = "commit"   -> CommitEpoch(c, n)
      [] op = "rollback" -> RollbackEpoch(c, n)

Ends(o, op, c, n) ==
    \/ o.fault = 0 /\ o.ok = Normal(op, c, n).ok /\ o.c = Normal(op, c, n).c
    \/ o.fault = 1 /\ o.ok = FALSE /\ o.c \in Failures(op, c, n) /\ MayFail(op)

LEMMA OutcomeIs ==
    ASSUME NEW op, NEW c, NEW n, NEW o \in Outcomes(op, c, n)
    PROVE  Ends(o, op, c, n)
<1> DEFINE res == Normal(op, c, n)
           F == Failures(op, c, n)
<1>1. Outcomes(op, c, n) =
        {[fault |-> 0, ok |-> res.ok, c |-> res.c]} \cup
        (IF MayFail(op) THEN {[fault |-> 1, ok |-> FALSE, c |-> d] : d \in F} ELSE {})
  BY Zenon DEF Outcomes, Normal
<1> HIDE DEF res, F
<1>2. \/ o = [fault |-> 0, ok |-> res.ok, c |-> res.c]
      \/ MayFail(op) /\ \E d \in F : o = [fault |-> 1, ok |-> FALSE, c |-> d]
  BY <1>1, Zenon
<1>3. \/ o.fault = 0 /\ o.ok = res.ok /\ o.c = res.c
      \/ o.fault = 1 /\ o.ok = FALSE /\ o.c \in F /\ MayFail(op)
  BY <1>2
<1> QED BY <1>3 DEF Ends, res, F

\* A poisoned sink task refuses to pre-commit and to commit.
LEMMA RunIs ==
    ASSUME NEW s, NEW h, NEW o \in Run(s, h)
    PROVE  \/ /\ h.cmd \in {"pre", "commit"} /\ poisoned[s]
              /\ o.fault = 0 /\ o.ok = FALSE /\ o.c = conn[s]
           \/ /\ ~(h.cmd \in {"pre", "commit"} /\ poisoned[s])
              /\ Ends(o, h.cmd, conn[s], h.n)
<1>1. CASE h.cmd \in {"pre", "commit"} /\ poisoned[s]
  <2>1. o = [fault |-> 0, ok |-> FALSE, c |-> conn[s]]
    BY <1>1, Zenon DEF Run
  <2> QED BY <1>1, <2>1
<1>2. CASE ~(h.cmd \in {"pre", "commit"} /\ poisoned[s])
  BY <1>2, OutcomeIs, Zenon DEF Run
<1> QED BY <1>1, <1>2, Zenon

LEMMA TypeInit == Init => TypeInv
<1> SUFFICES ASSUME Init PROVE TypeInv
  OBVIOUS
<1>1. env \in Deployments /\ env.sinks \in [Sinks -> Kinds] /\ 1 \in Sinks /\ N \in Nat
  BY CommitAssumption DEF Init, Sinks
<1>2. MaxPos \in Nat /\ MaxFaults \in Nat /\ QueueCap \in Nat
  BY CommitAssumption, ConnectorAssumption
<1>3. CoordType
  BY <1>1, <1>2 DEF Init, CoordType, Pending, Status
<1>4. StoreType
  BY <1>2 DEF Init, StoreType, NoManifest, Manifest, Status
<1>5. ASSUME NEW k \in Kinds PROVE ConnOK(NewConn(k))
  BY DEF NewConn, ConnOK, Conn
<1>6. \A s \in Sinks : ConnOK(conn[s])
  BY <1>1, <1>5, Zenon DEF Init
<1>7. conn \in [Sinks -> Conn]
  BY <1>6, Zenon DEF Init, ConnOK
<1>8. SinkType
  BY <1>2, <1>6, <1>7 DEF Init, SinkType
<1> QED BY <1>3, <1>4, <1>8 DEF TypeInv

LEMMA CoordStep == TypeInv /\ [Next]_vars => CoordType'
<1> SUFFICES ASSUME TypeInv, [Next]_vars PROVE CoordType'
  OBVIOUS
<1>1. /\ N \in Nat /\ 1 \in Sinks /\ MaxPos \in Nat /\ MaxFaults \in Nat
      /\ manifest.epoch \in Nat /\ manifest.offset \in 0..MaxPos
      /\ Pending \in [Sinks -> Status]
  BY CommitAssumption, ConnectorAssumption DEF TypeInv, StoreType, Manifest, Sinks, Pending, Status
<1>2. CoordType
  BY DEF TypeInv
<1> USE DEF CoordType
<1>3. CASE Restart
  BY <1>1, <1>2, <1>3 DEF Restart
<1>4. CASE WriteToSinks \/ StartCheckpoint \/ Send
  BY <1>1, <1>2, <1>4 DEF WriteToSinks, StartCheckpoint, Send
<1>5. ASSUME NEW then, NextSink(then), then \in {"persist", "update", "idle"}
      PROVE  cur' \in Sinks /\ cpc' \in {cpc, then} /\ ack' = "unsent"
  BY <1>1, <1>2, <1>5 DEF NextSink, Sinks
<1>6. CASE PreCommitted \/ Began
  BY <1>2, <1>5, <1>6 DEF PreCommitted, Began
<1>7. CASE SinkAnswered
  BY <1>2, <1>5, <1>7 DEF SinkAnswered, Status
<1>8. CASE PreCommitFailed \/ SaveManifest \/ BeginFailed
  BY <1>1, <1>2, <1>8 DEF PreCommitFailed, SaveManifest, BeginFailed, ToIdle
<1>9. CASE PreCommitTimeout \/ SizeRejected \/ SaveFailed \/ SaveTimeout
  BY <1>1, <1>2, <1>9
     DEF PreCommitTimeout, SizeRejected, SaveFailed, SaveTimeout, ToIdle, MayFail, Fault
<1>10. CASE CommitTimeout \/ Stop \/ Crash
  BY <1>1, <1>2, <1>10 DEF CommitTimeout, Stop, Crash, MayFail, Fault, Status
<1>11. ASSUME Conclude
       PROVE  /\ cur' = 1 /\ cpc' \in {"idle", "begin"} /\ ack' = "unsent"
              /\ epoch' \in {epoch, epoch + 1} /\ done' \in {done, pos}
  BY <1>11, Zenon DEF Conclude, ToIdle
<1>12. CASE UpdateManifest \/ UpdateFailed \/ UpdateTimeout
  BY <1>1, <1>2, <1>11, <1>12 DEF UpdateManifest, UpdateFailed, UpdateTimeout, MayFail, Fault
<1>13. CASE LateWrite \/ Stopped
  BY <1>2, <1>13 DEF LateWrite, Stopped, coordVars
<1>14. ASSUME NEW s \in Sinks, FlushTick(s) PROVE CoordType'
  BY <1>2, <1>14 DEF FlushTick, coordVars
<1>15. ASSUME NEW s \in Sinks, SinkStep(s) PROVE CoordType'
  <2> DEFINE h == Head(queue[s])
  <2>1. PICK o \in Run(s, h) :
           /\ ack' = IF h.reply THEN (IF o.ok THEN "ok" ELSE "err") ELSE ack
           /\ faults' = faults + o.fault
    BY <1>15, Zenon DEF SinkStep
  <2> HIDE DEF h
  <2>2. o.fault = 0 \/ (o.fault = 1 /\ MayFail(h.cmd))
    <3>1. o.fault = 0 \/ Ends(o, h.cmd, conn[s], h.n)
      BY <2>1, RunIs, Zenon
    <3> QED BY <3>1, Zenon DEF Ends
  <2>3. faults' \in 0..MaxFaults
    BY <1>1, <1>2, <2>1, <2>2 DEF MayFail
  <2>4. ack' \in {"unsent", "sent", "ok", "err"}
    BY <1>2, <2>1, Zenon
  <2> QED BY <1>2, <1>15, <2>3, <2>4, Zenon DEF SinkStep
<1>16. CASE UNCHANGED vars \/ AtBounds
  BY <1>2, <1>16 DEF vars, AtBounds
<1> QED
  BY <1>3, <1>4, <1>6, <1>7, <1>8, <1>9, <1>10, <1>12, <1>13, <1>14, <1>15, <1>16, Zenon
     DEF Next, CoordinatorStep, FaultStep

\* Commands sent, and acknowledgments dropped.
LEMMA SendIs ==
    ASSUME SinkType, NEW S \in SUBSET Sinks, NEW c \in Order, Room(S), SendAll(S, c)
    PROVE  /\ queue' \in [Sinks -> Seq(Order)]
           /\ \A s \in Sinks : /\ queue'[s] = IF s \in S THEN Append(queue[s], c) ELSE queue[s]
                               /\ Len(queue'[s]) <= QueueCap
<1>1. /\ QueueCap \in Nat
      /\ \A s \in Sinks : queue[s] \in Seq(Order) /\ Len(queue[s]) <= QueueCap /\ Append(queue[s], c) \in Seq(Order)
  BY CommitAssumption DEF SinkType
<1>2. \A s \in Sinks : queue'[s] = IF s \in S THEN Append(queue[s], c) ELSE queue[s]
  BY Zenon DEF SendAll
<1>3. queue' \in [Sinks -> Seq(Order)]
  BY <1>1, Zenon DEF SendAll
<1>4. ASSUME NEW s \in Sinks PROVE Len(queue'[s]) <= QueueCap
  <2>1. CASE s \in S
    <3>1. Len(queue[s]) < QueueCap /\ queue'[s] = Append(queue[s], c)
      BY <1>2, <2>1, Zenon DEF Room
    <3>2. queue[s] \in Seq(Order)
      BY <1>1, Zenon
    <3>3. Len(queue[s]) \in Nat /\ Len(Append(queue[s], c)) = Len(queue[s]) + 1
      BY <3>2
    <3> QED BY <1>1, <3>1, <3>3
  <2>2. CASE s \notin S
    BY <1>1, <1>2, <2>2
  <2> QED BY <2>1, <2>2
<1> QED BY <1>2, <1>3, <1>4

LEMMA DropIs ==
    ASSUME SinkType, cur \in Sinks, DropReply
    PROVE  /\ queue' \in [Sinks -> Seq(Order)]
           /\ \A s \in Sinks : /\ s # cur => queue'[s] = queue[s]
                               /\ Len(queue'[s]) = Len(queue[s])
                               /\ \A i \in 1 .. Len(queue[s]) :
                                    queue'[s][i] = IF s = cur THEN [queue[s][i] EXCEPT !.reply = FALSE]
                                                              ELSE queue[s][i]
<1> DEFINE q == queue[cur]
           d == [i \in 1 .. Len(q) |-> [q[i] EXCEPT !.reply = FALSE]]
<1>1. q \in Seq(Order) /\ queue \in [Sinks -> Seq(Order)] /\ queue' = [queue EXCEPT ![cur] = d]
  BY DEF SinkType, DropReply
<1>2. \A i \in 1 .. Len(q) : q[i] \in Order
  BY <1>1
<1>3. \A x \in Order : [x EXCEPT !.reply = FALSE] \in Order
  BY Zenon DEF Order, Command
<1>4. d \in Seq(Order) /\ Len(d) = Len(q)
  <2>1. d \in [1 .. Len(q) -> Order] /\ Len(q) \in Nat
    BY <1>1, <1>2, <1>3
  <2> HIDE DEF d, q
  <2>2. d \in Seq(Order)
    BY <2>1
  <2> QED BY <2>1, <2>2
<1>5. queue'[cur] = d /\ \A s \in Sinks : s # cur => queue'[s] = queue[s]
  BY <1>1
<1>6. queue' \in [Sinks -> Seq(Order)]
  BY <1>1, <1>4
<1>7. \A i \in 1 .. Len(q) : d[i] = [q[i] EXCEPT !.reply = FALSE]
  OBVIOUS
<1> HIDE DEF d
<1> QED BY <1>4, <1>5, <1>6, <1>7, Zenon

\* The coordinator takes its next step without the sink tasks.
LEMMA SinksKeep == ASSUME SinkType, UNCHANGED sinkVars, cpc' # "down" \/ cpc' = cpc PROVE SinkType'
  BY Zenon DEF SinkType, sinkVars

LEMMA SinksSent ==
    ASSUME SinkType, NEW S \in SUBSET Sinks, NEW c \in Order, Room(S), SendAll(S, c),
           UNCHANGED <<poisoned, conn>>, cpc' # "down"
    PROVE  SinkType'
  BY SendIs, Zenon DEF SinkType

LEMMA OrdersAre ==
    ASSUME NEW e \in Nat
    PROVE  /\ RollbackCmd(e) \in Order
           /\ \A r \in Records : WriteCmd(r) \in Order
           /\ \A k \in {"pre", "commit", "begin"} : [cmd |-> k, n |-> e, reply |-> TRUE] \in Order
<1>1. RollbackCmd(e) \in Order
  BY DEF RollbackCmd, Order, Command
<1>2. \A r \in Records : WriteCmd(r) \in Order
  BY ConnectorAssumption DEF WriteCmd, Order, Command, Records
<1>3. \A k \in {"pre", "commit", "begin"} : [cmd |-> k, n |-> e, reply |-> TRUE] \in Order
  BY DEF Order, Command
<1> QED BY <1>1, <1>2, <1>3

\* A sink task runs the command at the head of its queue.
LEMMA TaskStep ==
    ASSUME TypeInv, NEW s \in Sinks, SinkStep(s)
    PROVE  /\ Head(queue[s]) \in Order /\ Tail(queue[s]) \in Seq(Order) /\ queue[s] # <<>>
           /\ \E o \in Run(s, Head(queue[s])) :
                /\ conn' = [conn EXCEPT ![s] = o.c]
                /\ poisoned' = [poisoned EXCEPT ![s] = PoisonedAfter(s, Head(queue[s]), o.ok)]
                /\ ack' = IF Head(queue[s]).reply THEN (IF o.ok THEN "ok" ELSE "err") ELSE ack
                /\ faults' = faults + o.fault
                /\ Same(conn[s], o.c) /\ o.ok \in BOOLEAN
           /\ queue' = [queue EXCEPT ![s] = Tail(queue[s])]
<1> DEFINE h == Head(queue[s])
<1>1. queue[s] # <<>> /\ queue[s] \in Seq(Order) /\ queue' = [queue EXCEPT ![s] = Tail(queue[s])]
  BY DEF SinkStep, TypeInv, SinkType
<1>2. h \in Order /\ Tail(queue[s]) \in Seq(Order)
  BY <1>1
<1>3. PICK o \in Run(s, h) :
         /\ conn' = [conn EXCEPT ![s] = o.c]
         /\ poisoned' = [poisoned EXCEPT ![s] = PoisonedAfter(s, h, o.ok)]
         /\ ack' = IF h.reply THEN (IF o.ok THEN "ok" ELSE "err") ELSE ack
         /\ faults' = faults + o.fault
  BY Zenon DEF SinkStep
<1>4. Same(conn[s], o.c) /\ o.ok \in BOOLEAN
  <2> DEFINE c == conn[s]
             op == h.cmd
             n == h.n
  <2>1. op \in {"write", "begin", "pre", "commit", "rollback"} /\ n \in Nat /\ (op = "write" => n \in Records)
    BY <1>2 DEF Order, Command
  <2>2. ConnOK(c)
    BY Zenon DEF TypeInv, SinkType
  <2> HIDE DEF c, op, n, h
  <2>3. Good(c, Normal(op, c, n)) /\ \A d \in Failures(op, c, n) : Same(c, d)
    <3>1. CASE op = "write"
      BY <2>1, <2>2, <3>1, ConnectorType, Zenon DEF Normal
    <3>2. CASE op = "begin"
      BY <2>1, <2>2, <3>2, ConnectorType, Zenon DEF Normal
    <3>3. CASE op = "pre"
      BY <2>1, <2>2, <3>3, ConnectorType, Zenon DEF Normal
    <3>4. CASE op = "commit"
      BY <2>1, <2>2, <3>4, ConnectorType, Zenon DEF Normal
    <3>5. CASE op = "rollback"
      BY <2>1, <2>2, <3>5, ConnectorType, Zenon DEF Normal
    <3> QED BY <2>1, <3>1, <3>2, <3>3, <3>4, <3>5, Zenon
  <2>4. (o.c = c /\ o.ok = FALSE) \/ Ends(o, op, c, n)
    BY <1>3, RunIs, Zenon DEF c, op, n
  <2> QED BY <2>2, <2>3, <2>4, Zenon DEF Ends, Good, Same, c
<1> QED BY <1>1, <1>2, <1>3, <1>4, Zenon

LEMMA SinksStep == TypeInv /\ [Next]_vars => SinkType'
<1> SUFFICES ASSUME TypeInv, [Next]_vars PROVE SinkType'
  OBVIOUS
<1>1. SinkType /\ cur \in Sinks /\ epoch \in Nat /\ manifest.epoch \in Nat /\ QueueCap \in Nat /\ QueueCap >= 1
  BY CommitAssumption DEF TypeInv, CoordType, StoreType, Manifest
<1>2. CASE Restart
  <2>1. \A s \in Sinks : queue[s] = <<>>
    BY <1>1, <1>2, Zenon DEF Restart, SinkType
  <2>2. Room(ToRollBack)
    BY <1>1, <2>1 DEF Room, ToRollBack
  <2>3. RollbackCmd(manifest.epoch) \in Order /\ ToRollBack \in SUBSET Sinks
    BY <1>1, OrdersAre, Zenon DEF ToRollBack
  <2>4. \A s \in Sinks : ConnOK(Open(conn[s]))
    BY <1>1, LifeType, Zenon DEF SinkType, Same
  <2>5. conn' \in [Sinks -> Conn] /\ \A s \in Sinks : ConnOK(conn'[s])
    BY <1>2, <2>4, Zenon DEF Restart, ConnOK
  <2>6. poisoned' \in [Sinks -> BOOLEAN] /\ cpc' # "down"
    BY <1>2 DEF Restart
  <2> QED BY <1>1, <1>2, <2>2, <2>3, <2>5, <2>6, SendIs, Zenon DEF SinkType, Restart
<1>3. CASE WriteToSinks
  <2>1. pos + 1 \in Records
    BY <1>3, ConnectorAssumption DEF WriteToSinks, TypeInv, CoordType, Records
  <2>2. WriteCmd(pos + 1) \in Order /\ Sinks \in SUBSET Sinks /\ cpc' # "down"
    BY <1>3, <2>1, OrdersAre, Zenon DEF WriteToSinks
  <2> QED BY <1>1, <1>3, <2>2, SinksSent, Zenon DEF WriteToSinks
<1>4. CASE Send
  <2>1. \E k \in {"pre", "commit", "begin"} : SendAll({cur}, [cmd |-> k, n |-> epoch, reply |-> TRUE])
    BY <1>4, Zenon DEF Send
  <2>2. {cur} \in SUBSET Sinks /\ cpc' # "down"
    BY <1>1, <1>4 DEF Send
  <2> QED BY <1>1, <1>4, <2>1, <2>2, OrdersAre, SinksSent, Zenon DEF Send
<1>5. CASE SaveFailed \/ SaveTimeout
  <2>1. RollbackCmd(epoch) \in Order /\ Sinks \in SUBSET Sinks /\ cpc' # "down"
    BY <1>1, <1>5, OrdersAre, Zenon DEF SaveFailed, SaveTimeout, ToIdle
  <2> QED BY <1>1, <1>5, <2>1, SinksSent, Zenon DEF SaveFailed, SaveTimeout
<1>6. CASE BeginFailed
  <2>1. RollbackCmd(epoch) \in Order /\ cpc' # "down"
    BY <1>1, <1>6, OrdersAre, Zenon DEF BeginFailed
  <2>2. 1..(cur - 1) \in SUBSET Sinks
    BY <1>1, CommitAssumption DEF Sinks
  <2> QED BY <1>1, <1>6, <2>1, <2>2, SinksSent, Zenon DEF BeginFailed
<1>7. CASE PreCommitTimeout \/ CommitTimeout
  <2>1. DropReply /\ UNCHANGED <<poisoned, conn>> /\ cpc' # "down"
    BY <1>7 DEF PreCommitTimeout, CommitTimeout, ToIdle
  <2> QED BY <1>1, <2>1, DropIs, Zenon DEF SinkType
<1>8. CASE StartCheckpoint \/ PreCommitFailed \/ SaveManifest \/ SizeRejected \/ Stop
  BY <1>1, <1>8, SinksKeep DEF StartCheckpoint, PreCommitFailed, SaveManifest, SizeRejected, Stop, ToIdle
<1>9. CASE PreCommitted \/ SinkAnswered \/ Began
  <2>1. UNCHANGED sinkVars /\ cpc' # "down"
    BY <1>9 DEF PreCommitted, SinkAnswered, Began, NextSink
  <2> QED BY <1>1, <2>1, SinksKeep
<1>10. CASE UpdateManifest \/ UpdateFailed \/ UpdateTimeout
  <2>1. UNCHANGED sinkVars /\ cpc' # "down"
    BY <1>10 DEF UpdateManifest, UpdateFailed, UpdateTimeout, Conclude, ToIdle
  <2> QED BY <1>1, <2>1, SinksKeep
<1>11. CASE LateWrite
  BY <1>1, <1>11, SinksKeep DEF LateWrite, coordVars
<1>12. CASE Stopped
  <2>1. \A s \in Sinks : ConnOK(Close(Flush(conn[s])))
    BY <1>1, LifeType, Zenon DEF SinkType, Same
  <2>2. conn' \in [Sinks -> Conn] /\ \A s \in Sinks : ConnOK(conn'[s])
    BY <1>12, <2>1, Zenon DEF Stopped, ConnOK
  <2> QED BY <1>1, <1>12, <2>2, Zenon DEF SinkType, Stopped
<1>13. CASE Crash
  <2>1. queue' \in [Sinks -> Seq(Order)] /\ \A s \in Sinks : queue'[s] = <<>> /\ Len(queue'[s]) <= QueueCap
    BY <1>1, <1>13 DEF Crash
  <2> QED BY <1>1, <1>13, <2>1, Zenon DEF SinkType, Crash
<1>14. ASSUME NEW s \in Sinks, FlushTick(s) PROVE SinkType'
  <2>1. ConnOK(Flush(conn[s])) /\ Flush(conn[s]) \in Conn
    BY <1>1, LifeType, Zenon DEF SinkType, Same, ConnOK
  <2>2. conn' \in [Sinks -> Conn] /\ \A t \in Sinks : ConnOK(conn'[t])
    BY <1>1, <1>14, <2>1 DEF FlushTick, SinkType
  <2> QED BY <1>1, <1>14, <2>2, Zenon DEF SinkType, FlushTick, coordVars
<1>15. ASSUME NEW s \in Sinks, SinkStep(s) PROVE SinkType'
  <2>1. PICK o :
          /\ conn' = [conn EXCEPT ![s] = o.c]
          /\ poisoned' = [poisoned EXCEPT ![s] = PoisonedAfter(s, Head(queue[s]), o.ok)]
          /\ ConnOK(o.c)
    BY <1>15, TaskStep, Zenon DEF Same
  <2>2. conn' \in [Sinks -> Conn] /\ \A t \in Sinks : ConnOK(conn'[t])
    BY <1>1, <2>1 DEF SinkType, ConnOK
  <2>3. poisoned' \in [Sinks -> BOOLEAN]
    <3>1. PoisonedAfter(s, Head(queue[s]), o.ok) \in BOOLEAN
      BY <1>1, Zenon DEF PoisonedAfter, SinkType
    <3> QED BY <1>1, <2>1, <3>1, Zenon DEF SinkType
  <2>4. queue' \in [Sinks -> Seq(Order)] /\ \A t \in Sinks : Len(queue'[t]) <= QueueCap
    <3>1. /\ queue[s] # <<>> /\ queue[s] \in Seq(Order) /\ Tail(queue[s]) \in Seq(Order)
          /\ queue' = [queue EXCEPT ![s] = Tail(queue[s])]
      BY <1>1, <1>15, TaskStep, Zenon DEF SinkType
    <3>2. Len(Tail(queue[s])) = Len(queue[s]) - 1 /\ Len(queue[s]) \in Nat
      BY <3>1
    <3>3. Len(Tail(queue[s])) <= QueueCap
      BY <1>1, <3>2 DEF SinkType
    <3> QED BY <1>1, <3>1, <3>3 DEF SinkType
  <2> QED BY <1>15, <2>2, <2>3, <2>4, Zenon DEF SinkType, SinkStep
<1>16. CASE UNCHANGED vars \/ AtBounds
  BY <1>1, <1>16, SinksKeep DEF vars, AtBounds, sinkVars
<1> QED
  BY <1>2, <1>3, <1>4, <1>5, <1>6, <1>7, <1>8, <1>9, <1>10, <1>11, <1>12, <1>13, <1>14, <1>15,
     <1>16, Zenon
     DEF Next, CoordinatorStep, FaultStep

LEMMA StoreStep == TypeInv /\ [Next]_vars => StoreType'
<1> SUFFICES ASSUME TypeInv, [Next]_vars PROVE StoreType'
  OBVIOUS
<1>1. StoreType
  BY Zenon DEF TypeInv
<1>2. \A st \in [Sinks -> Status] : Current(st) \in Manifest
  BY DEF Current, Manifest, TypeInv, CoordType
<1>3. \A m \in Manifest : Saved(m) \in Manifest /\ Updated(m) \in Manifest
  BY <1>1, Zenon DEF Saved, Updated, StoreType
<1>4. Pending \in [Sinks -> Status] /\ status \in [Sinks -> Status]
  BY DEF Pending, Status, TypeInv, CoordType
<1>5. Current(Pending) \in Manifest /\ Current(status) \in Manifest
  BY <1>2, <1>4, Zenon
<1>6. CASE SaveManifest \/ SaveFailed
  BY <1>1, <1>3, <1>5, <1>6, Zenon DEF SaveManifest, SaveFailed, StoreType
<1>7. CASE UpdateManifest \/ UpdateFailed
  BY <1>1, <1>3, <1>5, <1>7, Zenon DEF UpdateManifest, UpdateFailed, StoreType
<1>8. CASE SaveTimeout
  BY <1>1, <1>5, <1>8 DEF SaveTimeout, StoreType
<1>9. CASE UpdateTimeout
  BY <1>1, <1>5, <1>9 DEF UpdateTimeout, StoreType
<1>10. CASE LateWrite
  <2>1. PICK w \in late : late' = late \ {w} /\ manifest' = IF w.op = "save" THEN Saved(w.m) ELSE Updated(w.m)
    BY <1>10, Zenon DEF LateWrite
  <2>2. w.m \in Manifest
    BY <1>1, <2>1 DEF StoreType
  <2> QED BY <1>1, <1>3, <2>1, <2>2, Zenon DEF StoreType
<1>11. CASE Crash \/ Stopped
  BY <1>1, <1>11, Zenon DEF Crash, Stopped, StoreType
<1>12. ASSUME UNCHANGED storeVars PROVE StoreType'
  BY <1>1, <1>12, Zenon DEF StoreType, storeVars
<1>13. CASE Restart \/ WriteToSinks \/ StartCheckpoint \/ Send \/ PreCommitted \/ PreCommitFailed
            \/ SinkAnswered \/ Began \/ BeginFailed
  BY <1>12, <1>13, Zenon
     DEF Restart, WriteToSinks, StartCheckpoint, Send, PreCommitted, PreCommitFailed, SinkAnswered,
         Began, BeginFailed
<1>14. CASE PreCommitTimeout \/ SizeRejected \/ CommitTimeout \/ Stop \/ \E s \in Sinks : SinkStep(s) \/ FlushTick(s)
  BY <1>12, <1>14, Zenon DEF PreCommitTimeout, SizeRejected, CommitTimeout, Stop, SinkStep, FlushTick
<1>15. CASE UNCHANGED vars \/ AtBounds
  BY <1>12, <1>15, Zenon DEF vars, AtBounds, storeVars
<1> QED
  BY <1>6, <1>7, <1>8, <1>9, <1>10, <1>11, <1>13, <1>14, <1>15, Zenon
     DEF Next, CoordinatorStep, FaultStep

LEMMA TypeInvariant == Spec => []TypeInv
<1>1. TypeInv /\ [Next]_vars => TypeInv'
  BY CoordStep, SinksStep, StoreStep, Zenon DEF TypeInv
<1> QED BY <1>1, TypeInit, PTL DEF Spec

\* Types, and that no queue of a sink task holds more than its capacity, for
\* every connector, store and fault.
THEOREM CommitTypeCorrect == Spec => []TypeOK
<1>1. TypeInv => TypeOK
  <2> SUFFICES ASSUME TypeInv PROVE TypeOK
    OBVIOUS
  <2>1. queue \in [Sinks -> Seq(Command)]
    <3>1. Order \subseteq Command
      BY DEF Order
    <3> QED BY <3>1 DEF TypeInv, SinkType
  <2> QED BY <2>1, Zenon DEF TypeInv, CoordType, SinkType, StoreType, TypeOK
<1> QED BY <1>1, TypeInvariant, PTL

-----------------------------------------------------------------------------
(* Epochs.                                                                 *)

\* No write of a manifest outlives its timeout, except updates in an object
\* store, which change that manifest only.
Timely ==
    \A d \in Deployments : /\ "saveTimeout" \notin d.faults
                           /\ "updateTimeout" \in d.faults => d.store = "object"

\* The epoch is at most one ahead of the manifest's, so recovery, which goes on
\* one behind the manifest, does not go back.
EpochInv ==
    /\ epoch <= manifest.epoch + 1
    /\ cpc \in {"commit", "update"} => manifest.epoch = epoch
    /\ \A w \in late : w.op = "update" /\ env.store = "object"

LEMMA EpochStep ==
    ASSUME Timely, TypeInv, EpochInv, [Next]_vars
    PROVE  EpochInv' /\ epoch' >= epoch
<1>1. /\ epoch \in Nat /\ manifest.epoch \in Nat /\ env \in Deployments
      /\ "saveTimeout" \notin env.faults /\ ("updateTimeout" \in env.faults => env.store = "object")
  BY DEF TypeInv, CoordType, StoreType, Manifest, Timely
<1>2. ASSUME UNCHANGED <<env, epoch, manifest, late>>,
             cpc' \in {"commit", "update"} => cpc \in {"commit", "update"}
      PROVE  EpochInv' /\ epoch' >= epoch
  BY <1>1, <1>2 DEF EpochInv
<1>3. \A st : Current(st).epoch = epoch /\ Saved(Current(st)).epoch = epoch
  BY DEF Current, Saved
<1>4. ASSUME NEW m PROVE env.store = "object" => Updated(m).epoch = manifest.epoch
  BY DEF Updated
<1>5. ASSUME manifest.epoch = epoch, NEW st PROVE Updated(Current(st)).epoch = epoch
  BY <1>3, <1>5, Zenon DEF Updated
<1>6. CASE Restart
  BY <1>1, <1>6 DEF Restart, EpochInv, storeVars
<1>7. CASE SaveManifest
  BY <1>1, <1>3, <1>7 DEF SaveManifest, EpochInv
<1>8. CASE SaveFailed
  BY <1>1, <1>3, <1>8 DEF SaveFailed, EpochInv, ToIdle
<1>9. ASSUME SaveTimeout PROVE FALSE
  BY <1>1, <1>9, Zenon DEF SaveTimeout, MayFail
<1>10. CASE LateWrite
  <2>1. PICK w \in late : manifest' = IF w.op = "save" THEN Saved(w.m) ELSE Updated(w.m)
    BY <1>10, Zenon DEF LateWrite
  <2>2. w.op # "save" /\ env.store = "object"
    BY DEF EpochInv
  <2>3. manifest'.epoch = manifest.epoch
    BY <1>4, <2>1, <2>2, Zenon
  <2>4. UNCHANGED coordVars /\ late' \subseteq late
    BY <1>10, Zenon DEF LateWrite
  <2> QED BY <1>1, <2>3, <2>4 DEF EpochInv, coordVars
<1>11. ASSUME Conclude
       PROVE  epoch' \in {epoch, epoch + 1} /\ cpc' \notin {"commit", "update"}
  BY <1>11 DEF Conclude, ToIdle
<1>12. CASE UpdateManifest \/ UpdateFailed
  <2>1. manifest.epoch = epoch /\ manifest'.epoch = epoch /\ UNCHANGED <<env, late>> /\ Conclude
    BY <1>5, <1>12, Zenon DEF UpdateManifest, UpdateFailed, EpochInv
  <2>2. epoch' <= manifest'.epoch + 1 /\ epoch' >= epoch
    BY <1>1, <1>11, <2>1
  <2> QED BY <1>11, <2>1, <2>2, Zenon DEF EpochInv
<1>13. CASE UpdateTimeout
  <2>1. /\ manifest.epoch = epoch /\ UNCHANGED <<env, manifest>> /\ Conclude /\ env.store = "object"
        /\ late' = late \cup {[op |-> "update", m |-> Current(status)]}
    BY <1>1, <1>13, Zenon DEF UpdateTimeout, EpochInv, MayFail
  <2>2. epoch' <= manifest'.epoch + 1 /\ epoch' >= epoch
    BY <1>1, <1>11, <2>1
  <2>3. \A w \in late' : w.op = "update" /\ env'.store = "object"
    BY <2>1 DEF EpochInv
  <2> QED BY <1>11, <2>1, <2>2, <2>3, Zenon DEF EpochInv
<1>14. CASE Crash \/ Stopped
  BY <1>1, <1>14 DEF Crash, Stopped, EpochInv
<1>15. CASE WriteToSinks \/ StartCheckpoint \/ Send \/ PreCommitFailed \/ BeginFailed
            \/ PreCommitTimeout \/ SizeRejected \/ CommitTimeout \/ Stop
  BY <1>2, <1>15
     DEF WriteToSinks, StartCheckpoint, Send, PreCommitFailed, BeginFailed, PreCommitTimeout,
         SizeRejected, CommitTimeout, Stop, ToIdle, storeVars
<1>16. CASE PreCommitted \/ SinkAnswered \/ Began
  BY <1>2, <1>16 DEF PreCommitted, SinkAnswered, Began, NextSink, storeVars
<1>17. ASSUME NEW s \in Sinks, SinkStep(s) \/ FlushTick(s) PROVE EpochInv' /\ epoch' >= epoch
  BY <1>2, <1>17, Zenon DEF SinkStep, FlushTick, coordVars, storeVars
<1>18. CASE UNCHANGED vars \/ AtBounds
  BY <1>2, <1>18, Zenon DEF vars, AtBounds
<1> QED
  BY <1>6, <1>7, <1>8, <1>9, <1>10, <1>12, <1>13, <1>14, <1>15, <1>16, <1>17, <1>18, Zenon
     DEF Next, CoordinatorStep, FaultStep

LEMMA EpochInvariant == ASSUME Timely PROVE Spec => []EpochInv
<1>1. Init => EpochInv
  BY DEF Init, EpochInv, NoManifest
<1>2. TypeInv /\ EpochInv /\ [Next]_vars => EpochInv'
  BY EpochStep, Zenon
<1> QED BY <1>1, <1>2, TypeInvariant, PTL DEF Spec

\* Neither a checkpoint that succeeds or fails nor a restart from the manifest
\* goes back to an earlier epoch, for every connector and store, as long as no
\* write of a manifest lands after its timeout over a newer one.
THEOREM EpochsOnlyAdvance == ASSUME Timely PROVE Spec => EpochNeverRegresses
<1>1. TypeInv /\ EpochInv /\ [Next]_vars => [epoch' >= epoch]_vars
  BY EpochStep, Zenon
<1> QED BY <1>1, TypeInvariant, EpochInvariant, PTL DEF Spec, EpochNeverRegresses

-----------------------------------------------------------------------------
(* Commands on their way to a sink.                                        *)

\* The writes in queue q are those of the records after g up to p, in order.
Flow(q, g, p) ==
    /\ \A i \in 1 .. Len(q) : q[i].cmd = "write" =>
         /\ q[i].n \in (g + 1) .. p
         /\ \A j \in 1 .. (i - 1) : q[j].cmd = "write" => q[j].n < q[i].n
    /\ \A n \in (g + 1) .. p : \E i \in 1 .. Len(q) : q[i].cmd = "write" /\ q[i].n = n

\* No record after m is written before a commit.
Decided(q, g, m) ==
    \A i \in 1 .. Len(q) : q[i].cmd = "commit" =>
      /\ g <= m
      /\ \A j \in 1 .. (i - 1) : q[j].cmd = "write" => q[j].n <= m

\* Nobody waits for an answer.
NoReply(q) == \A i \in 1 .. Len(q) : ~ q[i].reply /\ q[i].cmd # "begin"

LEMMA Appended ==
    ASSUME NEW q \in Seq(Order), NEW c
    PROVE  /\ Len(Append(q, c)) = Len(q) + 1 /\ Len(q) \in Nat
           /\ \A i \in 1 .. Len(q) : Append(q, c)[i] = q[i] /\ i \in 1 .. (Len(q) + 1)
           /\ Append(q, c)[Len(q) + 1] = c
           /\ \A i \in 1 .. (Len(q) + 1) : i \in 1 .. Len(q) \/ i = Len(q) + 1
  OBVIOUS

LEMMA Removed ==
    ASSUME NEW q \in Seq(Order), q # <<>>
    PROVE  /\ Len(Tail(q)) = Len(q) - 1 /\ Len(q) \in Nat /\ Len(q) >= 1
           /\ \A i \in 1 .. (Len(q) - 1) : Tail(q)[i] = q[i + 1] /\ i + 1 \in 1 .. Len(q)
           /\ Head(q) = q[1]
  OBVIOUS

LEMMA FlowOther ==
    ASSUME NEW q \in Seq(Order), NEW c, c.cmd # "write", NEW g, NEW p, Flow(q, g, p)
    PROVE  Flow(Append(q, c), g, p)
<1> DEFINE a == Append(q, c)
           k == Len(q)
<1>1. /\ Len(a) = k + 1 /\ k \in Nat /\ a[k + 1] = c
      /\ \A i \in 1 .. k : a[i] = q[i] /\ i \in 1 .. (k + 1)
      /\ \A i \in 1 .. (k + 1) : i \in 1 .. k \/ i = k + 1
  BY Appended
<1> HIDE DEF a, k
<1>2. ASSUME NEW i \in 1 .. Len(a), a[i].cmd = "write"
      PROVE  /\ a[i].n \in (g + 1) .. p
             /\ \A j \in 1 .. (i - 1) : a[j].cmd = "write" => a[j].n < a[i].n
  <2>1. i \in 1 .. k /\ a[i] = q[i]
    BY <1>1, <1>2
  <2>2. \A j \in 1 .. (i - 1) : j \in 1 .. k /\ a[j] = q[j]
    BY <1>1, <2>1
  <2> QED BY <1>2, <2>1, <2>2, Zenon DEF Flow, k
<1>3. ASSUME NEW n \in (g + 1) .. p PROVE \E i \in 1 .. Len(a) : a[i].cmd = "write" /\ a[i].n = n
  BY <1>1, Zenon DEF Flow, k
<1> QED BY <1>2, <1>3, Zenon DEF Flow, a

LEMMA FlowWrite ==
    ASSUME NEW q \in Seq(Order), NEW g \in Nat, NEW p \in Nat, g <= p, Flow(q, g, p)
    PROVE  Flow(Append(q, WriteCmd(p + 1)), g, p + 1)
<1> DEFINE c == WriteCmd(p + 1)
           a == Append(q, c)
           k == Len(q)
<1>1. /\ Len(a) = k + 1 /\ k \in Nat /\ a[k + 1] = c
      /\ \A i \in 1 .. k : a[i] = q[i] /\ i \in 1 .. (k + 1)
      /\ \A i \in 1 .. (k + 1) : i \in 1 .. k \/ i = k + 1
  BY Appended
<1>2. c.cmd = "write" /\ c.n = p + 1
  BY DEF WriteCmd
<1>3. k + 1 \in 1 .. (k + 1)
  BY <1>1
<1> HIDE DEF a, k, c
<1>4. \A i \in 1 .. k : q[i].cmd = "write" => q[i].n \in (g + 1) .. p
  BY Zenon DEF Flow, k
<1>5. ASSUME NEW i \in 1 .. Len(a), a[i].cmd = "write"
      PROVE  /\ a[i].n \in (g + 1) .. (p + 1)
             /\ \A j \in 1 .. (i - 1) : a[j].cmd = "write" => a[j].n < a[i].n
  <2>1. CASE i = k + 1
    <3>1. \A j \in 1 .. (i - 1) : j \in 1 .. k /\ a[j] = q[j]
      BY <1>1, <2>1
    <3>2. a[i].n = p + 1
      BY <1>1, <1>2, <2>1, Zenon
    <3> QED BY <1>4, <3>1, <3>2
  <2>2. CASE i \in 1 .. k
    <3>1. a[i] = q[i] /\ \A j \in 1 .. (i - 1) : j \in 1 .. k /\ a[j] = q[j]
      BY <1>1, <2>2
    <3>2. /\ a[i].n \in (g + 1) .. p
          /\ \A j \in 1 .. (i - 1) : a[j].cmd = "write" => a[j].n < a[i].n
      BY <1>5, <2>2, <3>1, Zenon DEF Flow, k
    <3>3. a[i].n \in (g + 1) .. (p + 1)
      BY <3>2
    <3> QED BY <3>2, <3>3
  <2> QED BY <1>1, <2>1, <2>2, Zenon
<1>6. ASSUME NEW n \in (g + 1) .. (p + 1) PROVE \E i \in 1 .. Len(a) : a[i].cmd = "write" /\ a[i].n = n
  <2>1. CASE n = p + 1
    BY <1>1, <1>2, <1>3, <2>1, Zenon
  <2>2. CASE n # p + 1
    <3>1. n \in (g + 1) .. p
      BY <2>2
    <3> QED BY <1>1, <3>1, Zenon DEF Flow, k
  <2> QED BY <2>1, <2>2
<1> QED BY <1>5, <1>6, Zenon DEF Flow, a, c

\* The first command leaves the queue: the record after g, if it is a write.
LEMMA FlowTail ==
    ASSUME NEW q \in Seq(Order), q # <<>>, NEW g \in Nat, NEW p \in Nat, g <= p, Flow(q, g, p)
    PROVE  /\ Head(q).cmd = "write" => /\ Head(q).n = g + 1 /\ g < p
                                       /\ Flow(Tail(q), g + 1, p)
           /\ Head(q).cmd # "write" => Flow(Tail(q), g, p)
<1> DEFINE t == Tail(q)
           k == Len(q)
<1>1. /\ Len(t) = k - 1 /\ k \in Nat /\ k >= 1 /\ Head(q) = q[1]
      /\ \A i \in 1 .. (k - 1) : t[i] = q[i + 1] /\ i + 1 \in 1 .. k
  BY Removed
<1> HIDE DEF t, k
<1>2. \A i \in 1 .. k : q[i].cmd = "write" =>
         /\ q[i].n \in (g + 1) .. p
         /\ \A j \in 1 .. (i - 1) : q[j].cmd = "write" => q[j].n < q[i].n
  BY Zenon DEF Flow, k
<1>3. \A n \in (g + 1) .. p : \E i \in 1 .. k : q[i].cmd = "write" /\ q[i].n = n
  BY Zenon DEF Flow, k
<1>4. ASSUME NEW i \in 1 .. (k - 1), t[i].cmd = "write"
      PROVE  /\ t[i].n \in (g + 1) .. p
             /\ \A j \in 1 .. (i - 1) : t[j].cmd = "write" => t[j].n < t[i].n
             /\ q[1].cmd = "write" => q[1].n < t[i].n
  <2>1. t[i] = q[i + 1] /\ i + 1 \in 1 .. k /\ 1 \in 1 .. ((i + 1) - 1)
    BY <1>1
  <2>2. \A j \in 1 .. (i - 1) : t[j] = q[j + 1] /\ j + 1 \in 1 .. ((i + 1) - 1)
    BY <1>1
  <2> QED BY <1>2, <1>4, <2>1, <2>2, Zenon
<1>5. ASSUME NEW n \in (g + 1) .. p, ~(q[1].cmd = "write" /\ q[1].n = n)
      PROVE  \E i \in 1 .. (k - 1) : t[i].cmd = "write" /\ t[i].n = n
  <2>1. PICK i \in 1 .. k : q[i].cmd = "write" /\ q[i].n = n
    BY <1>3, Zenon
  <2>2. i # 1
    BY <1>5, <2>1, Zenon
  <2>3. i - 1 \in 1 .. (k - 1) /\ (i - 1) + 1 = i
    BY <1>1, <2>2
  <2> QED BY <1>1, <2>1, <2>3, Zenon
<1>6. ASSUME Head(q).cmd = "write" PROVE Head(q).n = g + 1 /\ g < p /\ Flow(t, g + 1, p)
  <2>1. q[1].cmd = "write" /\ q[1].n \in (g + 1) .. p /\ 1 \in 1 .. k
    BY <1>1, <1>2, <1>6
  <2>2. q[1].n = g + 1
    <3>1. g + 1 \in (g + 1) .. p
      BY <2>1
    <3>2. PICK i \in 1 .. k : q[i].cmd = "write" /\ q[i].n = g + 1
      BY <1>3, <3>1, Zenon
    <3>3. i = 1 \/ 1 \in 1 .. (i - 1)
      BY <1>1
    <3>4. i = 1 \/ q[1].n < g + 1
      BY <1>2, <2>1, <3>2, <3>3, Zenon
    <3> QED BY <2>1, <3>2, <3>4
  <2>3. ASSUME NEW i \in 1 .. (k - 1), t[i].cmd = "write" PROVE t[i].n \in ((g + 1) + 1) .. p
    BY <1>4, <2>1, <2>2, <2>3
  <2>4. ASSUME NEW n \in ((g + 1) + 1) .. p PROVE n \in (g + 1) .. p /\ n # g + 1
    OBVIOUS
  <2>5. Flow(t, g + 1, p)
    <3>1. \A n \in ((g + 1) + 1) .. p : \E i \in 1 .. (k - 1) : t[i].cmd = "write" /\ t[i].n = n
      BY <1>5, <2>2, <2>4, Zenon
    <3> QED BY <1>1, <1>4, <2>3, <3>1, Zenon DEF Flow
  <2> QED BY <1>1, <2>1, <2>2, <2>5
<1>7. ASSUME Head(q).cmd # "write" PROVE Flow(t, g, p)
  BY <1>1, <1>4, <1>5, <1>7, Zenon DEF Flow
<1> QED BY <1>6, <1>7, Zenon DEF t

\* Behind the last command nothing is under way.
LEMMA FlowDone ==
    ASSUME NEW q \in Seq(Order), Len(q) = 1, Head(q).cmd # "write",
           NEW g \in Nat, NEW p \in Nat, g <= p, Flow(q, g, p)
    PROVE  g = p
<1>1. \A i \in 1 .. 1 : q[i].cmd # "write"
  OBVIOUS
<1>2. \A n \in (g + 1) .. p : FALSE
  BY <1>1, Zenon DEF Flow
<1>3. g < p => g + 1 \in (g + 1) .. p
  OBVIOUS
<1> QED BY <1>2, <1>3

LEMMA DecidedTail ==
    ASSUME NEW q \in Seq(Order), q # <<>>, NEW g \in Nat, NEW m \in Nat, Decided(q, g, m)
    PROVE  /\ Head(q).cmd = "write" /\ Head(q).n = g + 1 => Decided(Tail(q), g + 1, m)
           /\ Decided(Tail(q), g, m)
           /\ Head(q).cmd = "commit" => g <= m
<1> DEFINE t == Tail(q)
           k == Len(q)
<1>1. /\ Len(t) = k - 1 /\ k \in Nat /\ k >= 1 /\ Head(q) = q[1]
      /\ \A i \in 1 .. (k - 1) : t[i] = q[i + 1] /\ i + 1 \in 1 .. k
  BY Removed
<1> HIDE DEF t, k
<1>2. ASSUME NEW i \in 1 .. (k - 1), t[i].cmd = "commit"
      PROVE  /\ g <= m /\ (q[1].cmd = "write" => q[1].n <= m)
             /\ \A j \in 1 .. (i - 1) : t[j].cmd = "write" => t[j].n <= m
  <2>1. t[i] = q[i + 1] /\ i + 1 \in 1 .. k /\ 1 \in 1 .. ((i + 1) - 1)
    BY <1>1
  <2>2. \A j \in 1 .. (i - 1) : t[j] = q[j + 1] /\ j + 1 \in 1 .. ((i + 1) - 1)
    BY <1>1
  <2> QED BY <1>2, <2>1, <2>2, Zenon DEF Decided, k
<1>3. Decided(t, g, m)
  BY <1>1, <1>2, Zenon DEF Decided
<1>4. Head(q).cmd = "write" /\ Head(q).n = g + 1 => Decided(t, g + 1, m)
  BY <1>1, <1>2, Zenon DEF Decided
<1>5. Head(q).cmd = "commit" => g <= m
  <2>1. 1 \in 1 .. k
    BY <1>1
  <2> QED BY <1>1, <2>1, Zenon DEF Decided, k
<1> QED BY <1>3, <1>4, <1>5, Zenon DEF t

\* A commit is sent when the manifest covers every record.
LEMMA DecidedSent ==
    ASSUME NEW q \in Seq(Order), NEW c, NEW g \in Nat, NEW m \in Nat, NEW p \in Nat, g <= p,
           Flow(q, g, p), Decided(q, g, m), c.cmd = "commit" => p <= m
    PROVE  Decided(Append(q, c), g, m)
<1> DEFINE a == Append(q, c)
           k == Len(q)
<1>1. /\ Len(a) = k + 1 /\ k \in Nat /\ a[k + 1] = c
      /\ \A i \in 1 .. k : a[i] = q[i] /\ i \in 1 .. (k + 1)
      /\ \A i \in 1 .. (k + 1) : i \in 1 .. k \/ i = k + 1
  BY Appended
<1> HIDE DEF a, k
<1>2. ASSUME NEW i \in 1 .. Len(a), a[i].cmd = "commit"
      PROVE  g <= m /\ \A j \in 1 .. (i - 1) : a[j].cmd = "write" => a[j].n <= m
  <2>1. CASE i \in 1 .. k
    <3>1. a[i] = q[i] /\ \A j \in 1 .. (i - 1) : a[j] = q[j]
      BY <1>1, <2>1
    <3> QED BY <1>2, <2>1, <3>1, Zenon DEF Decided, k
  <2>2. CASE i = k + 1
    <3>1. p <= m /\ \A j \in 1 .. (i - 1) : j \in 1 .. k /\ a[j] = q[j]
      BY <1>1, <1>2, <2>2
    <3>2. \A j \in 1 .. k : q[j].cmd = "write" => q[j].n \in (g + 1) .. p
      BY Zenon DEF Flow, k
    <3> QED BY <3>1, <3>2
  <2> QED BY <1>1, <2>1, <2>2, Zenon
<1> QED BY <1>2, Zenon DEF Decided, a

\* A manifest that covers more.
LEMMA DecidedMore ==
    ASSUME NEW q \in Seq(Order), NEW g \in Nat, NEW m \in Nat, NEW k \in Nat, m <= k,
           \A i \in 1 .. Len(q) : q[i].cmd = "write" => q[i].n \in Nat,
           Decided(q, g, m)
    PROVE  Decided(q, g, k)
<1> SUFFICES ASSUME NEW i \in 1 .. Len(q), q[i].cmd = "commit"
             PROVE  g <= k /\ \A j \in 1 .. (i - 1) : q[j].cmd = "write" => q[j].n <= k
  BY Zenon DEF Decided
<1>1. g <= m /\ \A j \in 1 .. (i - 1) : q[j].cmd = "write" => q[j].n <= m
  BY Zenon DEF Decided
<1>2. \A j \in 1 .. (i - 1) : j \in 1 .. Len(q)
  OBVIOUS
<1> QED BY <1>1, <1>2

-----------------------------------------------------------------------------
(* A Kafka sink.                                                           *)

Rests(c, d) == d.txn = c.txn /\ d.buf = c.buf /\ d.out = c.out
Wrote(c, d, r) == c.txn = "open" /\ d.txn = "open" /\ d.buf = c.buf \cup {r} /\ d.out = c.out
Opened(c, d) == c.txn = "none" /\ d.txn = "open" /\ d.buf = c.buf /\ d.out = c.out
Aborted(c, d) == d.txn = "none" /\ d.buf = {} /\ d.out = c.out
Shows(c, d) ==
    /\ c.txn # "none" /\ d.txn # "open" /\ d.buf = {}
    /\ d.out = [r \in Records |-> IF r \in c.buf THEN c.out[r] + 1 ELSE c.out[r]]

\* What the commands do to the transaction of a producer.
LEMMA KafkaEnds ==
    ASSUME NEW c, ConnOK(c), c.kind = "kafka", NEW op, NEW n, NEW o, Ends(o, op, c, n)
    PROVE  /\ op = "write" => (o.ok /\ Wrote(c, o.c, n)) \/ (~ o.ok /\ Rests(c, o.c))
           /\ op = "begin" => (o.ok /\ Opened(c, o.c)) \/ (~ o.ok /\ Rests(c, o.c))
           /\ op = "pre" => Rests(c, o.c)
           /\ op = "commit" => Shows(c, o.c) \/ (~ o.ok /\ Rests(c, o.c))
           /\ op = "rollback" => Aborted(c, o.c) \/ Rests(c, o.c)
<1>1. c \in Conn
  BY DEF ConnOK
<1> DEFINE p == Publish(c, c.buf)
<1>2. /\ p \in Conn /\ p.txn = c.txn
      /\ p.out = [r \in Records |-> IF r \in c.buf THEN c.out[r] + 1 ELSE c.out[r]]
  <2>1. p \in Conn
    BY PublishType DEF Same, ConnOK
  <2> QED BY <1>1, <2>1, Zenon DEF Publish, Conn
<1> HIDE DEF p
<1>3. \/ o.fault = 0 /\ o.ok = Normal(op, c, n).ok /\ o.c = Normal(op, c, n).c
      \/ o.fault = 1 /\ o.ok = FALSE /\ o.c \in KafkaFailures(op, c, n)
  BY Zenon DEF Ends, Failures
<1>4. op = "write" => (o.ok /\ Wrote(c, o.c, n)) \/ (~ o.ok /\ Rests(c, o.c))
  <2> SUFFICES ASSUME op = "write" PROVE (o.ok /\ Wrote(c, o.c, n)) \/ (~ o.ok /\ Rests(c, o.c))
    OBVIOUS
  <2>1. Normal(op, c, n) = KafkaWrite(c, n) /\ KafkaFailures(op, c, n) = {c}
    BY Zenon DEF Normal, Write, KafkaFailures
  <2> QED BY <1>1, <1>3, <2>1 DEF KafkaWrite, Result, Wrote, Rests, Conn
<1>5. op = "begin" => (o.ok /\ Opened(c, o.c)) \/ (~ o.ok /\ Rests(c, o.c))
  <2> SUFFICES ASSUME op = "begin" PROVE (o.ok /\ Opened(c, o.c)) \/ (~ o.ok /\ Rests(c, o.c))
    OBVIOUS
  <2>1. Normal(op, c, n) = KafkaBegin(c, n) /\ KafkaFailures(op, c, n) = {[c EXCEPT !.epoch = n]}
    BY Zenon DEF Normal, BeginEpoch, KafkaFailures
  <2>2. Rests(c, [c EXCEPT !.epoch = n])
    BY <1>1, Zenon DEF Rests, Conn
  <2>3. /\ KafkaBegin(c, n).ok => Opened(c, KafkaBegin(c, n).c)
        /\ ~ KafkaBegin(c, n).ok => Rests(c, KafkaBegin(c, n).c)
    BY <1>1, Zenon DEF KafkaBegin, Result, Opened, Rests, Conn
  <2> QED BY <1>3, <2>1, <2>2, <2>3, Zenon
<1>6. op = "pre" => Rests(c, o.c)
  <2> SUFFICES ASSUME op = "pre" PROVE Rests(c, o.c)
    OBVIOUS
  <2>1. Normal(op, c, n) = KafkaPreCommit(c, n) /\ KafkaFailures(op, c, n) = {c}
    BY Zenon DEF Normal, PreCommit, KafkaFailures
  <2> QED BY <1>1, <1>3, <2>1 DEF KafkaPreCommit, Result, Rests, Conn
<1>7. op = "commit" => Shows(c, o.c) \/ (~ o.ok /\ Rests(c, o.c))
  <2> SUFFICES ASSUME op = "commit" PROVE Shows(c, o.c) \/ (~ o.ok /\ Rests(c, o.c))
    OBVIOUS
  <2>1. /\ Normal(op, c, n) = KafkaCommit(c, n)
        /\ KafkaFailures(op, c, n) \subseteq
             {c} \cup (IF c.txn = "open" THEN {[p EXCEPT !.txn = "committing", !.buf = {}]} ELSE {})
    BY Zenon DEF Normal, CommitEpoch, KafkaFailures, p
  <2>2. c.txn = "open" => Shows(c, [p EXCEPT !.txn = "committing", !.buf = {}])
    BY <1>2, Zenon DEF Shows, Conn
  <2>3. Rests(c, c)
    BY Zenon DEF Rests
  <2>4. /\ KafkaCommit(c, n).ok => Shows(c, KafkaCommit(c, n).c)
        /\ ~ KafkaCommit(c, n).ok => Rests(c, KafkaCommit(c, n).c)
    BY <1>2, Zenon DEF KafkaCommit, Result, Shows, Rests, Conn, p
  <2> QED BY <1>3, <2>1, <2>2, <2>3, <2>4, Zenon
<1>8. op = "rollback" => Aborted(c, o.c) \/ Rests(c, o.c)
  <2> SUFFICES ASSUME op = "rollback" PROVE Aborted(c, o.c) \/ Rests(c, o.c)
    OBVIOUS
  <2>1. Normal(op, c, n) = KafkaRollback(c, n) /\ KafkaFailures(op, c, n) = {c}
    BY Zenon DEF Normal, RollbackEpoch, KafkaFailures
  <2>2. Aborted(c, KafkaRollback(c, n).c) \/ Rests(c, KafkaRollback(c, n).c)
    BY <1>1, Zenon DEF KafkaRollback, Result, Aborted, Rests, Conn
  <2>3. Rests(c, c)
    BY Zenon DEF Rests
  <2> QED BY <1>3, <2>1, <2>2, <2>3, Zenon
<1> QED BY <1>4, <1>5, <1>6, <1>7, <1>8, Zenon

\* The sink of a process that started after record f and has been given the
\* records up to g: what is in its transaction is not visible, what is visible
\* has no holes and is covered by the manifest's offset m, and unless a write
\* failed (x) or it has no transaction, nothing is missing.
Held(c, x, f, g, m) ==
    /\ c.kind = "kafka"
    /\ Shown(c) \subseteq 1 .. g /\ Shown(c) \subseteq 1 .. m
    /\ c.buf \subseteq (f + 1) .. g /\ c.buf \cap Shown(c) = {}
    /\ c.txn # "open" => c.buf = {}
    /\ \A r \in Records : c.out[r] <= 1
    /\ ~ x /\ c.txn # "none" => (f + 1) .. g \subseteq Shown(c) \cup c.buf
    /\ \A r \in Shown(c) : (f + 1) .. r \subseteq Shown(c)

LEMMA HeldRests ==
    ASSUME NEW c, NEW d, Rests(c, d), d.kind = c.kind, NEW x \in BOOLEAN, NEW f, NEW g, NEW m,
           Held(c, x, f, g, m)
    PROVE  Held(d, x, f, g, m)
<1>1. Shown(d) = Shown(c)
  BY Zenon DEF Shown, Rests
<1> QED BY <1>1, Zenon DEF Held, Rests

\* A write that failed.
LEMMA HeldMissed ==
    ASSUME NEW c, NEW d, Rests(c, d), d.kind = c.kind, NEW x, NEW f \in Nat, NEW g \in Nat, NEW m,
           Held(c, x, f, g, m)
    PROVE  Held(d, TRUE, f, g + 1, m)
<1>1. Shown(d) = Shown(c)
  BY Zenon DEF Shown, Rests
<1>2. Shown(c) \subseteq 1 .. (g + 1) /\ c.buf \subseteq (f + 1) .. (g + 1)
  BY DEF Held
<1> QED BY <1>1, <1>2, Zenon DEF Held, Rests

LEMMA HeldWrote ==
    ASSUME NEW c, NEW d, NEW f \in Nat, NEW g \in Nat, f <= g, Wrote(c, d, g + 1), d.kind = c.kind,
           NEW x \in BOOLEAN, NEW m, Held(c, x, f, g, m)
    PROVE  Held(d, x, f, g + 1, m)
<1>1. Shown(d) = Shown(c)
  BY Zenon DEF Shown, Wrote
<1>2. Shown(c) \subseteq 1 .. (g + 1) /\ g + 1 \notin Shown(c)
  BY DEF Held
<1>3. d.buf \subseteq (f + 1) .. (g + 1) /\ d.buf \cap Shown(c) = {}
  BY <1>2 DEF Held, Wrote
<1>4. ~ x => (f + 1) .. (g + 1) \subseteq Shown(c) \cup d.buf
  <2> SUFFICES ASSUME ~ x PROVE (f + 1) .. (g + 1) \subseteq Shown(c) \cup d.buf
    OBVIOUS
  <2>1. (f + 1) .. g \subseteq Shown(c) \cup c.buf
    BY DEF Held, Wrote
  <2> QED BY <2>1 DEF Wrote
<1> QED BY <1>1, <1>2, <1>3, <1>4, Zenon DEF Held, Wrote

LEMMA HeldOpened ==
    ASSUME NEW c, NEW d, Opened(c, d), d.kind = c.kind, NEW x, NEW f, NEW g, NEW m, Held(c, x, f, g, m),
           (f + 1) .. g \subseteq Shown(c)
    PROVE  Held(d, FALSE, f, g, m)
<1>1. Shown(d) = Shown(c)
  BY Zenon DEF Shown, Opened
<1> QED BY <1>1, Zenon DEF Held, Opened

LEMMA HeldAborted ==
    ASSUME NEW c, NEW d, Aborted(c, d), d.kind = c.kind, NEW x, NEW y, NEW f, NEW g, NEW m,
           Held(c, x, f, g, m)
    PROVE  Held(d, y, f, g, m)
<1>1. Shown(d) = Shown(c)
  BY Zenon DEF Shown, Aborted
<1> QED BY <1>1, Zenon DEF Held, Aborted

LEMMA HeldShows ==
    ASSUME NEW c, ConnOK(c), NEW d, Shows(c, d), d.kind = c.kind, NEW f \in Nat, NEW g \in Nat, NEW m \in Nat,
           g <= m, Held(c, FALSE, f, g, m)
    PROVE  Held(d, FALSE, f, g, m) /\ (f + 1) .. g \subseteq Shown(d) /\ Shown(c) \subseteq Shown(d)
<1>1. c.out \in [Records -> Nat] /\ c.buf \subseteq Records
  BY DEF ConnOK, Conn
<1>2. \A r \in Records : d.out[r] = IF r \in c.buf THEN c.out[r] + 1 ELSE c.out[r]
  BY DEF Shows
<1>3. Shown(d) = Shown(c) \cup c.buf
  BY <1>1, <1>2 DEF Shown
<1>4. \A r \in Records : d.out[r] <= 1
  <2>1. \A r \in Records : c.out[r] \in Nat /\ c.out[r] <= 1 /\ (r \in c.buf => ~ c.out[r] > 0)
    BY <1>1 DEF Held, Shown
  <2> QED BY <1>2, <2>1
<1>5. (f + 1) .. g \subseteq Shown(d)
  BY <1>3 DEF Held, Shows
<1>6. Shown(d) \subseteq 1 .. g
  BY <1>3 DEF Held
<1>7. Shown(d) \subseteq 1 .. m
  BY <1>6
<1>8. \A r \in Shown(d) : (f + 1) .. r \subseteq Shown(d)
  <2>1. \A r \in 1 .. g : (f + 1) .. r \subseteq (f + 1) .. g
    OBVIOUS
  <2> QED BY <1>5, <1>6, <2>1, Zenon
<1>9. d.kind = "kafka" /\ d.buf = {} /\ d.txn # "open"
  BY Zenon DEF Held, Shows
<1>10. d.buf \subseteq (f + 1) .. g /\ d.buf \cap Shown(d) = {} /\ (f + 1) .. g \subseteq Shown(d) \cup d.buf
  BY <1>5, <1>9
<1> QED BY <1>3, <1>4, <1>5, <1>6, <1>7, <1>8, <1>9, <1>10, Zenon DEF Held

LEMMA HeldMore ==
    ASSUME NEW c, NEW x, NEW f, NEW g, NEW m \in Nat, NEW k \in Nat, m <= k, Held(c, x, f, g, m)
    PROVE  Held(c, x, f, g, k)
<1>1. 1 .. m \subseteq 1 .. k
  OBVIOUS
<1> QED BY <1>1, Zenon DEF Held

\* A new process starts from the manifest's offset.
LEMMA HeldOpen ==
    ASSUME NEW c, ConnOK(c), NEW x, NEW f, NEW g, NEW m \in Nat, Held(c, x, f, g, m)
    PROVE  Held(Open(c), FALSE, m, m, m)
<1> DEFINE d == Open(c)
<1>1. d.kind = "kafka" /\ d.out = c.out /\ d.buf = {} /\ d.txn = "none"
  BY DEF Open, NewConn, Held, ConnOK, Conn
<1> HIDE DEF d
<1>2. Shown(d) = Shown(c)
  BY <1>1, Zenon DEF Shown
<1>3. Shown(c) \subseteq 1 .. m /\ \A r \in 1 .. m : (m + 1) .. r = {}
  BY DEF Held
<1>4. \A r \in Records : d.out[r] <= 1
  BY <1>1, Zenon DEF Held
<1> QED BY <1>1, <1>2, <1>3, <1>4, Zenon DEF Held, d

-----------------------------------------------------------------------------
(* Answers.                                                                *)

\* The command the coordinator's loop sends.
Doing == IF cpc = "boot" THEN "begin" ELSE cpc

\* Only the last command to the sink the loop has reached is waited for, and
\* begin always is.
ReplyOf(s) ==
    \A i \in 1 .. Len(queue[s]) :
      /\ queue[s][i].reply =>
           s = cur /\ ack = "sent" /\ i = Len(queue[s]) /\ queue[s][i].cmd = Doing
      /\ queue[s][i].cmd = "begin" => queue[s][i].reply

ReplyInv ==
    /\ ack # "unsent" => cpc \in {"pre", "commit", "begin", "boot"}
    /\ \A s \in Sinks : ReplyOf(s)

LEMMA NoneWaits == ASSUME ReplyInv, ack # "sent", NEW s \in Sinks PROVE NoReply(queue[s])
  BY Zenon DEF ReplyInv, ReplyOf, NoReply

LEMMA NoneReplies ==
    ASSUME \A s \in Sinks : NoReply(queue'[s]), ack' = "unsent" \/ cpc' \in {"pre", "commit", "begin", "boot"}
    PROVE  ReplyInv'
  BY Zenon DEF ReplyInv, ReplyOf, NoReply

LEMMA NoReplySent ==
    ASSUME SinkType, NEW S \in SUBSET Sinks, NEW c \in Order, Room(S), SendAll(S, c),
           ~ c.reply, c.cmd # "begin", \A s \in Sinks : NoReply(queue[s])
    PROVE  \A s \in Sinks : NoReply(queue'[s])
<1> SUFFICES ASSUME NEW s \in Sinks PROVE NoReply(queue'[s])
  OBVIOUS
<1>1. queue[s] \in Seq(Order) /\ queue'[s] = IF s \in S THEN Append(queue[s], c) ELSE queue[s]
  BY SendIs DEF SinkType
<1> DEFINE q == queue[s]
           a == Append(q, c)
           k == Len(q)
<1>2. /\ Len(a) = k + 1 /\ a[k + 1] = c
      /\ \A i \in 1 .. k : a[i] = q[i]
      /\ \A i \in 1 .. (k + 1) : i \in 1 .. k \/ i = k + 1
  BY <1>1, Appended
<1> HIDE DEF a, k, q
<1>3. NoReply(q)
  BY Zenon DEF q
<1>4. NoReply(a)
  BY <1>2, <1>3, Zenon DEF NoReply, k
<1> QED BY <1>1, <1>3, <1>4, Zenon DEF a, q

LEMMA ReplyStep == TypeInv /\ ReplyInv /\ [Next]_vars => ReplyInv'
<1> SUFFICES ASSUME TypeInv, ReplyInv, [Next]_vars PROVE ReplyInv'
  OBVIOUS
<1>1. SinkType /\ cur \in Sinks /\ epoch \in Nat /\ manifest.epoch \in Nat
  BY DEF TypeInv, CoordType, StoreType, Manifest
<1>2. ASSUME ack # "sent", queue' = queue, ack' = "unsent" \/ cpc' \in {"pre", "commit", "begin", "boot"}
      PROVE  ReplyInv'
  BY <1>2, NoneWaits, NoneReplies, Zenon
<1>3. ASSUME NEW S \in SUBSET Sinks, NEW c \in Order, Room(S), SendAll(S, c), ~ c.reply, c.cmd # "begin",
             ack # "sent", ack' = "unsent"
      PROVE  ReplyInv'
  BY <1>1, <1>3, NoneWaits, NoReplySent, NoneReplies, Zenon
<1>4. CASE Restart
  <2>1. \A s \in Sinks : queue[s] = <<>>
    BY <1>1, <1>4, Zenon DEF Restart, SinkType
  <2>2. Room(ToRollBack)
    BY <2>1, CommitAssumption DEF Room, ToRollBack
  <2>3. RollbackCmd(manifest.epoch) \in Order /\ ToRollBack \in SUBSET Sinks
    BY <1>1, OrdersAre, Zenon DEF ToRollBack
  <2>4. ack # "sent" /\ ack' = "unsent" /\ SendAll(ToRollBack, RollbackCmd(manifest.epoch))
    BY <1>4 DEF Restart, ReplyInv
  <2>5. ~ RollbackCmd(manifest.epoch).reply /\ RollbackCmd(manifest.epoch).cmd # "begin"
    BY DEF RollbackCmd
  <2> QED BY <1>3, <2>2, <2>3, <2>4, <2>5, Zenon
<1>5. CASE WriteToSinks
  <2>1. pos + 1 \in Records
    BY <1>5, ConnectorAssumption DEF WriteToSinks, TypeInv, CoordType, Records
  <2>2. WriteCmd(pos + 1) \in Order /\ Sinks \in SUBSET Sinks
    BY <1>1, <2>1, OrdersAre, Zenon
  <2>3. ack = "unsent" /\ ack' = "unsent" /\ SendAll(Sinks, WriteCmd(pos + 1)) /\ Room(Sinks)
    BY <1>5 DEF WriteToSinks, ReplyInv
  <2>4. ack # "sent"
    BY <2>3
  <2>5. ~ WriteCmd(pos + 1).reply /\ WriteCmd(pos + 1).cmd # "begin"
    BY DEF WriteCmd
  <2> QED BY <1>3, <2>2, <2>3, <2>4, <2>5, Zenon
<1>6. CASE SaveFailed \/ SaveTimeout
  <2>1. RollbackCmd(epoch) \in Order /\ Sinks \in SUBSET Sinks
    BY <1>1, OrdersAre, Zenon
  <2>2. ack # "sent" /\ ack' = "unsent" /\ SendAll(Sinks, RollbackCmd(epoch)) /\ Room(Sinks)
    BY <1>6 DEF SaveFailed, SaveTimeout, ToIdle, ReplyInv
  <2>3. ~ RollbackCmd(epoch).reply /\ RollbackCmd(epoch).cmd # "begin"
    BY DEF RollbackCmd
  <2> QED BY <1>3, <2>1, <2>2, <2>3, Zenon
<1>7. CASE BeginFailed
  <2>1. RollbackCmd(epoch) \in Order
    BY <1>1, OrdersAre, Zenon
  <2>2. 1..(cur - 1) \in SUBSET Sinks
    BY <1>1, CommitAssumption DEF Sinks
  <2>3. ack # "sent" /\ ack' = "unsent" /\ SendAll(1..(cur - 1), RollbackCmd(epoch)) /\ Room(1..(cur - 1))
    BY <1>7 DEF BeginFailed
  <2>4. ~ RollbackCmd(epoch).reply /\ RollbackCmd(epoch).cmd # "begin"
    BY DEF RollbackCmd
  <2> QED BY <1>3, <2>1, <2>2, <2>3, <2>4, Zenon
<1>8. CASE Send
  <2> DEFINE c == [cmd |-> Doing, n |-> epoch, reply |-> TRUE]
  <2>1. /\ ack # "sent" /\ ack' = "sent" /\ UNCHANGED <<cur, cpc>> /\ Room({cur}) /\ SendAll({cur}, c)
        /\ Doing \in {"pre", "commit", "begin"} /\ cpc \in {"pre", "commit", "begin", "boot"}
    BY <1>8 DEF Send, Doing
  <2>2. c \in Order /\ {cur} \in SUBSET Sinks
    BY <1>1, <2>1, OrdersAre, Zenon
  <2>3. c.cmd = Doing
    OBVIOUS
  <2> HIDE DEF c
  <2>4. \A s \in Sinks : queue'[s] = IF s \in {cur} THEN Append(queue[s], c) ELSE queue[s]
    BY <1>1, <2>1, <2>2, SendIs, Zenon
  <2>5. ASSUME NEW s \in Sinks PROVE ReplyOf(s)'
    <3>1. NoReply(queue[s])
      BY <2>1, NoneWaits
    <3>2. CASE s # cur
      <4>1. queue'[s] = queue[s]
        BY <2>4, <3>2, Zenon
      <4> QED BY <3>1, <4>1, Zenon DEF ReplyOf, NoReply
    <3>3. CASE s = cur
      <4>1. queue'[s] = Append(queue[s], c) /\ queue[s] \in Seq(Order)
        BY <1>1, <2>4, <3>3, Zenon DEF SinkType
      <4> DEFINE q == queue[s]
                 a == queue'[s]
                 k == Len(q)
      <4>2. /\ Len(a) = k + 1 /\ a[k + 1] = c
            /\ \A i \in 1 .. k : a[i] = q[i]
            /\ \A i \in 1 .. (k + 1) : i \in 1 .. k \/ i = k + 1
        BY <4>1, Appended
      <4> HIDE DEF a, k, q
      <4>3. \A i \in 1 .. k : ~ q[i].reply /\ q[i].cmd # "begin"
        BY <3>1, Zenon DEF NoReply, k, q
      <4>4. c.reply /\ Doing' = Doing /\ s = cur' /\ ack' = "sent"
        BY <2>1, <3>3, Zenon DEF c, Doing
      <4>5. \A i \in 1 .. Len(a) : /\ a[i].reply => i = Len(a) /\ a[i].cmd = Doing
                                   /\ a[i].cmd = "begin" => a[i].reply
        BY <2>3, <4>2, <4>3, <4>4, Zenon
      <4> QED BY <4>4, <4>5, Zenon DEF ReplyOf, a
    <3> QED BY <3>2, <3>3
  <2> QED BY <2>1, <2>5, Zenon DEF ReplyInv
<1>9. CASE PreCommitTimeout \/ CommitTimeout
  <2>1. DropReply /\ ack' = "unsent" /\ cpc \in {"pre", "commit"}
    BY <1>9 DEF PreCommitTimeout, CommitTimeout, ToIdle
  <2>2. ASSUME NEW s \in Sinks PROVE NoReply(queue'[s])
    <3>1. /\ Len(queue'[s]) = Len(queue[s])
          /\ \A i \in 1 .. Len(queue[s]) :
               queue'[s][i] = IF s = cur THEN [queue[s][i] EXCEPT !.reply = FALSE] ELSE queue[s][i]
      BY <1>1, <2>1, DropIs, Zenon
    <3>2. ASSUME NEW i \in 1 .. Len(queue[s]) PROVE ~ queue'[s][i].reply /\ queue'[s][i].cmd # "begin"
      <4>1. /\ queue[s][i] \in Order
            /\ queue[s][i].reply => s = cur /\ queue[s][i].cmd = Doing
            /\ queue[s][i].cmd = "begin" => queue[s][i].reply
        <5>1. queue[s] \in Seq(Order)
          BY <1>1, Zenon DEF SinkType
        <5>2. queue[s][i] \in Order
          BY <5>1
        <5> QED BY <5>2, Zenon DEF ReplyInv, ReplyOf
      <4>2. queue[s][i].cmd # "begin"
        BY <2>1, <4>1 DEF Doing
      <4> QED BY <3>1, <4>1, <4>2, Zenon DEF Order, Command
    <3> QED BY <3>1, <3>2, Zenon DEF NoReply
  <2> QED BY <2>1, <2>2, NoneReplies, Zenon
<1>10. CASE Crash
  <2>1. \A s \in Sinks : queue'[s] = <<>>
    BY <1>10, Zenon DEF Crash
  <2>2. \A s \in Sinks : NoReply(queue'[s])
    BY <2>1, SMTT(30) DEF NoReply
  <2> QED BY <1>10, <2>2, NoneReplies, Zenon DEF Crash
<1>11. CASE StartCheckpoint \/ PreCommitFailed \/ SaveManifest \/ SizeRejected \/ Stop \/ Stopped
  BY <1>2, <1>11
     DEF StartCheckpoint, PreCommitFailed, SaveManifest, SizeRejected, Stop, Stopped, ToIdle, ReplyInv, sinkVars
<1>12. CASE PreCommitted \/ SinkAnswered \/ Began
  BY <1>2, <1>12 DEF PreCommitted, SinkAnswered, Began, NextSink, sinkVars
<1>13. CASE UpdateManifest \/ UpdateFailed \/ UpdateTimeout
  BY <1>2, <1>13 DEF UpdateManifest, UpdateFailed, UpdateTimeout, Conclude, ToIdle, ReplyInv, sinkVars
<1>14. ASSUME UNCHANGED <<queue, cur, ack, cpc>> PROVE ReplyInv'
  BY <1>14, Zenon DEF ReplyInv, ReplyOf, Doing
<1>15. CASE LateWrite \/ AtBounds \/ UNCHANGED vars \/ \E s \in Sinks : FlushTick(s)
  BY <1>14, <1>15, Zenon DEF LateWrite, AtBounds, vars, FlushTick, coordVars, sinkVars
<1>16. ASSUME NEW s \in Sinks, SinkStep(s) PROVE ReplyInv'
  <2> DEFINE q == queue[s]
             t == Tail(q)
             k == Len(q)
  <2>1. /\ q \in Seq(Order) /\ q # <<>> /\ queue' = [queue EXCEPT ![s] = t]
        /\ UNCHANGED <<cpc, cur>>
        /\ ack' = ack \/ (Head(q).reply /\ ack' \in {"ok", "err"})
    BY <1>1, <1>16, TaskStep, Zenon DEF SinkType, SinkStep
  <2>2. /\ Len(t) = k - 1 /\ k \in Nat /\ k >= 1 /\ Head(q) = q[1]
        /\ \A i \in 1 .. (k - 1) : t[i] = q[i + 1] /\ i + 1 \in 1 .. k
    BY <2>1, Removed
  <2>3. queue'[s] = t /\ \A x \in Sinks : x # s => queue'[x] = queue[x]
    BY <1>1, <2>1 DEF SinkType
  <2>4. \A i \in 1 .. k : /\ q[i].reply => s = cur /\ ack = "sent" /\ i = k /\ q[i].cmd = Doing
                          /\ q[i].cmd = "begin" => q[i].reply
    BY Zenon DEF ReplyInv, ReplyOf
  <2> HIDE DEF q, t, k
  <2>5. CASE ack' = ack
    <3>1. \A i \in 1 .. Len(t) : /\ t[i].reply => s = cur /\ ack = "sent" /\ i = Len(t) /\ t[i].cmd = Doing
                                 /\ t[i].cmd = "begin" => t[i].reply
      BY <2>2, <2>4
    <3>2. Doing' = Doing
      BY <2>1, Zenon DEF Doing
    <3>3. ReplyOf(s)'
      BY <2>1, <2>3, <2>5, <3>1, <3>2, Zenon DEF ReplyOf
    <3>4. ASSUME NEW x \in Sinks, x # s PROVE ReplyOf(x)'
      <4>1. ReplyOf(x) /\ queue'[x] = queue[x]
        BY <2>3, <3>4, Zenon DEF ReplyInv
      <4> QED BY <2>1, <2>5, <3>2, <4>1, Zenon DEF ReplyOf
    <3> QED BY <2>1, <2>5, <3>3, <3>4, Zenon DEF ReplyInv
  <2>6. CASE Head(q).reply /\ ack' \in {"ok", "err"}
    <3>1. s = cur /\ ack = "sent" /\ k = 1
      BY <2>2, <2>4, <2>6
    <3>2. NoReply(t)
      BY <2>2, <3>1 DEF NoReply
    <3>3. ASSUME NEW x \in Sinks, x # s PROVE NoReply(queue[x])
      BY <3>1, <3>3, Zenon DEF ReplyInv, ReplyOf, NoReply
    <3>4. \A x \in Sinks : NoReply(queue'[x])
      BY <2>3, <3>2, <3>3, Zenon
    <3>5. cpc' \in {"pre", "commit", "begin", "boot"}
      BY <2>1, <3>1 DEF ReplyInv
    <3> QED BY <3>4, <3>5, NoneReplies, Zenon
  <2> QED BY <2>1, <2>5, <2>6, Zenon
<1> QED
  BY <1>4, <1>5, <1>6, <1>7, <1>8, <1>9, <1>10, <1>11, <1>12, <1>13, <1>15, <1>16, Zenon
     DEF Next, CoordinatorStep, FaultStep

-----------------------------------------------------------------------------
(* A Kafka sink and its queue.                                             *)

\* Of the records up to p the sink has been given those up to g, and the
\* others are on their way.
Fed(q, c, x, f, g, p, m) ==
    g \in f .. p /\ Flow(q, g, p) /\ Held(c, x, f, g, m) /\ Decided(q, g, m)

LEMMA FedMore ==
    ASSUME NEW q \in Seq(Order), NEW c, NEW x, NEW f \in Nat, NEW p \in Nat, NEW g, NEW m \in Nat,
           NEW k \in Nat, m <= k, Fed(q, c, x, f, g, p, m)
    PROVE  Fed(q, c, x, f, g, p, k)
<1>1. g \in Nat /\ g \in f .. p
  BY DEF Fed
<1>2. \A i \in 1 .. Len(q) : q[i].cmd = "write" => q[i].n \in (g + 1) .. p
  BY Zenon DEF Fed, Flow
<1>3. \A i \in 1 .. Len(q) : q[i].cmd = "write" => q[i].n \in Nat
  BY <1>1, <1>2
<1>4. Decided(q, g, k)
  BY <1>1, <1>3, DecidedMore, Zenon DEF Fed
<1>5. Held(c, x, f, g, k)
  BY HeldMore, Zenon DEF Fed
<1> QED BY <1>1, <1>4, <1>5, Zenon DEF Fed

\* A command other than a write is sent.
LEMMA FedSent ==
    ASSUME NEW q \in Seq(Order), NEW c, NEW x, NEW f \in Nat, NEW p \in Nat, NEW g, NEW m \in Nat,
           NEW a, a.cmd # "write", a.cmd = "commit" => p <= m, Fed(q, c, x, f, g, p, m)
    PROVE  Fed(Append(q, a), c, x, f, g, p, m)
<1>1. g \in Nat /\ g <= p /\ g \in f .. p
  BY DEF Fed
<1>2. Flow(Append(q, a), g, p)
  BY FlowOther, Zenon DEF Fed
<1>3. Decided(Append(q, a), g, m)
  BY <1>1, DecidedSent, Zenon DEF Fed
<1> QED BY <1>1, <1>2, <1>3, Zenon DEF Fed

LEMMA FedWrite ==
    ASSUME NEW q \in Seq(Order), NEW c, NEW x, NEW f \in Nat, NEW p \in Nat, NEW g, NEW m \in Nat,
           Fed(q, c, x, f, g, p, m)
    PROVE  Fed(Append(q, WriteCmd(p + 1)), c, x, f, g, p + 1, m)
<1>1. g \in Nat /\ g <= p /\ g \in f .. (p + 1)
  BY DEF Fed
<1>2. Flow(Append(q, WriteCmd(p + 1)), g, p + 1)
  BY <1>1, FlowWrite, Zenon DEF Fed
<1> DEFINE w == WriteCmd(p + 1)
<1>3. w.cmd # "commit"
  BY DEF WriteCmd
<1> HIDE DEF w
<1>4. Decided(Append(q, w), g, m)
  BY <1>1, <1>3, DecidedSent, Zenon DEF Fed
<1> QED BY <1>1, <1>2, <1>4, Zenon DEF Fed, w

\* Nobody waits for the answers any more.
LEMMA FedDrop ==
    ASSUME NEW q, NEW t, Len(t) = Len(q), NEW c, NEW x, NEW f, NEW g, NEW p, NEW m,
           \A i \in 1 .. Len(q) : t[i].cmd = q[i].cmd /\ t[i].n = q[i].n,
           \A i \in 1 .. Len(q) : \A j \in 1 .. (i - 1) : j \in 1 .. Len(q),
           Fed(q, c, x, f, g, p, m)
    PROVE  Fed(t, c, x, f, g, p, m)
<1>1. ASSUME NEW i \in 1 .. Len(t), t[i].cmd = "write"
      PROVE  /\ t[i].n \in (g + 1) .. p
             /\ \A j \in 1 .. (i - 1) : t[j].cmd = "write" => t[j].n < t[i].n
  <2>1. /\ i \in 1 .. Len(q) /\ q[i].cmd = "write" /\ t[i].n = q[i].n
        /\ \A j \in 1 .. (i - 1) : t[j].cmd = q[j].cmd /\ t[j].n = q[j].n
    BY <1>1, Zenon
  <2>2. /\ q[i].n \in (g + 1) .. p
        /\ \A j \in 1 .. (i - 1) : q[j].cmd = "write" => q[j].n < q[i].n
    BY <2>1, Zenon DEF Fed, Flow
  <2> QED BY <2>1, <2>2, Zenon
<1>2. \A n \in (g + 1) .. p : \E i \in 1 .. Len(t) : t[i].cmd = "write" /\ t[i].n = n
  BY Zenon DEF Fed, Flow
<1>3. ASSUME NEW i \in 1 .. Len(t), t[i].cmd = "commit"
      PROVE  g <= m /\ \A j \in 1 .. (i - 1) : t[j].cmd = "write" => t[j].n <= m
  <2>1. /\ i \in 1 .. Len(q) /\ q[i].cmd = "commit"
        /\ \A j \in 1 .. (i - 1) : t[j].cmd = q[j].cmd /\ t[j].n = q[j].n
    BY <1>3, Zenon
  <2>2. g <= m /\ \A j \in 1 .. (i - 1) : q[j].cmd = "write" => q[j].n <= m
    BY <2>1, Zenon DEF Fed, Decided
  <2> QED BY <2>1, <2>2, Zenon
<1>4. Flow(t, g, p)
  BY <1>1, <1>2, Zenon DEF Flow
<1>5. Decided(t, g, m)
  BY <1>3, Zenon DEF Decided
<1> QED BY <1>4, <1>5, Zenon DEF Fed

\* A new process.
LEMMA FedOpen ==
    ASSUME NEW c, ConnOK(c), NEW x, NEW f, NEW g, NEW m \in Nat, Held(c, x, f, g, m)
    PROVE  Fed(<<>>, Open(c), FALSE, m, m, m, m)
<1>1. Len(<<>>) = 0 /\ m \in m .. m /\ (m + 1) .. m = {} /\ 1 .. 0 = {}
  OBVIOUS
<1>2. Flow(<<>>, m, m) /\ Decided(<<>>, m, m)
  BY <1>1, Zenon DEF Flow, Decided
<1> QED BY <1>1, <1>2, HeldOpen, Zenon DEF Fed

\* The first command of queue q ends as o says, and y says whether the epoch is
\* poisoned then.
Carried(q, c, x, o, y) ==
    /\ o.ok \in BOOLEAN /\ o.c.kind = c.kind
    /\ \/ Head(q).cmd \in {"pre", "commit"} /\ x /\ o.ok = FALSE /\ o.c = c
       \/ ~(Head(q).cmd \in {"pre", "commit"} /\ x) /\ Ends(o, Head(q).cmd, c, Head(q).n)
    /\ y = IF Head(q).cmd = "write" /\ ~ o.ok THEN TRUE
           ELSE IF Head(q).cmd = "begin" /\ o.ok THEN FALSE ELSE x

\* Then the sink is in order, shows what it showed, and everything when the last
\* command was a commit that succeeded.
Served(q, c, o, y, f, p, m) ==
    /\ \E k \in f .. p : Fed(Tail(q), o.c, y, f, k, p, m)
    /\ Shown(c) \subseteq Shown(o.c)
    /\ Head(q).cmd = "commit" /\ o.ok /\ Len(q) = 1 => (f + 1) .. p \subseteq Shown(o.c)

LEMMA FedTask ==
    ASSUME NEW q \in Seq(Order), q # <<>>, NEW c, ConnOK(c), NEW x \in BOOLEAN,
           NEW f \in Nat, NEW p \in Nat, NEW g, NEW m \in Nat, Fed(q, c, x, f, g, p, m),
           NEW o, NEW y, Carried(q, c, x, o, y),
           Head(q).cmd = "begin" => (f + 1) .. p \subseteq Shown(c)
    PROVE  Served(q, c, o, y, f, p, m)
<1> DEFINE op == Head(q).cmd
           n == Head(q).n
           d == o.c
<1>1. /\ g \in Nat /\ g \in f .. p /\ f <= g /\ g <= p
      /\ Flow(q, g, p) /\ Held(c, x, f, g, m) /\ Decided(q, g, m)
  BY DEF Fed
<1>2. op \in {"write", "begin", "pre", "commit", "rollback"}
  <2>1. Head(q) \in Order
    OBVIOUS
  <2> QED BY <2>1 DEF Order, Command
<1>3. c.kind = "kafka"
  BY <1>1, Zenon DEF Held
<1>4. /\ op = "write" => n = g + 1 /\ g < p /\ Flow(Tail(q), g + 1, p)
      /\ op # "write" => Flow(Tail(q), g, p)
  BY <1>1, FlowTail, Zenon
<1>5. /\ op = "write" /\ n = g + 1 => Decided(Tail(q), g + 1, m)
      /\ Decided(Tail(q), g, m) /\ (op = "commit" => g <= m)
  BY <1>1, DecidedTail, Zenon
<1> HIDE DEF op, n, d
<1>6. ASSUME NEW o2, Ends(o2, op, c, n)
      PROVE  /\ op = "write" => (o2.ok /\ Wrote(c, o2.c, n)) \/ (~ o2.ok /\ Rests(c, o2.c))
             /\ op = "begin" => (o2.ok /\ Opened(c, o2.c)) \/ (~ o2.ok /\ Rests(c, o2.c))
             /\ op = "pre" => Rests(c, o2.c)
             /\ op = "commit" => Shows(c, o2.c) \/ (~ o2.ok /\ Rests(c, o2.c))
             /\ op = "rollback" => Aborted(c, o2.c) \/ Rests(c, o2.c)
  BY <1>3, <1>6, KafkaEnds, Zenon
<1>7. Rests(c, c)
  BY Zenon DEF Rests
<1>8. /\ op \in {"pre", "commit"} /\ x => ~ o.ok /\ Rests(c, d)
      /\ ~(op \in {"pre", "commit"} /\ x) => Ends(o, op, c, n)
      /\ y = (IF op = "write" /\ ~ o.ok THEN TRUE ELSE IF op = "begin" /\ o.ok THEN FALSE ELSE x)
      /\ op = "begin" => (f + 1) .. p \subseteq Shown(c)
      /\ d.kind = c.kind
  BY <1>7, Zenon DEF Carried, op, n, d
<1> DEFINE Goal == /\ \E k \in f .. p : Fed(Tail(q), d, y, f, k, p, m)
                   /\ Shown(c) \subseteq Shown(d)
                   /\ op = "commit" /\ o.ok /\ Len(q) = 1 => (f + 1) .. p \subseteq Shown(d)
<1> SUFFICES Goal
  BY Zenon DEF Served, op, d
<1> HIDE DEF Goal
<1>9. ASSUME op # "write", Held(d, y, f, g, m), Shown(c) \subseteq Shown(d),
             op = "commit" /\ o.ok => (f + 1) .. g \subseteq Shown(d)
      PROVE  Goal
  <2>1. Fed(Tail(q), d, y, f, g, p, m)
    BY <1>1, <1>4, <1>5, <1>9, Zenon DEF Fed
  <2>2. op = "commit" /\ o.ok /\ Len(q) = 1 => g = p
    BY <1>1, <1>9, FlowDone, Zenon DEF op
  <2> QED BY <1>1, <1>9, <2>1, <2>2, Zenon DEF Goal
<1>10. ASSUME op # "write", Rests(c, d), y = x, ~(op = "commit" /\ o.ok) PROVE Goal
  <2>1. Held(d, x, f, g, m)
    <3>1. Held(c, x, f, g, m) /\ Rests(c, d) /\ d.kind = c.kind
      BY <1>1, <1>8, <1>10, Zenon
    <3> QED BY <3>1, HeldRests, Zenon
  <2>2. Shown(c) \subseteq Shown(d)
    BY <1>10, Zenon DEF Rests, Shown
  <2> QED BY <1>9, <1>10, <2>1, <2>2, Zenon
<1>11. CASE op = "write"
  <2>1. n = g + 1 /\ g < p /\ Flow(Tail(q), g + 1, p) /\ Decided(Tail(q), g + 1, m)
    BY <1>4, <1>5, <1>11, Zenon
  <2>2. Ends(o, op, c, n)
    BY <1>8, <1>11
  <2>3. (o.ok /\ Wrote(c, d, n) /\ y = x) \/ (~ o.ok /\ Rests(c, d) /\ y = TRUE)
    BY <1>6, <1>8, <1>11, <2>2, Zenon DEF d
  <2>4. Held(d, y, f, g + 1, m)
    BY <1>1, <1>8, <2>1, <2>3, HeldWrote, HeldMissed, Zenon
  <2>5. Shown(c) \subseteq Shown(d)
    BY <2>3, Zenon DEF Shown, Wrote, Rests
  <2>6. g + 1 \in f .. p
    BY <1>1, <2>1
  <2>7. Fed(Tail(q), d, y, f, g + 1, p, m)
    BY <2>1, <2>4, <2>6, Zenon DEF Fed
  <2>8. op # "commit"
    BY <1>11
  <2> QED BY <2>5, <2>6, <2>7, <2>8, Zenon DEF Goal
<1>12. CASE op = "begin"
  <2>1. Ends(o, op, c, n) /\ op # "write" /\ op # "commit"
    BY <1>8, <1>12
  <2>2. (o.ok /\ Opened(c, d) /\ y = FALSE) \/ (~ o.ok /\ Rests(c, d) /\ y = x)
    BY <1>6, <1>8, <1>12, <2>1, Zenon DEF d
  <2>3. CASE Opened(c, d) /\ y = FALSE
    <3>1. (f + 1) .. g \subseteq (f + 1) .. p
      BY <1>1
    <3>2. Held(d, y, f, g, m)
      BY <1>1, <1>8, <1>12, <2>3, <3>1, HeldOpened, Zenon
    <3>3. Shown(c) \subseteq Shown(d)
      BY <2>3, Zenon DEF Shown, Opened
    <3> QED BY <1>9, <2>1, <3>2, <3>3, Zenon
  <2> QED BY <1>10, <2>1, <2>2, <2>3, Zenon
<1>13. CASE op = "pre"
  <2>1. op # "write" /\ op # "commit" /\ op # "begin" /\ op \in {"pre", "commit"}
    BY <1>13
  <2>2. Rests(c, d) /\ y = x
    BY <1>6, <1>8, <1>13, <2>1, Zenon DEF d
  <2> QED BY <1>10, <2>1, <2>2, Zenon
<1>14. CASE op = "commit"
  <2>1. op # "write" /\ op # "begin" /\ op \in {"pre", "commit"}
    BY <1>14
  <2>2. y = x /\ ((~ x /\ Shows(c, d)) \/ (~ o.ok /\ Rests(c, d)))
    BY <1>6, <1>8, <1>14, <2>1, Zenon DEF d
  <2>3. CASE ~ x /\ Shows(c, d)
    <3>1. x = FALSE /\ y = FALSE
      BY <2>2, <2>3, Zenon
    <3>2. Held(d, FALSE, f, g, m) /\ (f + 1) .. g \subseteq Shown(d) /\ Shown(c) \subseteq Shown(d)
      BY <1>1, <1>5, <1>8, <1>14, <2>3, <3>1, HeldShows, Zenon
    <3> QED BY <1>9, <2>1, <3>1, <3>2, Zenon
  <2> QED BY <1>10, <2>1, <2>2, <2>3, Zenon
<1>15. CASE op = "rollback"
  <2>1. op # "write" /\ op # "begin" /\ op # "commit" /\ op \notin {"pre", "commit"}
    BY <1>15
  <2>2. y = x /\ (Aborted(c, d) \/ Rests(c, d))
    BY <1>6, <1>8, <1>15, <2>1, Zenon DEF d
  <2>3. CASE Aborted(c, d)
    <3>1. Held(d, y, f, g, m) /\ Shown(c) \subseteq Shown(d)
      BY <1>1, <1>8, <2>3, HeldAborted, Zenon DEF Shown, Aborted
    <3> QED BY <1>9, <2>1, <3>1, Zenon
  <2> QED BY <1>10, <2>1, <2>2, <2>3, Zenon
<1> QED BY <1>2, <1>11, <1>12, <1>13, <1>14, <1>15, Zenon

-----------------------------------------------------------------------------
(* Exactly-once delivery through Kafka.                                    *)

\* Every exactly-once sink is a Kafka sink, the manifests are files, and no
\* write of a manifest outlives its timeout.
KafkaOnFiles ==
    /\ Timely
    /\ \A d \in Deployments : d.store = "fs" /\ \A s \in Sinks : d.sinks[s] = "kafka"

\* Nothing is written to the store behind the coordinator's back.
LEMMA FilesAre ==
    ASSUME KafkaOnFiles, TypeInv, EpochInv
    PROVE  /\ late = {} /\ ~ SaveTimeout /\ ~ UpdateTimeout
           /\ \A m : Saved(m) = m /\ Updated(m) = m
<1>1. env \in Deployments
  BY Zenon DEF TypeInv, CoordType
<1>2. env.store = "fs" /\ env.store # "object"
  BY <1>1 DEF KafkaOnFiles
<1>3. "saveTimeout" \notin env.faults /\ "updateTimeout" \notin env.faults
  BY <1>1, <1>2, Zenon DEF KafkaOnFiles, Timely
<1>4. late = {}
  BY <1>2, Zenon DEF EpochInv
<1>5. ~ SaveTimeout /\ ~ UpdateTimeout
  BY <1>3, Zenon DEF SaveTimeout, UpdateTimeout, MayFail
<1>6. \A m : Saved(m) = m /\ Updated(m) = m
  BY <1>2, Zenon DEF Saved, Updated
<1> QED BY <1>4, <1>5, <1>6

\* The manifest's offset is never ahead of the process, and is its position
\* while the sinks commit.
PosInv ==
    /\ manifest.offset <= pos
    /\ cpc \in {"commit", "update"} => manifest.offset = pos

LEMMA PosStep ==
    ASSUME KafkaOnFiles, TypeInv, EpochInv, PosInv, [Next]_vars
    PROVE  PosInv' /\ manifest'.offset >= manifest.offset
<1>1. pos \in Nat /\ manifest.offset \in Nat
  BY ConnectorAssumption DEF TypeInv, CoordType, StoreType, Manifest
<1>2. /\ late = {} /\ ~ SaveTimeout /\ ~ UpdateTimeout
      /\ \A st : Current(st).offset = pos
      /\ \A st : Saved(Current(st)) = Current(st) /\ Updated(Current(st)) = Current(st)
  BY FilesAre DEF Current
<1>3. ASSUME UNCHANGED <<pos, manifest>>, cpc' \in {"commit", "update"} => cpc \in {"commit", "update"}
      PROVE  PosInv' /\ manifest'.offset >= manifest.offset
  BY <1>1, <1>3 DEF PosInv
<1>4. ASSUME manifest'.offset \in {manifest.offset, pos}, pos' = pos,
             cpc' \in {"commit", "update"} => manifest'.offset = pos
      PROVE  PosInv' /\ manifest'.offset >= manifest.offset
  BY <1>1, <1>4 DEF PosInv
<1>5. CASE Restart
  BY <1>1, <1>5 DEF Restart, PosInv, storeVars
<1>6. CASE WriteToSinks
  BY <1>1, <1>6 DEF WriteToSinks, PosInv, storeVars
<1>7. CASE SaveManifest
  BY <1>2, <1>4, <1>7, Zenon DEF SaveManifest
<1>8. CASE SaveFailed
  <2>1. manifest'.offset \in {manifest.offset, pos} /\ pos' = pos
    BY <1>2, <1>8, Zenon DEF SaveFailed
  <2>2. cpc' \notin {"commit", "update"}
    BY <1>8 DEF SaveFailed, ToIdle
  <2> QED BY <1>4, <2>1, <2>2, Zenon
<1>9. CASE UpdateManifest \/ UpdateFailed
  <2>1. manifest'.offset \in {manifest.offset, pos} /\ pos' = pos /\ Conclude
    BY <1>2, <1>9, Zenon DEF UpdateManifest, UpdateFailed
  <2>2. cpc' \notin {"commit", "update"}
    BY <2>1 DEF Conclude, ToIdle
  <2> QED BY <1>4, <2>1, <2>2, Zenon
<1>10. ASSUME LateWrite PROVE FALSE
  <2>1. late = {}
    BY FilesAre, ZenonT(30)
  <2> QED BY <1>10, <2>1 DEF LateWrite
<1>11. CASE StartCheckpoint \/ Send \/ PreCommitFailed \/ BeginFailed \/ PreCommitTimeout
            \/ SizeRejected \/ CommitTimeout \/ Stop \/ Stopped \/ Crash
  BY <1>3, <1>11
     DEF StartCheckpoint, Send, PreCommitFailed, BeginFailed, PreCommitTimeout, SizeRejected,
         CommitTimeout, Stop, Stopped, Crash, ToIdle, storeVars
<1>12. CASE PreCommitted \/ SinkAnswered \/ Began
  BY <1>3, <1>12 DEF PreCommitted, SinkAnswered, Began, NextSink, storeVars
<1>13. ASSUME NEW s \in Sinks, SinkStep(s) \/ FlushTick(s) PROVE PosInv' /\ manifest'.offset >= manifest.offset
  BY <1>3, <1>13, Zenon DEF SinkStep, FlushTick, coordVars, storeVars
<1>14. CASE UNCHANGED vars \/ AtBounds
  BY <1>3, <1>14, Zenon DEF vars, AtBounds
<1> QED
  BY <1>2, <1>5, <1>6, <1>7, <1>8, <1>9, <1>10, <1>11, <1>12, <1>13, <1>14, Zenon
     DEF Next, CoordinatorStep, FaultStep

\* Each sink of a running process holds or is on its way to be given every
\* record; of one that is down only what it shows counts.
SinkOf(s) ==
    IF cpc = "down"
    THEN \E g \in 0..MaxPos : Held(conn[s], poisoned[s], floor, g, manifest.offset)
    ELSE \E g \in floor .. pos : Fed(queue[s], conn[s], poisoned[s], floor, g, pos, manifest.offset)

SinkInv == \A s \in Sinks : SinkOf(s)

\* Kafka's connector has nothing to flush or close.
LEMMA KafkaIdles ==
    ASSUME NEW c, c.kind = "kafka"
    PROVE  Flush(c) = c /\ Close(Flush(c)) = c /\ Shown(Open(c)) = Shown(c)
<1>1. Flush(c) = c /\ Close(c) = c
  BY DEF Flush, Close
<1>2. Open(c).out = c.out
  BY DEF Open, NewConn
<1> QED BY <1>1, <1>2, Zenon DEF Shown

\* A sink task takes a command.
LEMMA SinkTask ==
    ASSUME TypeInv, ReplyInv, SinkInv, NEW s \in Sinks, SinkStep(s),
           cpc \in {"begin", "boot"} => \A x \in Sinks : (floor + 1) .. pos \subseteq Shown(conn[x])
    PROVE  /\ SinkOf(s)' /\ Shown(conn[s]) \subseteq Shown(conn'[s])
           /\ \A x \in Sinks : x # s => SinkOf(x)' /\ conn'[x] = conn[x]
           /\ cpc = "commit" /\ ack' = "ok" =>
                ack = "ok" \/ (s = cur /\ (floor + 1) .. pos \subseteq Shown(conn'[s]))
<1>1. /\ SinkType /\ pos \in Nat /\ floor \in Nat /\ manifest.offset \in Nat
      /\ ConnOK(conn[s]) /\ queue[s] \in Seq(Order) /\ poisoned[s] \in BOOLEAN
  BY ConnectorAssumption DEF TypeInv, CoordType, StoreType, Manifest, SinkType
<1> DEFINE q == queue[s]
           h == Head(q)
<1>2. h \in Order /\ q # <<>> /\ q \in Seq(Order)
  BY <1>1, TaskStep, Zenon
<1>3. PICK o \in Run(s, h) :
         /\ conn' = [conn EXCEPT ![s] = o.c]
         /\ poisoned' = [poisoned EXCEPT ![s] = PoisonedAfter(s, h, o.ok)]
         /\ ack' = IF h.reply THEN (IF o.ok THEN "ok" ELSE "err") ELSE ack
         /\ Same(conn[s], o.c) /\ o.ok \in BOOLEAN
  BY TaskStep, Zenon
<1>4. /\ queue' = [queue EXCEPT ![s] = Tail(q)] /\ cpc # "down"
      /\ UNCHANGED <<cpc, floor, pos, manifest>>
  BY Zenon DEF SinkStep, storeVars
<1>5. PICK g \in floor .. pos : Fed(q, conn[s], poisoned[s], floor, g, pos, manifest.offset)
  BY <1>4, Zenon DEF SinkInv, SinkOf
<1> DEFINE y == PoisonedAfter(s, h, o.ok)
<1>6. y = IF h.cmd = "write" /\ ~ o.ok THEN TRUE
          ELSE IF h.cmd = "begin" /\ o.ok THEN FALSE ELSE poisoned[s]
  BY Zenon DEF PoisonedAfter
<1>7. \/ h.cmd \in {"pre", "commit"} /\ poisoned[s] /\ o.ok = FALSE /\ o.c = conn[s]
      \/ ~(h.cmd \in {"pre", "commit"} /\ poisoned[s]) /\ Ends(o, h.cmd, conn[s], h.n)
  BY RunIs, Zenon
<1>8. h.cmd = "begin" => (floor + 1) .. pos \subseteq Shown(conn[s])
  <2>1. 1 \in 1 .. Len(q) /\ h = q[1]
    BY <1>2
  <2>2. h.cmd = "begin" => Doing = "begin"
    BY <2>1, Zenon DEF ReplyInv, ReplyOf
  <2>3. Doing = "begin" => cpc \in {"begin", "boot"}
    BY DEF Doing
  <2> QED BY <2>2, <2>3, Zenon
<1>9. o.c.kind = conn[s].kind
  BY <1>3, Zenon DEF Same
<1> HIDE DEF q, h, y
<1>10. Served(q, conn[s], o, y, floor, pos, manifest.offset)
  <2> DEFINE c == conn[s]
             x == poisoned[s]
             m == manifest.offset
  <2>1. /\ q \in Seq(Order) /\ q # <<>> /\ ConnOK(c) /\ x \in BOOLEAN
        /\ floor \in Nat /\ pos \in Nat /\ m \in Nat
    BY <1>1, <1>2, Zenon
  <2>2. /\ Fed(q, c, x, floor, g, pos, m)
        /\ Head(q).cmd = "begin" => (floor + 1) .. pos \subseteq Shown(c)
    BY <1>5, <1>8, Zenon DEF h
  <2>3. /\ o.ok \in BOOLEAN /\ o.c.kind = c.kind
        /\ y = IF h.cmd = "write" /\ ~ o.ok THEN TRUE ELSE IF h.cmd = "begin" /\ o.ok THEN FALSE ELSE x
    BY <1>3, <1>6, <1>9, Zenon
  <2>4. \/ h.cmd \in {"pre", "commit"} /\ x /\ o.ok = FALSE /\ o.c = c
        \/ ~(h.cmd \in {"pre", "commit"} /\ x) /\ Ends(o, h.cmd, c, h.n)
    BY <1>7, Zenon
  <2> HIDE DEF c, x, m
  <2>5. Carried(q, c, x, o, y)
    BY <2>3, <2>4, Zenon DEF Carried, h
  <2>6. Served(q, c, o, y, floor, pos, m)
    BY <2>1, <2>2, <2>5, FedTask, Zenon
  <2> QED BY <2>6, Zenon DEF c, m
<1>11. /\ queue'[s] = Tail(q) /\ conn'[s] = o.c /\ poisoned'[s] = y
       /\ \A x \in Sinks : x # s =>
            queue'[x] = queue[x] /\ conn'[x] = conn[x] /\ poisoned'[x] = poisoned[x]
  BY <1>1, <1>3, <1>4, Zenon DEF SinkType, y
<1>12. SinkOf(s)'
  BY <1>4, <1>10, <1>11, Zenon DEF SinkOf, Served
<1>13. ASSUME NEW x \in Sinks, x # s PROVE SinkOf(x)'
  <2>1. SinkOf(x)
    BY Zenon DEF SinkInv
  <2>2. queue'[x] = queue[x] /\ conn'[x] = conn[x] /\ poisoned'[x] = poisoned[x]
    BY <1>11, <1>13, Zenon
  <2> QED BY <1>4, <2>1, <2>2, Zenon DEF SinkOf
<1>14. cpc = "commit" /\ ack' = "ok" =>
         ack = "ok" \/ (s = cur /\ (floor + 1) .. pos \subseteq Shown(conn'[s]))
  <2> SUFFICES ASSUME cpc = "commit", ack' = "ok", ack # "ok"
               PROVE  s = cur /\ (floor + 1) .. pos \subseteq Shown(conn'[s])
    OBVIOUS
  <2>1. h.reply /\ o.ok
    BY <1>3
  <2>2. 1 \in 1 .. Len(q) /\ h = q[1]
    BY <1>2 DEF h
  <2>3. s = cur /\ Len(q) = 1 /\ h.cmd = Doing
    BY <2>1, <2>2, Zenon DEF ReplyInv, ReplyOf, q
  <2>4. h.cmd = "commit"
    BY <2>3 DEF Doing
  <2>5. (floor + 1) .. pos \subseteq Shown(o.c)
    BY <1>10, <2>1, <2>3, <2>4, Zenon DEF Served, h
  <2> QED BY <1>11, <2>3, <2>5, Zenon
<1>15. Shown(conn[s]) \subseteq Shown(conn'[s])
  BY <1>10, <1>11, Zenon DEF Served
<1> QED BY <1>11, <1>12, <1>13, <1>14, <1>15, Zenon

\* What a sink shows stays.
Grows == \A s \in Sinks : Shown(conn[s]) \subseteq Shown(conn'[s])

LEMMA SinkInvStep ==
    ASSUME KafkaOnFiles, TypeInv, TypeInv', EpochInv, PosInv, ReplyInv, SinkInv, [Next]_vars,
           cpc \in {"begin", "boot"} => \A s \in Sinks : (floor + 1) .. pos \subseteq Shown(conn[s])
    PROVE  SinkInv' /\ Grows
<1>1. /\ SinkType /\ cur \in Sinks /\ epoch \in Nat /\ manifest.epoch \in Nat
      /\ pos \in Nat /\ floor \in Nat /\ manifest.offset \in Nat /\ manifest'.offset \in Nat
      /\ \A s \in Sinks : ConnOK(conn[s]) /\ queue[s] \in Seq(Order) /\ poisoned[s] \in BOOLEAN
  <2>1. SinkType /\ cur \in Sinks /\ epoch \in Nat /\ pos \in Nat /\ floor \in Nat
    BY ConnectorAssumption DEF TypeInv, CoordType
  <2>2. manifest.epoch \in Nat /\ manifest.offset \in Nat /\ manifest'.offset \in Nat
    BY ConnectorAssumption DEF TypeInv, StoreType, Manifest
  <2>3. \A s \in Sinks : ConnOK(conn[s]) /\ queue[s] \in Seq(Order) /\ poisoned[s] \in BOOLEAN
    BY <2>1, Zenon DEF SinkType
  <2> QED BY <2>1, <2>2, <2>3
<1>2. manifest.offset <= manifest'.offset
  BY <1>1, PosStep
<1>3. /\ late = {} /\ ~ SaveTimeout /\ ~ UpdateTimeout
  BY FilesAre
<1>4. ASSUME NEW s \in Sinks, cpc # "down"
      PROVE  \E g \in floor .. pos : Fed(queue[s], conn[s], poisoned[s], floor, g, pos, manifest.offset)
  BY <1>4, Zenon DEF SinkInv, SinkOf
<1>5. ASSUME NEW s \in Sinks
      PROVE  \E g \in 0..MaxPos : Held(conn[s], poisoned[s], floor, g, manifest.offset)
  <2>1. CASE cpc = "down"
    BY <2>1, Zenon DEF SinkInv, SinkOf
  <2>2. CASE cpc # "down"
    <3>1. PICK g \in floor .. pos : Fed(queue[s], conn[s], poisoned[s], floor, g, pos, manifest.offset)
      BY <1>4, <2>2, Zenon
    <3>2. g \in 0..MaxPos
      BY ConnectorAssumption DEF TypeInv, CoordType
    <3> QED BY <3>1, <3>2, Zenon DEF Fed
  <2> QED BY <2>1, <2>2
<1>6. ASSUME NEW s \in Sinks PROVE conn[s].kind = "kafka"
  BY <1>5, Zenon DEF Held
<1>7. ASSUME UNCHANGED conn PROVE Grows
  BY <1>7, Zenon DEF Grows
\* Only the manifest's offset may grow.
<1>8. ASSUME UNCHANGED <<queue, conn, poisoned, floor, pos>>, cpc # "down", cpc' # "down"
      PROVE  SinkInv'
  <2> SUFFICES ASSUME NEW s \in Sinks PROVE SinkOf(s)'
    BY Zenon DEF SinkInv
  <2>1. PICK g \in floor .. pos : Fed(queue[s], conn[s], poisoned[s], floor, g, pos, manifest.offset)
    BY <1>4, <1>8, Zenon
  <2>2. Fed(queue[s], conn[s], poisoned[s], floor, g, pos, manifest'.offset)
    BY <1>1, <1>2, <2>1, FedMore, Zenon
  <2> QED BY <1>8, <2>2, Zenon DEF SinkOf
\* A command other than a write goes to some sinks.
<1>9. ASSUME NEW S \in SUBSET Sinks, NEW a \in Order, Room(S), SendAll(S, a), a.cmd # "write",
             a.cmd = "commit" => pos <= manifest.offset,
             UNCHANGED <<conn, poisoned, floor, pos>>, cpc # "down", cpc' # "down"
      PROVE  SinkInv'
  <2> SUFFICES ASSUME NEW s \in Sinks PROVE SinkOf(s)'
    BY Zenon DEF SinkInv
  <2>1. PICK g \in floor .. pos : Fed(queue[s], conn[s], poisoned[s], floor, g, pos, manifest.offset)
    BY <1>4, <1>9, Zenon
  <2>2. queue'[s] = IF s \in S THEN Append(queue[s], a) ELSE queue[s]
    BY <1>1, <1>9, SendIs, Zenon
  <2>3. queue'[s] \in Seq(Order)
    BY Zenon DEF TypeInv, SinkType
  <2>4. Fed(queue'[s], conn[s], poisoned[s], floor, g, pos, manifest.offset)
    <3>1. queue[s] \in Seq(Order) /\ floor \in Nat /\ pos \in Nat /\ manifest.offset \in Nat
      BY <1>1, Zenon
    <3>2. Fed(Append(queue[s], a), conn[s], poisoned[s], floor, g, pos, manifest.offset)
      BY <1>9, <2>1, <3>1, FedSent, Zenon
    <3> QED BY <2>1, <2>2, <3>2, Zenon
  <2>5. Fed(queue'[s], conn[s], poisoned[s], floor, g, pos, manifest'.offset)
    BY <1>1, <1>2, <2>3, <2>4, FedMore, Zenon
  <2> QED BY <1>9, <2>5, Zenon DEF SinkOf
<1>10. CASE Restart
  <2>1. \A s \in Sinks : queue[s] = <<>>
    BY <1>1, <1>10, Zenon DEF Restart, SinkType
  <2>2. Room(ToRollBack)
    BY <2>1, CommitAssumption DEF Room, ToRollBack
  <2> DEFINE a == RollbackCmd(manifest.epoch)
  <2>3. a \in Order /\ ToRollBack \in SUBSET Sinks
    BY <1>1, OrdersAre, Zenon DEF ToRollBack
  <2>4. a.cmd # "write" /\ a.cmd # "commit"
    BY DEF RollbackCmd
  <2>5. SendAll(ToRollBack, a)
    BY <1>10, Zenon DEF Restart
  <2>6. /\ pos' = manifest.offset /\ floor' = manifest.offset /\ manifest' = manifest
        /\ \A s \in Sinks : conn'[s] = Open(conn[s]) /\ poisoned'[s] = FALSE
    BY <1>10, Zenon DEF Restart, storeVars
  <2>7. cpc' # "down"
    BY <1>10 DEF Restart
  <2> HIDE DEF a
  <2>8. ASSUME NEW s \in Sinks PROVE SinkOf(s)' /\ Shown(conn[s]) \subseteq Shown(conn'[s])
    <3>1. PICK g \in 0..MaxPos : Held(conn[s], poisoned[s], floor, g, manifest.offset)
      BY <1>5, Zenon
    <3> DEFINE m == manifest.offset
    <3>2. Fed(<<>>, Open(conn[s]), FALSE, m, m, m, m)
      BY <1>1, <3>1, FedOpen, Zenon
    <3>3. queue'[s] = IF s \in ToRollBack THEN Append(queue[s], a) ELSE queue[s]
      BY <1>1, <2>2, <2>3, <2>5, SendIs, Zenon
    <3>4. queue[s] = <<>> /\ queue[s] \in Seq(Order) /\ m \in Nat
      BY <1>1, <2>1, Zenon
    <3> HIDE DEF m
    <3>5. Fed(queue'[s], Open(conn[s]), FALSE, m, m, m, m)
      BY <2>4, <3>2, <3>3, <3>4, FedSent, Zenon
    <3>6. m \in m .. m
      BY <3>4
    <3>7. SinkOf(s)'
      BY <2>6, <2>7, <3>5, <3>6, Zenon DEF SinkOf, m
    <3> QED BY <1>6, <2>6, <3>7, KafkaIdles, Zenon
  <2> QED BY <2>8, Zenon DEF SinkInv, Grows
<1>11. CASE WriteToSinks
  <2>1. pos + 1 \in Records
    BY <1>11, ConnectorAssumption DEF WriteToSinks, TypeInv, CoordType, Records
  <2>2. WriteCmd(pos + 1) \in Order /\ Sinks \in SUBSET Sinks
    BY <1>1, <2>1, OrdersAre, Zenon
  <2>3. /\ SendAll(Sinks, WriteCmd(pos + 1)) /\ Room(Sinks) /\ pos' = pos + 1
        /\ UNCHANGED <<conn, poisoned, floor, manifest>>
    BY <1>11, Zenon DEF WriteToSinks, storeVars
  <2>4. cpc # "down" /\ cpc' # "down"
    BY <1>11 DEF WriteToSinks
  <2>5. ASSUME NEW s \in Sinks PROVE SinkOf(s)'
    <3>1. PICK g \in floor .. pos : Fed(queue[s], conn[s], poisoned[s], floor, g, pos, manifest.offset)
      BY <1>4, <2>4, Zenon
    <3>2. queue'[s] = Append(queue[s], WriteCmd(pos + 1))
      BY <1>1, <2>2, <2>3, SendIs, Zenon
    <3>3. Fed(queue'[s], conn[s], poisoned[s], floor, g, pos + 1, manifest.offset)
      <4>1. queue[s] \in Seq(Order) /\ floor \in Nat /\ pos \in Nat /\ manifest.offset \in Nat
        BY <1>1, Zenon
      <4>2. Fed(Append(queue[s], WriteCmd(pos + 1)), conn[s], poisoned[s], floor, g, pos + 1, manifest.offset)
        BY <3>1, <4>1, FedWrite, Zenon
      <4> QED BY <3>2, <4>2, Zenon
    <3>4. g \in floor .. (pos + 1)
      BY <1>1
    <3> QED BY <2>3, <2>4, <3>3, <3>4, Zenon DEF SinkOf
  <2> QED BY <1>7, <2>3, <2>5, Zenon DEF SinkInv
<1>12. CASE SaveFailed
  <2>1. RollbackCmd(epoch) \in Order /\ Sinks \in SUBSET Sinks
    BY <1>1, OrdersAre, Zenon
  <2>2. RollbackCmd(epoch).cmd # "write" /\ RollbackCmd(epoch).cmd # "commit"
    BY DEF RollbackCmd
  <2>3. SendAll(Sinks, RollbackCmd(epoch)) /\ Room(Sinks) /\ UNCHANGED <<conn, poisoned, floor, pos>>
    BY <1>12, Zenon DEF SaveFailed
  <2>4. cpc # "down" /\ cpc' # "down"
    BY <1>12 DEF SaveFailed, ToIdle
  <2> QED BY <1>7, <1>9, <2>1, <2>2, <2>3, <2>4, Zenon
<1>13. CASE BeginFailed
  <2>1. RollbackCmd(epoch) \in Order
    BY <1>1, OrdersAre, Zenon
  <2>2. RollbackCmd(epoch).cmd # "write" /\ RollbackCmd(epoch).cmd # "commit"
    BY DEF RollbackCmd
  <2>3. 1..(cur - 1) \in SUBSET Sinks
    BY <1>1, CommitAssumption DEF Sinks
  <2>4. /\ SendAll(1..(cur - 1), RollbackCmd(epoch)) /\ Room(1..(cur - 1))
        /\ UNCHANGED <<conn, poisoned, floor, pos>>
    BY <1>13, Zenon DEF BeginFailed
  <2>5. cpc # "down" /\ cpc' # "down"
    BY <1>13 DEF BeginFailed
  <2> QED BY <1>7, <1>9, <2>1, <2>2, <2>3, <2>4, <2>5, Zenon
<1>14. CASE Send
  <2> DEFINE c == [cmd |-> Doing, n |-> epoch, reply |-> TRUE]
  <2>1. /\ Room({cur}) /\ SendAll({cur}, c) /\ Doing \in {"pre", "commit", "begin"}
        /\ UNCHANGED <<conn, poisoned, floor, pos>>
        /\ cpc # "down" /\ cpc' # "down"
    BY <1>14 DEF Send, Doing
  <2>2. c \in Order /\ {cur} \in SUBSET Sinks
    BY <1>1, <2>1, OrdersAre, ZenonT(30)
  <2>3. c.cmd # "write" /\ (c.cmd = "commit" => pos <= manifest.offset)
    BY <1>1, <2>1 DEF Doing, PosInv
  <2> HIDE DEF c
  <2> QED BY <1>7, <1>9, <2>1, <2>2, <2>3, Zenon
<1>15. CASE PreCommitTimeout \/ CommitTimeout
  <2>1. /\ DropReply /\ cpc # "down" /\ cpc' # "down"
        /\ UNCHANGED <<conn, poisoned, floor, pos, manifest>>
    BY <1>15 DEF PreCommitTimeout, CommitTimeout, ToIdle, storeVars
  <2>2. ASSUME NEW s \in Sinks PROVE SinkOf(s)'
    <3>1. PICK g \in floor .. pos : Fed(queue[s], conn[s], poisoned[s], floor, g, pos, manifest.offset)
      BY <1>4, <2>1, Zenon
    <3>2. /\ Len(queue'[s]) = Len(queue[s])
          /\ \A i \in 1 .. Len(queue[s]) :
               queue'[s][i] = IF s = cur THEN [queue[s][i] EXCEPT !.reply = FALSE] ELSE queue[s][i]
      BY <1>1, <2>1, DropIs, Zenon
    <3>3. queue[s] \in Seq(Order)
      BY <1>1, Zenon
    <3>4. \A i \in 1 .. Len(queue[s]) : queue[s][i] \in Order /\ \A j \in 1 .. (i - 1) : j \in 1 .. Len(queue[s])
      BY <3>3
    <3>5. \A i \in 1 .. Len(queue[s]) : queue'[s][i].cmd = queue[s][i].cmd /\ queue'[s][i].n = queue[s][i].n
      BY <3>2, <3>4, Zenon DEF Order, Command
    <3>6. Fed(queue'[s], conn[s], poisoned[s], floor, g, pos, manifest.offset)
      BY <3>1, <3>2, <3>4, <3>5, FedDrop, Zenon
    <3> QED BY <2>1, <3>6, Zenon DEF SinkOf
  <2> QED BY <1>7, <2>1, <2>2, Zenon DEF SinkInv
<1>16. CASE Crash \/ Stopped
  <2>1. UNCHANGED <<poisoned, floor, manifest>> /\ cpc' = "down"
    BY <1>16, Zenon DEF Crash, Stopped
  <2>2. \A s \in Sinks : conn'[s] = conn[s]
    BY <1>6, <1>16, KafkaIdles, Zenon DEF Crash, Stopped
  <2>3. ASSUME NEW s \in Sinks PROVE SinkOf(s)'
    BY <1>5, <2>1, <2>2, Zenon DEF SinkOf
  <2> QED BY <2>2, <2>3, Zenon DEF SinkInv, Grows
<1>17. CASE StartCheckpoint \/ PreCommitFailed \/ SizeRejected \/ SaveManifest \/ Stop
  <2>1. UNCHANGED <<queue, conn, poisoned, floor, pos>>
    BY <1>17, Zenon DEF StartCheckpoint, PreCommitFailed, SizeRejected, SaveManifest, Stop, sinkVars
  <2>2. cpc # "down" /\ cpc' # "down"
    BY <1>17 DEF StartCheckpoint, PreCommitFailed, SizeRejected, SaveManifest, Stop, ToIdle
  <2> QED BY <1>7, <1>8, <2>1, <2>2, Zenon
<1>18. CASE PreCommitted \/ SinkAnswered \/ Began
  <2>1. UNCHANGED <<queue, conn, poisoned, floor, pos>>
    BY <1>18, Zenon DEF PreCommitted, SinkAnswered, Began, sinkVars
  <2>2. cpc # "down" /\ cpc' # "down"
    BY <1>18 DEF PreCommitted, SinkAnswered, Began, NextSink
  <2> QED BY <1>7, <1>8, <2>1, <2>2, Zenon
<1>19. CASE UpdateManifest \/ UpdateFailed
  <2>1. UNCHANGED <<queue, conn, poisoned, floor, pos>>
    BY <1>19, Zenon DEF UpdateManifest, UpdateFailed, sinkVars
  <2>2. cpc # "down" /\ cpc' # "down"
    BY <1>19 DEF UpdateManifest, UpdateFailed, Conclude, ToIdle
  <2> QED BY <1>7, <1>8, <2>1, <2>2, Zenon
<1>20. ASSUME LateWrite \/ \E s \in Sinks : FlushTick(s) PROVE FALSE
  BY <1>3, <1>6, <1>20, KafkaIdles, Zenon DEF LateWrite, FlushTick
<1>21. CASE UNCHANGED vars \/ AtBounds
  <2>1. UNCHANGED <<cpc, queue, conn, poisoned, floor, pos, manifest>>
    BY <1>21, Zenon DEF vars, AtBounds
  <2> QED BY <1>7, <2>1, Zenon DEF SinkInv, SinkOf
<1>22. ASSUME NEW s \in Sinks, SinkStep(s) PROVE SinkInv' /\ Grows
  BY <1>22, SinkTask, Zenon DEF SinkInv, Grows
<1> QED
  BY <1>3, <1>10, <1>11, <1>12, <1>13, <1>14, <1>15, <1>16, <1>17, <1>18, <1>19, <1>20, <1>21, <1>22, ZenonT(30)
     DEF Next, CoordinatorStep, FaultStep

\* What the answers of a sink, the statuses and the manifest say of it is true.
Covered(s) == (floor + 1) .. pos \subseteq Shown(conn[s])

DoneShown(s) == (floor + 1) .. done \subseteq Shown(conn[s])

StoreShown(s) ==
    manifest.status[s] = "Committed" => (floor + 1) .. manifest.offset \subseteq Shown(conn[s])

StatusOf(s) ==
    /\ DoneShown(s) /\ StoreShown(s)
    /\ cpc \in {"pre", "persist"} => status[s] = "Pending"
    /\ cpc = "commit" /\ s < cur => status[s] # "Pending"
    /\ cpc = "commit" /\ s = cur /\ ack = "ok" => Covered(s)
    /\ cpc = "update" => status[s] # "Pending"
    /\ cpc \in {"commit", "update"} /\ status[s] = "Committed" => Covered(s)
    /\ cpc \in {"begin", "boot"} => Covered(s)

StatusInv == \A s \in Sinks : StatusOf(s)

LEMMA StatusStep ==
    ASSUME KafkaOnFiles, TypeInv, TypeInv', EpochInv, PosInv, ReplyInv, SinkInv, StatusInv, [Next]_vars
    PROVE  SinkInv' /\ StatusInv'
<1>1. /\ N \in Nat /\ cur \in Sinks /\ pos \in Nat /\ floor \in Nat /\ manifest.offset \in Nat
      /\ status \in [Sinks -> Status] /\ Sinks = 1 .. N
  BY CommitAssumption, ConnectorAssumption DEF TypeInv, CoordType, StoreType, Manifest, Sinks
<1>2. cpc \in {"begin", "boot"} => \A s \in Sinks : (floor + 1) .. pos \subseteq Shown(conn[s])
  BY Zenon DEF StatusInv, StatusOf, Covered
<1>3. SinkInv' /\ Grows
  BY <1>2, SinkInvStep, Zenon
<1> SUFFICES ASSUME NEW s \in Sinks PROVE StatusOf(s)'
  BY <1>3, Zenon DEF StatusInv
<1>4. StatusOf(s) /\ Shown(conn[s]) \subseteq Shown(conn'[s])
  BY <1>3, Zenon DEF StatusInv, Grows
<1>5. /\ late = {} /\ ~ SaveTimeout /\ ~ UpdateTimeout
      /\ \A m : Saved(m) = m /\ Updated(m) = m
  BY FilesAre, Zenon
<1> DEFINE C == (floor + 1) .. pos \subseteq Shown(conn'[s])
<1>6. /\ UNCHANGED <<floor, done>> => DoneShown(s)'
      /\ UNCHANGED <<floor, manifest>> => StoreShown(s)'
      /\ Covered(s) => C
  <2>1. DoneShown(s) /\ StoreShown(s)
    BY <1>4, Zenon DEF StatusOf
  <2>2. UNCHANGED <<floor, done>> => DoneShown(s)'
    BY <1>4, <2>1, Zenon DEF DoneShown
  <2>3. UNCHANGED <<floor, manifest>> => StoreShown(s)'
    BY <1>4, <2>1, Zenon DEF StoreShown
  <2>4. Covered(s) => C
    BY <1>4, Zenon DEF Covered
  <2> QED BY <2>2, <2>3, <2>4
<1>7. UNCHANGED <<floor, pos>> => Covered(s)' = C
  BY Zenon DEF Covered
<1> HIDE DEF C
\* Outside a checkpoint only done and the manifest matter.
<1>8. ASSUME UNCHANGED <<floor, done, manifest>>, cpc' \in {"idle", "stopping", "down"}
      PROVE  StatusOf(s)'
  <2>1. cpc' \notin {"pre", "persist", "commit", "update", "begin", "boot"}
    BY <1>8
  <2> QED BY <1>6, <1>8, <2>1, Zenon DEF StatusOf
\* Inside one the answers matter as well.
<1>9. ASSUME UNCHANGED <<floor, pos, done, manifest, cpc, cur, status>>,
             cpc = "commit" /\ s = cur /\ ack' = "ok" => ack = "ok" \/ C
      PROVE  StatusOf(s)'
  <2>1. cpc = "commit" /\ s = cur /\ ack' = "ok" => C
    BY <1>4, <1>6, <1>9, Zenon DEF StatusOf
  <2>2. DoneShown(s)' /\ StoreShown(s)' /\ Covered(s)' = C
    BY <1>6, <1>7, <1>9, Zenon
  <2> QED BY <1>4, <1>6, <1>9, <2>1, <2>2, Zenon DEF StatusOf
<1>10. CASE Restart
  <2>1. /\ floor' = manifest.offset /\ pos' = manifest.offset /\ done' = manifest.offset
        /\ manifest' = manifest /\ cpc' = "boot"
    BY <1>10, Zenon DEF Restart, storeVars
  <2>2. (manifest.offset + 1) .. manifest.offset = {}
    BY <1>1
  <2>3. Covered(s)' /\ DoneShown(s)' /\ StoreShown(s)'
    BY <2>1, <2>2, Zenon DEF Covered, DoneShown, StoreShown
  <2>4. cpc' \notin {"pre", "persist", "commit", "update"}
    BY <2>1
  <2> QED BY <2>3, <2>4, Zenon DEF StatusOf
<1>11. CASE WriteToSinks \/ PreCommitFailed \/ PreCommitTimeout \/ SizeRejected \/ Stop \/ Stopped \/ Crash
            \/ BeginFailed
  <2>1. UNCHANGED <<floor, done, manifest>>
    BY <1>11, ZenonT(30)
       DEF WriteToSinks, PreCommitFailed, PreCommitTimeout, SizeRejected, Stop, Stopped, Crash, BeginFailed,
           storeVars
  <2>2. cpc' \in {"idle", "stopping", "down"}
    BY <1>11
       DEF WriteToSinks, PreCommitFailed, PreCommitTimeout, SizeRejected, Stop, Stopped, Crash, BeginFailed,
           ToIdle
  <2> QED BY <1>8, <2>1, <2>2, Zenon
<1>12. CASE StartCheckpoint
  <2>1. UNCHANGED <<floor, done, manifest>> /\ cpc' = "pre" /\ status'[s] = "Pending"
    BY <1>12 DEF StartCheckpoint, storeVars, Pending
  <2>2. cpc' \notin {"commit", "update", "begin", "boot"}
    BY <2>1
  <2> QED BY <1>6, <2>1, <2>2, Zenon DEF StatusOf
<1>13. CASE PreCommitted
  <2>1. UNCHANGED <<floor, done, manifest, status>> /\ cpc' \in {"pre", "persist"} /\ cpc \in {"pre", "persist"}
    BY <1>13 DEF PreCommitted, NextSink, storeVars
  <2>2. cpc' \notin {"commit", "update", "begin", "boot"}
    BY <2>1
  <2>3. status'[s] = "Pending"
    BY <1>4, <2>1, Zenon DEF StatusOf
  <2> QED BY <1>6, <2>1, <2>2, <2>3, Zenon DEF StatusOf
<1>14. CASE SaveManifest \/ SaveFailed
  <2>1. /\ manifest' \in {manifest, Current(Pending)} /\ UNCHANGED <<floor, pos, done, status>>
        /\ cpc = "persist" /\ cpc' \in {"commit", "idle"} /\ cur' = 1 /\ ack' = "unsent"
    BY <1>5, <1>14, Zenon DEF SaveManifest, SaveFailed, ToIdle
  <2>2. Current(Pending).status[s] = "Pending"
    BY DEF Current, Pending
  <2>3. StoreShown(s)'
    <3>1. CASE manifest' = manifest
      BY <1>6, <2>1, <3>1, Zenon
    <3>2. CASE manifest' = Current(Pending)
      BY <2>2, <3>2 DEF StoreShown
    <3> QED BY <2>1, <3>1, <3>2, Zenon
  <2>4. cpc' \notin {"pre", "persist", "update", "begin", "boot"} /\ ~(s < cur') /\ ack' # "ok"
    BY <1>1, <2>1
  <2>5. status'[s] = "Pending" /\ status'[s] # "Committed"
    <3>1. cpc \in {"pre", "persist"}
      BY <2>1
    <3>2. status'[s] = "Pending"
      BY <1>4, <2>1, <3>1, Zenon DEF StatusOf
    <3> QED BY <3>2
  <2>6. DoneShown(s)'
    BY <1>6, <2>1, Zenon
  <2> QED BY <2>3, <2>4, <2>5, <2>6, Zenon DEF StatusOf
<1>15. CASE SinkAnswered
  <2>1. /\ cpc = "commit" /\ ack \in {"ok", "err"} /\ UNCHANGED <<floor, pos, done, manifest>>
        /\ status' = [status EXCEPT ![cur] = IF ack = "ok" THEN "Committed" ELSE "Failed"]
        /\ NextSink("update")
    BY <1>15, Zenon DEF SinkAnswered, storeVars
  <2>2. /\ (s < cur' /\ cpc' = "commit") \/ cpc' = "update" => s < cur \/ s = cur
        /\ cpc' \notin {"pre", "persist", "begin", "boot"} /\ ack' # "ok"
    BY <1>1, <2>1 DEF NextSink
  <2>3. (status'[s] = "Committed" => C) /\ (s = cur \/ s < cur => status'[s] # "Pending")
    <3>1. CASE s = cur
      <4>1. status'[s] = IF ack = "ok" THEN "Committed" ELSE "Failed"
        BY <1>1, <2>1, <3>1
      <4>2. ack = "ok" => C
        BY <1>4, <1>6, <2>1, <3>1, Zenon DEF StatusOf
      <4> QED BY <4>1, <4>2
    <3>2. CASE s # cur
      <4>1. status'[s] = status[s]
        BY <1>1, <2>1, <3>2
      <4>2. cpc \in {"commit", "update"}
        BY <2>1
      <4> QED BY <1>4, <1>6, <2>1, <3>2, <4>1, <4>2, Zenon DEF StatusOf
    <3> QED BY <3>1, <3>2
  <2>4. DoneShown(s)' /\ StoreShown(s)' /\ Covered(s)' = C
    BY <1>6, <1>7, <2>1, Zenon
  <2> QED BY <2>2, <2>3, <2>4, Zenon DEF StatusOf
<1>16. CASE CommitTimeout
  <2>1. UNCHANGED <<floor, done, manifest>> /\ cpc' = "update" /\ status'[s] = "Failed"
    BY <1>16, Zenon DEF CommitTimeout, storeVars
  <2>2. cpc' \notin {"pre", "persist", "commit", "begin", "boot"} /\ status'[s] \notin {"Pending", "Committed"}
    BY <2>1
  <2> QED BY <1>6, <2>1, <2>2, Zenon DEF StatusOf
<1>17. CASE UpdateManifest \/ UpdateFailed
  <2>1. /\ cpc = "update" /\ manifest' \in {manifest, Current(status)} /\ Conclude
        /\ UNCHANGED <<floor, pos, status>>
    BY <1>5, <1>17, Zenon DEF UpdateManifest, UpdateFailed
  <2>2. Current(status).status[s] = status[s] /\ Current(status).offset = pos
    BY DEF Current
  <2>3. cpc \in {"commit", "update"}
    BY <2>1
  <2>4. status[s] # "Pending" /\ (status[s] = "Committed" => C)
    BY <1>4, <1>6, <2>1, <2>3, Zenon DEF StatusOf
  <2>5. StoreShown(s)'
    <3>1. CASE manifest' = manifest
      BY <1>6, <2>1, <3>1, Zenon
    <3>2. CASE manifest' = Current(status)
      BY <2>1, <2>2, <2>4, <3>2, Zenon DEF StoreShown, C
    <3> QED BY <2>1, <3>1, <3>2, Zenon
  <2>6. CASE status[s] = "Failed"
    <3>1. done' = done /\ cpc' = "idle"
      BY <2>1, <2>6, Zenon DEF Conclude, ToIdle
    <3>2. DoneShown(s)'
      BY <1>6, <2>1, <3>1, Zenon
    <3>3. cpc' \notin {"pre", "persist", "commit", "update", "begin", "boot"}
      BY <3>1
    <3> QED BY <2>5, <3>2, <3>3, Zenon DEF StatusOf
  <2>7. CASE status[s] # "Failed"
    <3>1. C
      BY <1>1, <2>4, <2>7 DEF Status
    <3>2. done' \in {done, pos} /\ cpc' \in {"idle", "begin"}
      BY <2>1 DEF Conclude, ToIdle
    <3>3. DoneShown(s)'
      <4>1. CASE done' = done
        BY <1>6, <2>1, <4>1, Zenon
      <4>2. CASE done' = pos
        BY <2>1, <3>1, <4>2, Zenon DEF DoneShown, C
      <4> QED BY <3>2, <4>1, <4>2, Zenon
    <3>4. Covered(s)' /\ cpc' \notin {"pre", "persist", "commit", "update"}
      BY <1>7, <2>1, <3>1, <3>2
    <3> QED BY <2>5, <3>3, <3>4, Zenon DEF StatusOf
  <2> QED BY <2>6, <2>7
<1>18. CASE Began
  <2>1. UNCHANGED <<floor, pos, done, manifest>> /\ cpc \in {"begin", "boot"} /\ cpc' \in {cpc, "idle"}
    BY <1>18 DEF Began, NextSink, storeVars
  <2>2. DoneShown(s)' /\ StoreShown(s)' /\ Covered(s)'
    BY <1>4, <1>6, <1>7, <2>1, Zenon DEF StatusOf
  <2>3. cpc' \notin {"pre", "persist", "commit", "update"}
    BY <2>1
  <2> QED BY <2>2, <2>3, Zenon DEF StatusOf
<1>19. CASE Send
  <2>1. UNCHANGED <<floor, pos, done, manifest, cpc, cur, status>> /\ ack' = "sent"
    BY <1>19, Zenon DEF Send, storeVars
  <2>2. ack' # "ok"
    BY <2>1
  <2> QED BY <1>9, <2>1, <2>2, Zenon
<1>20. ASSUME NEW t \in Sinks, SinkStep(t) PROVE StatusOf(s)'
  <2>1. UNCHANGED <<floor, pos, done, manifest, cpc, cur, status>>
    BY <1>20, Zenon DEF SinkStep, storeVars
  <2>2. cpc = "commit" /\ ack' = "ok" =>
          ack = "ok" \/ (t = cur /\ (floor + 1) .. pos \subseteq Shown(conn'[t]))
    BY <1>2, <1>20, SinkTask, Zenon
  <2> QED BY <1>9, <2>1, <2>2, Zenon DEF C
<1>21. ASSUME NEW t \in Sinks, FlushTick(t) PROVE StatusOf(s)'
  BY <1>9, <1>21, Zenon DEF FlushTick, coordVars, storeVars
<1>22. ASSUME LateWrite PROVE FALSE
  BY <1>5, <1>22, Zenon DEF LateWrite
<1>23. CASE UNCHANGED vars \/ AtBounds
  BY <1>9, <1>23, Zenon DEF vars, AtBounds
<1> QED
  BY <1>5, <1>10, <1>11, <1>12, <1>13, <1>14, <1>15, <1>16, <1>17, <1>18, <1>19, <1>20, <1>21, <1>22, <1>23, ZenonT(30)
     DEF Next, CoordinatorStep, FaultStep

CommitInv == PosInv /\ ReplyInv /\ SinkInv /\ StatusInv

LEMMA CommitInit == ASSUME KafkaOnFiles PROVE Init => CommitInv
<1> SUFFICES ASSUME Init PROVE CommitInv
  OBVIOUS
<1>1. /\ pos = 0 /\ floor = 0 /\ done = 0 /\ cpc = "down" /\ ack = "unsent" /\ manifest = NoManifest
      /\ \A s \in Sinks : queue[s] = <<>> /\ conn[s] = NewConn("kafka")
  BY DEF Init, KafkaOnFiles
<1>2. manifest.offset = 0 /\ \A s \in Sinks : manifest.status[s] = "Pending"
  BY <1>1 DEF NoManifest
<1>3. PosInv
  BY <1>1, <1>2 DEF PosInv
<1>4. ReplyInv
  BY <1>1, SMTT(30) DEF ReplyInv, ReplyOf
<1>5. ASSUME NEW x PROVE Held(NewConn("kafka"), x, 0, 0, 0)
  BY ConnectorAssumption DEF NewConn, Held, Shown, Records
<1>6. SinkInv
  <2>1. 0 \in 0..MaxPos
    BY ConnectorAssumption
  <2> QED BY <1>1, <1>2, <1>5, <2>1, Zenon DEF SinkInv, SinkOf
<1>7. StatusInv
  BY <1>1, <1>2 DEF StatusInv, StatusOf, DoneShown, StoreShown
<1> QED BY <1>3, <1>4, <1>6, <1>7 DEF CommitInv

LEMMA CommitInvariant == ASSUME KafkaOnFiles PROVE Spec => []CommitInv
<1>1. Timely
  BY DEF KafkaOnFiles
<1>2. Spec => []EpochInv
  BY <1>1, EpochInvariant
<1>3. TypeInv /\ TypeInv' /\ EpochInv /\ CommitInv /\ [Next]_vars => CommitInv'
  BY PosStep, ReplyStep, StatusStep, Zenon DEF CommitInv
<1> QED BY <1>2, <1>3, CommitInit, TypeInvariant, PTL DEF Spec

\* What every sink shows, whether the process runs or is down.
LEMMA SinkShows ==
    ASSUME CommitInv, NEW s \in Sinks
    PROVE  /\ \A r \in Records : conn[s].out[r] <= 1
           /\ Shown(conn[s]) \subseteq 1 .. manifest.offset
           /\ \A r \in Shown(conn[s]) : (floor + 1) .. r \subseteq Shown(conn[s])
<1>1. \E g : Held(conn[s], poisoned[s], floor, g, manifest.offset)
  BY Zenon DEF CommitInv, SinkInv, SinkOf, Fed
<1> QED BY <1>1, Zenon DEF Held

\* No record is visible twice in a Kafka topic, however the process fails and
\* restarts: what recovery replays from the manifest's offset was never
\* committed.
THEOREM KafkaAtMostOnce == ASSUME KafkaOnFiles PROVE Spec => []AtMostOnce
<1>1. CommitInv => AtMostOnce
  BY SinkShows, Zenon DEF AtMostOnce
<1> QED BY <1>1, CommitInvariant, PTL

\* The manifest is the decision record: no record beyond its offset is visible.
THEOREM KafkaManifestFirst == ASSUME KafkaOnFiles PROVE Spec => []ManifestFirst
<1>1. CommitInv => ManifestFirst
  BY SinkShows, Zenon DEF ManifestFirst
<1> QED BY <1>1, CommitInvariant, PTL

\* A record whose write failed keeps the later ones of its process out.
THEOREM KafkaNoHoles == ASSUME KafkaOnFiles PROVE Spec => []NoHoles
<1>1. CommitInv => NoHoles
  BY SinkShows, Zenon DEF NoHoles
<1> QED BY <1>1, CommitInvariant, PTL

\* A checkpoint that is reported as successful has committed every record up
\* to its offset in every sink.
THEOREM KafkaSuccessCovers == ASSUME KafkaOnFiles PROVE Spec => []SuccessCovers
<1>1. CommitInv => SuccessCovers
  BY Zenon DEF CommitInv, StatusInv, StatusOf, DoneShown, SuccessCovers
<1> QED BY <1>1, CommitInvariant, PTL

\* A sink that the manifest records as committed, which recovery leaves alone,
\* shows what the manifest covers.
THEOREM KafkaCommittedIsVisible == ASSUME KafkaOnFiles PROVE Spec => []CommittedIsVisible
<1>1. CommitInv => CommittedIsVisible
  BY Zenon DEF CommitInv, StatusInv, StatusOf, StoreShown, CommittedIsVisible
<1> QED BY <1>1, CommitInvariant, PTL
=============================================================================
