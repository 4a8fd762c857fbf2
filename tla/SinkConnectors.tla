--------------------------- MODULE SinkConnectors ---------------------------
(***************************************************************************)
(* The exactly-once sink connectors behind a sink task: Kafka, PostgreSQL  *)
(* (append), Delta Lake (append) and the file sink in its rolling and      *)
(* append modes.  Every connector is a record of the same shape and every  *)
(* operation maps a connector to its result [ok, c]; the environment's     *)
(* failures of an operation are listed apart, in Failures.  A record       *)
(* written to a sink is the source position it was computed from.          *)
(*                                                                         *)
(*   kind    which connector it is                                         *)
(*   epoch   current_epoch                                                 *)
(*   txn     Kafka's transaction; for files, whether the writer is open    *)
(*   buf     records in the open transaction, buffer or .tmp file          *)
(*   staged  Delta: staged_batches; files: what the final file of this     *)
(*           epoch already holds                                           *)
(*   skip    Delta: epoch_skipped                                          *)
(*   last    last_committed_epoch                                          *)
(*   mark    the epoch the external system has stored with the data        *)
(*   out     how often each record is visible in the external system       *)
(***************************************************************************)
EXTENDS Naturals

CONSTANTS MaxPos       \* bound on source positions

ASSUME ConnectorAssumption == MaxPos \in Nat

Records == 1..MaxPos

Kinds == {"kafka", "postgres", "delta", "files", "append"}

Conn == [kind : Kinds, epoch : Nat, txn : {"none", "open", "committing"},
         buf : SUBSET Records, staged : SUBSET Records, skip : BOOLEAN,
         last : Nat, mark : Nat, out : [Records -> Nat]]

NewConn(k) ==
           [kind |-> k, epoch |-> 0, txn |-> "none", buf |-> {}, staged |-> {},
            skip |-> FALSE, last |-> 0, mark |-> 0,
            out |-> [r \in Records |-> 0]]

Result(ok, c) == [ok |-> ok, c |-> c]

\* The records rs become visible once more.
Publish(c, rs) ==
    [c EXCEPT !.out = [r \in Records |-> IF r \in rs THEN c.out[r] + 1
                                                     ELSE c.out[r]]]

Shown(c) == {r \in Records : c.out[r] > 0}

-----------------------------------------------------------------------------
\* Kafka: a transaction per epoch.  Outside one the producer refuses records,
\* and a commit whose answer was lost leaves it committing.

KafkaWrite(c, r) ==
    IF c.txn = "open" THEN Result(TRUE, [c EXCEPT !.buf = @ \cup {r}])
                      ELSE Result(FALSE, c)

KafkaBegin(c, e) ==
    LET d == [c EXCEPT !.epoch = e]
    IN  IF c.txn = "none" THEN Result(TRUE, [d EXCEPT !.txn = "open"])
                          ELSE Result(FALSE, d)

\* Variants of KafkaPreCommit: it expects the successor of the last committed
\* epoch; it commits.
KafkaPreCommitInSequence(c, e) == Result(e = c.last + 1, c)

KafkaPreCommitFinalizes(c, e) ==
    Result(e = c.epoch, [Publish(c, c.buf) EXCEPT !.buf = {}])

KafkaPreCommit(c, e) == Result(e = c.epoch, c)

KafkaCommit(c, e) ==
    LET d == [Publish(c, c.buf) EXCEPT !.txn = "none", !.buf = {}, !.last = e]
    IN  IF e # c.epoch \/ c.txn = "none" THEN Result(FALSE, c)
                                         ELSE Result(TRUE, d)

KafkaRollback(c, e) ==
    IF c.txn = "open" THEN Result(TRUE, [c EXCEPT !.txn = "none", !.buf = {}])
                      ELSE Result(c.txn = "none", c)

KafkaFailures(op, c, e) ==
    CASE op = "begin"  -> {[c EXCEPT !.epoch = e]}
      [] op = "commit" -> {c} \cup
            (IF e = c.epoch /\ c.txn = "open"
             THEN {[Publish(c, c.buf) EXCEPT !.txn = "committing", !.buf = {}]}
             ELSE {})
      [] OTHER         -> {c}

-----------------------------------------------------------------------------
\* PostgreSQL: records are buffered; pre_commit writes and commits them with
\* the epoch in one transaction of the database.

PostgresWrite(c, r) == Result(TRUE, [c EXCEPT !.buf = @ \cup {r}])

PostgresBegin(c, e) == Result(TRUE, [c EXCEPT !.epoch = e])

PostgresPreCommit(c, e) ==
    CASE e # c.epoch -> Result(FALSE, c)
      [] e = c.epoch /\ c.buf = {} -> Result(TRUE, c)
      [] e = c.epoch /\ c.buf # {} /\ c.mark >= e ->
            Result(TRUE, [c EXCEPT !.buf = {}])
      [] OTHER -> Result(TRUE, [Publish(c, c.buf) EXCEPT !.buf = {}, !.mark = e])

PostgresCommit(c, e) ==
    IF e = c.epoch THEN Result(TRUE, [c EXCEPT !.last = e]) ELSE Result(FALSE, c)

PostgresRollback(c, e) == Result(TRUE, [c EXCEPT !.buf = {}])

PostgresFlush(c) == [Publish(c, c.buf) EXCEPT !.buf = {}]

\* The COMMIT may have been executed although its answer is an error.
PostgresFailures(op, c, e) ==
    IF op = "pre" THEN {c, [PostgresPreCommit(c, e).c EXCEPT !.buf = c.buf]}
                  ELSE {}

-----------------------------------------------------------------------------
\* Delta Lake: pre_commit moves the buffer to staged, commit_epoch writes it
\* as one table version that carries current_epoch.

DeltaWrite(c, r) ==
    Result(TRUE, IF c.skip THEN c ELSE [c EXCEPT !.buf = @ \cup {r}])

DeltaBegin(c, e) ==
    Result(TRUE, IF e <= c.last
                 THEN [c EXCEPT !.skip = TRUE]
                 ELSE [c EXCEPT !.skip = FALSE, !.epoch = e, !.buf = {}])

DeltaPreCommit(c, e) ==
    Result(TRUE, IF e > c.last /\ c.buf # {}
                 THEN [c EXCEPT !.staged = c.buf, !.buf = {}]
                 ELSE c)

DeltaFlushStaged(c) ==
    IF c.staged = {} THEN c
    ELSE [Publish(c, c.staged) EXCEPT !.mark = c.epoch, !.staged = {}]

DeltaCommit(c, e) ==
    Result(TRUE, IF e <= c.last THEN c
                 ELSE [DeltaFlushStaged(c) EXCEPT !.last = e])

DeltaRollback(c, e) ==
    Result(TRUE, [c EXCEPT !.buf = {}, !.staged = {}, !.skip = FALSE])

DeltaClose(c) ==
    IF c.buf = {} THEN c
    ELSE DeltaCommit(DeltaPreCommit(c, c.epoch).c, c.epoch).c

\* A write that timed out may still have become a table version.
DeltaFailures(op, c, e) ==
    IF op = "commit" /\ e > c.last /\ c.staged # {}
    THEN {c, [DeltaFlushStaged(c) EXCEPT !.staged = c.staged]}
    ELSE {}

-----------------------------------------------------------------------------
\* Files: records go to a .tmp file named after the epoch, opened with
\* truncation; commit renames it over the final file of that name.

FilesWrite(c, r) ==
    Result(TRUE, [c EXCEPT !.txn = "open",
                           !.buf = IF c.txn = "open" THEN @ \cup {r} ELSE {r}])

FilesBegin(c, e) ==
    Result(TRUE, [c EXCEPT !.epoch = e, !.txn = "none", !.buf = {},
                           !.staged = {}])

FilesPreCommit(c, e) == Result(TRUE, [c EXCEPT !.txn = "none"])

FilesCommit(c, e) ==
    Result(TRUE,
           IF c.kind = "append" \/ c.buf = {} THEN c
           ELSE LET gone == [c EXCEPT !.out = [r \in Records |->
                                  IF r \in c.staged THEN c.out[r] - 1
                                                    ELSE c.out[r]]]
                IN  [Publish(gone, c.buf) EXCEPT !.staged = c.buf, !.buf = {}])

FilesRollback(c, e) == Result(TRUE, [c EXCEPT !.txn = "none", !.buf = {}])

FilesFailures(op, c, e) == IF op \in {"write", "pre", "commit"} THEN {c} ELSE {}

-----------------------------------------------------------------------------
\* The SinkConnector trait: one operator per method, by connector.

Write(c, r) ==
    CASE c.kind = "kafka" -> KafkaWrite(c, r)
      [] c.kind = "postgres" -> PostgresWrite(c, r)
      [] c.kind = "delta" -> DeltaWrite(c, r)
      [] OTHER -> FilesWrite(c, r)

BeginEpoch(c, e) ==
    CASE c.kind = "kafka" -> KafkaBegin(c, e)
      [] c.kind = "postgres" -> PostgresBegin(c, e)
      [] c.kind = "delta" -> DeltaBegin(c, e)
      [] OTHER -> FilesBegin(c, e)

PreCommit(c, e) ==
    CASE c.kind = "kafka" -> KafkaPreCommit(c, e)
      [] c.kind = "postgres" -> PostgresPreCommit(c, e)
      [] c.kind = "delta" -> DeltaPreCommit(c, e)
      [] OTHER -> FilesPreCommit(c, e)

CommitEpoch(c, e) ==
    CASE c.kind = "kafka" -> KafkaCommit(c, e)
      [] c.kind = "postgres" -> PostgresCommit(c, e)
      [] c.kind = "delta" -> DeltaCommit(c, e)
      [] OTHER -> FilesCommit(c, e)

RollbackEpoch(c, e) ==
    CASE c.kind = "kafka" -> KafkaRollback(c, e)
      [] c.kind = "postgres" -> PostgresRollback(c, e)
      [] c.kind = "delta" -> DeltaRollback(c, e)
      [] OTHER -> FilesRollback(c, e)

\* flush() changes what the connector holds for PostgreSQL only.
Flush(c) == IF c.kind = "postgres" THEN PostgresFlush(c) ELSE c

Close(c) ==
    CASE c.kind = "postgres" -> PostgresFlush(c)
      [] c.kind = "delta" -> DeltaClose(c)
      [] OTHER -> c

\* open() of a new process: what the external system has stored survives,
\* open transactions are aborted and .tmp files removed.
Open(c) ==
    [NewConn(c.kind) EXCEPT !.out = c.out, !.mark = c.mark,
                    !.last = IF c.kind \in {"postgres", "delta"}
                             THEN c.mark ELSE 0]

\* The states op(e) may leave behind when it reports a failure of its own.
Failures(op, c, e) ==
    CASE c.kind = "kafka" -> KafkaFailures(op, c, e)
      [] c.kind = "postgres" -> PostgresFailures(op, c, e)
      [] c.kind = "delta" -> DeltaFailures(op, c, e)
      [] OTHER -> FilesFailures(op, c, e)
=============================================================================
