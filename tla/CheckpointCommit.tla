-------------------------- MODULE CheckpointCommit --------------------------
(***************************************************************************)
(* The two-phase commit of a checkpoint: CheckpointCoordinator             *)
(* (checkpoint_coordinator.rs) drives the exactly-once sinks through       *)
(* pre_commit, persists the manifest as the decision record, commits the   *)
(* sinks, records their statuses and begins the next epoch.  Each sink is  *)
(* a task (sink_task.rs) that owns a connector and takes commands from a   *)
(* bounded queue.  The process may crash or be stopped; recovery           *)
(* (recovery_manager.rs, pipeline_lifecycle.rs) restarts it from the       *)
(* manifest.                                                               *)
(*                                                                         *)
(* The pipeline between source and sinks is one step: reading position n   *)
(* sends record n to every sink.  The coordinator's task runs both the     *)
(* pipeline and the checkpoint, so the offset of a checkpoint is pos.      *)
(* Checkpoint ids advance with the epochs, so a manifest is named by its   *)
(* epoch.  The store keeps one manifest, the latest; CheckpointStore has   *)
(* the others.                                                             *)
(***************************************************************************)
EXTENDS SinkConnectors, Sequences, FiniteSets

CONSTANTS N,            \* exactly-once sinks, in registration order
          QueueCap,     \* channel_capacity of a sink task
          MaxEpoch,     \* bound: no checkpoint is started in a later epoch
          MaxFaults,    \* bound on the faults that happen
          Deployments   \* what runs: the connector of each sink, the store
                        \* ("fs": FileSystemCheckpointStore, or "object") and
                        \* the faults its environment may cause

FaultKinds == {"write", "begin", "pre", "commit", "rollback", "preTimeout",
               "commitTimeout", "size", "save", "saveTimeout", "update",
               "updateTimeout", "crash", "stop"}

Sinks == 1..N

ASSUME CommitAssumption ==
    /\ N \in Nat \ {0} /\ QueueCap \in Nat \ {0} /\ MaxEpoch \in Nat
    /\ MaxFaults \in Nat
    /\ Deployments \subseteq [sinks : [Sinks -> Kinds], store : {"fs", "object"},
                               faults : SUBSET FaultKinds]

VARIABLES
    env,       \* the deployment
    pos,       \* the last source position processed
    epoch,     \* CheckpointCoordinator::epoch
    cpc,       \* where the coordinator's task is
    cur,       \* the sink its loop has reached
    ack,       \* the command to that sink: unsent, sent, answered ok or err
    status,    \* sink_statuses of this attempt
    queue,     \* command channel of each sink task
    poisoned,  \* epoch_poisoned of each sink task
    conn,      \* connector of each sink task
    manifest,  \* the latest manifest of the store
    late,      \* store writes whose caller timed out, still running
    faults,    \* faults so far
    floor,     \* offset this process started from
    done       \* offset of its last checkpoint that was reported successful

vars == <<env, pos, epoch, cpc, cur, ack, status, queue, poisoned, conn, manifest,
          late, faults, floor, done>>
coordVars == <<env, pos, epoch, cpc, cur, ack, status, floor, done>>
sinkVars  == <<queue, poisoned, conn>>
storeVars == <<manifest, late>>

Status == {"Pending", "Committed", "Failed"}
Manifest == [epoch : Nat, offset : 0..MaxPos, status : [Sinks -> Status]]
NoManifest == [epoch |-> 0, offset |-> 0, status |-> [s \in Sinks |-> "Pending"]]

Command == [cmd : {"write", "begin", "pre", "commit", "rollback"},
            n : Nat, reply : BOOLEAN]

\* initial_sink_commit_statuses
Pending == [s \in Sinks |-> "Pending"]

MayFail(f) == f \in env.faults /\ faults < MaxFaults
Fault == faults' = faults + 1

\* Variant of Room: the channels are not bounded.
RoomUnbounded(S) == TRUE

Room(S) == \A s \in S : Len(queue[s]) < QueueCap

\* A command for each sink in S.
SendAll(S, c) ==
    queue' = [s \in Sinks |-> IF s \in S THEN Append(queue[s], c) ELSE queue[s]]

WriteCmd(n)    == [cmd |-> "write", n |-> n, reply |-> FALSE]
RollbackCmd(e) == [cmd |-> "rollback", n |-> e, reply |-> FALSE]

\* A caller that stops waiting drops the receiver of the acknowledgment.
DropReply ==
    queue' = [queue EXCEPT ![cur] =
                [i \in 1..Len(@) |-> [@[i] EXCEPT !.reply = FALSE]]]

-----------------------------------------------------------------------------
\* new(), register_sink and recover() of a process: it starts with "down".
Init ==
    /\ env \in Deployments
    /\ pos = 0 /\ epoch = 1 /\ cpc = "down" /\ cur = 1 /\ ack = "unsent"
    /\ status = Pending /\ manifest = NoManifest /\ late = {}
    /\ queue = [s \in Sinks |-> <<>>]
    /\ poisoned = [s \in Sinks |-> FALSE]
    /\ conn = [s \in Sinks |-> NewConn(env.sinks[s])]
    /\ faults = 0 /\ floor = 0 /\ done = 0

\* restore_from's step 5: which sinks recovery rolls back.
ToRollBack == {s \in Sinks : manifest # NoManifest
                              /\ manifest.status[s] # "Committed"}

\* Variants of Restart: the sources do not seek; the manifest's epoch is
\* used again.
RestartSeeking(offset, e) ==
    /\ cpc = "down"
    /\ conn' = [s \in Sinks |-> Open(conn[s])]
    /\ poisoned' = [s \in Sinks |-> FALSE]
    /\ SendAll(ToRollBack, RollbackCmd(manifest.epoch))
    /\ epoch' = e
    /\ pos' = offset /\ floor' = offset /\ done' = offset
    /\ cpc' = "boot" /\ cur' = 1 /\ ack' = "unsent" /\ status' = Pending
    /\ UNCHANGED <<env, storeVars, faults>>

RestartNoSeek    == RestartSeeking(0, manifest.epoch + 1)
RestartSameEpoch ==
    RestartSeeking(manifest.offset, IF manifest = NoManifest THEN 1 ELSE manifest.epoch)

\* Start of a process: the connectors are opened, the epoch follows the
\* manifest's, the sources seek to its offsets, sinks not recorded as
\* committed are rolled back, and the initial epoch begins.
Restart ==
    /\ cpc = "down"
    /\ conn' = [s \in Sinks |-> Open(conn[s])]
    /\ poisoned' = [s \in Sinks |-> FALSE]
    /\ SendAll(ToRollBack, RollbackCmd(manifest.epoch))
    /\ epoch' = manifest.epoch + 1
    /\ pos' = manifest.offset /\ floor' = manifest.offset
    /\ done' = manifest.offset
    /\ cpc' = "boot" /\ cur' = 1 /\ ack' = "unsent" /\ status' = Pending
    /\ UNCHANGED <<env, storeVars, faults>>

\* One record through the pipeline; write_to_sinks.
WriteToSinks ==
    /\ cpc = "idle" /\ pos < MaxPos /\ Room(Sinks)
    /\ pos' = pos + 1
    /\ SendAll(Sinks, WriteCmd(pos + 1))
    /\ UNCHANGED <<env, epoch, cpc, cur, ack, status, poisoned, conn, storeVars,
                   faults, floor, done>>

\* checkpoint_inner up to the pre-commit loop.
StartCheckpoint ==
    /\ cpc = "idle" /\ epoch <= MaxEpoch
    /\ cpc' = "pre" /\ cur' = 1 /\ ack' = "unsent" /\ status' = Pending
    /\ UNCHANGED <<env, pos, epoch, sinkVars, storeVars, faults, floor, done>>

\* The command the coordinator sends to the sink its loop has reached.
Send ==
    /\ cpc \in {"pre", "commit", "begin", "boot"} /\ ack = "unsent"
    /\ Room({cur})
    /\ SendAll({cur}, [cmd |-> IF cpc = "boot" THEN "begin" ELSE cpc,
                       n |-> epoch, reply |-> TRUE])
    /\ ack' = "sent"
    /\ UNCHANGED <<env, pos, epoch, cpc, cur, status, poisoned, conn, storeVars,
                   faults, floor, done>>

\* The loop goes to the next sink, or on to the step "then".
NextSink(then) ==
    /\ cur' = IF cur < N THEN cur + 1 ELSE 1
    /\ cpc' = IF cur < N THEN cpc ELSE then
    /\ ack' = "unsent"

ToIdle == cpc' = "idle" /\ cur' = 1 /\ ack' = "unsent"

PreCommitted ==
    /\ cpc = "pre" /\ ack = "ok"
    /\ NextSink("persist")
    /\ UNCHANGED <<env, pos, epoch, status, sinkVars, storeVars, faults, floor, done>>

\* Variant of PreCommitFailed: the loop tries the sink again.
PreCommitFailedRetries ==
    /\ cpc = "pre" /\ ack = "err"
    /\ ack' = "unsent"
    /\ UNCHANGED <<env, pos, epoch, cpc, cur, status, sinkVars, storeVars, faults, floor, done>>

\* A sink refused, or the size check did: nothing is rolled back.
PreCommitFailed ==
    /\ cpc = "pre" /\ ack = "err"
    /\ ToIdle
    /\ UNCHANGED <<env, pos, epoch, status, sinkVars, storeVars, faults, floor, done>>

PreCommitTimeout ==
    /\ cpc = "pre" /\ MayFail("preTimeout") /\ Fault
    /\ DropReply /\ ToIdle
    /\ UNCHANGED <<env, pos, epoch, status, poisoned, conn, storeVars, floor, done>>

SizeRejected ==
    /\ cpc = "persist" /\ MayFail("size") /\ Fault
    /\ ToIdle
    /\ UNCHANGED <<env, pos, epoch, status, sinkVars, storeVars, floor, done>>

\* The manifest of this attempt.
Current(st) == [epoch |-> epoch, offset |-> pos, status |-> st]

\* save: an object store does not overwrite a manifest that exists.
Saved(m) == IF env.store = "object" /\ manifest.epoch = m.epoch THEN manifest ELSE m

\* update_manifest: in a file system it is save, which also moves the latest
\* pointer; an object store overwrites that manifest only.
Updated(m) == IF env.store = "object" /\ manifest.epoch # m.epoch THEN manifest ELSE m

SaveManifest ==
    /\ cpc = "persist"
    /\ manifest' = Saved(Current(Pending))
    /\ cpc' = "commit" /\ cur' = 1 /\ ack' = "unsent"
    /\ UNCHANGED <<env, pos, epoch, status, sinkVars, late, faults, floor, done>>

\* save failed, before or after the manifest was in place: roll back.
SaveFailed ==
    /\ cpc = "persist" /\ MayFail("save") /\ Fault /\ Room(Sinks)
    /\ manifest' \in {manifest, Saved(Current(Pending))}
    /\ SendAll(Sinks, RollbackCmd(epoch)) /\ ToIdle
    /\ UNCHANGED <<env, pos, epoch, status, poisoned, conn, late, floor, done>>

\* persist_timeout elapsed; the blocking task goes on.
SaveTimeout ==
    /\ cpc = "persist" /\ MayFail("saveTimeout") /\ Fault /\ Room(Sinks)
    /\ late' = late \cup {[op |-> "save", m |-> Current(Pending)]}
    /\ SendAll(Sinks, RollbackCmd(epoch)) /\ ToIdle
    /\ UNCHANGED <<env, pos, epoch, status, poisoned, conn, manifest, floor, done>>

LateWrite ==
    \E w \in late :
        /\ late' = late \ {w}
        /\ manifest' = IF w.op = "save" THEN Saved(w.m) ELSE Updated(w.m)
        /\ UNCHANGED <<coordVars, sinkVars, faults>>

\* Variant of SinkAnswered: the answer is not looked at.
SinkAnsweredIgnored ==
    /\ cpc = "commit" /\ ack \in {"ok", "err"}
    /\ status' = [status EXCEPT ![cur] = "Committed"]
    /\ NextSink("update")
    /\ UNCHANGED <<env, pos, epoch, sinkVars, storeVars, faults, floor, done>>

\* commit_sinks_inner: every sink is attempted, each status is recorded.
SinkAnswered ==
    /\ cpc = "commit" /\ ack \in {"ok", "err"}
    /\ status' = [status EXCEPT ![cur] = IF ack = "ok" THEN "Committed"
                                                       ELSE "Failed"]
    /\ NextSink("update")
    /\ UNCHANGED <<env, pos, epoch, sinkVars, storeVars, faults, floor, done>>

\* commit_timeout covers the whole loop and marks every sink failed.
CommitTimeout ==
    /\ cpc = "commit" /\ MayFail("commitTimeout") /\ Fault
    /\ DropReply
    /\ status' = [s \in Sinks |-> "Failed"]
    /\ cpc' = "update" /\ cur' = 1 /\ ack' = "unsent"
    /\ UNCHANGED <<env, pos, epoch, poisoned, conn, storeVars, floor, done>>

\* After the update of the manifest: success advances the epoch, a failed
\* sink leaves it.
Conclude ==
    IF \E s \in Sinks : status[s] = "Failed"
    THEN ToIdle /\ UNCHANGED <<epoch, done>>
    ELSE /\ epoch' = epoch + 1 /\ done' = pos
         /\ cpc' = "begin" /\ cur' = 1 /\ ack' = "unsent"

UpdateManifest ==
    /\ cpc = "update"
    /\ manifest' = Updated(Current(status))
    /\ Conclude
    /\ UNCHANGED <<env, pos, status, sinkVars, late, faults, floor>>

UpdateFailed ==
    /\ cpc = "update" /\ MayFail("update") /\ Fault
    /\ manifest' \in {manifest, Updated(Current(status))}
    /\ Conclude
    /\ UNCHANGED <<env, pos, status, sinkVars, late, floor>>

UpdateTimeout ==
    /\ cpc = "update" /\ MayFail("updateTimeout") /\ Fault
    /\ late' = late \cup {[op |-> "update", m |-> Current(status)]}
    /\ Conclude
    /\ UNCHANGED <<env, pos, status, sinkVars, manifest, floor>>

\* begin_epoch_for_sinks.
Began ==
    /\ cpc \in {"begin", "boot"} /\ ack = "ok"
    /\ NextSink("idle")
    /\ UNCHANGED <<env, pos, epoch, status, sinkVars, storeVars, faults, floor, done>>

\* The sinks that had begun are rolled back.  At start-up the process gives
\* up; after a checkpoint it goes on without a transaction.
BeginFailed ==
    /\ cpc \in {"begin", "boot"} /\ ack = "err" /\ Room(1..(cur - 1))
    /\ SendAll(1..(cur - 1), RollbackCmd(epoch))
    /\ cpc' = IF cpc = "boot" THEN "stopping" ELSE "idle"
    /\ cur' = 1 /\ ack' = "unsent"
    /\ UNCHANGED <<env, pos, epoch, status, poisoned, conn, storeVars, faults,
                   floor, done>>

-----------------------------------------------------------------------------
\* run_sink_task: one command from the queue.

\* A connector operation returns what its code does, or fails on its own.
Outcomes(op, c, n) ==
    LET normal == CASE op = "write"    -> Write(c, n)
                    [] op = "begin"    -> BeginEpoch(c, n)
                    [] op = "pre"      -> PreCommit(c, n)
                    [] op = "commit"   -> CommitEpoch(c, n)
                    [] op = "rollback" -> RollbackEpoch(c, n)
    IN  {[fault |-> 0, ok |-> normal.ok, c |-> normal.c]} \cup
        (IF MayFail(op)
         THEN {[fault |-> 1, ok |-> FALSE, c |-> d] : d \in Failures(op, c, n)}
         ELSE {})

\* Variant of Run: epoch_poisoned is not checked.
RunUnchecked(s, h) == Outcomes(h.cmd, conn[s], h.n)

\* A poisoned epoch is neither pre-committed nor committed.
Run(s, h) ==
    IF h.cmd \in {"pre", "commit"} /\ poisoned[s]
    THEN {[fault |-> 0, ok |-> FALSE, c |-> conn[s]]}
    ELSE Outcomes(h.cmd, conn[s], h.n)

\* Variant of PoisonedAfter: a failed write is only logged.
PoisonedNever(s, h, ok) == FALSE

PoisonedAfter(s, h, ok) ==
    CASE h.cmd = "write" /\ ~ok -> TRUE
      [] h.cmd = "begin" /\ ok  -> FALSE
      [] OTHER                  -> poisoned[s]

SinkStep(s) ==
    /\ cpc # "down" /\ queue[s] # <<>>
    /\ LET h == Head(queue[s]) IN
       \E o \in Run(s, h) :
          /\ conn' = [conn EXCEPT ![s] = o.c]
          /\ poisoned' = [poisoned EXCEPT ![s] = PoisonedAfter(s, h, o.ok)]
          /\ ack' = IF h.reply THEN (IF o.ok THEN "ok" ELSE "err") ELSE ack
          /\ faults' = faults + o.fault
    /\ queue' = [queue EXCEPT ![s] = Tail(@)]
    /\ UNCHANGED <<env, pos, epoch, cpc, cur, status, storeVars, floor, done>>

\* The flush timer of a sink task.
FlushTick(s) ==
    /\ cpc # "down" /\ Flush(conn[s]) # conn[s]
    /\ conn' = [conn EXCEPT ![s] = Flush(@)]
    /\ UNCHANGED <<coordVars, queue, poisoned, storeVars, faults>>

\* The handles are dropped: the tasks work off their queues, then flush and
\* close their connectors.
Stop ==
    /\ cpc = "idle" /\ MayFail("stop") /\ Fault
    /\ cpc' = "stopping"
    /\ UNCHANGED <<env, pos, epoch, cur, ack, status, sinkVars, storeVars, floor, done>>

Stopped ==
    /\ cpc = "stopping" /\ \A s \in Sinks : queue[s] = <<>>
    /\ conn' = [s \in Sinks |-> Close(Flush(conn[s]))]
    /\ cpc' = "down" /\ late' = {}
    /\ UNCHANGED <<env, pos, epoch, cur, ack, status, queue, poisoned, manifest,
                   faults, floor, done>>

Crash ==
    /\ cpc # "down" /\ MayFail("crash") /\ Fault
    /\ cpc' = "down" /\ cur' = 1 /\ ack' = "unsent"
    /\ queue' = [s \in Sinks |-> <<>>] /\ late' = {}
    /\ UNCHANGED <<env, pos, epoch, status, poisoned, conn, manifest, floor, done>>

\* Within the bounds there is nothing left to do: the loop waits.
AtBounds ==
    /\ cpc = "idle" /\ pos = MaxPos /\ epoch > MaxEpoch
    /\ UNCHANGED vars

-----------------------------------------------------------------------------
CoordinatorStep ==
    \/ Send \/ PreCommitted \/ PreCommitFailed \/ SaveManifest
    \/ SinkAnswered \/ UpdateManifest \/ Began \/ BeginFailed

FaultStep ==
    \/ PreCommitTimeout \/ SizeRejected \/ SaveFailed \/ SaveTimeout
    \/ CommitTimeout \/ UpdateFailed \/ UpdateTimeout \/ Stop \/ Crash

Next ==
    \/ Restart \/ WriteToSinks \/ StartCheckpoint \/ CoordinatorStep
    \/ FaultStep \/ LateWrite \/ Stopped \/ AtBounds
    \/ \E s \in Sinks : SinkStep(s) \/ FlushTick(s)

Spec == Init /\ [][Next]_vars

\* The coordinator's task and the sink tasks are scheduled by tokio, and the
\* checkpoint timer keeps asking for checkpoints.
Fairness ==
    /\ WF_vars(CoordinatorStep) /\ WF_vars(Restart) /\ WF_vars(Stopped)
    /\ \A s \in Sinks : WF_vars(SinkStep(s))
    /\ SF_vars(StartCheckpoint)

FairSpec == Spec /\ Fairness

-----------------------------------------------------------------------------
\* Type invariant, with the bound of the queues.
TypeOK ==
    /\ env \in Deployments
    /\ pos \in 0..MaxPos /\ epoch \in Nat \ {0}
    /\ cpc \in {"down", "boot", "idle", "pre", "persist", "commit", "update",
               "begin", "stopping"}
    /\ cur \in Sinks /\ ack \in {"unsent", "sent", "ok", "err"}
    /\ status \in [Sinks -> Status]
    /\ queue \in [Sinks -> Seq(Command)]
    /\ \A s \in Sinks : Len(queue[s]) <= QueueCap
    /\ poisoned \in [Sinks -> BOOLEAN] /\ conn \in [Sinks -> Conn]
    /\ manifest \in Manifest
    /\ late \subseteq [op : {"save", "update"}, m : Manifest]
    /\ faults \in 0..MaxFaults /\ floor \in 0..MaxPos /\ done \in 0..MaxPos

\* No record is visible twice in a sink, whatever fails and whenever the
\* process restarts: what is replayed from the manifest's offset was never
\* committed.
AtMostOnce == \A s \in Sinks : \A r \in Records : conn[s].out[r] <= 1

\* The manifest is the decision record: a sink whose pre_commit leaves the
\* transaction open shows nothing that the persisted offset does not cover.
\* (PostgreSQL's writes in pre_commit.)
ManifestFirst ==
    \A s \in Sinks : conn[s].kind # "postgres"
                        => Shown(conn[s]) \subseteq 1..manifest.offset

\* A sink never shows a record while an earlier one of the same process is
\* missing: a write that failed or was rolled back keeps every later record
\* of the sink out as well, until a restart replays it.
NoHoles ==
    \A s \in Sinks : \A r \in Shown(conn[s]) :
        r > floor => (floor + 1)..r \subseteq Shown(conn[s])

\* A checkpoint reported as successful has made every record up to its offset
\* visible in every sink.
SuccessCovers == \A s \in Sinks : (floor + 1)..done \subseteq Shown(conn[s])

\* Recovery leaves a sink alone when the manifest records it as committed:
\* then its records up to the manifest's offset are visible.
CommittedIsVisible ==
    \A s \in Sinks : manifest.status[s] = "Committed"
                        => (floor + 1)..manifest.offset \subseteq Shown(conn[s])

\* Epoch numbers are not reused: neither a checkpoint nor a restart goes back
\* to an earlier epoch.
EpochNeverRegresses == [][epoch' >= epoch]_vars

\* A checkpoint that was started ends, in success or failure.
CheckpointEnds ==
    cpc \in {"pre", "persist", "commit", "update", "begin"}
        ~> cpc \in {"idle", "down"}

\* Failures before the commit phase, crashes and shutdowns are made good: when
\* the sinks end up in the epoch's transaction between checkpoints (Kafka), no
\* failed attempt keeps the following ones from committing every epoch.
InTransaction ==
    cpc = "idle" => \A s \in Sinks : ~poisoned[s] /\ conn[s].txn = "open"
                                        /\ conn[s].epoch = epoch
EpochsCommit == <>[]InTransaction => <>(epoch > MaxEpoch)

-----------------------------------------------------------------------------
\* connector.rs, DeliveryGuarantee::ExactlyOnce: "no duplicates or losses".
\* What recovery does not replay is visible.  The code does not keep this.
NoLoss == cpc = "idle" => \A s \in Sinks : 1..floor \subseteq Shown(conn[s])
=============================================================================
