-------------------------- MODULE CheckpointStore --------------------------
(***************************************************************************)
(* How a checkpoint reaches durable storage and comes back: the writes of  *)
(* save_with_state and update_manifest on the filesystem store and on the  *)
(* object store, one action per durable write, a crash possible between    *)
(* any two of them, and RecoveryManager::recover, which chooses what a new *)
(* process starts from.                                                    *)
(*                                                                         *)
(* A snapshot is a version number: its source offsets go in the manifest,  *)
(* its operator state in the manifest too (size 0: below the inline        *)
(* threshold) or in the sidecar state.bin.  A checksum is the version of   *)
(* the bytes it was computed from, and version 0 stands for damaged bytes. *)
(***************************************************************************)
EXTENDS Naturals, FiniteSets, FiniteSetsExt

CONSTANTS MaxId,         \* bound on checkpoint ids
          MaxVer,        \* bound on snapshots taken
          MaxCrashes,    \* bound on crashes
          MaxFaults,     \* bound on errors of the store and the sinks
          Deployments    \* the stores and environments considered

Stores == {"fs", "object", "overwrite"}
Faults == {"error", "commit", "damage"}

\* "overwrite" is the object store on a backend without conditional PUT;
\* twoPhase: some sink is exactly-once; keep: max_retained.
ASSUME StoreAssumption ==
    /\ MaxId \in Nat /\ MaxVer \in Nat
    /\ MaxCrashes \in Nat /\ MaxFaults \in Nat
    /\ Deployments \subseteq [store : Stores, twoPhase : BOOLEAN,
                              keep : Nat \ {0}, faults : SUBSET Faults]

Ids == 1..MaxId
Sizes == 0..2            \* of the external operator state

NoFile == [file |-> FALSE]

VARIABLES env,        \* the deployment
          dirs,       \* checkpoint directories (filesystem)
          manifest,   \* id -> manifest.json: ver, size, checksum, and ok (it parses)
          sidecar,    \* id -> state.bin: ver, size
          latest,     \* latest.txt / latest.json, 0 when absent
          pc,         \* the next durable write of the checkpoint under way
          job,        \* that checkpoint
          nextId,     \* next_checkpoint_id
          ver,        \* snapshots taken so far
          acked,      \* snapshots whose save returned Ok
          recovered,  \* what the current process started from
          crashes, faults, damaged

vars == <<env, dirs, manifest, sidecar, latest, pc, job, nextId, ver, acked,
          recovered, crashes, faults, damaged>>

store == <<dirs, manifest, sidecar, latest>>

\* update: the write is update_manifest; commit: the sinks committed.
NoJob == [id |-> 0, ver |-> 0, size |-> 0, checksum |-> 0,
          update |-> FALSE, commit |-> FALSE]

Fresh == [offset |-> 0, state |-> 0]

Init ==
    /\ env \in Deployments
    /\ dirs = {} /\ latest = 0
    /\ manifest = [i \in Ids |-> NoFile]
    /\ sidecar = [i \in Ids |-> NoFile]
    /\ pc = "down" /\ job = NoJob
    /\ nextId = 1 /\ ver = 0 /\ acked = {}
    /\ recovered = Fresh
    /\ crashes = 0 /\ faults = 0 /\ damaged = 0

-----------------------------------------------------------------------------
\* Reading a store.

Exists(i) == i \in Ids /\ manifest[i] # NoFile
Loads(i) == Exists(i) /\ manifest[i].ok

\* The ids prune and recover_latest_validated enumerate: directories on the
\* filesystem, whatever they hold, and manifests on an object store.
ListIds == IF env.store = "fs" THEN dirs ELSE {i \in Ids : Exists(i)}

\* validate_checkpoint of a manifest that loads: a checksum must match.
\* A variant does not read the sidecar.
ValidNoChecksum(i) == TRUE

Valid(i) ==
    manifest[i].checksum # 0 =>
        /\ sidecar[i] # NoFile
        /\ sidecar[i].ver = manifest[i].checksum

\* resolve_external_states: the sidecar is there and long enough.  In strict
\* mode a failure makes the checkpoint unusable.
Resolves(i) ==
    manifest[i].size > 0 =>
        /\ sidecar[i] # NoFile
        /\ sidecar[i].size >= manifest[i].size

Usable(i) == Loads(i) /\ Valid(i) /\ Resolves(i)

Restored(i) ==
    [offset |-> manifest[i].ver,
     state |-> IF manifest[i].size > 0 THEN sidecar[i].ver ELSE manifest[i].ver]

\* RecoveryManager::recover: the id it restores, 0 for a fresh start.  Only a
\* latest manifest that is there and fails leads to the older ones.  Variants:
\* the failure of the latest one means a fresh start; the fallback tries the
\* oldest one first.
RecoverLatestOnly == IF latest # 0 /\ Usable(latest) THEN latest ELSE 0

RecoverOldest ==
    LET good == {i \in ListIds : Usable(i)}
    IN  CASE latest = 0 \/ ~Exists(latest) -> 0
          [] Exists(latest) /\ Usable(latest) -> latest
          [] OTHER -> IF good = {} THEN 0 ELSE Min(good)

Recover ==
    LET good == {i \in ListIds : Usable(i)}
    IN  CASE latest = 0 \/ ~Exists(latest) -> 0
          [] Exists(latest) /\ Usable(latest) -> latest
          [] OTHER -> IF good = {} THEN 0 ELSE Max(good)

-----------------------------------------------------------------------------
\* A checkpoint of the coordinator.

Idle == pc' = "idle" /\ job' = NoJob

\* create_dir_all comes before the file is written.
MkDir(i) == IF env.store = "fs" THEN dirs \cup {i} ELSE dirs

\* pack_operator_states decides what goes in the sidecar, whose checksum is
\* computed from the bytes in memory.  (Failures of the steps before the save
\* leave the store alone.)
StartSave ==
    /\ pc = "idle" /\ ver < MaxVer /\ nextId <= MaxId
    /\ ver' = ver + 1
    /\ \E size \in Sizes :
        /\ job' = [id |-> nextId, ver |-> ver + 1, size |-> size,
                   checksum |-> IF size > 0 THEN ver + 1 ELSE 0,
                   update |-> FALSE, commit |-> FALSE]
        /\ pc' = IF size > 0 THEN "sidecar" ELSE "manifest"
    /\ dirs' = MkDir(nextId)
    /\ UNCHANGED <<env, manifest, sidecar, latest, nextId, acked, recovered,
                   crashes, faults, damaged>>

\* save_state_data: temporary file, fsync, rename; or one PUT.
WriteSidecar ==
    /\ pc = "sidecar"
    /\ sidecar' = [sidecar EXCEPT ![job.id] = [ver |-> job.ver, size |-> job.size]]
    /\ pc' = "manifest"
    /\ UNCHANGED <<env, dirs, manifest, latest, job, nextId, ver, acked,
                   recovered, crashes, faults, damaged>>

\* The end of a write the coordinator waits for.  After save_with_state the
\* sinks commit; after update_manifest, done or failed, the coordinator
\* advances iff every sink committed.
Advanced == IF job.commit THEN nextId + 1 ELSE nextId

WriteReturns(ok) ==
    \/ /\ job.update
       /\ Idle /\ nextId' = Advanced
       /\ UNCHANGED acked
    \/ /\ ~job.update /\ ok
       /\ pc' = "commit" /\ acked' = acked \cup {job.ver}
       /\ UNCHANGED <<job, nextId>>
    \/ /\ ~job.update /\ ~ok
       /\ Idle
       /\ UNCHANGED <<nextId, acked>>

\* The manifest: renamed over the old one on the filesystem.  The object
\* store's save creates it and reports success when it is there already; its
\* update_manifest overwrites it and writes nothing else.
WriteManifest ==
    /\ pc = "manifest"
    /\ manifest' =
           IF env.store = "object" /\ ~job.update /\ Exists(job.id)
           THEN manifest
           ELSE [manifest EXCEPT ![job.id] =
                     [ver |-> job.ver, size |-> job.size,
                      checksum |-> job.checksum, ok |-> TRUE]]
    /\ IF env.store # "fs" /\ job.update
       THEN WriteReturns(TRUE)
       ELSE pc' = "latest" /\ UNCHANGED <<job, nextId, acked>>
    /\ UNCHANGED <<env, dirs, sidecar, latest, ver, recovered, crashes, faults,
                   damaged>>

WriteLatest ==
    /\ pc = "latest"
    /\ latest' = job.id /\ pc' = "prune"
    /\ UNCHANGED <<env, dirs, manifest, sidecar, job, nextId, ver, acked,
                   recovered, crashes, faults, damaged>>

\* The ids prune removes: all but the keep highest.  A variant keeps the
\* lowest.
OutdatedHighest(ids) == {i \in ids : Cardinality({j \in ids : j < i}) >= env.keep}

Outdated(ids) == {i \in ids : Cardinality({j \in ids : j > i}) >= env.keep}

\* prune removes a checkpoint file by file and ignores what it cannot remove.
Prune ==
    /\ pc = "prune"
    /\ \E m \in SUBSET Outdated(ListIds), s \in SUBSET Outdated(ListIds) :
        /\ manifest' = [i \in Ids |-> IF i \in m THEN NoFile ELSE manifest[i]]
        /\ sidecar' = [i \in Ids |-> IF i \in s THEN NoFile ELSE sidecar[i]]
        /\ dirs' = dirs \ (m \cap s)
    /\ WriteReturns(TRUE)
    /\ UNCHANGED <<env, latest, ver, recovered, crashes, faults, damaged>>

\* An error of the next write, or of the fsync after the one before.
WriteFails ==
    /\ "error" \in env.faults /\ faults < MaxFaults
    /\ pc \in {"sidecar", "manifest", "latest", "prune"}
    /\ faults' = faults + 1
    /\ WriteReturns(FALSE)
    /\ UNCHANGED <<env, store, ver, recovered, crashes, damaged>>

\* commit_sinks_tracked, then update_manifest with the coordinator's own copy
\* of the manifest, in which save_with_state did not set the checksum.  Without
\* exactly-once sinks there is nothing to commit or to update.
CommitSinks ==
    /\ pc = "commit"
    /\ \/ /\ ~env.twoPhase
          /\ Idle /\ nextId' = nextId + 1
          /\ UNCHANGED <<dirs, faults>>
       \/ /\ env.twoPhase
          /\ \E ok \in BOOLEAN :
              /\ ok \/ ("commit" \in env.faults /\ faults < MaxFaults)
              /\ job' = [job EXCEPT !.update = TRUE, !.commit = ok,
                                    !.checksum = 0]
              /\ faults' = IF ok THEN faults ELSE faults + 1
          /\ pc' = "manifest" /\ dirs' = MkDir(job.id)
          /\ UNCHANGED nextId
    /\ UNCHANGED <<env, manifest, sidecar, latest, ver, acked, recovered,
                   crashes, damaged>>

-----------------------------------------------------------------------------
\* Crash, restart, and what happens to the files in between.

Crash ==
    /\ pc # "down" /\ crashes < MaxCrashes
    /\ crashes' = crashes + 1
    /\ pc' = "down" /\ job' = NoJob /\ nextId' = 1
    /\ UNCHANGED <<env, store, ver, acked, recovered, faults, damaged>>

\* CheckpointCoordinator::new continues after the latest manifest that loads,
\* recover after the checkpoint it restored.
Restart ==
    /\ pc = "down"
    /\ Idle
    /\ recovered' = IF Recover = 0 THEN Fresh ELSE Restored(Recover)
    /\ nextId' = CASE Recover # 0 -> Recover + 1
                   [] Recover = 0 /\ Loads(latest) -> latest + 1
                   [] OTHER -> 1
    /\ UNCHANGED <<env, store, ver, acked, crashes, faults, damaged>>

\* A file loses its contents.  Files are read at a restart only, so damaging
\* them while the process is down is enough.
Damage ==
    /\ pc = "down" /\ "damage" \in env.faults /\ damaged = 0
    /\ damaged' = 1
    /\ \E i \in Ids :
        \/ /\ Exists(i)
           /\ manifest' = [manifest EXCEPT ![i].ok = FALSE]
           /\ UNCHANGED sidecar
        \/ /\ sidecar[i] # NoFile
           /\ sidecar' = [sidecar EXCEPT ![i].ver = 0]
           /\ UNCHANGED manifest
    /\ UNCHANGED <<env, dirs, latest, pc, job, nextId, ver, acked, recovered,
                   crashes, faults>>

\* The server's --validate-checkpoints: cleanup_orphans removes sidecars, on
\* the filesystem their directories, that have no manifest.
Orphans == {i \in Ids : sidecar[i] # NoFile /\ ~Exists(i)}

CleanupOrphans ==
    /\ pc = "down" /\ Orphans # {}
    /\ sidecar' = [i \in Ids |-> IF i \in Orphans THEN NoFile ELSE sidecar[i]]
    /\ dirs' = dirs \ Orphans
    /\ UNCHANGED <<env, manifest, latest, pc, job, nextId, ver, acked,
                   recovered, crashes, faults, damaged>>

\* The bounds are reached: the process runs on without checkpoints.
NoMoreCheckpoints ==
    /\ pc = "idle" /\ (ver = MaxVer \/ nextId > MaxId)
    /\ UNCHANGED vars

Next ==
    \/ StartSave \/ WriteSidecar \/ WriteManifest \/ WriteLatest \/ Prune
    \/ WriteFails \/ CommitSinks
    \/ Crash \/ Restart \/ Damage \/ CleanupOrphans
    \/ NoMoreCheckpoints

Spec == Init /\ [][Next]_vars

-----------------------------------------------------------------------------
\* Properties.

\* A process starts from the offsets and the operator state of one snapshot,
\* whatever was cut short or damaged (save_with_state writes the sidecar
\* first, recovery validates checksums and falls back).
OneSnapshot == recovered.offset = recovered.state

\* The pointer names a checkpoint whose manifest is there: neither pruning nor
\* the reuse of an id after a fallback removes it.  Recovery starts fresh, with
\* no fallback, when it is missing (load_latest returns None).
LatestKept == latest # 0 => Exists(latest)

Starts == pc = "down" /\ pc' # "down"

\* A snapshot whose save returned Ok (the sinks may commit on it) is not lost:
\* while no file is damaged a restart recovers it or a newer one.  Of the
\* object store this is claimed where the manifest can be overwritten.
AckedSurvives ==
    [][Starts /\ damaged = 0 /\ env.store # "object" =>
           \A v \in acked : recovered'.offset >= v]_vars

\* One damaged file costs at most the newest acknowledged snapshot: a restart
\* recovers it or the one before (the fallback of RecoveryManager::recover).
DamageCostsOne ==
    [][Starts => \A v, w \in acked :
           v < w /\ env.store # "object" => recovered'.offset >= v]_vars
=============================================================================
