------------------------- MODULE SnapshotLifecycle -------------------------
(***************************************************************************)
(* The per-run policy snapshot, from the rule store to the hook library:   *)
(* the daemon collects the inputs (PrepareSnapshotInputs), the CLI builds  *)
(* and signs the bytes, the daemon verifies and publishes them             *)
(* (PublishSignedSnapshot) as runs/<uuid>.cbor and runs/<uuid>.manifest    *)
(* and records the run, the CLI spawns the wrapped root, the hook loads    *)
(* manifest and snapshot, and the sweep thread (gc_sweep) removes them.    *)
(*                                                                         *)
(* The steps of one request are not atomic with respect to each other, to  *)
(* the sweep, to edits of the rule store or to a crash of the daemon.  A   *)
(* daemon that crashes is restarted by launchd with empty memory and the   *)
(* same files.  Snapshot bytes are a function of the collected inputs, and *)
(* run_uuids are fresh, so a run names its snapshot.                       *)
(***************************************************************************)
EXTENDS Naturals, FiniteSets

CONSTANTS
    Runs,         \* run_uuids, one per `stt-guard wrap`
    MaxEdits,     \* bound: edits of each table of the rule store
    MaxCrashes,   \* bound: crashes of the daemon
    MaxIoErrors   \* bound: file removals of the sweep that fail

None == "none"

ASSUME RunsAssumption == Runs # {} /\ Runs \cap {None, "fail_closed"} = {}
ASSUME BoundsAssumption == MaxEdits \in Nat /\ MaxCrashes \in Nat /\ MaxIoErrors \in Nat

VARIABLES
    disabled, rules,   \* contents of the rule store, as versions; 0 is empty
    cli,               \* phase of each run's CLI
    input,             \* what the daemon has collected for each run
    signed,            \* the snapshot each CLI signed
    worker,            \* where the request of each run is in the daemon
    pending,           \* pending_snapshot_inputs, and which of them outlived the TTL
    records,           \* ProcessTree.runs; "unbound" while tracked_root is zero
    cbor, manifest,    \* runs/<uuid>.cbor and runs/<uuid>.manifest
    sweep,             \* the sweep thread
    root,              \* the wrapped root process of each run
    held,              \* runs whose root's pid names a live process
    hook, loader,      \* what the latest hook loaded; the manifest one is loading
    crashes, ioErrors

storeVars  == <<disabled, rules>>
clientVars == <<cli, signed>>
daemonVars == <<input, worker, pending, records>>
fileVars   == <<cbor, manifest>>
procVars   == <<root, held>>
hookVars   == <<hook, loader>>
vars == <<storeVars, clientVars, daemonVars, fileVars, sweep, procVars, hookVars, crashes,
          ioErrors>>

Versions == 0 .. MaxEdits
Policies == [run : Runs, disabled : Versions, rules : Versions]
Absent   == [run |-> None, disabled |-> 0, rules |-> 0]
MaybePolicy == Policies \cup {Absent}
FailClosed  == [run |-> "fail_closed", disabled |-> 0, rules |-> 0]

CliPhases == {"new", "wait_inputs", "signing", "wait_publish", "ok", "spawned", "running",
              "failed"}
WorkerPhases == {"idle", "disabled", "rules", "take", "snapshot", "manifest", "record"}
SweepPhases  == {"idle", "next", "snapshot", "manifest", "record"}

TypeOK ==
    /\ disabled \in Versions /\ rules \in Versions
    /\ cli \in [Runs -> CliPhases]
    /\ input \in [Runs -> MaybePolicy]
    /\ signed \in [Runs -> MaybePolicy]
    /\ worker \in [Runs -> WorkerPhases]
    /\ pending \in [Runs -> {None, "fresh", "old"}]
    /\ records \in [Runs -> {None, "unbound", "bound"}]
    /\ cbor \in [Runs -> MaybePolicy]
    /\ manifest \in [Runs -> MaybePolicy]
    /\ sweep \in [phase : SweepPhases, todo : SUBSET Runs, run : Runs,
                  why : {None, "orphan", "dead"}]
    /\ sweep.phase \in {"snapshot", "manifest", "record"} => sweep.why # None
    /\ root \in [Runs -> {None, "alive", "dead"}]
    /\ held \subseteq Runs
    /\ hook \in [Runs -> MaybePolicy \cup {FailClosed}]
    /\ loader \in [Runs -> MaybePolicy]
    /\ crashes \in 0 .. MaxCrashes /\ ioErrors \in 0 .. MaxIoErrors

Init ==
    /\ disabled = 0 /\ rules = 0
    /\ cli = [r \in Runs |-> "new"]
    /\ input = [r \in Runs |-> Absent] /\ signed = [r \in Runs |-> Absent]
    /\ worker = [r \in Runs |-> "idle"]
    /\ pending = [r \in Runs |-> None]
    /\ records = [r \in Runs |-> None]
    /\ cbor = [r \in Runs |-> Absent] /\ manifest = [r \in Runs |-> Absent]
    /\ sweep \in [phase : {"idle"}, todo : {{}}, run : Runs, why : {None}]
    /\ root = [r \in Runs |-> None] /\ held = {}
    /\ hook = [r \in Runs |-> Absent] /\ loader = [r \in Runs |-> Absent]
    /\ crashes = 0 /\ ioErrors = 0

-----------------------------------------------------------------------------
(* The rule store is edited by other CLIs. *)

DisableCurated ==
    /\ disabled < MaxEdits
    /\ disabled' = disabled + 1
    /\ UNCHANGED <<rules, clientVars, daemonVars, fileVars, sweep, procVars, hookVars, crashes,
                   ioErrors>>

InsertRule ==
    /\ rules < MaxEdits
    /\ rules' = rules + 1
    /\ UNCHANGED <<disabled, clientVars, daemonVars, fileVars, sweep, procVars, hookVars,
                   crashes, ioErrors>>

-----------------------------------------------------------------------------
(* PrepareSnapshotInputs. *)

\* A request of the CLI, and a reply that makes it go on or fail.
Ask(r, c, w) == cli' = [cli EXCEPT ![r] = c] /\ worker' = [worker EXCEPT ![r] = w]

ReplyTo(r, from, to) ==
    /\ worker' = [worker EXCEPT ![r] = "idle"]
    /\ cli' = [cli EXCEPT ![r] = IF @ = from THEN to ELSE @]

\* prune_pending_snapshot_inputs.
Pruned == [q \in Runs |-> IF pending[q] = "old" THEN None ELSE pending[q]]

PrepareSnapshotInputs(r) ==
    /\ cli[r] = "new"
    /\ Ask(r, "wait_inputs", "disabled")
    /\ UNCHANGED <<storeVars, signed, input, pending, records, fileVars, sweep, procVars,
                   hookVars, crashes, ioErrors>>

\* disabled_curated_patterns; a read that fails counts as nothing disabled.
ReadDisabled(r) ==
    /\ worker[r] = "disabled"
    /\ worker' = [worker EXCEPT ![r] = "rules"]
    /\ pending' = Pruned
    /\ \E d \in {disabled, 0} :
          input' = [input EXCEPT ![r] = [run |-> r, disabled |-> d, rules |-> 0]]
    /\ UNCHANGED <<storeVars, clientVars, records, fileVars, sweep, procVars, hookVars,
                   crashes, ioErrors>>

\* all_verified_user_rules and the reply; a verification failure is an error.
ReadRules(r) ==
    /\ worker[r] = "rules"
    /\ \/ /\ input' = [input EXCEPT ![r] = [run |-> r, disabled |-> input[r].disabled,
                                             rules |-> rules]]
          /\ pending' = [pending EXCEPT ![r] = "fresh"]
          /\ ReplyTo(r, "wait_inputs", "signing")
       \/ /\ ReplyTo(r, "wait_inputs", "failed")
          /\ UNCHANGED <<input, pending>>
    /\ UNCHANGED <<storeVars, signed, records, fileVars, sweep, procVars, hookVars, crashes,
                   ioErrors>>

\* Ten minutes pass.
PendingExpires(r) ==
    /\ pending[r] = "fresh"
    /\ pending' = [pending EXCEPT ![r] = "old"]
    /\ UNCHANGED <<storeVars, clientVars, input, worker, records, fileVars, sweep, procVars,
                   hookVars, crashes, ioErrors>>

-----------------------------------------------------------------------------
(* PublishSignedSnapshot. *)

\* The CLI builds the bytes, signs them and sends them.
SignAndPublish(r) ==
    /\ cli[r] = "signing"
    /\ Ask(r, "wait_publish", "take")
    /\ signed' = [signed EXCEPT ![r] = input[r]]
    /\ UNCHANGED <<storeVars, input, pending, records, fileVars, sweep, procVars, hookVars,
                   crashes, ioErrors>>

\* The pending input is consumed, whatever the verification then says.
TakePending(r) ==
    /\ worker[r] = "take"
    /\ pending' = [Pruned EXCEPT ![r] = None]
    /\ \/ /\ Pruned[r] # None
          /\ worker' = [worker EXCEPT ![r] = "snapshot"]
          /\ UNCHANGED cli
       \/ ReplyTo(r, "wait_publish", "failed")
    /\ UNCHANGED <<storeVars, signed, input, records, fileVars, sweep, procVars, hookVars,
                   crashes, ioErrors>>

\* Variant: what is published is built from the rule store of the moment.
PublishedBytesRebuilt(r) == [run |-> r, disabled |-> disabled, rules |-> rules]

\* The bytes the CLI signed, which equal those of the consumed input.
PublishedBytes(r) == signed[r]

\* publish_run_inner renames the snapshot into place, or fails.
WriteSnapshot(r) ==
    /\ worker[r] = "snapshot"
    /\ \/ /\ worker' = [worker EXCEPT ![r] = "manifest"]
          /\ cbor' = [cbor EXCEPT ![r] = PublishedBytes(r)]
          /\ UNCHANGED cli
       \/ /\ ReplyTo(r, "wait_publish", "failed")
          /\ UNCHANGED cbor
    /\ UNCHANGED <<storeVars, signed, input, pending, records, manifest, sweep, procVars,
                   hookVars, crashes, ioErrors>>

\* Variant: the run is recorded before its manifest is in place.
WriteManifestLater(r) ==
    /\ worker[r] = "manifest"
    /\ worker' = [worker EXCEPT ![r] = "record"]
    /\ UNCHANGED <<storeVars, clientVars, input, pending, records, fileVars, sweep, procVars,
                   hookVars, crashes, ioErrors>>

\* It then renames the manifest with the digest of the bytes into place, or fails.
WriteManifest(r) ==
    /\ worker[r] = "manifest"
    /\ \/ /\ worker' = [worker EXCEPT ![r] = "record"]
          /\ manifest' = [manifest EXCEPT ![r] = PublishedBytes(r)]
          /\ UNCHANGED cli
       \/ /\ ReplyTo(r, "wait_publish", "failed")
          /\ UNCHANGED manifest
    /\ UNCHANGED <<storeVars, signed, input, pending, records, cbor, sweep, procVars, hookVars,
                   crashes, ioErrors>>

\* record_run, with a tracked_root of zero, and the reply.
RecordRun(r) ==
    /\ worker[r] = "record"
    /\ records' = [records EXCEPT ![r] = "unbound"]
    /\ ReplyTo(r, "wait_publish", "ok")
    /\ UNCHANGED <<storeVars, signed, input, pending, fileVars, sweep, procVars, hookVars,
                   crashes, ioErrors>>

-----------------------------------------------------------------------------
(* The CLI and the wrapped processes. *)

\* A read timeout, a failed signature, a failed spawn or the end of the CLI.
GiveUp(r) ==
    /\ cli[r] \in {"wait_inputs", "signing", "wait_publish", "ok", "spawned"}
    /\ cli' = [cli EXCEPT ![r] = "failed"]
    /\ UNCHANGED <<storeVars, signed, daemonVars, fileVars, sweep, procVars, hookVars, crashes,
                   ioErrors>>

Spawn(r) ==
    /\ cli[r] = "ok"
    /\ cli' = [cli EXCEPT ![r] = "spawned"]
    /\ root' = [root EXCEPT ![r] = "alive"]
    /\ held' = held \cup {r}
    /\ UNCHANGED <<storeVars, signed, daemonVars, fileVars, sweep, hookVars, crashes, ioErrors>>

\* RegisterRoot: insert_root and bind_run_root, which needs a RunRecord; a
\* root that is gone, or whose pidversion has changed, is refused.
RegisterRoot(r) ==
    /\ cli[r] = "spawned"
    /\ \/ /\ root[r] = "alive"
          /\ cli' = [cli EXCEPT ![r] = "running"]
          /\ records' = [records EXCEPT ![r] = IF @ = None THEN None ELSE "bound"]
       \/ /\ root[r] = "dead"
          /\ cli' = [cli EXCEPT ![r] = "failed"]
          /\ UNCHANGED records
    /\ UNCHANGED <<storeVars, signed, input, worker, pending, fileVars, sweep, procVars,
                   hookVars, crashes, ioErrors>>

RootExits(r) ==
    /\ root[r] = "alive"
    /\ root' = [root EXCEPT ![r] = "dead"]
    /\ held' = held \ {r}
    /\ UNCHANGED <<storeVars, clientVars, daemonVars, fileVars, sweep, hookVars, crashes,
                   ioErrors>>

\* The kernel gives the pid to another process, or takes it back.
PidReused(r) ==
    /\ root[r] = "dead"
    /\ held' = IF r \in held THEN held \ {r} ELSE held \cup {r}
    /\ UNCHANGED <<storeVars, clientVars, daemonVars, fileVars, sweep, root, hookVars, crashes,
                   ioErrors>>

\* load_from_env of the root, or of a descendant that execs: the manifest
\* first, then the snapshot it names, whose digest must be the manifest's.
HookReadsManifest(r) ==
    /\ root[r] # None
    /\ loader[r] = Absent
    /\ \/ /\ manifest[r] # Absent
          /\ loader' = [loader EXCEPT ![r] = manifest[r]]
          /\ UNCHANGED hook
       \/ /\ manifest[r] = Absent
          /\ hook' = [hook EXCEPT ![r] = FailClosed]
          /\ UNCHANGED loader
    /\ UNCHANGED <<storeVars, clientVars, daemonVars, fileVars, sweep, procVars, crashes,
                   ioErrors>>

HookReadsSnapshot(r) ==
    /\ loader[r] # Absent
    /\ loader' = [loader EXCEPT ![r] = Absent]
    /\ hook' = [hook EXCEPT ![r] = IF cbor[r] = loader[r] THEN cbor[r] ELSE FailClosed]
    /\ UNCHANGED <<storeVars, clientVars, daemonVars, fileVars, sweep, procVars, crashes,
                   ioErrors>>

-----------------------------------------------------------------------------
(* gc_sweep, every GC_INTERVAL_SECS. *)

SweepBegins ==
    /\ sweep.phase = "idle"
    /\ sweep' = [sweep EXCEPT !.phase = "next", !.todo = {r \in Runs : cbor[r] # Absent}]
    /\ UNCHANGED <<storeVars, clientVars, daemonVars, fileVars, procVars, hookVars, crashes,
                   ioErrors>>

\* Variant: a tracked_root of zero is probed like any other.
ReasonToCollectUnbound(r) ==
    CASE records[r] = None                          -> "orphan"
      [] records[r] # None /\ (records[r] = "unbound" \/ r \notin held) -> "dead"
      [] OTHER                                      -> None

\* Variant: a record keeps its snapshot whether or not its root is alive.
ReasonToCollectOrphans(r) == IF records[r] = None THEN "orphan" ELSE None

\* Why gc_sweep collects r: no RunRecord, or a bound root with no such process.
ReasonToCollect(r) ==
    CASE records[r] = None                         -> "orphan"
      [] records[r] = "bound" /\ r \notin held     -> "dead"
      [] OTHER                                     -> None

\* Variant: every file that is listed is collected.
SweepLooksAtAll(r) ==
    /\ sweep.phase = "next"
    /\ r \in sweep.todo
    /\ sweep' = [phase |-> "snapshot", todo |-> sweep.todo \ {r}, run |-> r,
                 why |-> ReasonToCollect(r)]
    /\ UNCHANGED <<storeVars, clientVars, daemonVars, fileVars, procVars, hookVars, crashes,
                   ioErrors>>

SweepLooks(r) ==
    /\ sweep.phase = "next"
    /\ r \in sweep.todo
    /\ sweep' = [phase |-> IF ReasonToCollect(r) = None THEN "next" ELSE "snapshot",
                 todo |-> sweep.todo \ {r}, run |-> r, why |-> ReasonToCollect(r)]
    /\ UNCHANGED <<storeVars, clientVars, daemonVars, fileVars, procVars, hookVars, crashes,
                   ioErrors>>

\* gc_run ignores the errors of both removals.
Removal(file) ==
    \/ file' = [file EXCEPT ![sweep.run] = Absent] /\ ioErrors' = ioErrors
    \/ ioErrors < MaxIoErrors /\ file' = file /\ ioErrors' = ioErrors + 1

SweepSnapshot ==
    /\ sweep.phase = "snapshot"
    /\ Removal(cbor)
    /\ sweep' = [sweep EXCEPT !.phase = "manifest"]
    /\ UNCHANGED <<storeVars, clientVars, daemonVars, manifest, procVars, hookVars, crashes>>

SweepManifest ==
    /\ sweep.phase = "manifest"
    /\ Removal(manifest)
    /\ sweep' = [sweep EXCEPT !.phase = "record"]
    /\ UNCHANGED <<storeVars, clientVars, daemonVars, cbor, procVars, hookVars, crashes>>

\* remove_run.
SweepRecord ==
    /\ sweep.phase = "record"
    /\ records' = [records EXCEPT ![sweep.run] = None]
    /\ sweep' = [sweep EXCEPT !.phase = "next"]
    /\ UNCHANGED <<storeVars, clientVars, input, worker, pending, fileVars, procVars, hookVars,
                   crashes, ioErrors>>

SweepEnds ==
    /\ sweep.phase = "next" /\ sweep.todo = {}
    /\ sweep' = [sweep EXCEPT !.phase = "idle", !.why = None]
    /\ UNCHANGED <<storeVars, clientVars, daemonVars, fileVars, procVars, hookVars, crashes,
                   ioErrors>>

-----------------------------------------------------------------------------
\* The daemon dies and is started again: files stay, memory is gone, and a CLI
\* that waits for a reply fails.
Crash ==
    /\ crashes < MaxCrashes
    /\ crashes' = crashes + 1
    /\ worker' = [r \in Runs |-> "idle"]
    /\ cli' = [r \in Runs |-> IF worker[r] = "idle" THEN cli[r] ELSE "failed"]
    /\ pending' = [r \in Runs |-> None]
    /\ records' = [r \in Runs |-> None]
    /\ sweep' = [sweep EXCEPT !.phase = "idle", !.todo = {}, !.why = None]
    /\ UNCHANGED <<storeVars, signed, input, fileVars, procVars, hookVars, ioErrors>>

SweepStep ==
    \/ SweepBegins \/ SweepSnapshot \/ SweepManifest \/ SweepRecord \/ SweepEnds
    \/ \E r \in Runs : SweepLooks(r)

WorkerStep(r) ==
    \/ ReadDisabled(r) \/ ReadRules(r) \/ TakePending(r) \/ WriteSnapshot(r)
    \/ WriteManifest(r) \/ RecordRun(r)

RunStep(r) ==
    \/ PrepareSnapshotInputs(r) \/ PendingExpires(r) \/ SignAndPublish(r) \/ GiveUp(r)
    \/ Spawn(r) \/ RegisterRoot(r) \/ RootExits(r) \/ PidReused(r)
    \/ HookReadsManifest(r) \/ HookReadsSnapshot(r)

Next ==
    \/ DisableCurated \/ InsertRule \/ SweepStep \/ Crash
    \/ \E r \in Runs : WorkerStep(r) \/ RunStep(r)

Spec == Init /\ [][Next]_vars

\* The sweep thread runs for ever in its loop; nothing else is assumed.
FairSpec == Spec /\ WF_vars(SweepStep)

-----------------------------------------------------------------------------
(* Properties. *)

\* A hook enforces exactly the snapshot its CLI signed, whatever happened to the
\* rule store, to the daemon or to the files since: bytes are published verbatim
\* and the digest ties snapshot to manifest (handle_publish_signed_snapshot_full,
\* publish_run_inner, load_from_env).
LoadedPolicyIsSigned ==
    \A r \in Runs : hook[r] \in Policies => hook[r] = signed[r]

\* A hook fails closed only once the sweep has removed its snapshot (or has tried
\* to, and a removal failed): the reply that lets the CLI spawn is sent after both
\* files are in place, whatever crashes (publish_run_inner, gc_run).
FailsClosedOnlySwept ==
    \A r \in Runs : hook[r] = FailClosed => cbor[r] = Absent \/ ioErrors > 0

\* While its root is alive the snapshot of a recorded run stays: the sweep takes
\* it only from a run it found without a record, and neither the window before
\* RegisterRoot nor a reused pid makes it do so (gc_sweep).
RecordedLiveRunKept ==
    [][\A r \in Runs :
          root[r] = "alive" /\ cbor[r] # Absent /\ cbor'[r] = Absent => sweep.why = "orphan"]_vars

\* The snapshot of a dead root is collected in the end, also across a restart of
\* the daemon, unless its pid is taken again and again or the run was recorded
\* and never bound (gc_sweep).
DeadRunCollected ==
    \A r \in Runs :
        <>[](root[r] = "dead" /\ r \notin held /\ records[r] # "unbound")
            => <>[](cbor[r] = Absent)

-----------------------------------------------------------------------------
(* What the repository says and the code does not do. *)

\* snapshot_gc.rs says gc_sweep is safe to call concurrently with
\* PrepareSnapshot: a run the daemon has answered Ok for keeps its record and
\* its files until its root is registered.
PreparedRunKept ==
    \A r \in Runs : cli[r] \in {"ok", "spawned"} =>
        records[r] # None /\ cbor[r] # Absent /\ manifest[r] # Absent
=============================================================================
