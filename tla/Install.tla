------------------------------ MODULE Install ------------------------------
(***************************************************************************)
(* guard-cli install: the system installer of macOS with its rollback      *)
(* (install/system.rs), the update that fetches and runs it                *)
(* (install/update.rs) and the health check that every command passes      *)
(* first (install/health.rs), beside launchd and the daemon it restarts.   *)
(*                                                                         *)
(* The installer is a script of small steps on files, each of which can    *)
(* fail or be the last one before a crash.  A file is what the code can    *)
(* tell of it: the version of its content and whether owner and mode are   *)
(* the ones installed.  "daemon" stands for the three binaries and "db"    *)
(* for the database with its two sidecars, which are saved and restored    *)
(* together.                                                               *)
(***************************************************************************)
EXTENDS Naturals, Sequences

CONSTANTS
    MaxInstalls,   \* attempts to install
    MaxFaults      \* failures, crashes and daemon exits, together

ASSUME InstallAssumption == MaxInstalls \in Nat /\ MaxFaults \in Nat

VARIABLES
    fs,        \* the files of the installation
    litter,    \* directories in which a daemon has left files of its own
    user,      \* record of the service user
    loaded,    \* has launchd the service?
    running,   \* version of the daemon process, "none" without one
    upd,       \* stt-guard update
    inst,      \* the privileged installer with its InstallTransaction
    before,    \* history: the system when the attempt began
    over,      \* history: has an attempt been made over a full layout?
    faults

vars == <<fs, litter, user, loaded, running, upd, inst, before, over, faults>>

Dirs  == {"bin", "state", "log"}
Files == {"daemon", "hook", "signers", "db", "plist"}
Paths == Dirs \cup Files

\* The files each directory holds (BIN_DIR, STATE_DIR, LOG_DIR).
Holds == [d \in Dirs |-> CASE d = "bin"   -> {"daemon", "hook", "signers"}
                           [] d = "state" -> {"db"}
                           [] OTHER       -> {}]

\* "torn" is a file that is being written, "bad" one from an archive that does
\* not match its digest; "raw" are the owner and mode a new file starts with.
Versions == {"none", "old", "new", "bad", "torn"}
Metas    == {"none", "raw", "odd", "good"}

Absent  == [ver |-> "none", meta |-> "none"]
Entry(v, m) == [ver |-> v, meta |-> m]
Exists(p) == fs[p] # Absent

-----------------------------------------------------------------------------
(* The script: run_install and the functions it calls, in their order      *)

Step(op, p) == [op |-> op, path |-> p]

CreateServiceUser ==
    <<Step("create_user", "none"), Step("set_attributes", "none"), Step("record_user", "none")>>

Replace(p) == <<Step("record_file", p), Step("truncate", p), Step("write", p)>>

DeployBinaries ==
    <<Step("record_dir", "bin"), Step("create_dir", "bin")>>
    \o Replace("daemon") \o Replace("hook")
    \o <<Step("own", "bin"), Step("own", "daemon"), Step("own", "hook")>>

MakeDir(d) == <<Step("record_dir", d), Step("create_dir", d), Step("own", d)>>

CreateDirectories == MakeDir("state") \o MakeDir("log")

\* Variant: the removed file is written without being created again.
ManifestNotCreated ==
    <<Step("record_file", "signers"), Step("unlink", "signers"),
      Step("write", "signers"), Step("own", "signers")>>

WriteTrustedSignerManifest ==
    <<Step("record_file", "signers"), Step("unlink", "signers"),
      Step("truncate", "signers"), Step("write", "signers"), Step("own", "signers")>>

RegisterRuleSigner ==
    WriteTrustedSignerManifest
    \o <<Step("record_file", "db"), Step("open_store", "db"),
         Step("register_key", "db"), Step("own", "db")>>

InstallLaunchdaemon == Replace("plist") \o <<Step("own", "plist")>>

StartDaemon ==
    <<Step("bootout", "none"), Step("bootstrap", "none"), Step("record_started", "none")>>

\* Variant: the service is defined before the signer is registered.
DaemonBeforeSigner ==
    CreateServiceUser \o DeployBinaries \o CreateDirectories \o InstallLaunchdaemon
    \o <<Step("enroll", "none")>> \o RegisterRuleSigner \o StartDaemon
    \o <<Step("failpoint", "none")>>

\* run_install.  A failpoint of the test-signer build between two functions is
\* a failure of the next step; the one after start_daemon is a step of its own.
RunInstall ==
    CreateServiceUser \o DeployBinaries \o CreateDirectories \o <<Step("enroll", "none")>>
    \o RegisterRuleSigner \o InstallLaunchdaemon \o StartDaemon
    \o <<Step("failpoint", "none")>>

Script == RunInstall

-----------------------------------------------------------------------------
(* InstallTransaction                                                      *)

\* RollbackAction: what to do to "path"; "file" is the backup of a replaced
\* file or the saved owner and mode.
Undo(act, p, f) == [act |-> act, path |-> p, file |-> f]

Idle == [st |-> "idle", step |-> 1, undo |-> << >>, pre |-> "no", made |-> "no",
         src |-> "new", attempts |-> 0, failures |-> 0]

Existing == {"bin", "state", "log", "plist", "signers"}

Installed(v, m) == [p \in Paths |-> Entry(v, m[p])]

\* A machine without the guard, one with an older version of it, whose owners
\* and modes may have been changed, and one where uninstall.sh left the state.
Init ==
    /\ \/ /\ fs = [p \in Paths |-> Absent]
          /\ user = "none" /\ loaded = "no" /\ litter = {}
       \/ /\ \E odd \in {{}, {"hook"}, {"state"}} :
                fs = Installed("old", [p \in Paths |-> IF p \in odd THEN "odd" ELSE "good"])
          /\ user \in {"good", "odd"} /\ loaded \in {"no", "yes"} /\ litter = {"state", "log"}
       \/ /\ fs = [p \in Paths |-> IF p \in {"state", "log", "db"}
                                   THEN Entry("old", "good") ELSE Absent]
          /\ user \in {"none", "good"} /\ loaded = "no" /\ litter = {"state", "log"}
    /\ running = IF loaded = "yes" THEN "old" ELSE "none"
    /\ upd = "none"
    /\ inst = Idle
    /\ before = [fs |-> fs, user |-> user, loaded |-> loaded]
    /\ over = "no" /\ faults = 0

\* InstallTransaction::new, from install-system (src "new") or from update.
BeginInstall(src) ==
    /\ inst.st \in {"idle", "done", "rolledback", "dead"} /\ inst.attempts < MaxInstalls
    /\ inst' = [Idle EXCEPT
                 !.st = "install", !.src = src, !.attempts = inst.attempts + 1,
                 !.pre = IF \E p \in Existing : Exists(p) THEN "yes" ELSE "no",
                 !.undo = IF loaded = "yes"
                          THEN <<Undo("bootstrap", "none", Absent)>> ELSE << >>]
    /\ before' = [fs |-> fs, user |-> user, loaded |-> loaded]
    /\ over' = IF Exists("plist") THEN "yes" ELSE over

InstallSystem ==
    /\ upd = "none" /\ BeginInstall("new")
    /\ UNCHANGED <<fs, litter, user, loaded, running, upd, faults>>

\* The step the installer is at is an "op" step.
At(op) == inst.st = "install" /\ inst.step <= Len(Script) /\ Script[inst.step].op = op
Target == Script[inst.step].path
Advance == inst' = [inst EXCEPT !.step = @ + 1]
Record(u) == inst' = [inst EXCEPT !.step = @ + 1, !.undo = Append(@, u)]

CreateUser ==
    /\ At("create_user")
    /\ inst' = [inst EXCEPT !.step = @ + 1, !.made = IF user = "none" THEN "yes" ELSE "no"]
    /\ user' = IF user = "none" THEN "partial" ELSE user
    /\ UNCHANGED <<fs, litter, loaded, running, upd, before, over, faults>>

SetServiceUserAttributes ==
    /\ At("set_attributes") /\ Advance /\ user' = "good"
    /\ UNCHANGED <<fs, litter, loaded, running, upd, before, over, faults>>

RecordServiceUser ==
    /\ At("record_user")
    /\ IF inst.made = "yes" /\ inst.pre = "no"
       THEN Record(Undo("remove_user", "none", Absent)) ELSE Advance
    /\ UNCHANGED <<fs, litter, user, loaded, running, upd, before, over, faults>>

\* record_directory_created and record_path_metadata
RecordDirectory ==
    /\ At("record_dir")
    /\ Record(IF Exists(Target) THEN Undo("restore_meta", Target, fs[Target])
                                ELSE Undo("remove_dir", Target, Absent))
    /\ UNCHANGED <<fs, litter, user, loaded, running, upd, before, over, faults>>

RecordFileReplacement ==
    /\ At("record_file")
    /\ Record(IF Exists(Target) THEN Undo("restore_file", Target, fs[Target])
                                ELSE Undo("remove_file", Target, Absent))
    /\ UNCHANGED <<fs, litter, user, loaded, running, upd, before, over, faults>>

\* What a step on a file leaves there.
Written(op, e) ==
    CASE op = "create_dir"   -> IF e = Absent THEN Entry("old", "raw") ELSE e
      [] op = "truncate"     -> Entry("torn", IF e = Absent THEN "raw" ELSE e.meta)
      [] op = "write"        -> Entry(inst.src, e.meta)
      [] op = "own"          -> Entry(e.ver, "good")
      [] op = "unlink"       -> Absent
      [] op = "open_store"   -> IF e = Absent THEN Entry("torn", "raw") ELSE e
      [] op = "register_key" -> Entry("new", e.meta)

WriteStep(op) ==
    /\ At(op) /\ Advance
    /\ fs' = [fs EXCEPT ![Target] = Written(op, @)]
    /\ UNCHANGED <<litter, user, loaded, running, upd, before, over, faults>>

WriteOps == {"create_dir", "truncate", "write", "own", "unlink", "open_store", "register_key"}

\* The enrollment made before the privileges were raised is read back; nothing
\* of it is recorded for the rollback.
ReadEnrollment ==
    /\ \/ At("enroll") \/ At("failpoint")
    /\ Advance
    /\ UNCHANGED <<fs, litter, user, loaded, running, upd, before, over, faults>>

\* The result of bootout is ignored: it may not have been loaded.
Bootout ==
    /\ At("bootout") /\ Advance
    /\ \/ loaded' = "no" /\ running' = "none" /\ UNCHANGED faults
       \/ /\ faults < MaxFaults /\ faults' = faults + 1
          /\ UNCHANGED <<loaded, running>>
    /\ UNCHANGED <<fs, litter, user, upd, before, over>>

\* Variant: the error of bootstrap is ignored like the one of bootout.
BootstrapIgnored ==
    /\ At("bootstrap") /\ Advance
    /\ loaded' = "yes"
    /\ UNCHANGED <<fs, litter, user, running, upd, before, over, faults>>

\* launchctl refuses to bootstrap a service that is loaded.
Bootstrap ==
    /\ At("bootstrap") /\ loaded = "no" /\ Advance
    /\ loaded' = "yes"
    /\ UNCHANGED <<fs, litter, user, running, upd, before, over, faults>>

RecordStarted ==
    /\ At("record_started") /\ Record(Undo("bootout", "none", Absent))
    /\ UNCHANGED <<fs, litter, user, loaded, running, upd, before, over, faults>>

\* Steps whose result is ignored or that cannot fail.
Infallible == {"bootout", "record_user", "record_started"}

\* A step fails: the closure returns early and the rollback begins.
StepFails ==
    /\ inst.st = "install" /\ inst.step <= Len(Script)
    /\ Script[inst.step].op \notin Infallible
    /\ \/ At("bootstrap") /\ loaded = "yes" /\ UNCHANGED faults
       \/ faults < MaxFaults /\ faults' = faults + 1
    /\ inst' = [inst EXCEPT !.st = "rollback"]
    /\ UNCHANGED <<fs, litter, user, loaded, running, upd, before, over>>

Commit ==
    /\ inst.st = "install" /\ inst.step > Len(Script)
    /\ inst' = [inst EXCEPT !.st = "done", !.undo = << >>]
    /\ UNCHANGED <<fs, litter, user, loaded, running, upd, before, over, faults>>

-----------------------------------------------------------------------------
(* rollback: the recorded actions, last one first.  A failure is noted and  *)
(* the rollback goes on.                                                   *)

Front(s) == SubSeq(s, 1, Len(s) - 1)
Last(s) == s[Len(s)]
Undoing(act) == inst.st = "rollback" /\ inst.undo # << >> /\ Last(inst.undo).act = act
Saved == Last(inst.undo)
Undone == inst' = [inst EXCEPT !.undo = Front(@)]
NotUndone == inst' = [inst EXCEPT !.undo = Front(@), !.failures = 1]
Fault == faults < MaxFaults /\ faults' = faults + 1

\* Variant: a failed restore is not noted.
RestoreFileQuietly ==
    /\ Undoing("restore_file") /\ Undone
    /\ \/ fs' = [fs EXCEPT ![Saved.path] = Saved.file] /\ UNCHANGED faults
       \/ Fault /\ fs' = [fs EXCEPT ![Saved.path] = Absent]
    /\ UNCHANGED <<litter, user, loaded, running, upd, before, over>>

\* restore_file_from_backup: remove, copy, restore owner and mode.
RestoreFile ==
    /\ Undoing("restore_file")
    /\ \/ /\ fs' = [fs EXCEPT ![Saved.path] = Saved.file]
          /\ Undone /\ UNCHANGED faults
       \/ /\ Fault /\ NotUndone
          /\ \E e \in {fs[Saved.path], Absent, Entry(Saved.file.ver, "raw")} :
                fs' = [fs EXCEPT ![Saved.path] = e]
    /\ UNCHANGED <<litter, user, loaded, running, upd, before, over>>

RemoveFileIfPresent ==
    /\ Undoing("remove_file")
    /\ \/ fs' = [fs EXCEPT ![Saved.path] = Absent] /\ Undone /\ UNCHANGED faults
       \/ Fault /\ NotUndone /\ UNCHANGED fs
    /\ UNCHANGED <<litter, user, loaded, running, upd, before, over>>

\* remove_directory_if_empty
RemoveDirectoryIfEmpty ==
    /\ Undoing("remove_dir")
    /\ LET d == Saved.path
           empty == d \notin litter /\ \A f \in Holds[d] : ~Exists(f)
       IN  \/ /\ ~Exists(d) \/ empty
              /\ fs' = [fs EXCEPT ![d] = Absent] /\ Undone /\ UNCHANGED faults
           \/ Exists(d) /\ ~empty /\ NotUndone /\ UNCHANGED <<fs, faults>>
           \/ Fault /\ NotUndone /\ UNCHANGED fs
    /\ UNCHANGED <<litter, user, loaded, running, upd, before, over>>

RestoreMetadata ==
    /\ Undoing("restore_meta")
    /\ \/ /\ fs' = IF Exists(Saved.path)
                   THEN [fs EXCEPT ![Saved.path].meta = Saved.file.meta] ELSE fs
          /\ Undone /\ UNCHANGED faults
       \/ Fault /\ NotUndone /\ UNCHANGED fs
    /\ UNCHANGED <<litter, user, loaded, running, upd, before, over>>

\* Its failure is not noted; "over" remembers it for the properties.
BootoutLaunchDaemon ==
    /\ Undoing("bootout") /\ Undone
    /\ \/ loaded' = "no" /\ running' = "none" /\ UNCHANGED <<over, faults>>
       \/ Fault /\ over' = "unheard" /\ UNCHANGED <<loaded, running>>
    /\ UNCHANGED <<fs, litter, user, upd, before>>

BootstrapLaunchDaemon ==
    /\ Undoing("bootstrap")
    /\ \/ loaded = "no" /\ loaded' = "yes" /\ Undone /\ UNCHANGED faults
       \/ loaded = "yes" /\ NotUndone /\ UNCHANGED <<loaded, faults>>
       \/ Fault /\ NotUndone /\ UNCHANGED loaded
    /\ UNCHANGED <<fs, litter, user, running, upd, before, over>>

RemoveServiceUser ==
    /\ Undoing("remove_user")
    /\ \/ user' = "none" /\ Undone /\ UNCHANGED faults
       \/ Fault /\ NotUndone /\ UNCHANGED user
    /\ UNCHANGED <<fs, litter, loaded, running, upd, before, over>>

\* The end of InstallTransaction::rollback and the report.
RollbackReported ==
    /\ inst.st = "rollback" /\ inst.undo = << >>
    /\ inst' = [inst EXCEPT !.st = "rolledback"]
    /\ UNCHANGED <<fs, litter, user, loaded, running, upd, before, over, faults>>

\* The installer is killed: the transaction was in its memory.
InstallerDies ==
    /\ inst.st \in {"install", "rollback"} /\ Fault
    /\ inst' = [inst EXCEPT !.st = "dead", !.undo = << >>]
    /\ UNCHANGED <<fs, litter, user, loaded, running, upd, before, over>>

-----------------------------------------------------------------------------
(* launchd and the daemon                                                  *)

\* RunAtLoad and KeepAlive: the binary on disk is run when none is.
LaunchdStarts ==
    /\ loaded = "yes" /\ running = "none"
    /\ fs["daemon"].ver \notin {"none", "torn"} /\ user # "none"
    /\ Exists("state") /\ Exists("log")
    /\ running' = fs["daemon"].ver
    /\ litter' = {"state", "log"}
    /\ fs' = [fs EXCEPT !["db"] = IF @ = Absent THEN Entry("torn", "good") ELSE @]
    /\ UNCHANGED <<user, loaded, upd, inst, before, over, faults>>

DaemonExits ==
    /\ running # "none" /\ Fault
    /\ running' = "none"
    /\ UNCHANGED <<fs, litter, user, loaded, upd, inst, before, over>>

-----------------------------------------------------------------------------
(* stt-guard update                                                        *)

Ended == inst.st \in {"idle", "done", "rolledback", "dead"}

RunUpdate ==
    /\ upd = "none" /\ Ended /\ inst.attempts < MaxInstalls
    /\ upd' = "selected"
    /\ UNCHANGED <<fs, litter, user, loaded, running, inst, before, over, faults>>

\* download_to, twice: archive and checksums agree ("good") or not ("bad").
Download ==
    /\ upd = "selected"
    /\ \/ upd' = "good" /\ UNCHANGED faults
       \/ Fault /\ upd' \in {"bad", "none"}
    /\ UNCHANGED <<fs, litter, user, loaded, running, inst, before, over>>

\* expected_sha256, sha256_file, extract_tarball, run_downloaded_system_installer
RunDownloadedSystemInstaller ==
    /\ \/ upd = "good" /\ BeginInstall("new") /\ upd' = "installing" /\ UNCHANGED faults
       \/ upd = "bad" /\ upd' = "none" /\ UNCHANGED <<inst, before, over, faults>>
       \/ upd = "good" /\ Fault /\ upd' = "none" /\ UNCHANGED <<inst, before, over>>
    /\ UNCHANGED <<fs, litter, user, loaded, running>>

UpdateEnds ==
    /\ upd = "installing" /\ Ended
    /\ upd' = "none"
    /\ UNCHANGED <<fs, litter, user, loaded, running, inst, before, over, faults>>

-----------------------------------------------------------------------------

Next ==
    \/ InstallSystem
    \/ CreateUser \/ SetServiceUserAttributes \/ RecordServiceUser
    \/ RecordDirectory \/ RecordFileReplacement
    \/ \E op \in WriteOps : WriteStep(op)
    \/ ReadEnrollment \/ Bootout \/ Bootstrap \/ RecordStarted
    \/ StepFails \/ Commit
    \/ RestoreFile \/ RemoveFileIfPresent \/ RemoveDirectoryIfEmpty \/ RestoreMetadata
    \/ BootoutLaunchDaemon \/ BootstrapLaunchDaemon \/ RemoveServiceUser
    \/ RollbackReported \/ InstallerDies
    \/ LaunchdStarts \/ DaemonExits
    \/ RunUpdate \/ Download \/ RunDownloadedSystemInstaller \/ UpdateEnds

Spec == Init /\ [][Next]_vars

-----------------------------------------------------------------------------
(* install/health.rs                                                       *)

\* numeric_id: id -u and id -g know the user.
NumericId == user \notin {"none", "partial"}

\* check_service_user_record: home, shell and name are the installed ones.
CheckServiceUserRecord == user = "good"

CheckServiceIdentity == NumericId /\ CheckServiceUserRecord

\* check_path and check_metadata.  A new file of root can already have the
\* owner and mode that are wanted, a new directory of the service cannot.
CheckPath(p) ==
    Exists(p) /\ fs[p].meta \in IF p \in {"state", "log"} THEN {"good"} ELSE {"good", "raw"}

\* check_plist_content: the text does not depend on the version.
CheckPlistContent == fs["plist"].ver \notin {"none", "torn"}

CheckInstallation ==
    /\ CheckServiceIdentity
    /\ \A p \in Paths \ {"db"} : CheckPath(p)
    /\ CheckPlistContent

-----------------------------------------------------------------------------
(* Properties                                                              *)

UndoType == [act : {"bootstrap", "bootout", "remove_user", "remove_dir", "remove_file",
                    "restore_meta", "restore_file"},
             path : Paths \cup {"none"}, file : [ver : Versions, meta : Metas]]

\* Types; the transaction never records more than one action per step and one
\* for the service that was loaded (InstallTransaction).
TypeOK ==
    /\ fs \in [Paths -> [ver : Versions, meta : Metas]]
    /\ \A p \in Paths : fs[p].ver = "none" <=> fs[p].meta = "none"
    /\ litter \subseteq {"state", "log"}
    /\ user \in {"none", "partial", "odd", "good"}
    /\ loaded \in {"no", "yes"}
    /\ running \in Versions \ {"torn"}
    /\ upd \in {"none", "selected", "good", "bad", "installing"}
    /\ inst.st \in {"idle", "install", "rollback", "done", "rolledback", "dead"}
    /\ inst.step \in 1 .. Len(Script) + 1
    /\ \A i \in DOMAIN inst.undo : inst.undo[i] \in UndoType
    /\ Len(inst.undo) <= inst.step
    /\ over \in {"no", "yes", "unheard"} /\ faults \in 0 .. MaxFaults

Completed == inst.st = "rolledback" /\ inst.failures = 0 /\ over # "unheard"

\* When a failed installation reports "rollback completed", every file and
\* directory is there with the content, owner and mode it had before the
\* attempt, or is gone if the attempt created it; launchd has the service if
\* and only if it had it; and a service user made by the attempt is removed
\* when nothing of the guard existed before (InstallTransaction::rollback).
\* Left out: a user record whose own creation failed half-way, and a database
\* that a restarted daemon makes where there was none.
RollbackRestores ==
    Completed =>
        /\ \A p \in Paths :
              \/ fs[p] = before.fs[p]
              \/ p = "db" /\ before.fs[p] = Absent /\ loaded = "yes"
        /\ loaded = before.loaded
        /\ before.user = "none" /\ inst.pre = "no" /\ inst.step > Len(CreateServiceUser)
               => user = "none"

\* An attempt that reports success, or a completed rollback, never leaves a
\* daemon running that is another version than the binary on disk, and a
\* successful one leaves the service loaded (start_daemon, BootstrapLaunchDaemon).
ReportedDaemonMatchesDisk ==
    Completed \/ inst.st = "done" =>
        /\ running \in {"none", fs["daemon"].ver}
        /\ inst.st = "done" => loaded = "yes"

Complete == \E v \in {"old", "new"} : \A f \in Files : fs[f].ver = v

\* Unless an attempt was made over a full layout, or a step of a rollback has
\* failed, the health check that every command passes first accepts only
\* complete layouts: all files written to the
\* end, of one version, from a verified archive, and the signer of the manifest
\* registered in the database (check_installation).
HealthyMeansComplete ==
    over = "no" /\ inst.failures = 0 /\ CheckInstallation => Complete
=============================================================================
