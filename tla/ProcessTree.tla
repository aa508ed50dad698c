---------------------------- MODULE ProcessTree ----------------------------
(***************************************************************************)
(* The tracked process tree, the coverage-gap detector and the fork, spawn *)
(* and exec hooks that feed them.                                          *)
(*                                                                         *)
(* A wrapped process runs the hook; its fork, posix_spawn and exec entry   *)
(* points send ForkEvent, ExecEvent, EnvNotPropagatedGap and, from the     *)
(* constructor, DylibLoaded to the daemon, which keeps a ProcessTree keyed *)
(* by audit token and arms a 500 ms timer for a hardened process.  A timer *)
(* that is not cancelled records the gap and kills the process.            *)
(*                                                                         *)
(* Processes are incarnations of a pid, told apart by the pidversion, as   *)
(* the code assumes.  Best-effort messages (all but ForkEvent) are sent    *)
(* and forgotten: their acknowledgement changes nothing in the hook.       *)
(* binary_path, pm_env_snapshot and detected_at_ms, which only log rows    *)
(* show, are left out, and so is a frame that cannot be decoded.           *)
(***************************************************************************)
EXTENDS ExecScan, FiniteSets, FiniteSetsExt

CONSTANTS
    Pids,        \* process ids the kernel hands out
    Runs,        \* run_uuids of the CLIs that register a root
    Files,       \* names of executable files
    Users,       \* the users whose runs are considered: "ordinary", "zero_creds"
    Commands,    \* files the CLI is asked to wrap
    Strangers,   \* files of programs outside any run
    Content,     \* Content[f]: what the classifier reads from f
    NoTaskPort,  \* pids whose task port cannot be read
    MaxPv,       \* bound: incarnations of a pid
    MaxBirths,   \* bound: processes started in all
    MaxExecs,    \* bound: exec calls in all
    MaxFrames    \* bound: frames in flight; beyond it the daemon counts as busy

ASSUME TreeAssumption ==
    /\ Pids \cap {"none"} = {} /\ Runs # {} /\ Files # {}
    /\ Users \subseteq {"ordinary", "zero_creds"}
    /\ Commands \subseteq Files /\ Strangers \subseteq Files
    /\ NoTaskPort \subseteq Pids /\ {MaxPv, MaxBirths, MaxExecs, MaxFrames} \subseteq Nat
    /\ \A f \in Files :
          /\ Content[f].bytes \in Seq(STRING)
          /\ Content[f].cmds \in Seq([cmd : STRING, size : Nat, off : Nat, filesize : Nat])

VARIABLES
    user,    \* "ordinary", or "zero_creds": uid, gid and session fields are all 0
    proc,    \* the kernel's process table
    call,    \* the fork or spawn call each hooked process is inside of
    execs,   \* exec calls so far
    wire,    \* frames sent to the daemon and not yet handled
    cli,     \* where each run's CLI, and its RegisterRoot, is
    claim,   \* the token the CLI claims for its child
    runRoot, \* RunRecord.tracked_root of each run
    nodes,   \* ProcessTree.nodes
    arming,  \* fork handlers between record_fork and the arming of a timer
    timers,  \* timer threads; while one is "armed", pending holds its sender
    killed,  \* history: processes the detector killed
    refused  \* history: incarnations whose creation the hook reported as failed

osVars   == <<user, proc, execs>>
cliVars  == <<cli, claim, runRoot>>
gapVars  == <<timers, killed>>
vars == <<user, proc, execs, call, wire, cli, claim, runRoot, nodes, arming, timers, killed,
          refused>>

\* Where a token's fields come from: the kernel (LOCAL_PEERTOKEN, task_info),
\* the process-info fallback of audit_token_for_pid, or a ForkEvent, whose
\* credentials are zero.  AuditToken compares all eight fields.
Pvs    == 0 .. 2 * MaxPv + 1
Tokens == [src : {"kernel", "bsdinfo", "fork"}, pid : Pids, pv : Pvs]
NoToken == [src |-> "none", pid |-> "none", pv |-> 0]

KernelToken(p) == [src |-> "kernel", pid |-> p, pv |-> proc[p].pv]
StartTime(v)   == MaxPv + 1 + v
ForkToken(c, v) == [src |-> IF user = "zero_creds" THEN "kernel" ELSE "fork",
                    pid |-> c, pv |-> v]

Live(p)      == proc[p].st = "live"
ForkStages   == {"idle", "created", "waiting", "ok", "untracked", "failed"}
Kinds        == {"fork", "spawn"}
IdleCall     == [st |-> "idle", kind |-> "fork", child |-> "none", pv |-> 0]
Nodes        == [parent : Tokens \cup {NoToken}, root : Tokens, run : Runs,
                 gap : {"none", "hardened", "env"}]
CliPhases    == {"start", "spawned", "claimed", "inserted", "registered", "failed"}
Frames       == [tag : {"fork", "exec", "loaded", "env"}, peer : Tokens,
                 child : Pids \cup {"none"}, pv : Pvs]

Dead(v) == [st |-> "dead", pv |-> v, file |-> CHOOSE f \in Files : TRUE, via |-> "outside",
            hook |-> "none", adm |-> "none"]

TypeOK ==
    /\ user \in Users
    /\ proc \in [Pids -> [st : {"dead", "live"}, pv : 0 .. MaxPv, file : Files,
                          via : {"root", "hook", "outside"}, hook : {"none", "ctor", "on"},
                          adm : {"none", "ok", "untracked"}]]
    /\ call \in [Pids -> [st : ForkStages, kind : Kinds, child : Pids \cup {"none"}, pv : Pvs]]
    /\ execs \in 0 .. MaxExecs
    /\ wire \subseteq Frames
    /\ cli \in [Runs -> CliPhases]
    /\ claim \in [Runs -> Tokens \cup {[NoToken EXCEPT !.pid = p] : p \in Pids \cup {"none"}}]
    /\ runRoot \in [Runs -> Tokens \cup {NoToken}]
    /\ DOMAIN nodes \subseteq Tokens
    /\ \A t \in DOMAIN nodes : nodes[t] \in Nodes
    /\ arming \subseteq Tokens \X Tokens
    /\ timers \subseteq [tok : Tokens, st : {"armed", "expired"}]
    /\ killed \subseteq [tok : Tokens, pv : 0 .. MaxPv]
    /\ refused \subseteq Pids \X (0 .. MaxPv)

Init ==
    /\ user \in Users
    /\ proc = [p \in Pids |-> Dead(0)]
    /\ call = [p \in Pids |-> IdleCall]
    /\ execs = 0 /\ wire = {}
    /\ cli = [r \in Runs |-> "start"]
    /\ claim = [r \in Runs |-> NoToken]
    /\ runRoot = [r \in Runs |-> NoToken]
    /\ nodes = [t \in {} |-> NoToken]
    /\ arming = {} /\ timers = {} /\ killed = {} /\ refused = {}

-----------------------------------------------------------------------------
(* The kernel and the loader, as the code uses them.                        *)

\* The image that runs for f: of a script, its interpreter.
Image(f) == IF HeaderKind(Content[f]) = "Script" THEN Content[f].interp ELSE f

Decision == [f \in Files |-> CheckExecTarget(Content[f])]
Sheds    == [f \in Files |-> WillShedDylib(Content[Image(f)])]

\* csops_status and has_hardened_bits of the running image.
HasHardenedBits(flags) == flags \cap {"RESTRICT", "RUNTIME", "HARD", "REQUIRE_LV"} # {}
Hardened == [f \in Files |-> HasHardenedBits(CheckBinary(Content[Image(f)]).flags)]
IsHardenedRuntime(p) == Live(p) /\ Hardened[proc[p].file]

\* kernel_pidversion; 0 stands for None.
KernelPidversion(p) == IF Live(p) /\ p \notin NoTaskPort THEN proc[p].pv ELSE 0

\* audit_token_for_pid, with its fallback on the start time.
AuditTokenForPid(p) ==
    IF ~Live(p) THEN NoToken
    ELSE IF p \in NoTaskPort
         THEN [src |-> "bsdinfo", pid |-> p, pv |-> StartTime(proc[p].pv)]
         ELSE KernelToken(p)
ChildPidversion(p) == AuditTokenForPid(p).pv

\* A pid can be handed out again once nobody holds its zombie: no parent is
\* between the creation and the return of its call, no CLI is about to read
\* its token (later the CLI may have been killed).
Reusable(p) ==
    /\ ~Live(p)
    /\ proc[p].pv < MaxPv /\ MapThenSumSet(LAMBDA q : proc[q].pv, Pids) < MaxBirths
    /\ \A q \in Pids : call[q].child # p \/ ~Live(q)
    /\ \A r \in Runs : cli[r] = "spawned" => claim[r].pid # p

Born(p, f, via, hook) ==
    [st |-> "live", pv |-> proc[p].pv + 1, file |-> f, via |-> via, hook |-> hook,
     adm |-> "none"]

\* The hook state of a fresh image: the constructor runs unless the loader
\* strips the hook.
Loaded(f) == IF Sheds[f] THEN "none" ELSE "ctor"

Kill(p) == [proc EXCEPT ![p] = Dead(@.pv)]

\* A process exits or is killed from outside.
Exit(p) ==
    /\ Live(p)
    /\ proc' = Kill(p)
    /\ call' = [call EXCEPT ![p] = IdleCall]
    /\ UNCHANGED <<user, execs, wire, cliVars, nodes, arming, gapVars, refused>>

\* An unrelated program is started under a pid that is free.
OutsideStart(p, f) ==
    /\ Reusable(p)
    /\ proc[p].pv > 0
    /\ proc' = [proc EXCEPT ![p] = Born(p, f, "outside", "none")]
    /\ UNCHANGED <<user, execs, call, wire, cliVars, nodes, arming, gapVars, refused>>

-----------------------------------------------------------------------------
(* The CLI: run_orchestrator::run and RegisterRoot.                         *)

\* preflight_root_command and spawn_wrapped_with_pgid: the child runs before
\* the daemon knows of it.
SpawnRoot(r, p, f) ==
    /\ cli[r] = "start"
    /\ Content[f].dir # "apple_system"
    /\ Reusable(p)
    /\ proc' = [proc EXCEPT ![p] = Born(p, f, "root", Loaded(f))]
    /\ cli' = [cli EXCEPT ![r] = "spawned"]
    /\ claim' = [claim EXCEPT ![r] = [NoToken EXCEPT !.pid = p]]
    /\ UNCHANGED <<user, execs, call, wire, runRoot, nodes, arming, gapVars, refused>>

\* audit_token_for_pid(child); without a token the CLI gives up.
ClaimRoot(r) ==
    LET tok == AuditTokenForPid(claim[r].pid)
    IN  /\ cli[r] = "spawned"
        /\ cli' = [cli EXCEPT ![r] = IF tok = NoToken THEN "failed" ELSE "claimed"]
        /\ claim' = [claim EXCEPT ![r] = tok]
        /\ UNCHANGED <<osVars, call, wire, runRoot, nodes, arming, gapVars, refused>>

Put(t, n) == [x \in DOMAIN nodes \cup {t} |-> IF x = t THEN n ELSE nodes[x]]

\* verify_wire_pid_matches_token for a peer of the same user: without a
\* readable uid the pid must exist, and a pidversion that both sides know
\* must agree.
VerifyWirePid(tok) ==
    /\ Live(tok.pid)
    /\ tok.pv # 0 /\ KernelPidversion(tok.pid) # 0 => KernelPidversion(tok.pid) = tok.pv

\* handle_legacy_register_root up to insert_root, which keeps a node that is
\* already there.
InsertRoot(r) ==
    LET tok == claim[r]
    IN  /\ cli[r] = "claimed"
        /\ IF VerifyWirePid(tok)
           THEN /\ cli' = [cli EXCEPT ![r] = "inserted"]
                /\ nodes' = IF tok \in DOMAIN nodes THEN nodes
                            ELSE Put(tok, [parent |-> NoToken, root |-> tok, run |-> r,
                                           gap |-> "none"])
           ELSE /\ cli' = [cli EXCEPT ![r] = "failed"]
                /\ UNCHANGED nodes
        /\ UNCHANGED <<osVars, call, wire, claim, runRoot, arming, gapVars, refused>>

\* Variant: binding the run starts the node afresh.
BindAfresh(r) ==
    /\ cli[r] = "inserted"
    /\ cli' = [cli EXCEPT ![r] = "registered"]
    /\ runRoot' = [runRoot EXCEPT ![r] = claim[r]]
    /\ nodes' = Put(claim[r], [parent |-> NoToken, root |-> claim[r], run |-> r, gap |-> "none"])
    /\ UNCHANGED <<osVars, call, wire, claim, arming, gapVars, refused>>

\* bind_run_root: the run record, then, under another lock, the node.  The
\* handler has just given the node these values, so the step between the two
\* locks shows nothing new.
BindRunRoot(r) ==
    /\ cli[r] = "inserted"
    /\ cli' = [cli EXCEPT ![r] = "registered"]
    /\ runRoot' = [runRoot EXCEPT ![r] = claim[r]]
    /\ nodes' = [nodes EXCEPT ![claim[r]].run = r, ![claim[r]].root = claim[r]]
    /\ UNCHANGED <<osVars, call, wire, claim, arming, gapVars, refused>>

-----------------------------------------------------------------------------
(* The hook: its constructor and the fork, spawn and exec entry points.     *)

Send(tag, p, c, v) ==
    /\ Cardinality(wire) < MaxFrames
    /\ wire' = wire \cup {[tag |-> tag, peer |-> KernelToken(p), child |-> c, pv |-> v]}

\* A best-effort message: it is sent, or the daemon cannot be reached.
Offer(tag, p) == Send(tag, p, "none", 0) \/ UNCHANGED wire

Ready(p) == Live(p) /\ proc[p].hook = "on" /\ call[p].st = "idle"

\* guard_hook_init: no DylibLoaded when the snapshot or the self-check fails.
Ctor(p) ==
    /\ Live(p) /\ proc[p].hook = "ctor"
    /\ proc' = [proc EXCEPT ![p].hook = "on"]
    /\ Offer("loaded", p)
    /\ UNCHANGED <<user, execs, call, cliVars, nodes, arming, gapVars, refused>>

Creating(kind, c) == [st |-> "created", kind |-> kind, child |-> c, pv |-> 0]

\* guard_fork and guard_vfork up to raw_fork: the child is a copy with the
\* hook in place and runs at once.
Fork(p, c) ==
    /\ Ready(p) /\ c # p /\ Reusable(c)
    /\ proc' = [proc EXCEPT ![c] = Born(c, proc[p].file, proc[p].via, "on")]
    /\ call' = [call EXCEPT ![p] = Creating("fork", c)]
    /\ UNCHANGED <<user, execs, wire, cliVars, nodes, arming, gapVars, refused>>

\* guard_posix_spawn and guard_posix_spawnp up to the real call: the target
\* is classified, an environment without the hook's variables is reported.  A
\* caller that passes no pid_out gets its child without any ForkEvent.
Spawn(p, c, f, keepsEnv) ==
    /\ Ready(p) /\ c # p /\ Reusable(c)
    /\ Decision[f] = "Allow"
    /\ IF keepsEnv THEN UNCHANGED wire ELSE Offer("env", p)
    /\ proc' = [proc EXCEPT ![c] = Born(c, f, "hook", IF keepsEnv THEN Loaded(f) ELSE "none")]
    /\ \/ call' = [call EXCEPT ![p] = Creating("spawn", c)]
       \/ UNCHANGED call
    /\ UNCHANGED <<user, execs, cliVars, nodes, arming, gapVars, refused>>

\* guard_execve, guard_execvp, guard_execv: the event goes out before the real
\* call, which may still fail.
Exec(p, f, succeeds) ==
    /\ Ready(p)
    /\ Decision[f] = "Allow"
    /\ execs < MaxExecs /\ execs' = execs + 1
    /\ Offer("exec", p)
    /\ proc' = IF succeeds THEN [proc EXCEPT ![p].file = f, ![p].via = "hook",
                                            ![p].hook = Loaded(f)]
               ELSE proc
    /\ UNCHANGED <<user, call, cliVars, nodes, arming, gapVars, refused>>

\* send_fork_event_sync: the pidversion is read now, the frame is sent or the
\* daemon cannot be reached.
SendFork(p) ==
    LET c == call[p].child
        v == ChildPidversion(c)
    IN  /\ Live(p) /\ call[p].st = "created"
        /\ \/ /\ Send("fork", p, c, v)
              /\ call' = [call EXCEPT ![p].st = "waiting", ![p].pv = v]
           \/ /\ call' = [call EXCEPT ![p].st = "failed", ![p].pv = v]
              /\ UNCHANGED wire
        /\ UNCHANGED <<osVars, cliVars, nodes, arming, gapVars, refused>>

\* The read timeout of the round trip; the daemon may still act on the frame.
ForkTimeout(p) ==
    /\ Live(p) /\ call[p].st = "waiting"
    /\ call' = [call EXCEPT ![p].st = "failed"]
    /\ UNCHANGED <<osVars, wire, cliVars, nodes, arming, gapVars, refused>>

\* An accepted or passed-through child; after an accepted spawn the parent
\* also sends an ExecEvent, of which it is itself the peer.
ReturnChild(p) ==
    /\ Live(p) /\ call[p].st \in {"ok", "untracked"}
    /\ proc' = [proc EXCEPT ![call[p].child].adm =
                  IF Live(call[p].child) THEN call[p].st ELSE @]
    /\ call' = [call EXCEPT ![p] = IdleCall]
    /\ IF call[p].kind = "spawn" /\ call[p].st = "ok" THEN Offer("exec", p) ELSE UNCHANGED wire
    /\ UNCHANGED <<user, execs, cliVars, nodes, arming, gapVars, refused>>

\* Variant: the failed call only returns.
KeepsChild(p) == FALSE

\* Does the failed call kill its child?  fork does at once; spawn compares the
\* pidversion first.
KillsChild(p) ==
    \/ call[p].kind = "fork"
    \/ ChildPidversion(call[p].child) # 0 /\ ChildPidversion(call[p].child) = call[p].pv

\* The error path: EAGAIN is returned to the caller.
ReturnFailed(p) ==
    LET c == call[p].child
    IN  /\ Live(p) /\ call[p].st = "failed"
        /\ proc' = IF KillsChild(p) THEN Kill(c) ELSE proc
        /\ call' = [call EXCEPT ![p] = IdleCall, ![c] = IF KillsChild(p) THEN IdleCall ELSE @]
        /\ refused' = refused \cup {<<c, proc[c].pv>>}
        /\ UNCHANGED <<user, execs, wire, cliVars, nodes, arming, gapVars>>

-----------------------------------------------------------------------------
(* The daemon's handlers.  A reply reaches the caller only if it still      *)
(* waits for this very frame.                                               *)

Tracked(t) == t \in DOMAIN nodes

Answer(m, st) ==
    LET p == m.peer.pid
    IN  call' = IF /\ Live(p) /\ KernelToken(p) = m.peer
                   /\ call[p].st = "waiting" /\ call[p].child = m.child /\ call[p].pv = m.pv
                THEN [call EXCEPT ![p].st = st] ELSE call

\* Variant: the child becomes its parent's subtree, not the run's.
ForkedBelowParent(parent) == [parent |-> parent, root |-> parent, run |-> nodes[parent].run,
                              gap |-> "none"]

\* Variant: the run is taken from the wrong field of the parent.
ForkedMixedUp(parent) == [parent |-> parent, root |-> nodes[parent].root,
                          run |-> nodes[parent].root, gap |-> "none"]

\* record_fork: the child inherits the root and the run, and replaces a node
\* of the same token.
Forked(parent) == [parent |-> parent, root |-> nodes[parent].root, run |-> nodes[parent].run,
                   gap |-> "none"]

\* Variant: the handler acknowledges first and leaves the tree alone.
HandleForkUnrecorded(m) ==
    /\ m \in wire /\ m.tag = "fork"
    /\ wire' = wire \ {m}
    /\ Answer(m, "ok")
    /\ UNCHANGED <<osVars, cliVars, nodes, arming, gapVars, refused>>

\* handle_fork_event up to record_fork; an untracked peer is told to go on.
HandleFork(m) ==
    LET child == ForkToken(m.child, m.pv)
    IN  /\ m \in wire /\ m.tag = "fork"
        /\ wire' = wire \ {m}
        /\ IF Tracked(m.peer)
           THEN /\ nodes' = Put(child, Forked(m.peer))
                /\ arming' = arming \cup {<<child, m.peer>>}
                /\ UNCHANGED call
           ELSE /\ Answer(m, "untracked")
                /\ UNCHANGED <<nodes, arming>>
        /\ UNCHANGED <<osVars, cliVars, gapVars, refused>>

\* arm_inner: a prior timer of the token that still waits is disconnected.
Arm(t) == timers' = timers \cup {[tok |-> t, st |-> "armed"]}

\* The rest of handle_fork_event: a timer for a hardened child, then the ack.
ArmFork(a) ==
    LET child == a[1]
    IN  /\ a \in arming
        /\ arming' = arming \ {a}
        /\ IF IsHardenedRuntime(child.pid) THEN Arm(child) ELSE UNCHANGED timers
        /\ Answer([peer |-> a[2], child |-> child.pid, pv |-> child.pv], "ok")
        /\ UNCHANGED <<osVars, wire, cliVars, nodes, killed, refused>>

\* handle_exec_event: the peer itself is armed if its current image is hardened.
HandleExec(m) ==
    /\ m \in wire /\ m.tag = "exec"
    /\ wire' = wire \ {m}
    /\ IF Tracked(m.peer) /\ IsHardenedRuntime(m.peer.pid)
       THEN Arm(m.peer) ELSE UNCHANGED timers
    /\ UNCHANGED <<osVars, call, cliVars, nodes, arming, killed, refused>>

\* GapDetector::cancel: the sender leaves pending, and the timer ends if it
\* still waits.
Cancel(tok) == timers' = timers \ {[tok |-> tok, st |-> "armed"]}

\* handle_dylib_loaded
HandleLoaded(m) ==
    /\ m \in wire /\ m.tag = "loaded"
    /\ wire' = wire \ {m}
    /\ IF Tracked(m.peer) THEN Cancel(m.peer) ELSE UNCHANGED timers
    /\ UNCHANGED <<osVars, call, cliVars, nodes, arming, killed, refused>>

\* handle_env_not_propagated_frame: the gap is the peer's; nothing is armed.
HandleEnv(m) ==
    /\ m \in wire /\ m.tag = "env"
    /\ wire' = wire \ {m}
    /\ IF Tracked(m.peer)
       THEN nodes' = [nodes EXCEPT ![m.peer].gap = "env"] ELSE UNCHANGED nodes
    /\ UNCHANGED <<osVars, call, cliVars, arming, timers, killed, refused>>

-----------------------------------------------------------------------------
(* A timer thread.  Its sender stays in pending after the timeout, where a   *)
(* later cancel finds it without effect; recent_gaps and the log row only    *)
(* report.                                                                   *)

\* recv_timeout ends without a signal: from here on a cancel comes too late,
\* and set_coverage_gap follows.
TimerFires(t) ==
    /\ t \in timers /\ t.st = "armed"
    /\ timers' = (timers \ {t}) \cup {[t EXCEPT !.st = "expired"]}
    /\ nodes' = IF Tracked(t.tok) THEN [nodes EXCEPT ![t.tok].gap = "hardened"] ELSE nodes
    /\ UNCHANGED <<osVars, call, wire, cliVars, arming, killed, refused>>

\* Variant: the pid alone identifies the process.
AnyPidversion(t) == TRUE

\* pidversion_still_matches: an unknown pidversion on either side matches.
PidversionStillMatches(t) ==
    t.tok.pv = 0 \/ KernelPidversion(t.tok.pid) \in {0, t.tok.pv}

\* kill_gap_process; ESRCH is ignored.  The check and the kill are consecutive
\* system calls, between which a pid does not wrap around.
TimerKills(t) ==
    LET p == t.tok.pid
    IN  /\ t \in timers /\ t.st = "expired"
        /\ timers' = timers \ {t}
        /\ IF Live(p) /\ PidversionStillMatches(t)
           THEN /\ proc' = Kill(p)
                /\ call' = [call EXCEPT ![p] = IdleCall]
                /\ killed' = killed \cup {[tok |-> t.tok, pv |-> proc[p].pv]}
           ELSE UNCHANGED <<proc, call, killed>>
        /\ UNCHANGED <<user, execs, wire, cliVars, nodes, arming, refused>>

-----------------------------------------------------------------------------
DaemonStep ==
    \/ \E m \in wire : HandleFork(m) \/ HandleExec(m) \/ HandleLoaded(m) \/ HandleEnv(m)
    \/ \E a \in arming : ArmFork(a)

TimerStep ==
    \E t \in timers : TimerFires(t) \/ TimerKills(t)

Next ==
    \/ \E p \in Pids :
         \/ Exit(p) \/ Ctor(p) \/ SendFork(p) \/ ForkTimeout(p)
         \/ ReturnChild(p) \/ ReturnFailed(p)
         \/ \E c \in Pids : Fork(p, c)
         \/ \E f \in Files :
              \/ f \in Strangers /\ OutsideStart(p, f)
              \/ \E ok \in BOOLEAN : Exec(p, f, ok) \/ \E c \in Pids : Spawn(p, c, f, ok)
    \/ \E r \in Runs :
         \/ \E p \in Pids, f \in Commands : SpawnRoot(r, p, f)
         \/ ClaimRoot(r) \/ InsertRoot(r) \/ BindRunRoot(r)
    \/ DaemonStep
    \/ TimerStep

Spec == Init /\ [][Next]_vars

-----------------------------------------------------------------------------
(* Properties                                                               *)

\* The tree that status and enrichment walk is a forest of runs: whatever the
\* order of RegisterRoot, ForkEvents and pid reuse, every node's tree_root is
\* a node that is its own root and belongs to the same run (insert_root,
\* record_fork, bind_run_root), and the root of a run record is such a node.
TreeRooted ==
    /\ \A r \in Runs : runRoot[r] # NoToken
         => runRoot[r] \in DOMAIN nodes /\ nodes[runRoot[r]].root = runRoot[r]
    /\ \A t \in DOMAIN nodes :
         LET r == nodes[t].root
         IN  r \in DOMAIN nodes /\ nodes[r].root = r /\ nodes[r].run = nodes[t].run

\* The fail-closed kill of the gap detector hits the incarnation it was armed
\* for and never a program that got the pid later, provided the pidversion is
\* known on both sides (pidversion_still_matches).
KillHitsArmedProcess ==
    \A k \in killed : k.tok.pv # 0 /\ k.tok.pid \notin NoTaskPort => k.pv = k.tok.pv

\* A fork or posix_spawn that returned EAGAIN because the daemon did not
\* acknowledge it leaves no child behind, late acknowledgements and exits of
\* the child included (guard_fork, finish_spawn).
FailedForkLeavesNoChild ==
    \A p \in Pids : Live(p) => <<p, proc[p].pv>> \notin refused

\* When fork or posix_spawn returns a child as accepted, the daemon's tree
\* already has a node with its pid and pidversion, and keeps it as long as the
\* child lives (handle_fork_event records before it acknowledges).
AdmittedIsTracked ==
    \A p \in Pids :
        Live(p) /\ proc[p].adm = "ok"
        => \E t \in DOMAIN nodes : t.pid = p /\ t.pv \in {proc[p].pv, StartTime(proc[p].pv)}

\* A native image that runs because the hook let it be spawned or executed has
\* no system-call instruction anywhere in its text, wherever the chunks of the
\* scan begin and end (scan_file_range against the whole range), and does not
\* make the loader drop the hook.
AdmittedImageClean ==
    \A p \in Pids :
        LET f == Content[proc[p].file]
        IN  Live(p) /\ proc[p].via = "hook" /\ HeaderKind(f) = "Thin64"
            => /\ ~Sheds[proc[p].file]
               /\ \A i \in TextRanges(f) :
                    LET c == f.cmds[i]
                    IN  ~ContainsSyscallPattern(SubSeq(f.bytes, c.off + 1, c.off + c.filesize))

\* A coverage gap, once recorded for a process, stays on its node: neither a
\* late ForkEvent nor a second binding of the run erases it (tokens without a
\* pidversion name no single process).
GapNeverErased ==
    [][\A t \in DOMAIN nodes :
         t.pv # 0 /\ nodes[t].gap # "none" => t \in DOMAIN nodes' /\ nodes'[t].gap # "none"]_vars
=============================================================================
