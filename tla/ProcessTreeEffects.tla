------------------------ MODULE ProcessTreeEffects ------------------------
(***************************************************************************)
(* The inductive invariant of ProcessTree, and what each step of it does   *)
(* to the tables the invariant is about, for any number of pids, runs,     *)
(* incarnations, executable files and frames; and that every step keeps    *)
(* the parts of it about types, calls, incarnations and roots.             *)
(***************************************************************************)
EXTENDS ProcessTree, TLAPS

-----------------------------------------------------------------------------
(* Processes and the calls that create them                                 *)

InCall(p)  == call[p].st # "idle"
Child(p)   == call[p].child
Forks      == {m \in wire : m.tag = "fork"}
Claimed(r) == cli[r] \in {"claimed", "inserted", "registered"}

\* A pidversion or start time that process p has or had.
Past(p, v) == (v <= MaxPv => v <= proc[p].pv) /\ v <= StartTime(proc[p].pv)

\* Version v is that of the incarnation of p that runs or ran last.
Latest(p, v) == v \in {proc[p].pv, StartTime(proc[p].pv)}

\* What audit_token_for_pid says of p, 0 once p has exited.
Version(p) ==
    IF ~ Live(p) THEN 0 ELSE IF p \in NoTaskPort THEN StartTime(proc[p].pv) ELSE proc[p].pv

\* The call of process p and the child it is about.  The child's pid is not
\* handed out again before the call returns, so what was read of it stays true.
CallKept(p) ==
    /\ ~ InCall(p) => Child(p) = "none"
    /\ InCall(p) =>
          /\ Live(p) /\ Child(p) \in Pids \ {p} /\ proc[Child(p)].pv >= 1
          /\ call[p].st # "created" /\ Live(Child(p)) => call[p].pv = Version(Child(p))
    /\ \A q \in Pids \ {p} : InCall(p) => Child(q) # Child(p)

Calls == \A p \in Pids : (Live(p) => proc[p].pv >= 1) /\ CallKept(p)

\* What frames, nodes and reports name are incarnations that were.
Known ==
    /\ \A m \in Forks : m.child \in Pids /\ Past(m.child, m.pv)
    /\ \A t \in DOMAIN nodes : Past(t.pid, t.pv)
    /\ \A a \in arming : a[1] \in DOMAIN nodes

-----------------------------------------------------------------------------
(* Runs and their roots                                                     *)

\* The root of run r is an incarnation that no fork or spawn created.
NotForked(r) ==
    LET tok == claim[r]
    IN  /\ cli[r] = "spawned" =>
              /\ tok.pid \in Pids
              /\ \A q \in Pids : Child(q) # tok.pid
              /\ \A m \in Forks : m.child = tok.pid => m.pv # proc[tok.pid].pv
        /\ Claimed(r) =>
              /\ tok \in Tokens /\ Past(tok.pid, tok.pv)
              /\ \/ tok.src = "bsdinfo" /\ tok.pv > MaxPv
                 \/ /\ tok.src = "kernel" /\ tok.pv \in 1 .. MaxPv
                    /\ \A q \in Pids : Child(q) = tok.pid => proc[tok.pid].pv # tok.pv
                    /\ \A m \in Forks : m.child = tok.pid => m.pv # tok.pv

\* Two runs have different roots.
OwnRoot(r, s) ==
    /\ cli[r] = "spawned" /\ cli[s] = "spawned" => claim[r].pid # claim[s].pid
    /\ cli[r] = "spawned" /\ Claimed(s) /\ claim[r].pid = claim[s].pid
          => ~ Latest(claim[s].pid, claim[s].pv)
    /\ Claimed(r) /\ Claimed(s) => claim[r] # claim[s]

Roots ==
    /\ \A r \in Runs : NotForked(r)
    /\ \A r, s \in Runs : r # s => OwnRoot(r, s)

\* A node that is its own root is the one of the run it belongs to.
Forest ==
    /\ \A r \in Runs : cli[r] \in {"inserted", "registered"} => claim[r] \in DOMAIN nodes
    /\ \A r \in Runs : runRoot[r] # NoToken =>
          cli[r] = "registered" /\ runRoot[r] = claim[r] /\ nodes[claim[r]].root = claim[r]
    /\ \A t \in DOMAIN nodes : nodes[t].root = t =>
          claim[nodes[t].run] = t /\ cli[nodes[t].run] \in {"inserted", "registered"}
    /\ \A t \in DOMAIN nodes :
          LET r == nodes[t].root
          IN  r \in DOMAIN nodes /\ nodes[r].root = r /\ nodes[r].run = nodes[t].run

-----------------------------------------------------------------------------
(* Reports of forks, refusals and admissions                                *)

\* A node names version v of p by more than the start time of a root.
Recorded(p, v) == \E t \in DOMAIN nodes : t.src # "bsdinfo" /\ t.pid = p /\ t.pv = v

\* The daemon has no node yet for the child of a report on its way, nor of one
\* still to be sent; and no two reports are about the same incarnation.
Fresh ==
    /\ \A m \in Forks : m.pv # 0 => ~ Recorded(m.child, m.pv)
    /\ \A m, n \in Forks : m.pv # 0 /\ m.pv = n.pv /\ m.child = n.child => m = n
    /\ \A p \in Pids : call[p].st = "created" /\ Live(Child(p)) =>
          /\ ~ Recorded(Child(p), Version(Child(p)))
          /\ \A m \in Forks : m.child = Child(p) => m.pv # Version(Child(p))

Gone ==
    \A p \in Pids, v \in 0 .. MaxPv :
        <<p, v>> \in refused => v <= proc[p].pv /\ (v = proc[p].pv => ~ Live(p))

\* Some node of the tree names the running incarnation of p.
InTree(p) == \E t \in DOMAIN nodes : t.pid = p /\ Latest(p, t.pv)

Admitted ==
    /\ \A p \in Pids : call[p].st = "ok" /\ Live(Child(p)) => InTree(Child(p))
    /\ \A p \in Pids : Live(p) /\ proc[p].adm = "ok" => InTree(p)

\* The hook let the image of p run.
Allowed == \A p \in Pids : Live(p) /\ proc[p].via = "hook" => Decision[proc[p].file] = "Allow"

IndInv == TypeOK /\ Calls /\ Known /\ Roots /\ Forest /\ Fresh /\ Gone /\ Admitted /\ Allowed
          /\ KillHitsArmedProcess

-----------------------------------------------------------------------------
(* What a step does to processes, calls and frames                          *)

ProcRecs == [st : {"dead", "live"}, pv : 0 .. MaxPv, file : Files,
             via : {"root", "hook", "outside"}, hook : {"none", "ctor", "on"},
             adm : {"none", "ok", "untracked"}]
CallRecs == [st : ForkStages, kind : Kinds, child : Pids \cup {"none"}, pv : Pvs]
Claims   == Tokens \cup {[NoToken EXCEPT !.pid = p] : p \in Pids \cup {"none"}}

OthersSame(f, g, x) == \A q \in Pids \ {x} : g[q] = f[q]

\* Process c is created under a pid that is free.
Births(c) ==
    /\ Reusable(c) /\ proc' \in [Pids -> ProcRecs] /\ OthersSame(proc, proc', c)
    /\ proc'[c].st = "live" /\ proc'[c].pv = proc[c].pv + 1 /\ proc'[c].adm = "none"

\* The numbers behind the pidversions.
LEMMA Numbers ==
    /\ MaxPv \in Nat /\ Pvs = 0 .. 2 * MaxPv + 1
    /\ \A v \in 0 .. MaxPv : StartTime(v) \in Pvs /\ StartTime(v) > MaxPv /\ v \in Pvs
BY TreeAssumption DEF Pvs, StartTime

\* The process and call tables are functions to records.
LEMMA Tables == ASSUME TypeOK PROVE proc \in [Pids -> ProcRecs] /\ call \in [Pids -> CallRecs]
BY Zenon DEF TypeOK, ProcRecs, CallRecs

\* A new process has the next pidversion of its pid.
LEMMA BornIs ==
    ASSUME TypeOK, NEW c \in Pids, Reusable(c), NEW f \in Files, NEW via \in {"root", "hook", "outside"},
           NEW hook \in {"none", "ctor", "on"}, proc' = [proc EXCEPT ![c] = Born(c, f, via, hook)]
    PROVE  Births(c) /\ proc'[c].file = f /\ proc'[c].via = via
<1>1. proc \in [Pids -> ProcRecs] /\ proc[c] \in ProcRecs
  BY Tables, Zenon
<1>2. proc[c].pv \in 0 .. MaxPv /\ proc[c].pv < MaxPv
  BY <1>1, Zenon DEF ProcRecs, Reusable
<1>3. proc[c].pv + 1 \in 0 .. MaxPv
  BY <1>2, Numbers
<1>4. Born(c, f, via, hook) \in ProcRecs
  BY <1>3, Zenon DEF Born, ProcRecs
<1>5. proc' \in [Pids -> ProcRecs] /\ proc'[c] = Born(c, f, via, hook) /\ OthersSame(proc, proc', c)
  BY <1>1, <1>4, Zenon DEF OthersSame
<1> QED BY <1>5, Zenon DEF Births, Born

\* What a death leaves of the table.
Dies(D) ==
    /\ proc' \in [Pids -> ProcRecs]
    /\ \A p \in D : proc'[p].st = "dead" /\ proc'[p].pv = proc[p].pv
    /\ \A p \in Pids \ D : proc'[p] = proc[p]

\* A killed process leaves its pid and its pidversion.
LEMMA KillIs == ASSUME TypeOK, NEW p \in Pids, proc' = Kill(p) PROVE Dies({p})
<1>1. proc \in [Pids -> ProcRecs] /\ proc[p] \in ProcRecs
  BY Tables, Zenon
<1>2. (CHOOSE f \in Files : TRUE) \in Files
  BY TreeAssumption, Zenon
<1>3. Dead(proc[p].pv) \in ProcRecs /\ Dead(proc[p].pv).st = "dead" /\ Dead(proc[p].pv).pv = proc[p].pv
  BY <1>1, <1>2, Zenon DEF Dead, ProcRecs
<1>4. proc' = [proc EXCEPT ![p] = Dead(proc[p].pv)]
  BY Zenon DEF Kill
<1> QED BY <1>1, <1>3, <1>4, Zenon DEF Dies

\* The idle call, and a call that has just created its child.
LEMMA CallsAre ==
    /\ IdleCall \in CallRecs /\ IdleCall.st = "idle" /\ IdleCall.child = "none"
    /\ \A kind \in Kinds, c \in Pids : /\ Creating(kind, c) \in CallRecs
                                       /\ Creating(kind, c).st = "created"
                                       /\ Creating(kind, c).child = c
BY Numbers DEF IdleCall, CallRecs, ForkStages, Kinds, Creating

\* The token the kernel gives for process p.
LEMMA KernelTokenIs == ASSUME TypeOK, NEW p \in Pids PROVE KernelToken(p) \in Tokens
<1>1. proc[p].pv \in Pvs
  <2>1. proc[p] \in ProcRecs
    BY Tables, Zenon
  <2> QED BY <2>1, Numbers, Zenon DEF ProcRecs
<1> QED BY <1>1, Zenon DEF KernelToken, Tokens

\* A best-effort message is no report of a fork.
LEMMA OfferIs ==
    ASSUME TypeOK, NEW p \in Pids, NEW tag \in {"exec", "loaded", "env"}, Offer(tag, p) \/ UNCHANGED wire
    PROVE  Forks' = Forks /\ wire' \subseteq Frames
<1>1. wire \subseteq Frames
  BY Zenon DEF TypeOK
<1>2. CASE UNCHANGED wire
  BY <1>1, <1>2, Zenon DEF Forks
<1>3. CASE Send(tag, p, "none", 0)
  <2> DEFINE m == [tag |-> tag, peer |-> KernelToken(p), child |-> "none", pv |-> 0]
  <2>1. m \in Frames /\ m.tag # "fork"
    BY KernelTokenIs, Numbers DEF Frames
  <2>2. wire' = wire \cup {m}
    BY <1>3, Zenon DEF Send
  <2> HIDE DEF m
  <2> QED BY <1>1, <2>1, <2>2, Zenon DEF Forks
<1> QED BY <1>2, <1>3, Zenon DEF Offer

\* The pidversion that is read of a process.
LEMMA VersionIs ==
    ASSUME TypeOK, NEW p \in Pids
    PROVE  /\ proc[p].pv \in 0 .. MaxPv /\ ChildPidversion(p) \in Pvs
           /\ ChildPidversion(p) = Version(p)
           /\ ~ Live(p) => ChildPidversion(p) = 0 /\ AuditTokenForPid(p) = NoToken
           /\ Live(p) => /\ ChildPidversion(p) = IF p \in NoTaskPort THEN StartTime(proc[p].pv)
                                                 ELSE proc[p].pv
                         /\ AuditTokenForPid(p) = [src |-> IF p \in NoTaskPort THEN "bsdinfo" ELSE "kernel",
                                                   pid |-> p, pv |-> ChildPidversion(p)]
                         /\ AuditTokenForPid(p) \in Tokens
<1>1. proc[p].pv \in 0 .. MaxPv
  <2>1. proc[p] \in ProcRecs
    BY Tables
  <2> QED BY <2>1 DEF ProcRecs
<1>2. CASE ~ Live(p)
  BY <1>1, <1>2, Numbers DEF ChildPidversion, AuditTokenForPid, NoToken, Version
<1>3. CASE Live(p) /\ p \in NoTaskPort
  BY <1>1, <1>3, Numbers, Zenon DEF ChildPidversion, AuditTokenForPid, Tokens, Version
<1>4. CASE Live(p) /\ p \notin NoTaskPort
  BY <1>1, <1>4, Numbers, Zenon DEF ChildPidversion, AuditTokenForPid, Tokens, KernelToken, Version
<1> QED BY <1>2, <1>3, <1>4, Zenon

-----------------------------------------------------------------------------
(* The effects of the steps of the hook and the kernel                      *)

SameRest == UNCHANGED <<user, cli, claim, runRoot, nodes, arming, timers, killed, refused>>
Wired    == wire' \subseteq Frames

\* A process is started: from outside, by a CLI, by fork or by posix_spawn.
BirthEffect(c) ==
    /\ Births(c) /\ Forks' = Forks /\ Wired
    /\ UNCHANGED <<user, execs, runRoot, nodes, arming, timers, killed, refused>>
    /\ \/ call' = call
       \/ \E p \in Pids \ {c} :
             /\ Live(p) /\ ~ InCall(p)
             /\ call' \in [Pids -> CallRecs] /\ OthersSame(call, call', p)
             /\ call'[p].st = "created" /\ call'[p].child = c
    /\ \/ cli' = cli /\ claim' = claim
       \/ /\ call' = call
          /\ \E r \in Runs :
                /\ cli[r] = "start" /\ cli' \in [Runs -> CliPhases] /\ claim' \in [Runs -> Claims]
                /\ cli'[r] = "spawned" /\ claim'[r].pid = c
                /\ \A s \in Runs \ {r} : cli'[s] = cli[s] /\ claim'[s] = claim[s]
    /\ \/ proc'[c].via # "hook"
       \/ Decision[proc'[c].file] = "Allow"
       \/ \E p \in Pids : Live(p) /\ proc'[c].via = proc[p].via /\ proc'[c].file = proc[p].file

\* The processes in D die and the calls of those in I end.
DeathEffect(D, I) ==
    /\ Dies(D) /\ D \subseteq I /\ I \subseteq Pids /\ call' \in [Pids -> CallRecs]
    /\ \A p \in I : call'[p] = IdleCall
    /\ \A p \in Pids \ I : call'[p] = call[p]
    /\ UNCHANGED <<user, execs, wire, cli, claim, runRoot, nodes, arming>>

ExitEffect(p) == DeathEffect({p}, {p}) /\ UNCHANGED <<timers, killed, refused>>

\* The constructor, or an exec that may fail.
ImageEffect(p) ==
    /\ Live(p) /\ proc' \in [Pids -> ProcRecs] /\ OthersSame(proc, proc', p)
    /\ proc'[p].st = "live" /\ proc'[p].pv = proc[p].pv /\ proc'[p].adm = proc[p].adm
    /\ \/ proc'[p].file = proc[p].file /\ proc'[p].via = proc[p].via
       \/ proc'[p].via = "hook" /\ Decision[proc'[p].file] = "Allow"
    /\ Forks' = Forks /\ Wired /\ execs' \in 0 .. MaxExecs
    /\ SameRest /\ UNCHANGED call

\* The pidversion of the child is read and its fork reported, if the daemon can
\* be reached.
SendEffect(p) ==
    LET v == Version(Child(p))
    IN  /\ Live(p) /\ call[p].st = "created"
        /\ call' \in [Pids -> CallRecs] /\ OthersSame(call, call', p)
        /\ call'[p].st \in {"waiting", "failed"} /\ call'[p].child = Child(p) /\ call'[p].pv = v
        /\ \/ Forks' = Forks
           \/ \E m \in Frames : m.child = Child(p) /\ m.pv = v /\ Forks' = Forks \cup {m}
        /\ Wired /\ SameRest /\ UNCHANGED <<proc, execs>>

TimeoutEffect(p) ==
    /\ call[p].st = "waiting" /\ call' \in [Pids -> CallRecs] /\ OthersSame(call, call', p)
    /\ call'[p].st = "failed" /\ call'[p].child = Child(p) /\ call'[p].pv = call[p].pv
    /\ SameRest /\ UNCHANGED <<proc, execs, wire>>

\* The call returns an accepted or passed-through child.
ReturnEffect(p) ==
    LET c == Child(p)
    IN  /\ Live(p) /\ call[p].st \in {"ok", "untracked"}
        /\ proc' \in [Pids -> ProcRecs] /\ OthersSame(proc, proc', c)
        /\ proc'[c].st = proc[c].st /\ proc'[c].pv = proc[c].pv
        /\ proc'[c].file = proc[c].file /\ proc'[c].via = proc[c].via
        /\ proc'[c].adm = IF Live(c) THEN call[p].st ELSE proc[c].adm
        /\ call' \in [Pids -> CallRecs] /\ OthersSame(call, call', p) /\ call'[p] = IdleCall
        /\ Forks' = Forks /\ Wired /\ SameRest /\ UNCHANGED execs

\* The call fails, and kills its child unless another process has its pid.
FailEffect(p) ==
    LET c == Child(p)
    IN  /\ Live(p) /\ call[p].st = "failed"
        /\ \/ KillsChild(p) /\ DeathEffect({c}, {p, c})
           \/ ~ KillsChild(p) /\ DeathEffect({}, {p})
        /\ refused' = refused \cup {<<c, proc[c].pv>>} /\ UNCHANGED <<timers, killed>>

\* A process is started.
LEMMA BirthEffects ==
    ASSUME TypeOK, Calls,
           \/ \E p \in Pids, f \in Files : OutsideStart(p, f)
           \/ \E r \in Runs, p \in Pids, f \in Commands : SpawnRoot(r, p, f)
           \/ \E p \in Pids, c \in Pids : Fork(p, c)
           \/ \E p \in Pids, c \in Pids, f \in Files, ok \in BOOLEAN : Spawn(p, c, f, ok)
    PROVE  \E c \in Pids : BirthEffect(c)
<1>0. /\ proc \in [Pids -> ProcRecs] /\ call \in [Pids -> CallRecs] /\ wire \subseteq Frames
      /\ cli \in [Runs -> CliPhases] /\ claim \in [Runs -> Claims] /\ Commands \subseteq Files
  BY Tables, TreeAssumption, Zenon DEF TypeOK, Claims
<1>1. ASSUME NEW p \in Pids, NEW f \in Files, OutsideStart(p, f) PROVE BirthEffect(p)
  <2>1. Births(p) /\ proc'[p].via = "outside"
    BY <1>1, BornIs, Zenon DEF OutsideStart
  <2> QED BY <1>0, <1>1, <2>1, Zenon DEF OutsideStart, BirthEffect, Forks, Wired, cliVars, gapVars
<1>2. ASSUME NEW r \in Runs, NEW p \in Pids, NEW f \in Commands, SpawnRoot(r, p, f) PROVE BirthEffect(p)
  <2>1. Loaded(f) \in {"none", "ctor", "on"} /\ f \in Files
    BY <1>0, Zenon DEF Loaded
  <2>2. Births(p) /\ proc'[p].via = "root"
    BY <1>2, <2>1, BornIs, Zenon DEF SpawnRoot
  <2> DEFINE tok == [NoToken EXCEPT !.pid = p]
  <2>3. tok \in Claims /\ tok.pid = p
    BY DEF Claims, NoToken
  <2>4. /\ cli' \in [Runs -> CliPhases] /\ claim' \in [Runs -> Claims] /\ cli[r] = "start"
        /\ cli'[r] = "spawned" /\ claim'[r].pid = p
        /\ \A s \in Runs \ {r} : cli'[s] = cli[s] /\ claim'[s] = claim[s]
    <3> HIDE DEF tok
    <3>1. cli' = [cli EXCEPT ![r] = "spawned"] /\ claim' = [claim EXCEPT ![r] = tok] /\ cli[r] = "start"
      BY <1>2, Zenon DEF SpawnRoot, tok
    <3> QED BY <1>0, <2>3, <3>1, Zenon DEF CliPhases
  <2> QED BY <1>0, <1>2, <2>2, <2>4 DEF SpawnRoot, BirthEffect, Forks, Wired, gapVars
<1>3. ASSUME NEW p \in Pids, NEW c \in Pids, Fork(p, c) PROVE BirthEffect(c)
  <2>1. proc[p].file \in Files /\ proc[p].via \in {"root", "hook", "outside"} /\ Live(p)
        /\ call[p].st = "idle"
    BY <1>0, <1>3, Zenon DEF ProcRecs, Fork, Ready
  <2>2. Births(c) /\ proc'[c].via = proc[p].via /\ proc'[c].file = proc[p].file
    BY <1>3, <2>1, BornIs, Zenon DEF Fork
  <2>3. /\ call' \in [Pids -> CallRecs] /\ OthersSame(call, call', p)
        /\ call'[p].st = "created" /\ call'[p].child = c /\ c # p
    <3>1. call' = [call EXCEPT ![p] = Creating("fork", c)] /\ "fork" \in Kinds /\ c # p
      BY <1>3 DEF Fork, Kinds
    <3> QED BY <1>0, <3>1, CallsAre, Zenon DEF OthersSame
  <2> QED BY <1>0, <1>3, <2>1, <2>2, <2>3, Zenon
             DEF Fork, BirthEffect, Forks, Wired, InCall, cliVars, gapVars
<1>4. ASSUME NEW p \in Pids, NEW c \in Pids, NEW f \in Files, NEW ok \in BOOLEAN, Spawn(p, c, f, ok)
      PROVE  BirthEffect(c)
  <2>1. /\ Live(p) /\ call[p].st = "idle" /\ Decision[f] = "Allow" /\ c # p
        /\ (IF ok THEN Loaded(f) ELSE "none") \in {"none", "ctor", "on"}
    BY <1>4 DEF Loaded, Spawn, Ready
  <2>2. Births(c) /\ proc'[c].via = "hook" /\ proc'[c].file = f
    BY <1>4, <2>1, BornIs, Zenon DEF Spawn
  <2>3. \/ call' = call
        \/ /\ call' \in [Pids -> CallRecs] /\ OthersSame(call, call', p)
           /\ call'[p].st = "created" /\ call'[p].child = c
    <3>1. "spawn" \in Kinds /\ (call' = call \/ call' = [call EXCEPT ![p] = Creating("spawn", c)])
      BY <1>4, Zenon DEF Spawn, Kinds
    <3> QED BY <1>0, <3>1, CallsAre DEF OthersSame
  <2>4. Forks' = Forks /\ Wired
    BY <1>4, OfferIs, Zenon DEF Spawn, Wired
  <2> QED BY <1>4, <2>1, <2>2, <2>3, <2>4, Zenon DEF Spawn, BirthEffect, InCall, cliVars, gapVars
<1> QED BY <1>1, <1>2, <1>3, <1>4, Zenon

\* A hooked process runs its constructor or another image.
LEMMA ImageEffects ==
    ASSUME TypeOK, NEW p \in Pids,
           Ctor(p) \/ \E f \in Files, ok \in BOOLEAN : Exec(p, f, ok)
    PROVE  ImageEffect(p)
<1>0. proc \in [Pids -> ProcRecs] /\ execs \in 0 .. MaxExecs
  BY Tables, Zenon DEF TypeOK
<1> DEFINE me == proc[p]
<1>1. CASE Ctor(p)
  <2> DEFINE you == [me EXCEPT !.hook = "on"]
  <2>1. you \in ProcRecs /\ you.st = me.st /\ you.pv = me.pv /\ you.adm = me.adm
        /\ you.file = me.file /\ you.via = me.via
    BY <1>0, Zenon DEF ProcRecs
  <2>2. proc' = [proc EXCEPT ![p] = you]
    BY <1>1, Zenon DEF Ctor
  <2> HIDE DEF you
  <2>3. proc' \in [Pids -> ProcRecs] /\ OthersSame(proc, proc', p) /\ proc'[p] = you
    BY <1>0, <2>1, <2>2 DEF OthersSame
  <2>4. Forks' = Forks /\ Wired
    BY <1>1, OfferIs, Zenon DEF Ctor, Wired
  <2> QED BY <1>0, <1>1, <2>1, <2>3, <2>4 DEF ImageEffect, Ctor, Live, SameRest, cliVars, gapVars
<1>2. ASSUME NEW f \in Files, NEW ok \in BOOLEAN, Exec(p, f, ok) PROVE ImageEffect(p)
  <2> DEFINE you == [me EXCEPT !.file = f, !.via = "hook", !.hook = Loaded(f)]
  <2>0. Loaded(f) \in {"none", "ctor", "on"}
    BY Zenon DEF Loaded
  <2>1. you \in ProcRecs /\ you.st = me.st /\ you.pv = me.pv /\ you.adm = me.adm
        /\ you.file = f /\ you.via = "hook"
    BY <1>0, <2>0, Zenon DEF ProcRecs
  <2>2. proc' = [proc EXCEPT ![p] = you] \/ proc' = proc
    BY <1>2, Zenon DEF Exec
  <2> HIDE DEF you
  <2>3. /\ proc' \in [Pids -> ProcRecs] /\ OthersSame(proc, proc', p)
        /\ proc'[p] = you \/ proc'[p] = me
    BY <1>0, <2>1, <2>2, Zenon DEF OthersSame
  <2>4. Forks' = Forks /\ Wired
    BY <1>2, OfferIs, Zenon DEF Exec, Wired
  <2>5. execs' \in 0 .. MaxExecs
    <3>1. execs < MaxExecs /\ execs' = execs + 1
      BY <1>2, Zenon DEF Exec
    <3> QED BY <1>0, <3>1, TreeAssumption
  <2>6. Decision[f] = "Allow" /\ Live(p)
    BY <1>2, Zenon DEF Exec, Ready
  <2> QED BY <1>0, <1>2, <2>1, <2>3, <2>4, <2>5, <2>6, Zenon
          DEF ImageEffect, Exec, Live, SameRest, cliVars, gapVars
<1> QED BY <1>1, <1>2, Zenon

\* The call of a parent goes on.
LEMMA CallEffects ==
    ASSUME TypeOK, Calls, NEW p \in Pids
    PROVE  /\ SendFork(p) => SendEffect(p)
           /\ ForkTimeout(p) => TimeoutEffect(p)
           /\ ReturnChild(p) => ReturnEffect(p)
<1>0. proc \in [Pids -> ProcRecs] /\ call \in [Pids -> CallRecs] /\ wire \subseteq Frames
  BY Tables, Zenon DEF TypeOK
<1>1. InCall(p) => Child(p) \in Pids
  BY Zenon DEF Calls, CallKept
<1> DEFINE me == call[p]
           c == Child(p)
           v == Version(c)
<1>2. ASSUME SendFork(p) PROVE SendEffect(p)
  <2>1. me.st = "created" /\ Live(p) /\ c \in Pids
    BY <1>1, <1>2, Zenon DEF SendFork, InCall
  <2>2. v \in Pvs /\ v = ChildPidversion(c)
    BY <2>1, VersionIs, Zenon
  <2>3. ASSUME NEW st \in ForkStages, call' = [call EXCEPT ![p].st = st, ![p].pv = v]
        PROVE  /\ call' \in [Pids -> CallRecs] /\ OthersSame(call, call', p)
               /\ call'[p].st = st /\ call'[p].child = c /\ call'[p].pv = v
    <3> DEFINE you == [me EXCEPT !.st = st, !.pv = v]
    <3> HIDE DEF v
    <3>1. you \in CallRecs /\ you.st = st /\ you.child = c /\ you.pv = v
      BY <1>0, <2>2, Zenon DEF CallRecs, Child
    <3>2. call' = [call EXCEPT ![p] = you]
      BY <2>3, Zenon
    <3> HIDE DEF you
    <3> QED BY <1>0, <3>1, <3>2 DEF OthersSame
  <2>4. "waiting" \in ForkStages /\ "failed" \in ForkStages
    BY DEF ForkStages
  <2>5. SameRest /\ UNCHANGED <<proc, execs>>
    BY <1>2, Zenon DEF SendFork, SameRest, osVars, cliVars, gapVars
  <2>6. CASE Send("fork", p, c, v) /\ call' = [call EXCEPT ![p].st = "waiting", ![p].pv = v]
    <3> DEFINE m == [tag |-> "fork", peer |-> KernelToken(p), child |-> c, pv |-> v]
    <3>1. m \in Frames /\ m.tag = "fork" /\ m.child = c /\ m.pv = v
      BY <2>1, <2>2, KernelTokenIs DEF Frames
    <3>2. wire' = wire \cup {m}
      BY <2>6, Zenon DEF Send
    <3> HIDE DEF m
    <3>3. Wired /\ Forks' = Forks \cup {m}
      BY <1>0, <3>1, <3>2, Zenon DEF Wired, Forks
    <3> QED BY <2>1, <2>3, <2>4, <2>5, <2>6, <3>1, <3>3, Zenon DEF SendEffect
  <2>7. CASE call' = [call EXCEPT ![p].st = "failed", ![p].pv = v] /\ UNCHANGED wire
    <3>1. Wired /\ Forks' = Forks
      BY <1>0, <2>7, Zenon DEF Wired, Forks
    <3> QED BY <2>1, <2>3, <2>4, <2>5, <2>7, <3>1, Zenon DEF SendEffect
  <2> QED BY <1>2, <2>2, <2>6, <2>7, Zenon DEF SendFork, Child
<1>3. ASSUME ForkTimeout(p) PROVE TimeoutEffect(p)
  <2> DEFINE you == [me EXCEPT !.st = "failed"]
  <2>1. you \in CallRecs /\ you.st = "failed" /\ you.child = c /\ you.pv = me.pv
    BY <1>0, Zenon DEF CallRecs, Child, ForkStages
  <2>2. call' = [call EXCEPT ![p] = you]
    BY <1>3, Zenon DEF ForkTimeout
  <2> HIDE DEF you
  <2> QED BY <1>0, <1>3, <2>1, <2>2, Zenon
          DEF OthersSame, TimeoutEffect, ForkTimeout, SameRest, osVars, cliVars, gapVars
<1>4. ASSUME ReturnChild(p) PROVE ReturnEffect(p)
  <2>1. me.st \in {"ok", "untracked"} /\ Live(p) /\ c \in Pids
    BY <1>1, <1>4, Zenon DEF ReturnChild, InCall
  <2> DEFINE old == proc[c]
             new == [old EXCEPT !.adm = IF Live(c) THEN me.st ELSE old.adm]
  <2>2. /\ new \in ProcRecs /\ new.st = old.st /\ new.pv = old.pv /\ new.file = old.file
        /\ new.via = old.via /\ new.adm = IF Live(c) THEN me.st ELSE old.adm
    <3>1. (IF Live(c) THEN me.st ELSE old.adm) \in {"none", "ok", "untracked"}
      BY <1>0, <2>1, Zenon DEF ProcRecs
    <3>2. old \in ProcRecs
      BY <1>0, <2>1, Zenon
    <3> HIDE DEF c, me, old
    <3> QED BY <3>1, <3>2, Zenon DEF ProcRecs
  <2>3. proc' = [proc EXCEPT ![c] = new] /\ call' = [call EXCEPT ![p] = IdleCall]
    BY <1>4, Zenon DEF ReturnChild, Child
  <2>4. Forks' = Forks /\ Wired
    BY <1>4, OfferIs, Zenon DEF ReturnChild, Wired
  <2> HIDE DEF new
  <2>5. /\ proc' \in [Pids -> ProcRecs] /\ OthersSame(proc, proc', c) /\ proc'[c] = new
        /\ call' \in [Pids -> CallRecs] /\ OthersSame(call, call', p) /\ call'[p] = IdleCall
    BY <1>0, <2>1, <2>2, <2>3, CallsAre, Zenon DEF OthersSame
  <2> QED BY <1>4, <2>1, <2>2, <2>4, <2>5
          DEF ReturnChild, ReturnEffect, SameRest, cliVars, gapVars
<1> QED BY <1>2, <1>3, <1>4, Zenon

\* A process ends.
LEMMA DeathEffects ==
    ASSUME TypeOK, Calls, NEW p \in Pids
    PROVE  /\ Exit(p) => ExitEffect(p)
           /\ ReturnFailed(p) => FailEffect(p)
<1>0. proc \in [Pids -> ProcRecs] /\ call \in [Pids -> CallRecs]
  BY Tables, Zenon
<1>1. InCall(p) => Child(p) \in Pids \ {p}
  BY Zenon DEF Calls, CallKept
<1>2. ASSUME Exit(p) PROVE ExitEffect(p)
  <2>1. Dies({p})
    BY <1>2, KillIs, Zenon DEF Exit
  <2>2. call' = [call EXCEPT ![p] = IdleCall]
    BY <1>2 DEF Exit
  <2> QED BY <1>0, <1>2, <2>1, <2>2, CallsAre, Zenon
             DEF Exit, ExitEffect, DeathEffect, cliVars, gapVars
<1>3. ASSUME ReturnFailed(p) PROVE FailEffect(p)
  <2> DEFINE c == Child(p)
  <2>1. /\ Live(p) /\ call[p].st = "failed" /\ c \in Pids \ {p}
        /\ refused' = refused \cup {<<c, proc[c].pv>>}
        /\ UNCHANGED <<user, execs, wire, cli, claim, runRoot, nodes, arming, timers, killed>>
    BY <1>1, <1>3, Zenon DEF ReturnFailed, InCall, Child, cliVars, gapVars
  <2>2. CASE KillsChild(p)
    <3>1. proc' = Kill(c) /\ call' = [call EXCEPT ![p] = IdleCall, ![c] = IdleCall]
      BY <1>3, <2>2, Zenon DEF ReturnFailed, Child
    <3>2. Dies({c})
      BY <2>1, <3>1, KillIs
    <3>3. /\ call' \in [Pids -> CallRecs] /\ \A q \in {p, c} : call'[q] = IdleCall
          /\ \A q \in Pids \ {p, c} : call'[q] = call[q]
      BY <1>0, <2>1, <3>1, CallsAre, Zenon
    <3> QED BY <2>1, <2>2, <3>2, <3>3, Zenon DEF FailEffect, DeathEffect
  <2>3. CASE ~ KillsChild(p)
    <3>1. proc' = proc /\ call' = [call EXCEPT ![p] = IdleCall, ![c] = call[c]]
      BY <1>3, <2>3, Zenon DEF ReturnFailed, Child
    <3>2. Dies({})
      BY <1>0, <3>1 DEF Dies
    <3>3. /\ call' \in [Pids -> CallRecs] /\ call'[p] = IdleCall
          /\ \A q \in Pids \ {p} : call'[q] = call[q]
      BY <1>0, <2>1, <3>1, CallsAre, Zenon
    <3> QED BY <2>1, <2>3, <3>2, <3>3 DEF FailEffect, DeathEffect
  <2> QED BY <2>2, <2>3, Zenon
<1> QED BY <1>2, <1>3, Zenon

-----------------------------------------------------------------------------
(* The effects of the steps of the CLI and the daemon                       *)

NodesOK == DOMAIN nodes \subseteq Tokens /\ \A t \in DOMAIN nodes : nodes[t] \in Nodes
TimersOK == timers \subseteq [tok : Tokens, st : {"armed", "expired"}]

\* Run r alone gets to another phase.
Phase(r, from, to) ==
    /\ cli[r] = from /\ cli' \in [Runs -> CliPhases] /\ cli'[r] = to
    /\ \A s \in Runs \ {r} : cli'[s] = cli[s]

\* Node t alone is new or different.
NodeSet(t) ==
    /\ NodesOK' /\ DOMAIN nodes' = DOMAIN nodes \cup {t}
    /\ \A u \in DOMAIN nodes \ {t} : nodes'[u] = nodes[u]

ClaimEffect(r) ==
    LET p == claim[r].pid
    IN  /\ \/ ~ Live(p) /\ Phase(r, "spawned", "failed")
           \/ /\ Live(p) /\ Phase(r, "spawned", "claimed")
              /\ claim'[r] = AuditTokenForPid(p)
        /\ claim' \in [Runs -> Claims] /\ \A s \in Runs \ {r} : claim'[s] = claim[s]
        /\ UNCHANGED <<user, proc, execs, call, wire, runRoot, nodes, arming, timers, killed,
                       refused>>

InsertEffect(r) ==
    /\ \/ Phase(r, "claimed", "failed") /\ nodes' = nodes
       \/ /\ Phase(r, "claimed", "inserted")
          /\ \/ claim[r] \in DOMAIN nodes /\ nodes' = nodes
             \/ /\ claim[r] \notin DOMAIN nodes /\ NodeSet(claim[r])
                /\ nodes'[claim[r]].root = claim[r] /\ nodes'[claim[r]].run = r
    /\ UNCHANGED <<user, proc, execs, call, wire, claim, runRoot, arming, timers, killed, refused>>

BindEffect(r) ==
    LET tok == claim[r]
    IN  /\ Phase(r, "inserted", "registered") /\ runRoot' \in [Runs -> Tokens \cup {NoToken}]
        /\ runRoot'[r] = tok /\ \A s \in Runs \ {r} : runRoot'[s] = runRoot[s]
        /\ NodeSet(tok) /\ nodes'[tok].root = tok /\ nodes'[tok].run = r
        /\ nodes'[tok].gap = nodes[tok].gap
        /\ UNCHANGED <<user, proc, execs, call, wire, claim, arming, timers, killed, refused>>

\* Only a call that waits gets an answer.
Answered(q, st) ==
    /\ call[q].st = "waiting" /\ call'[q].st = st
    /\ call'[q].child = call[q].child /\ call'[q].pv = call[q].pv

ReportEffect(m) ==
    LET tok == ForkToken(m.child, m.pv)
    IN  /\ m \in Forks /\ Forks' = Forks \ {m} /\ Wired
        /\ \/ /\ m.peer \in DOMAIN nodes /\ NodeSet(tok)
              /\ nodes'[tok].root = nodes[m.peer].root /\ nodes'[tok].run = nodes[m.peer].run
              /\ arming' = arming \cup {<<tok, m.peer>>} /\ call' = call
           \/ /\ call' \in [Pids -> CallRecs]
              /\ \A q \in Pids : call'[q] = call[q] \/ Answered(q, "untracked")
              /\ nodes' = nodes /\ arming' = arming
        /\ UNCHANGED <<user, proc, execs, cli, claim, runRoot, timers, killed, refused>>

ArmEffect(a) ==
    /\ a \in arming /\ arming' = arming \ {a} /\ TimersOK'
    /\ call' \in [Pids -> CallRecs]
    /\ \A q \in Pids : \/ call'[q] = call[q]
                       \/ /\ Answered(q, "ok")
                          /\ call[q].child = a[1].pid /\ call[q].pv = a[1].pv
    /\ UNCHANGED <<user, proc, execs, wire, cli, claim, runRoot, nodes, killed, refused>>

\* A frame or a timer that may at most put a gap on a node.
GapEffect ==
    /\ Forks' = Forks /\ Wired /\ TimersOK' /\ NodesOK' /\ DOMAIN nodes' = DOMAIN nodes
    /\ \A t \in DOMAIN nodes : /\ nodes'[t].root = nodes[t].root /\ nodes'[t].run = nodes[t].run
                               /\ nodes'[t].gap = nodes[t].gap \/ nodes'[t].gap # "none"
    /\ UNCHANGED <<user, proc, execs, call, cli, claim, runRoot, arming, killed, refused>>

KillEffect(t) ==
    LET p == t.tok.pid
    IN  /\ \/ /\ Live(p) /\ PidversionStillMatches(t) /\ DeathEffect({p}, {p})
              /\ killed' = killed \cup {[tok |-> t.tok, pv |-> proc[p].pv]}
           \/ DeathEffect({}, {}) /\ killed' = killed
        /\ t \in timers /\ TimersOK' /\ UNCHANGED refused

\* The handlers of RegisterRoot.
LEMMA RootEffects ==
    ASSUME TypeOK, Roots, Forest, NEW r \in Runs
    PROVE  /\ ClaimRoot(r) => ClaimEffect(r)
           /\ InsertRoot(r) => InsertEffect(r)
           /\ BindRunRoot(r) => BindEffect(r)
<1>0. /\ cli \in [Runs -> CliPhases] /\ claim \in [Runs -> Claims] /\ NodesOK
      /\ runRoot \in [Runs -> Tokens \cup {NoToken}]
  BY Zenon DEF TypeOK, Claims, NodesOK
<1>1. ASSUME NEW to \in CliPhases, NEW from, cli[r] = from, cli' = [cli EXCEPT ![r] = to]
      PROVE  Phase(r, from, to)
  BY <1>0, <1>1, Zenon DEF Phase
<1>2. /\ "failed" \in CliPhases /\ "claimed" \in CliPhases /\ "inserted" \in CliPhases
      /\ "registered" \in CliPhases
  BY DEF CliPhases
<1>3. ASSUME ClaimRoot(r) PROVE ClaimEffect(r)
  <2> DEFINE p == claim[r].pid
             tok == AuditTokenForPid(p)
  <2>1. /\ cli[r] = "spawned" /\ claim' = [claim EXCEPT ![r] = tok]
        /\ cli' = [cli EXCEPT ![r] = IF tok = NoToken THEN "failed" ELSE "claimed"]
    BY <1>3, Zenon DEF ClaimRoot
  <2>2. p \in Pids
    BY <2>1 DEF Roots, NotForked
  <2>3. NoToken \in Claims
    BY DEF Claims, NoToken
  <2>4. (Live(p) => tok \in Tokens /\ tok # NoToken) /\ (~ Live(p) => tok = NoToken)
    BY <2>2, VersionIs DEF Tokens, NoToken
  <2> HIDE DEF tok
  <2>5. tok \in Claims
    BY <2>3, <2>4, Zenon DEF Claims
  <2>6. /\ claim' \in [Runs -> Claims] /\ claim'[r] = tok
        /\ \A s \in Runs \ {r} : claim'[s] = claim[s]
    BY <1>0, <2>1, <2>5, Zenon
  <2>7. IF Live(p) THEN Phase(r, "spawned", "claimed") ELSE Phase(r, "spawned", "failed")
    BY <1>1, <1>2, <2>1, <2>4, Zenon
  <2> QED BY <1>3, <2>6, <2>7, Zenon DEF ClaimRoot, ClaimEffect, tok, osVars, gapVars
<1>4. ASSUME InsertRoot(r) PROVE InsertEffect(r)
  <2> DEFINE tok == claim[r]
             n == [parent |-> NoToken, root |-> tok, run |-> r, gap |-> "none"]
  <2>1. /\ cli[r] = "claimed"
        /\ UNCHANGED <<user, proc, execs, call, wire, claim, runRoot, arming, timers, killed,
                       refused>>
    BY <1>4, Zenon DEF InsertRoot, osVars, gapVars
  <2>2. tok \in Tokens
    BY <2>1 DEF Roots, NotForked, Claimed
  <2>3. n \in Nodes /\ n.root = tok /\ n.run = r
    BY <2>2, Zenon DEF Nodes
  <2>4. CASE cli' = [cli EXCEPT ![r] = "failed"] /\ nodes' = nodes
    BY <1>1, <1>2, <2>1, <2>4, Zenon DEF InsertEffect
  <2>5. CASE cli' = [cli EXCEPT ![r] = "inserted"] /\ tok \in DOMAIN nodes /\ nodes' = nodes
    BY <1>1, <1>2, <2>1, <2>5, Zenon DEF InsertEffect
  <2>6. CASE cli' = [cli EXCEPT ![r] = "inserted"] /\ tok \notin DOMAIN nodes /\ nodes' = Put(tok, n)
    <3> HIDE DEF n
    <3>1. /\ DOMAIN nodes' = DOMAIN nodes \cup {tok} /\ nodes'[tok] = n
          /\ \A u \in DOMAIN nodes \ {tok} : nodes'[u] = nodes[u]
      BY <2>6 DEF Put
    <3>2. NodeSet(tok)
      BY <1>0, <2>2, <2>3, <3>1, Zenon DEF NodeSet, NodesOK
    <3>3. Phase(r, "claimed", "inserted")
      BY <1>1, <1>2, <2>1, <2>6, Zenon
    <3> QED BY <2>1, <2>3, <2>6, <3>1, <3>2, <3>3, Zenon DEF InsertEffect
  <2> QED BY <1>4, <2>4, <2>5, <2>6, Zenon DEF InsertRoot
<1>5. ASSUME BindRunRoot(r) PROVE BindEffect(r)
  <2> DEFINE tok == claim[r]
             n == [nodes[tok] EXCEPT !.run = r, !.root = tok]
  <2>1. /\ cli[r] = "inserted" /\ cli' = [cli EXCEPT ![r] = "registered"]
        /\ runRoot' = [runRoot EXCEPT ![r] = tok] /\ nodes' = [nodes EXCEPT ![tok] = n]
        /\ UNCHANGED <<user, proc, execs, call, wire, claim, arming, timers, killed, refused>>
    BY <1>5, Zenon DEF BindRunRoot, osVars, gapVars
  <2>2. tok \in DOMAIN nodes /\ tok \in Tokens
    BY <1>0, <2>1, Zenon DEF Forest, NodesOK
  <2>3. n \in Nodes /\ n.root = tok /\ n.run = r /\ n.gap = nodes[tok].gap
    <3>1. nodes[tok] \in Nodes
      BY <1>0, <2>2, Zenon DEF NodesOK
    <3> HIDE DEF tok
    <3> QED BY <2>2, <3>1, Zenon DEF Nodes
  <2> HIDE DEF n
  <2>4. NodeSet(tok) /\ nodes'[tok] = n
    <3>1. /\ DOMAIN nodes' = DOMAIN nodes /\ nodes'[tok] = n
          /\ \A u \in DOMAIN nodes \ {tok} : nodes'[u] = nodes[u]
      BY <2>1, <2>2, Zenon
    <3> QED BY <1>0, <2>2, <2>3, <3>1, Zenon DEF NodeSet, NodesOK
  <2>5. Phase(r, "inserted", "registered")
    BY <1>1, <1>2, <2>1, Zenon
  <2>6. /\ runRoot' \in [Runs -> Tokens \cup {NoToken}] /\ runRoot'[r] = tok
        /\ \A s \in Runs \ {r} : runRoot'[s] = runRoot[s]
    BY <1>0, <2>1, <2>2
  <2> QED BY <2>1, <2>3, <2>4, <2>5, <2>6, Zenon DEF BindEffect
<1> QED BY <1>3, <1>4, <1>5

\* A reply reaches only the call that waits for it.
LEMMA AnswerIs ==
    ASSUME TypeOK, NEW m, NEW st \in ForkStages, m.peer \in Tokens, Answer(m, st)
    PROVE  /\ call' \in [Pids -> CallRecs]
           /\ \A q \in Pids : \/ call'[q] = call[q]
                              \/ /\ Answered(q, st)
                                 /\ call[q].child = m.child /\ call[q].pv = m.pv
<1> DEFINE p == m.peer.pid
<1>0. call \in [Pids -> CallRecs] /\ p \in Pids
  BY Tables DEF Tokens
<1>1. CASE call' = call
  BY <1>0, <1>1, Zenon
<1>2. CASE /\ call[p].st = "waiting" /\ call[p].child = m.child /\ call[p].pv = m.pv
           /\ call' = [call EXCEPT ![p].st = st]
  <2> DEFINE you == [call[p] EXCEPT !.st = st]
  <2> HIDE DEF p
  <2>1. /\ you \in CallRecs /\ you.st = st /\ you.child = call[p].child
        /\ you.pv = call[p].pv
    BY <1>0, Zenon DEF CallRecs
  <2>2. call' = [call EXCEPT ![p] = you]
    BY <1>2, Zenon
  <2> HIDE DEF you
  <2> QED BY <1>0, <1>2, <2>1, <2>2, Zenon DEF Answered
<1> QED BY <1>1, <1>2, Zenon DEF Answer

\* A timer is armed, cancelled or leaves the set.
LEMMA TimersAre ==
    ASSUME TypeOK, NEW t \in Tokens
    PROVE  /\ Arm(t) => TimersOK'
           /\ Cancel(t) => TimersOK'
           /\ UNCHANGED timers => TimersOK'
           /\ \A u : timers' = timers \ {u} => TimersOK'
<1>1. TimersOK
  BY Zenon DEF TypeOK, TimersOK
<1>2. [tok |-> t, st |-> "armed"] \in [tok : Tokens, st : {"armed", "expired"}]
  OBVIOUS
<1> QED BY <1>1, <1>2, Zenon DEF TimersOK, Arm, Cancel

\* A gap is put on a node.
LEMMA GapIs ==
    ASSUME TypeOK, NEW t, NEW g \in {"hardened", "env"},
           t \in DOMAIN nodes, nodes' = [nodes EXCEPT ![t].gap = g]
    PROVE  /\ NodesOK' /\ DOMAIN nodes' = DOMAIN nodes
           /\ \A u \in DOMAIN nodes :
                 /\ nodes'[u].root = nodes[u].root /\ nodes'[u].run = nodes[u].run
                 /\ nodes'[u].gap = nodes[u].gap \/ nodes'[u].gap # "none"
<1> DEFINE n == [nodes[t] EXCEPT !.gap = g]
<1>0. NodesOK /\ nodes[t] \in Nodes
  BY Zenon DEF TypeOK, NodesOK
<1>1. n \in Nodes /\ n.root = nodes[t].root /\ n.run = nodes[t].run /\ n.gap = g
  BY <1>0, Zenon DEF Nodes
<1>2. nodes' = [nodes EXCEPT ![t] = n]
  OBVIOUS
<1> HIDE DEF n
<1>3. /\ DOMAIN nodes' = DOMAIN nodes /\ nodes'[t] = n
      /\ \A u \in DOMAIN nodes \ {t} : nodes'[u] = nodes[u]
  BY <1>2
<1> QED BY <1>0, <1>1, <1>3, Zenon DEF NodesOK

\* The handler of a ForkEvent, in its two steps.
LEMMA ForkEffects ==
    ASSUME TypeOK, Known
    PROVE  /\ \A m \in wire : HandleFork(m) => ReportEffect(m)
           /\ \A a \in arming : ArmFork(a) => ArmEffect(a)
<1>0. NodesOK /\ wire \subseteq Frames /\ arming \subseteq Tokens \X Tokens
  BY Zenon DEF TypeOK, NodesOK
<1>1. ASSUME NEW m \in wire, HandleFork(m) PROVE ReportEffect(m)
  <2> DEFINE tok == ForkToken(m.child, m.pv)
             n == Forked(m.peer)
  <2>1. m \in Frames /\ m.tag = "fork" /\ wire' = wire \ {m}
    BY <1>0, <1>1, Zenon DEF HandleFork
  <2>2. m \in Forks /\ m.child \in Pids /\ m.pv \in Pvs /\ m.peer \in Tokens
    BY <2>1 DEF Forks, Known, Frames
  <2>3. Forks' = Forks \ {m} /\ Wired
    BY <1>0, <2>1, Zenon DEF Forks, Wired
  <2>4. tok \in Tokens
    BY <2>2, Zenon DEF ForkToken, Tokens
  <2>5. UNCHANGED <<user, proc, execs, cli, claim, runRoot, timers, killed, refused>>
    BY <1>1 DEF HandleFork, osVars, cliVars, gapVars
  <2>6. CASE m.peer \in DOMAIN nodes
    <3>1. nodes' = Put(tok, n) /\ arming' = arming \cup {<<tok, m.peer>>} /\ call' = call
      BY <1>1, <2>6 DEF HandleFork, Tracked
    <3>2. n \in Nodes /\ n.root = nodes[m.peer].root /\ n.run = nodes[m.peer].run
      <4>1. nodes[m.peer] \in Nodes
        BY <1>0, <2>6 DEF NodesOK
      <4> QED BY <2>2, <4>1, Zenon DEF Nodes, Forked
    <3> HIDE DEF n, tok
    <3>3. /\ DOMAIN nodes' = DOMAIN nodes \cup {tok} /\ nodes'[tok] = n
          /\ \A u \in DOMAIN nodes \ {tok} : nodes'[u] = nodes[u]
      BY <3>1, Zenon DEF Put
    <3>4. NodeSet(tok)
      BY <1>0, <2>4, <3>2, <3>3, Zenon DEF NodeSet, NodesOK
    <3> QED BY <2>2, <2>3, <2>5, <2>6, <3>1, <3>2, <3>3, <3>4, Zenon DEF ReportEffect, tok
  <2>7. CASE m.peer \notin DOMAIN nodes
    <3>1. Answer(m, "untracked") /\ nodes' = nodes /\ arming' = arming
      BY <1>1, <2>7, Zenon DEF HandleFork, Tracked
    <3>2. "untracked" \in ForkStages
      BY Zenon DEF ForkStages
    <3>3. /\ call' \in [Pids -> CallRecs]
          /\ \A q \in Pids : call'[q] = call[q] \/ Answered(q, "untracked")
      BY <2>2, <3>1, <3>2, AnswerIs, Zenon
    <3> QED BY <2>2, <2>3, <2>5, <3>1, <3>3, SMTT(30) DEF ReportEffect
  <2> QED BY <2>6, <2>7, Zenon
<1>2. ASSUME NEW a \in arming, ArmFork(a) PROVE ArmEffect(a)
  <2>1. a[1] \in Tokens /\ a[2] \in Tokens /\ "ok" \in ForkStages
    BY <1>0, Zenon DEF ForkStages
  <2> DEFINE m == [peer |-> a[2], child |-> a[1].pid, pv |-> a[1].pv]
  <2>2. /\ arming' = arming \ {a} /\ Answer(m, "ok") /\ (Arm(a[1]) \/ UNCHANGED timers)
        /\ UNCHANGED <<user, proc, execs, wire, cli, claim, runRoot, nodes, killed, refused>>
    BY <1>2 DEF ArmFork, osVars, cliVars
  <2>3. m.peer \in Tokens /\ m.child = a[1].pid /\ m.pv = a[1].pv
    BY <2>1, Zenon
  <2> HIDE DEF m
  <2>4. /\ call' \in [Pids -> CallRecs]
        /\ \A q \in Pids : \/ call'[q] = call[q]
                           \/ Answered(q, "ok") /\ call[q].child = m.child /\ call[q].pv = m.pv
    BY <2>1, <2>2, <2>3, AnswerIs, Zenon
  <2>5. TimersOK'
    BY <2>1, <2>2, TimersAre
  <2> QED BY <2>2, <2>3, <2>4, <2>5, Zenon DEF ArmEffect
<1> QED BY <1>1, <1>2, Zenon

\* The other frames and the timers.
LEMMA QuietEffects ==
    ASSUME TypeOK
    PROVE  /\ \A m \in wire : HandleExec(m) \/ HandleLoaded(m) \/ HandleEnv(m) => GapEffect
           /\ \A t \in timers : TimerFires(t) => GapEffect
           /\ \A t \in timers : TimerKills(t) => KillEffect(t)
<1>0. NodesOK /\ wire \subseteq Frames /\ TimersOK /\ call \in [Pids -> CallRecs]
      /\ proc \in [Pids -> ProcRecs]
  BY Tables DEF TypeOK, NodesOK, TimersOK
<1>1. ASSUME NEW m \in wire, HandleExec(m) \/ HandleLoaded(m) \/ HandleEnv(m) PROVE GapEffect
  <2>1. m \in Frames /\ m.tag # "fork" /\ wire' = wire \ {m}
    BY <1>0, <1>1 DEF HandleExec, HandleLoaded, HandleEnv
  <2>2. Forks' = Forks /\ Wired /\ m.peer \in Tokens
    BY <1>0, <2>1, Zenon DEF Forks, Wired, Frames
  <2>3. UNCHANGED <<user, proc, execs, call, cli, claim, runRoot, arming, killed, refused>>
    BY <1>1 DEF HandleExec, HandleLoaded, HandleEnv, osVars, cliVars
  <2>4. Arm(m.peer) \/ Cancel(m.peer) \/ UNCHANGED timers
    BY <1>1, Zenon DEF HandleExec, HandleLoaded, HandleEnv
  <2>5. TimersOK'
    BY <2>2, <2>4, TimersAre, Zenon
  <2>6. \/ nodes' = nodes
        \/ m.peer \in DOMAIN nodes /\ nodes' = [nodes EXCEPT ![m.peer].gap = "env"]
    BY <1>1 DEF HandleExec, HandleLoaded, HandleEnv, Tracked
  <2>7. CASE nodes' = nodes
    BY <1>0, <2>2, <2>3, <2>5, <2>7, Zenon DEF GapEffect, NodesOK
  <2>8. CASE m.peer \in DOMAIN nodes /\ nodes' = [nodes EXCEPT ![m.peer].gap = "env"]
    BY <2>2, <2>3, <2>5, <2>8, GapIs, Zenon DEF GapEffect
  <2> QED BY <2>6, <2>7, <2>8, Zenon
<1>2. ASSUME NEW t \in timers, TimerFires(t) PROVE GapEffect
  <2>1. t \in [tok : Tokens, st : {"armed", "expired"}]
    BY <1>0 DEF TimersOK
  <2> DEFINE u == [t EXCEPT !.st = "expired"]
  <2>2. u \in [tok : Tokens, st : {"armed", "expired"}]
    BY <2>1, Zenon
  <2>3. timers' = (timers \ {t}) \cup {u}
    BY <1>2, Zenon DEF TimerFires
  <2> HIDE DEF u
  <2>4. TimersOK'
    BY <1>0, <2>2, <2>3 DEF TimersOK
  <2>5. /\ UNCHANGED <<user, proc, execs, call, wire, cli, claim, runRoot, arming, killed, refused>>
        /\ \/ nodes' = nodes
           \/ t.tok \in DOMAIN nodes /\ nodes' = [nodes EXCEPT ![t.tok].gap = "hardened"]
    BY <1>2, Zenon DEF TimerFires, Tracked, osVars, cliVars
  <2>6. Forks' = Forks /\ Wired
    BY <1>0, <2>5 DEF Forks, Wired
  <2>7. CASE nodes' = nodes
    BY <1>0, <2>4, <2>5, <2>6, <2>7, Zenon DEF GapEffect, NodesOK
  <2>8. CASE t.tok \in DOMAIN nodes /\ nodes' = [nodes EXCEPT ![t.tok].gap = "hardened"]
    BY <2>4, <2>5, <2>6, <2>8, GapIs, Zenon DEF GapEffect
  <2> QED BY <2>5, <2>7, <2>8, Zenon
<1>3. ASSUME NEW t \in timers, TimerKills(t) PROVE KillEffect(t)
  <2> DEFINE p == t.tok.pid
  <2>1. p \in Pids /\ t.tok \in Tokens
    BY <1>0 DEF TimersOK, Tokens
  <2>2. TimersOK'
    <3>1. timers' = timers \ {t}
      BY <1>3 DEF TimerKills
    <3> QED BY <2>1, <3>1, TimersAre, Zenon
  <2>3. UNCHANGED <<user, execs, wire, cli, claim, runRoot, nodes, arming, refused>>
    BY <1>3, Zenon DEF TimerKills, cliVars
  <2>4. CASE Live(p) /\ PidversionStillMatches(t)
    <3>1. /\ proc' = Kill(p) /\ call' = [call EXCEPT ![p] = IdleCall]
          /\ killed' = killed \cup {[tok |-> t.tok, pv |-> proc[p].pv]}
      BY <1>3, <2>4 DEF TimerKills
    <3>2. Dies({p})
      BY <2>1, <3>1, KillIs, Zenon
    <3>3. DeathEffect({p}, {p})
      BY <1>0, <2>1, <2>3, <3>1, <3>2, CallsAre, SMTT(30) DEF DeathEffect
    <3> QED BY <2>2, <2>3, <2>4, <3>1, <3>3, Zenon DEF KillEffect
  <2>5. CASE ~ (Live(p) /\ PidversionStillMatches(t))
    <3>1. UNCHANGED <<proc, call, killed>>
      BY <1>3, <2>5, Zenon DEF TimerKills
    <3>2. DeathEffect({}, {})
      BY <1>0, <2>3, <3>1 DEF DeathEffect, Dies
    <3> QED BY <2>2, <2>3, <3>1, <3>2, SMTT(30) DEF KillEffect
  <2> QED BY <2>4, <2>5, Zenon
<1> QED BY <1>1, <1>2, <1>3, Zenon

-----------------------------------------------------------------------------
(* The effect of any step                                                   *)

Effect ==
    \/ \E c \in Pids : BirthEffect(c)
    \/ \E p \in Pids : \/ ExitEffect(p) \/ ImageEffect(p) \/ SendEffect(p) \/ TimeoutEffect(p)
                       \/ ReturnEffect(p) \/ FailEffect(p)
    \/ \E r \in Runs : ClaimEffect(r) \/ InsertEffect(r) \/ BindEffect(r)
    \/ \E m \in Frames : ReportEffect(m)
    \/ \E a \in arming : ArmEffect(a)
    \/ GapEffect
    \/ \E t \in timers : KillEffect(t)

\* Every step has one of these effects.
LEMMA Effects == ASSUME TypeOK, Calls, Known, Roots, Forest, Next PROVE Effect
<1>1. ASSUME NEW p \in Pids,
             \/ Exit(p) \/ Ctor(p) \/ SendFork(p) \/ ForkTimeout(p)
             \/ ReturnChild(p) \/ ReturnFailed(p)
      PROVE  Effect
  BY <1>1, ImageEffects, CallEffects, DeathEffects, Zenon DEF Effect, ExitEffect
<1>2. ASSUME NEW p \in Pids, NEW c \in Pids, Fork(p, c) PROVE Effect
  BY <1>2, BirthEffects, Zenon DEF Effect
<1>3. ASSUME NEW p \in Pids, NEW f \in Files, OutsideStart(p, f) PROVE Effect
  BY <1>3, BirthEffects, Zenon DEF Effect
<1>4. ASSUME NEW p \in Pids, NEW f \in Files, NEW ok \in BOOLEAN, Exec(p, f, ok) PROVE Effect
  BY <1>4, ImageEffects, Zenon DEF Effect
<1>5. ASSUME NEW p \in Pids, NEW f \in Files, NEW ok \in BOOLEAN, NEW c \in Pids, Spawn(p, c, f, ok)
      PROVE  Effect
  BY <1>5, BirthEffects, Zenon DEF Effect
<1>6. ASSUME NEW r \in Runs, NEW p \in Pids, NEW f \in Commands, SpawnRoot(r, p, f) PROVE Effect
  BY <1>6, BirthEffects, Zenon DEF Effect
<1>7. ASSUME NEW r \in Runs, ClaimRoot(r) \/ InsertRoot(r) \/ BindRunRoot(r) PROVE Effect
  BY <1>7, RootEffects, Zenon DEF Effect
<1>8. CASE DaemonStep
  <2>1. wire \subseteq Frames
    BY DEF TypeOK
  <2>2. ASSUME NEW m \in wire, HandleFork(m) PROVE Effect
    <3>1. m \in Frames /\ ReportEffect(m)
      BY <2>1, <2>2, ForkEffects, Zenon
    <3> QED BY <3>1, Zenon DEF Effect
  <2>3. ASSUME NEW m \in wire, HandleExec(m) \/ HandleLoaded(m) \/ HandleEnv(m) PROVE Effect
    BY <2>3, QuietEffects, Zenon DEF Effect
  <2>4. ASSUME NEW a \in arming, ArmFork(a) PROVE Effect
    BY <2>4, ForkEffects, Zenon DEF Effect
  <2> QED BY <1>8, <2>2, <2>3, <2>4, Zenon DEF DaemonStep
<1>9. CASE TimerStep
  BY <1>9, QuietEffects, Zenon DEF Effect, TimerStep
<1> QED BY <1>1, <1>2, <1>3, <1>4, <1>5, <1>6, <1>7, <1>8, <1>9, Zenon DEF Next

-----------------------------------------------------------------------------
(* Types                                                                    *)

Typed ==
    /\ user \in Users /\ proc \in [Pids -> ProcRecs] /\ call \in [Pids -> CallRecs]
    /\ execs \in 0 .. MaxExecs /\ wire \subseteq Frames
    /\ cli \in [Runs -> CliPhases] /\ claim \in [Runs -> Claims]
    /\ runRoot \in [Runs -> Tokens \cup {NoToken}]
    /\ NodesOK /\ arming \subseteq Tokens \X Tokens /\ TimersOK
    /\ killed \subseteq [tok : Tokens, pv : 0 .. MaxPv]
    /\ refused \subseteq Pids \X (0 .. MaxPv)

\* The type invariant, with names for the sets of records.
LEMMA TypedIs == TypeOK <=> Typed
BY Zenon DEF TypeOK, Typed, ProcRecs, CallRecs, Claims, NodesOK, TimersOK

\* Every step keeps the types.
LEMMA TypeStep == ASSUME TypeOK, Calls, Known, Roots, Effect PROVE TypeOK'
<1>0. Typed
  BY TypedIs
<1> SUFFICES Typed'
  <2>1. Typed' => TypeOK'
    BY Zenon DEF TypeOK, Typed, ProcRecs, CallRecs, Claims, NodesOK, TimersOK
  <2> QED BY <2>1, Zenon
<1>1. ASSUME NEW c \in Pids, BirthEffect(c) PROVE Typed'
  BY <1>0, <1>1 DEF BirthEffect, Births, Wired, Typed, NodesOK, TimersOK
<1>2. ASSUME NEW D, NEW I, DeathEffect(D, I), TimersOK',
             killed' \subseteq [tok : Tokens, pv : 0 .. MaxPv], refused' \subseteq Pids \X (0 .. MaxPv)
      PROVE  Typed'
  BY <1>0, <1>2, Zenon DEF DeathEffect, Dies, Typed, NodesOK
<1>3. UNCHANGED timers => TimersOK'
  BY <1>0 DEF Typed, TimersOK
<1>4. ASSUME NEW p \in Pids, ExitEffect(p) PROVE Typed'
  BY <1>0, <1>2, <1>3, <1>4, Zenon DEF ExitEffect, Typed
<1>5. ASSUME NEW p \in Pids, ImageEffect(p) PROVE Typed'
  BY <1>0, <1>5 DEF ImageEffect, Wired, SameRest, Typed, NodesOK, TimersOK
<1>6. ASSUME NEW p \in Pids, SendEffect(p) PROVE Typed'
  BY <1>0, <1>6, Zenon DEF SendEffect, Wired, SameRest, Typed, NodesOK, TimersOK
<1>7. ASSUME NEW p \in Pids, TimeoutEffect(p) PROVE Typed'
  BY <1>0, <1>7 DEF TimeoutEffect, SameRest, Typed, NodesOK, TimersOK
<1>8. ASSUME NEW p \in Pids, ReturnEffect(p) PROVE Typed'
  BY <1>0, <1>8, Zenon DEF ReturnEffect, Wired, SameRest, Typed, NodesOK, TimersOK
<1>9. ASSUME NEW p \in Pids, FailEffect(p) PROVE Typed'
  <2>1. Child(p) \in Pids
    BY <1>9, Zenon DEF FailEffect, Calls, CallKept, InCall
  <2>2. proc[Child(p)].pv \in 0 .. MaxPv
    BY <2>1, VersionIs
  <2>3. refused' \subseteq Pids \X (0 .. MaxPv) /\ UNCHANGED <<timers, killed>>
    BY <1>0, <1>9, <2>1, <2>2, SMTT(30) DEF FailEffect, Typed
  <2> QED BY <1>0, <1>2, <1>3, <1>9, <2>3, SMTT(30) DEF FailEffect, Typed
<1>10. ASSUME NEW r \in Runs, ClaimEffect(r) PROVE Typed'
  BY <1>0, <1>10, Zenon DEF ClaimEffect, Phase, Typed, NodesOK, TimersOK
<1>11. ASSUME NEW r \in Runs, InsertEffect(r) PROVE Typed'
  BY <1>0, <1>11 DEF InsertEffect, Phase, NodeSet, Typed, NodesOK, TimersOK
<1>12. ASSUME NEW r \in Runs, BindEffect(r) PROVE Typed'
  BY <1>0, <1>12, Zenon DEF BindEffect, Phase, NodeSet, Typed, TimersOK
<1>13. ASSUME NEW m \in Frames, ReportEffect(m) PROVE Typed'
  <2>1. arming' \subseteq Tokens \X Tokens
    <3>1. ForkToken(m.child, m.pv) \in Tokens /\ m.peer \in Tokens
      <4>1. m.child \in Pids /\ m.pv \in Pvs /\ m.peer \in Tokens
        BY <1>13, Zenon DEF ReportEffect, Known, Frames
      <4> QED BY <4>1, Zenon DEF ForkToken, Tokens
    <3> QED BY <1>0, <1>13, <3>1 DEF ReportEffect, Typed
  <2> QED BY <1>0, <1>13, <2>1, Zenon DEF ReportEffect, Wired, NodeSet, Typed, NodesOK, TimersOK
<1>14. ASSUME NEW a \in arming, ArmEffect(a) PROVE Typed'
  BY <1>0, <1>14, Zenon DEF ArmEffect, Typed, NodesOK
<1>15. CASE GapEffect
  BY <1>0, <1>15, Zenon DEF GapEffect, Wired, Typed
<1>16. ASSUME NEW t \in timers, KillEffect(t) PROVE Typed'
  <2>1. t.tok \in Tokens /\ t.tok.pid \in Pids
    BY <1>0 DEF Typed, TimersOK, Tokens
  <2>2. proc[t.tok.pid].pv \in 0 .. MaxPv
    BY <2>1, VersionIs, Zenon
  <2>3. killed' \subseteq [tok : Tokens, pv : 0 .. MaxPv]
    BY <1>0, <1>16, <2>1, <2>2, SMTT(30) DEF KillEffect, Typed
  <2> QED BY <1>0, <1>2, <1>16, <2>3, Zenon DEF KillEffect, Typed
<1> QED BY <1>1, <1>4, <1>5, <1>6, <1>7, <1>8, <1>9, <1>10, <1>11, <1>12, <1>13, <1>14, <1>15,
           <1>16, Zenon DEF Effect

-----------------------------------------------------------------------------
(* Calls                                                                    *)

\* The call of q goes on or ends.
CallGoesOn(q) ==
    \/ call'[q] = call[q]
    \/ call'[q] = IdleCall
    \/ /\ InCall(q) /\ call'[q].st \notin {"idle", "created"} /\ Child(q) = call'[q].child
       /\ \/ call[q].st # "created" /\ call'[q].pv = call[q].pv
          \/ call'[q].pv = Version(Child(q))

\* No process is created.
Carry ==
    \A p \in Pids :
        /\ proc'[p].pv = proc[p].pv /\ (proc'[p].st = "live" => proc[p].st = "live")
        /\ call'[p].st # "idle" => proc'[p].st = proc[p].st
        /\ CallGoesOn(p)

\* A step that creates no process leaves the calls to themselves.
LEMMA Carries == ASSUME TypeOK, Calls, Effect PROVE Carry \/ \E c \in Pids : BirthEffect(c)
<1>0. IdleCall.st = "idle" /\ proc \in [Pids -> ProcRecs]
  BY CallsAre, Tables, Zenon
<1>1. ASSUME NEW D, NEW I, DeathEffect(D, I) PROVE Carry
  <2> SUFFICES ASSUME NEW p \in Pids
               PROVE  /\ proc'[p].pv = proc[p].pv /\ (proc'[p].st = "live" => proc[p].st = "live")
                      /\ call'[p].st # "idle" => proc'[p].st = proc[p].st
                      /\ CallGoesOn(p)
    BY Zenon DEF Carry
  <2>1. CASE p \in I
    BY <1>0, <1>1, <2>1, Zenon DEF DeathEffect, Dies, CallGoesOn
  <2>2. CASE p \notin I
    BY <1>0, <1>1, <2>2, Zenon DEF DeathEffect, Dies, CallGoesOn
  <2> QED BY <2>1, <2>2, Zenon
<1>2. ASSUME NEW p \in Pids, ImageEffect(p) PROVE Carry
  <2>1. call' = call /\ \A q \in Pids : proc'[q].pv = proc[q].pv /\ proc'[q].st = proc[q].st
    BY <1>2, Zenon DEF ImageEffect, OthersSame, Live
  <2> QED BY <2>1, Zenon DEF Carry, CallGoesOn
<1>3. ASSUME NEW p \in Pids, SendEffect(p) PROVE Carry
  <2>1. proc' = proc /\ OthersSame(call, call', p) /\ InCall(p) /\ Child(p) = call'[p].child
        /\ call'[p].st \notin {"idle", "created"} /\ call'[p].pv = Version(Child(p))
    BY <1>3, Zenon DEF SendEffect, InCall
  <2> QED BY <2>1, Zenon DEF Carry, CallGoesOn, OthersSame
<1>4. ASSUME NEW p \in Pids, TimeoutEffect(p) PROVE Carry
  <2>1. proc' = proc /\ OthersSame(call, call', p) /\ InCall(p) /\ Child(p) = call'[p].child
        /\ call'[p].st \notin {"idle", "created"} /\ call'[p].pv = call[p].pv
        /\ call[p].st # "created"
    BY <1>4, Zenon DEF TimeoutEffect, InCall
  <2> QED BY <2>1, Zenon DEF Carry, CallGoesOn, OthersSame
<1>5. ASSUME NEW p \in Pids, ReturnEffect(p) PROVE Carry
  <2>1. OthersSame(call, call', p) /\ call'[p] = IdleCall
        /\ \A q \in Pids : proc'[q].pv = proc[q].pv /\ proc'[q].st = proc[q].st
    BY <1>5, Zenon DEF ReturnEffect, OthersSame
  <2> QED BY <2>1, Zenon DEF Carry, CallGoesOn, OthersSame
<1>6. ASSUME proc' = proc, NEW st \in {"untracked", "ok"},
             \A q \in Pids : call'[q] = call[q] \/ Answered(q, st)
      PROVE  Carry
  <2>1. ASSUME NEW q \in Pids PROVE CallGoesOn(q)
    BY <1>6, Zenon DEF CallGoesOn, Answered, InCall, Child
  <2> QED BY <1>6, <2>1, Zenon DEF Carry
<1>7. ASSUME NEW m \in Frames, ReportEffect(m) PROVE Carry
  BY <1>6, <1>7, Zenon DEF ReportEffect
<1>8. ASSUME NEW a \in arming, ArmEffect(a) PROVE Carry
  BY <1>6, <1>8, Zenon DEF ArmEffect
<1>9. ASSUME proc' = proc, call' = call PROVE Carry
  BY <1>9, Zenon DEF Carry, CallGoesOn
<1>10. ASSUME NEW r \in Runs, ClaimEffect(r) \/ InsertEffect(r) \/ BindEffect(r) PROVE Carry
  BY <1>9, <1>10, Zenon DEF ClaimEffect, InsertEffect, BindEffect
<1>11. CASE GapEffect
  BY <1>9, <1>11, Zenon DEF GapEffect
<1>12. ASSUME NEW p \in Pids, ExitEffect(p) \/ FailEffect(p) PROVE Carry
  BY <1>1, <1>12, Zenon DEF ExitEffect, FailEffect
<1>13. ASSUME NEW t \in timers, KillEffect(t) PROVE Carry
  BY <1>1, <1>13, Zenon DEF KillEffect
<1> QED BY <1>2, <1>3, <1>4, <1>5, <1>7, <1>8, <1>10, <1>11, <1>12, <1>13, Zenon DEF Effect

\* While a call is under way, its child keeps its pid and what was read of it.
LEMMA CallsStep == ASSUME TypeOK, Calls, TypeOK', Effect PROVE Calls'
<1>0. /\ IdleCall.st = "idle" /\ IdleCall.child = "none" /\ "none" \notin Pids
      /\ \A p \in Pids : proc[p].pv \in Nat /\ proc'[p].pv \in Nat
  <2>1. \A p \in Pids : proc[p].pv \in 0 .. MaxPv
    BY VersionIs, Zenon
  <2>2. \A p \in Pids : proc'[p].pv \in 0 .. MaxPv
    BY Zenon DEF TypeOK
  <2> QED BY <2>1, <2>2, CallsAre, TreeAssumption, SMTT(30)
<1>1. CASE Carry
  <2> SUFFICES ASSUME NEW p \in Pids PROVE (Live(p) => proc[p].pv >= 1)' /\ CallKept(p)'
    BY Zenon DEF Calls
  <2>1. \A q \in Pids : call'[q].child = Child(q) \/ call'[q].child = "none"
    BY <1>0, <1>1, Zenon DEF Carry, CallGoesOn, Child
  <2>2. (Live(p) => proc[p].pv >= 1)'
    BY <1>1, Zenon DEF Carry, Calls, Live
  <2>3. CASE call'[p].st = "idle"
    <3>1. call'[p] = call[p] \/ call'[p] = IdleCall
      BY <1>1, <2>3, Zenon DEF Carry, CallGoesOn
    <3>2. call'[p].child = "none"
      BY <1>0, <2>3, <3>1, Zenon DEF Calls, CallKept, InCall, Child
    <3> QED BY <2>2, <2>3, <3>2, Zenon DEF CallKept, InCall, Child
  <2>4. CASE call'[p].st # "idle"
    <3> DEFINE c == Child(p)
    <3>1. InCall(p) /\ call'[p].child = c
      BY <1>0, <1>1, <2>4, Zenon DEF Carry, CallGoesOn, InCall, Child
    <3>2. /\ Live(p) /\ c \in Pids \ {p} /\ proc[c].pv >= 1
          /\ call[p].st # "created" /\ Live(c) => call[p].pv = Version(c)
          /\ \A q \in Pids \ {p} : Child(q) # c
      BY <3>1, Zenon DEF Calls, CallKept
    <3>3. proc'[p].st = "live" /\ proc'[c].pv = proc[c].pv /\ (proc'[c].st = "live" => proc[c].st = "live")
      BY <1>1, <2>4, <3>2, Zenon DEF Carry, Live
    <3>4. \A q \in Pids \ {p} : call'[q].child # c
      BY <1>0, <2>1, <3>2, Zenon
    <3>5. call'[p].st # "created" /\ proc'[c].st = "live" => call'[p].pv = Version(c)
      BY <1>0, <1>1, <2>4, <3>1, <3>2, <3>3, Zenon DEF Carry, CallGoesOn, Live
    <3>6. proc'[c].st = "live"
          => Version(c) = IF c \in NoTaskPort THEN StartTime(proc'[c].pv) ELSE proc'[c].pv
      BY <3>3, Zenon DEF Version, Live
    <3> HIDE DEF c
    <3>7. CallKept(p)'
      BY <2>4, <3>1, <3>2, <3>3, <3>4, <3>5, <3>6, Zenon DEF CallKept, InCall, Child, Live, Version
    <3> QED BY <2>2, <3>7, Zenon
  <2> QED BY <2>3, <2>4, Zenon
<1>2. ASSUME NEW c \in Pids, BirthEffect(c) PROVE Calls'
  <2>1. /\ ~ Live(c) /\ \A q \in Pids : InCall(q) => Child(q) # c
    BY <1>2, Zenon DEF BirthEffect, Births, Reusable, Calls, CallKept, Child
  <2>2. \A q \in Pids : Child(q) # c
    BY <1>0, <2>1, Zenon DEF Calls, CallKept
  <2>3. ~ InCall(c)
    BY <2>1, Zenon DEF Calls, CallKept
  <2>4. /\ proc'[c].st = "live" /\ proc'[c].pv = proc[c].pv + 1
        /\ \A q \in Pids \ {c} : proc'[q] = proc[q]
    BY <1>2, Zenon DEF BirthEffect, Births, OthersSame
  <2>5. \A p \in Pids : proc'[p].st = "live" => proc'[p].pv >= 1
    BY <1>0, <2>4 DEF Calls, Live
  <2>6. ASSUME NEW p \in Pids, call'[p] = call[p],
               \A q \in Pids : call'[q].child \in {Child(q), c}
        PROVE  CallKept(p)'
    <3>1. CASE ~ InCall(p)
      BY <2>6, <3>1, Zenon DEF Calls, CallKept, InCall, Child
    <3>2. CASE InCall(p)
      <4> DEFINE d == Child(p)
      <4>1. /\ Live(p) /\ d \in Pids \ {p} /\ proc[d].pv >= 1 /\ d # c /\ p # c
            /\ call[p].st # "created" /\ Live(d) => call[p].pv = Version(d)
            /\ \A q \in Pids \ {p} : Child(q) # d
        BY <2>1, <2>3, <3>2, Zenon DEF Calls, CallKept
      <4>2. proc'[d] = proc[d] /\ proc'[p] = proc[p] /\ \A q \in Pids \ {p} : call'[q].child # d
        BY <2>4, <2>6, <4>1, Zenon
      <4>3. call'[p].child = d /\ call'[p].st # "idle"
        BY <2>6, <3>2, Zenon DEF Child, InCall
      <4> HIDE DEF d
      <4> QED BY <2>6, <4>1, <4>2, <4>3, Zenon DEF CallKept, InCall, Child, Live, Version
    <3> QED BY <3>1, <3>2, Zenon
  <2>7. CASE call' = call
    <3>1. \A p \in Pids : CallKept(p)'
      BY <2>6, <2>7, Zenon DEF Child
    <3> QED BY <2>5, <3>1, Zenon DEF Calls, Live
  <2>8. ASSUME NEW p \in Pids \ {c}, Live(p), ~ InCall(p), OthersSame(call, call', p),
               call'[p].st = "created", call'[p].child = c
        PROVE  Calls'
    <3>1. \A q \in Pids : call'[q].child \in {Child(q), c}
      BY <2>8, Zenon DEF OthersSame, Child
    <3>2. \A q \in Pids \ {p} : CallKept(q)'
      BY <2>6, <2>8, <3>1, Zenon DEF OthersSame
    <3>3. \A q \in Pids \ {p} : call'[q].child # c
      BY <2>2, <2>8, Zenon DEF OthersSame, Child
    <3>4. CallKept(p)'
      BY <1>0, <2>4, <2>8, <3>3, SMTT(30) DEF CallKept, InCall, Child, Live
    <3> QED BY <2>5, <3>2, <3>4, Zenon DEF Calls, Live
  <2> QED BY <1>2, <2>7, <2>8, Zenon DEF BirthEffect
<1> QED BY <1>1, <1>2, Carries, Zenon

-----------------------------------------------------------------------------
(* Incarnations and roots                                                   *)

\* No report is sent or handled and no node is added.
Stays == Forks' = Forks /\ DOMAIN nodes' = DOMAIN nodes /\ arming' \subseteq arming /\ user' = user

\* Few steps touch the reports and the keys of the tree.
LEMMA Staying ==
    ASSUME Forest, Effect
    PROVE  \/ Stays
           \/ \E p \in Pids : SendEffect(p)
           \/ \E m \in Frames : ReportEffect(m)
           \/ \E r \in Runs : InsertEffect(r)
<1>0. wire' = wire => Forks' = Forks
  BY Zenon DEF Forks
<1>1. ASSUME NEW c \in Pids, BirthEffect(c) PROVE Stays
  BY <1>1, Zenon DEF BirthEffect, Stays
<1>2. ASSUME NEW D, NEW I, DeathEffect(D, I) PROVE Stays
  BY <1>0, <1>2, Zenon DEF DeathEffect, Stays
<1>3. ASSUME NEW p \in Pids, ImageEffect(p) \/ TimeoutEffect(p) \/ ReturnEffect(p) PROVE Stays
  BY <1>0, <1>3, Zenon DEF ImageEffect, TimeoutEffect, ReturnEffect, SameRest, Stays
<1>4. ASSUME NEW r \in Runs, ClaimEffect(r) PROVE Stays
  BY <1>0, <1>4, Zenon DEF ClaimEffect, Stays
<1>5. ASSUME NEW r \in Runs, BindEffect(r) PROVE Stays
  BY <1>0, <1>5, Zenon DEF BindEffect, Phase, NodeSet, Forest, Stays
<1>6. ASSUME NEW a \in arming, ArmEffect(a) PROVE Stays
  BY <1>0, <1>6, Zenon DEF ArmEffect, Stays
<1>7. CASE GapEffect
  BY <1>7, Zenon DEF GapEffect, Stays
<1>8. ASSUME NEW p \in Pids, ExitEffect(p) \/ FailEffect(p) PROVE Stays
  BY <1>2, <1>8, Zenon DEF ExitEffect, FailEffect
<1>9. ASSUME NEW t \in timers, KillEffect(t) PROVE Stays
  BY <1>2, <1>9, Zenon DEF KillEffect
<1> QED BY <1>1, <1>3, <1>4, <1>5, <1>6, <1>7, <1>8, <1>9, Zenon DEF Effect

\* Pidversions only grow, and what was of the past stays so.
LEMMA Grows ==
    ASSUME TypeOK, TypeOK', Calls, Effect
    PROVE  /\ \A p \in Pids : /\ proc[p].pv \in 0 .. MaxPv /\ proc'[p].pv \in 0 .. MaxPv
                              /\ proc[p].pv <= proc'[p].pv
           /\ \A p \in Pids, v \in Pvs : Past(p, v) => Past(p, v)'
<1>1. \A p \in Pids : proc[p].pv \in 0 .. MaxPv
  BY VersionIs, Zenon
<1>2. \A p \in Pids : proc'[p].pv \in 0 .. MaxPv
  BY Zenon DEF TypeOK
<1>3. ASSUME NEW p \in Pids PROVE proc[p].pv <= proc'[p].pv
  <2>1. CASE Carry
    BY <1>1, <2>1 DEF Carry
  <2>2. ASSUME NEW c \in Pids, BirthEffect(c) PROVE proc[p].pv <= proc'[p].pv
    BY <1>1, <2>2 DEF BirthEffect, Births, OthersSame
  <2> QED BY <2>1, <2>2, Carries, Zenon
<1>4. ASSUME NEW p \in Pids, NEW v \in Pvs, Past(p, v) PROVE Past(p, v)'
  BY <1>1, <1>2, <1>3, <1>4, Numbers, SMTT(30) DEF Past, StartTime
<1> QED BY <1>1, <1>2, <1>3, <1>4, Zenon

\* A version of a process that is to come is not of the past.
LEMMA NewVersion ==
    ASSUME TypeOK, NEW p \in Pids, NEW v \in Pvs, NEW n \in 0 .. MaxPv, n > proc[p].pv
    PROVE  v \in {n, StartTime(n)} => ~ Past(p, v)
<1>1. proc[p].pv \in 0 .. MaxPv
  BY VersionIs, Zenon
<1> QED BY <1>1, Numbers DEF Past, StartTime

\* The version that is read of a process is its own.
LEMMA VersionPast ==
    ASSUME TypeOK, NEW p \in Pids
    PROVE  Past(p, Version(p)) /\ (Live(p) => Latest(p, Version(p)))
<1>1. proc[p].pv \in 0 .. MaxPv
  BY VersionIs, Zenon
<1> QED BY <1>1, Numbers DEF Version, Past, Latest, StartTime

\* Frames, nodes and handlers name incarnations that were.
LEMMA KnownStep == ASSUME TypeOK, TypeOK', Calls, Known, Roots, Forest, Effect PROVE Known'
<1>0. /\ \A m \in Forks : m.child \in Pids /\ m.pv \in Pvs
      /\ \A t \in DOMAIN nodes : t.pid \in Pids /\ t.pv \in Pvs
  <2>1. wire \subseteq Frames /\ DOMAIN nodes \subseteq Tokens
    BY Zenon DEF TypeOK
  <2> QED BY <2>1, Zenon DEF Known, Forks, Frames, Tokens
<1>1. /\ \A m \in Forks : m.child \in Pids /\ Past(m.child, m.pv)'
      /\ \A t \in DOMAIN nodes : Past(t.pid, t.pv)'
  BY <1>0, Grows, Zenon DEF Known
<1>2. CASE Stays
  <2>1. \A m \in Forks' : m.child \in Pids /\ Past(m.child, m.pv)'
    BY <1>1, <1>2, Zenon DEF Stays
  <2>2. \A t \in DOMAIN nodes' : Past(t.pid, t.pv)'
    BY <1>1, <1>2, Zenon DEF Stays
  <2>3. \A a \in arming' : a[1] \in DOMAIN nodes'
    BY <1>2, Zenon DEF Stays, Known
  <2> QED BY <2>1, <2>2, <2>3, Zenon DEF Known
<1>3. ASSUME NEW p \in Pids, SendEffect(p) PROVE Known'
  <2> DEFINE c == Child(p)
             v == Version(Child(p))
  <2>1. c \in Pids
    BY <1>3, Zenon DEF SendEffect, Calls, CallKept, InCall
  <2>2. Past(c, v)
    BY <2>1, VersionPast, Zenon
  <2>3. proc' = proc /\ nodes' = nodes /\ arming' = arming
        /\ \A m \in Forks' : m \in Forks \/ (m.child = c /\ m.pv = v)
    BY <1>3, Zenon DEF SendEffect, SameRest
  <2> HIDE DEF c, v
  <2>4. \A m \in Forks' : m.child \in Pids /\ Past(m.child, m.pv)
    BY <2>1, <2>2, <2>3, Zenon DEF Known
  <2>5. \A m \in Forks' : m.child \in Pids /\ Past(m.child, m.pv)'
    BY <2>3, <2>4, Zenon DEF Past
  <2> QED BY <1>1, <2>3, <2>5, Zenon DEF Known
<1>4. ASSUME NEW m \in Frames, ReportEffect(m) PROVE Known'
  <2> DEFINE tok == ForkToken(m.child, m.pv)
  <2>1. tok.pid = m.child /\ tok.pv = m.pv
    BY Zenon DEF ForkToken
  <2>2. m \in Forks /\ Past(m.child, m.pv)'
    BY <1>1, <1>4, Zenon DEF ReportEffect
  <2> HIDE DEF tok
  <2>3. /\ Forks' \subseteq Forks /\ DOMAIN nodes \subseteq DOMAIN nodes'
        /\ DOMAIN nodes' \subseteq DOMAIN nodes \cup {tok}
        /\ \A a \in arming' : a \in arming \/ (a[1] = tok /\ tok \in DOMAIN nodes')
    BY <1>4 DEF ReportEffect, NodeSet, tok
  <2>4. \A n \in Forks' : n.child \in Pids /\ Past(n.child, n.pv)'
    BY <1>1, <2>3, Zenon
  <2>5. \A t \in DOMAIN nodes' : Past(t.pid, t.pv)'
    BY <1>1, <2>1, <2>2, <2>3, Zenon
  <2>6. \A a \in arming' : a[1] \in DOMAIN nodes'
    BY <2>3, Zenon DEF Known
  <2> QED BY <2>4, <2>5, <2>6, Zenon DEF Known
<1>5. ASSUME NEW r \in Runs, InsertEffect(r) PROVE Known'
  <2>1. cli[r] = "claimed" /\ proc' = proc /\ arming' = arming /\ wire' = wire
    BY <1>5, Zenon DEF InsertEffect, Phase
  <2>2. Past(claim[r].pid, claim[r].pv)
    BY <2>1, Zenon DEF Roots, NotForked, Claimed
  <2>3. DOMAIN nodes \subseteq DOMAIN nodes' /\ DOMAIN nodes' \subseteq DOMAIN nodes \cup {claim[r]}
    BY <1>5, Zenon DEF InsertEffect, NodeSet
  <2>4. \A t \in DOMAIN nodes' : Past(t.pid, t.pv)
    BY <2>2, <2>3, Zenon DEF Known
  <2>5. \A t \in DOMAIN nodes' : Past(t.pid, t.pv)'
    BY <2>1, <2>4, Zenon DEF Past
  <2>6. Forks' = Forks
    BY <2>1, Zenon DEF Forks
  <2> QED BY <1>1, <2>1, <2>3, <2>5, <2>6, Zenon DEF Known
<1> QED BY <1>2, <1>3, <1>4, <1>5, Staying, Zenon

\* Few steps touch the runs.
LEMMA Registering ==
    ASSUME Effect
    PROVE  \/ cli' = cli /\ claim' = claim
           \/ \E c \in Pids : BirthEffect(c)
           \/ \E r \in Runs : ClaimEffect(r) \/ InsertEffect(r) \/ BindEffect(r)
<1>1. ASSUME NEW D, NEW I, DeathEffect(D, I) PROVE cli' = cli /\ claim' = claim
  BY <1>1, Zenon DEF DeathEffect
<1>2. ASSUME NEW p \in Pids, \/ ExitEffect(p) \/ ImageEffect(p) \/ SendEffect(p)
                             \/ TimeoutEffect(p) \/ ReturnEffect(p) \/ FailEffect(p)
      PROVE  cli' = cli /\ claim' = claim
  BY <1>1, <1>2, Zenon
     DEF ExitEffect, ImageEffect, SendEffect, TimeoutEffect, ReturnEffect, FailEffect,
                    SameRest
<1>3. ASSUME NEW m \in Frames, ReportEffect(m) PROVE cli' = cli /\ claim' = claim
  BY <1>3, Zenon DEF ReportEffect
<1>4. ASSUME NEW a \in arming, ArmEffect(a) PROVE cli' = cli /\ claim' = claim
  BY <1>4, Zenon DEF ArmEffect
<1>5. CASE GapEffect
  BY <1>5, Zenon DEF GapEffect
<1>6. ASSUME NEW t \in timers, KillEffect(t) PROVE cli' = cli /\ claim' = claim
  BY <1>1, <1>6, Zenon DEF KillEffect
<1> QED BY <1>2, <1>3, <1>4, <1>5, <1>6, Zenon DEF Effect

\* A root stays one that no call created, and different runs keep different
\* roots.
LEMMA RootsStep == ASSUME TypeOK, TypeOK', Calls, Known, Roots, Forest, Effect PROVE Roots'
<1>0. /\ "none" \notin Pids /\ MaxPv \in Nat
      /\ \A p \in Pids : proc[p].pv \in 0 .. MaxPv /\ proc'[p].pv \in 0 .. MaxPv
      /\ \A m \in Forks : m.child \in Pids /\ m.pv \in Pvs
      /\ \A r \in Runs : Claimed(r) => claim[r].pid \in Pids /\ claim[r].pv \in Pvs
  <2>1. wire \subseteq Frames
    BY Zenon DEF TypeOK
  <2>2. \A r \in Runs : Claimed(r) => claim[r] \in Tokens
    BY Zenon DEF Roots, NotForked
  <2> QED BY <2>1, <2>2, Grows, TreeAssumption, Zenon DEF Known, Forks, Frames, Tokens
<1> DEFINE Was(p, v) == (v <= MaxPv => v <= proc'[p].pv) /\ v <= StartTime(proc'[p].pv)
<1>1. \A r \in Runs : Claimed(r) => Past(claim[r].pid, claim[r].pv) /\ Was(claim[r].pid, claim[r].pv)
  <2>1. \A p \in Pids, v \in Pvs : Past(p, v) => Was(p, v)
    BY Grows, Zenon DEF Past
  <2> HIDE DEF Was
  <2> QED BY <1>0, <2>1, Zenon DEF Roots, NotForked
<1>2. ASSUME NEW c \in Pids, BirthEffect(c) PROVE Roots'
  <2>1. /\ \A q \in Pids : Child(q) # c
        /\ \A r \in Runs : cli[r] = "spawned" => claim[r].pid # c
        /\ proc[c].pv + 1 \in 0 .. MaxPv
    <3>1. ~ Live(c) /\ \A q \in Pids : InCall(q) => Child(q) # c
      BY <1>2, Zenon DEF BirthEffect, Births, Reusable, Calls, CallKept, Child
    <3> QED BY <1>0, <1>2, <3>1, Zenon DEF BirthEffect, Births, Reusable, Calls, CallKept
  <2>2. /\ proc'[c].pv = proc[c].pv + 1 /\ \A q \in Pids \ {c} : proc'[q] = proc[q]
        /\ Forks' = Forks
    BY <1>2, Zenon DEF BirthEffect, Births, OthersSame
  <2>3. \A q \in Pids : call'[q].child \in {Child(q), c}
    BY <1>2, Zenon DEF BirthEffect, OthersSame, Child
  <2>4. \A v \in Pvs : v \in {proc'[c].pv, StartTime(proc'[c].pv)} => ~ Past(c, v)
    BY <1>0, <2>1, <2>2, NewVersion, SMTT(30)
  <2>5. ASSUME NEW r \in Runs, cli'[r] = cli[r], claim'[r] = claim[r],
               cli[r] = "spawned" => \A q \in Pids : call'[q].child # claim[r].pid
        PROVE  NotForked(r)'
    <3>1. CASE cli[r] = "spawned"
      <4>1. claim[r].pid \in Pids \ {c} /\ \A m \in Forks : m.child = claim[r].pid
                                              => m.pv # proc[claim[r].pid].pv
        BY <2>1, <3>1, Zenon DEF Roots, NotForked
      <4>2. proc'[claim[r].pid] = proc[claim[r].pid]
        BY <2>2, <4>1, Zenon
      <4> QED BY <2>2, <2>5, <3>1, <4>1, <4>2, Zenon DEF NotForked, Child, Claimed
    <3>2. CASE Claimed(r)
      <4> DEFINE tok == claim[r]
      <4>1. /\ tok \in Tokens /\ tok.pid \in Pids /\ tok.pv \in Pvs
            /\ Past(tok.pid, tok.pv) /\ Was(tok.pid, tok.pv)
            /\ \/ tok.src = "bsdinfo" /\ tok.pv > MaxPv
               \/ /\ tok.src = "kernel" /\ tok.pv \in 1 .. MaxPv
                  /\ \A q \in Pids : Child(q) = tok.pid => proc[tok.pid].pv # tok.pv
                  /\ \A m \in Forks : m.child = tok.pid => m.pv # tok.pv
        BY <1>0, <1>1, <3>2, Zenon DEF Roots, NotForked
      <4>2. ASSUME NEW q \in Pids, call'[q].child = tok.pid,
                   \A u \in Pids : Child(u) = tok.pid => proc[tok.pid].pv # tok.pv
            PROVE  proc'[tok.pid].pv # tok.pv
        <5>1. CASE tok.pid = c
          BY <2>4, <4>1, <5>1, Zenon
        <5>2. CASE tok.pid # c
          BY <2>2, <2>3, <4>1, <4>2, <5>2, Zenon
        <5> QED BY <5>1, <5>2, Zenon
      <4>3. cli'[r] # "spawned" /\ claim'[r] = tok /\ cli'[r] = cli[r]
        BY <2>5, <3>2, Zenon DEF Claimed
      <4> HIDE DEF tok
      <4> QED BY <2>2, <4>1, <4>2, <4>3, Zenon DEF NotForked, Child, Past
    <3>3. CASE cli[r] # "spawned" /\ ~ Claimed(r)
      BY <2>5, <3>3, Zenon DEF NotForked, Claimed
    <3> QED BY <3>1, <3>2, <3>3, Zenon
  <2>6. ASSUME NEW r \in Runs, NEW s \in Runs, r # s, cli'[r] = cli[r], claim'[r] = claim[r],
               cli'[s] = cli[s], claim'[s] = claim[s]
        PROVE  OwnRoot(r, s)'
    <3>1. OwnRoot(r, s)
      BY <2>6, Zenon DEF Roots
    <3>2. cli[r] = "spawned" => claim[r].pid \in Pids \ {c}
      BY <2>1, Zenon DEF Roots, NotForked
    <3>3. cli[r] = "spawned" => proc'[claim[r].pid] = proc[claim[r].pid]
      BY <2>2, <3>2, Zenon
    <3> QED BY <2>6, <3>1, <3>3, Zenon DEF OwnRoot, Claimed, Latest
  <2>7. CASE cli' = cli /\ claim' = claim
    <3>1. \A r \in Runs : cli[r] = "spawned" => \A q \in Pids : call'[q].child # claim[r].pid
      BY <2>1, <2>3, Zenon DEF Roots, NotForked
    <3>2. \A r \in Runs : NotForked(r)'
      BY <2>5, <2>7, <3>1, Zenon
    <3>3. \A r, s \in Runs : r # s => OwnRoot(r, s)'
      BY <2>6, <2>7, Zenon
    <3> QED BY <3>2, <3>3, Zenon DEF Roots
  <2>8. ASSUME call' = call, NEW r \in Runs, cli'[r] = "spawned", claim'[r].pid = c,
               \A s \in Runs \ {r} : cli'[s] = cli[s] /\ claim'[s] = claim[s]
        PROVE  Roots'
    <3>1. NotForked(r)'
      <4>1. \A m \in Forks : m.child = c => m.pv # proc'[c].pv
        BY <1>0, <2>4, Zenon DEF Known
      <4> QED BY <2>1, <2>2, <2>8, <4>1, Zenon DEF NotForked, Child, Claimed
    <3>2. \A s \in Runs \ {r} : NotForked(s)'
      <4>1. \A s \in Runs : cli[s] = "spawned" => \A q \in Pids : call'[q].child # claim[s].pid
        BY <2>8, Zenon DEF Roots, NotForked, Child
      <4> QED BY <2>5, <2>8, <4>1, Zenon
    <3>3. ASSUME NEW s \in Runs \ {r} PROVE OwnRoot(r, s)' /\ OwnRoot(s, r)'
      <4>1. cli[s] = "spawned" => claim[s].pid # c
        BY <2>1, Zenon
      <4>2. Claimed(s) /\ claim[s].pid = c => ~ (claim[s].pv \in {proc'[c].pv, StartTime(proc'[c].pv)})
        BY <1>0, <1>1, <2>4, Zenon
      <4>3. cli'[s] = cli[s] /\ claim'[s] = claim[s]
        BY <2>8, Zenon
      <4> QED BY <2>8, <4>1, <4>2, <4>3, Zenon DEF OwnRoot, Claimed, Latest
    <3>4. \A s, t \in Runs \ {r} : s # t => OwnRoot(s, t)'
      BY <2>6, <2>8, Zenon
    <3> QED BY <3>1, <3>2, <3>3, <3>4, Zenon DEF Roots
  <2> QED BY <1>2, <2>7, <2>8, Zenon DEF BirthEffect
<1>3. ASSUME NEW p \in Pids, SendEffect(p) PROVE Roots'
  <2> DEFINE c == Child(p)
             v == Version(Child(p))
  <2>1. c \in Pids /\ proc[c].pv >= 1
    BY <1>3, Zenon DEF SendEffect, Calls, CallKept, InCall
  <2>2. /\ proc' = proc /\ cli' = cli /\ claim' = claim /\ \A q \in Pids : call'[q].child = Child(q)
        /\ \A m \in Forks' : m \in Forks \/ (m.child = c /\ m.pv = v)
    BY <1>3, Zenon DEF SendEffect, SameRest, OthersSame, Child
  <2>3. v \in {0, proc[c].pv} \/ v > MaxPv
    BY <1>0, <2>1, Numbers, Zenon DEF Version
  <2> HIDE DEF v
  <2>4. ASSUME NEW r \in Runs PROVE NotForked(r)'
    <3>1. NotForked(r)
      BY Zenon DEF Roots
    <3>2. cli[r] = "spawned" => c # claim[r].pid
      BY <3>1, Zenon DEF NotForked
    <3>3. \A n \in 1 .. MaxPv : c = claim[r].pid /\ proc[claim[r].pid].pv # n => v # n
      BY <1>0, <2>1, <2>3, SMTT(30)
    <3>4. Past(claim[r].pid, claim[r].pv)' <=> Past(claim[r].pid, claim[r].pv)
      BY <2>2, Zenon DEF Past
    <3> QED BY <2>2, <3>1, <3>2, <3>3, <3>4, Zenon DEF NotForked, Claimed, Child
  <2>5. \A r, s \in Runs : r # s => OwnRoot(r, s)'
    BY <2>2, Zenon DEF Roots, OwnRoot, Claimed, Latest
  <2> QED BY <2>4, <2>5, Zenon DEF Roots
<1>4. ASSUME NEW r \in Runs, ClaimEffect(r) PROVE Roots'
  <2> DEFINE p == claim[r].pid
             tok == AuditTokenForPid(p)
  <2>1. /\ cli[r] = "spawned" /\ proc' = proc /\ call' = call /\ Forks' = Forks
        /\ \A s \in Runs \ {r} : cli'[s] = cli[s] /\ claim'[s] = claim[s]
        /\ \/ cli'[r] = "failed"
           \/ Live(p) /\ cli'[r] = "claimed" /\ claim'[r] = tok
    BY <1>4, Zenon DEF ClaimEffect, Phase, Forks
  <2>2. /\ p \in Pids /\ \A q \in Pids : Child(q) # p
        /\ \A m \in Forks : m.child = p => m.pv # proc[p].pv
    BY <2>1, Zenon DEF Roots, NotForked
  <2>3. ASSUME NEW s \in Runs \ {r} PROVE NotForked(s)'
    <3>1. NotForked(s) /\ cli'[s] = cli[s] /\ claim'[s] = claim[s]
      BY <2>1, Zenon DEF Roots
    <3> QED BY <2>1, <3>1, Zenon DEF NotForked, Claimed, Child, Past
  <2>4. ASSUME NEW s \in Runs \ {r}, NEW t \in Runs \ {r}, s # t PROVE OwnRoot(s, t)'
    <3>1. OwnRoot(s, t) /\ cli'[s] = cli[s] /\ claim'[s] = claim[s]
          /\ cli'[t] = cli[t] /\ claim'[t] = claim[t]
      BY <2>1, <2>4, Zenon DEF Roots
    <3> QED BY <2>1, <3>1, Zenon DEF OwnRoot, Claimed, Latest
  <2>5. CASE cli'[r] = "failed"
    <3>1. NotForked(r)' /\ \A s \in Runs \ {r} : OwnRoot(r, s)' /\ OwnRoot(s, r)'
      BY <2>5, Zenon DEF NotForked, OwnRoot, Claimed
    <3> QED BY <2>3, <2>4, <3>1, Zenon DEF Roots
  <2>6. CASE Live(p) /\ cli'[r] = "claimed" /\ claim'[r] = tok
    <3>1. /\ tok \in Tokens /\ tok.pid = p /\ proc[p].pv >= 1 /\ tok.pv = Version(p)
          /\ \/ tok.src = "bsdinfo" /\ tok.pv = StartTime(proc[p].pv)
             \/ tok.src = "kernel" /\ tok.pv = proc[p].pv
      <4>1. proc[p].pv >= 1
        BY <2>2, <2>6, Zenon DEF Calls
      <4>2. /\ tok \in Tokens /\ tok.pv = Version(p) /\ Version(p) = ChildPidversion(p)
            /\ ChildPidversion(p) = IF p \in NoTaskPort THEN StartTime(proc[p].pv) ELSE proc[p].pv
            /\ tok = [src |-> IF p \in NoTaskPort THEN "bsdinfo" ELSE "kernel",
                      pid |-> p, pv |-> ChildPidversion(p)]
        BY <2>2, <2>6, VersionIs, Zenon DEF ChildPidversion
      <4> QED BY <4>1, <4>2
    <3>2. Past(tok.pid, tok.pv) /\ Latest(tok.pid, tok.pv)
      BY <2>2, <2>6, <3>1, VersionPast, Zenon
    <3> HIDE DEF tok, p
    <3>3. NotForked(r)'
      <4>1. Was(tok.pid, tok.pv)
        BY <2>1, <3>2, Zenon DEF Past
      <4>2. \/ tok.src = "bsdinfo" /\ tok.pv > MaxPv
            \/ tok.src = "kernel" /\ tok.pv \in 1 .. MaxPv /\ tok.pv = proc[p].pv
        BY <1>0, <2>2, <3>1, Numbers, SMTT(30)
      <4> QED BY <2>1, <2>2, <2>6, <3>1, <4>1, <4>2, Zenon DEF NotForked, Child, Past
    <3>4. ASSUME NEW s \in Runs \ {r} PROVE OwnRoot(r, s)' /\ OwnRoot(s, r)'
      <4>1. OwnRoot(r, s) /\ OwnRoot(s, r) /\ cli'[s] = cli[s] /\ claim'[s] = claim[s]
        BY <2>1, Zenon DEF Roots
      <4>2. cli[s] = "spawned" => claim[s].pid # p
        BY <2>1, <4>1, Zenon DEF OwnRoot, p
      <4>3. Claimed(s) => claim[s] # tok
        BY <2>1, <3>1, <3>2, <4>1, Zenon DEF OwnRoot, p
      <4> QED BY <2>6, <3>1, <4>1, <4>2, <4>3, Zenon DEF OwnRoot, Claimed
    <3> QED BY <2>3, <2>4, <3>3, <3>4, ZenonT(60) DEF Roots
  <2> QED BY <2>1, <2>5, <2>6, Zenon
<1>5. ASSUME claim' = claim, Carry, Forks' \subseteq Forks,
             \A r \in Runs : \/ cli'[r] = cli[r]
                             \/ Claimed(r) /\ cli'[r] \in {"inserted", "registered", "failed"}
      PROVE  Roots'
  <2>1. /\ \A q \in Pids : call'[q].child \in {Child(q), "none"}
        /\ \A q \in Pids : proc'[q].pv = proc[q].pv
    BY <1>5, CallsAre, Zenon DEF Carry, CallGoesOn, Child
  <2>2. ASSUME NEW r \in Runs PROVE NotForked(r)'
    <3>1. NotForked(r)
      BY Zenon DEF Roots
    <3>2. Claimed(r) => claim[r].pid \in Pids /\ Was(claim[r].pid, claim[r].pv)
      BY <1>0, <1>1, Zenon
    <3>3. cli'[r] = "spawned" => cli[r] = "spawned"
      BY <1>5, Zenon
    <3>4. Claimed(r)' => Claimed(r)
      BY <1>5, Zenon DEF Claimed
    <3> QED BY <1>0, <1>5, <2>1, <3>1, <3>2, <3>3, <3>4, Zenon DEF NotForked, Child, Past
  <2>3. ASSUME NEW r \in Runs, NEW s \in Runs, r # s PROVE OwnRoot(r, s)'
    <3>1. OwnRoot(r, s)
      BY <2>3, Zenon DEF Roots
    <3>2. /\ cli'[r] = "spawned" => cli[r] = "spawned"
          /\ cli'[s] = "spawned" => cli[s] = "spawned"
          /\ (Claimed(r)' => Claimed(r)) /\ (Claimed(s)' => Claimed(s))
      BY <1>5, Zenon DEF Claimed
    <3>3. Claimed(s) => claim[s].pid \in Pids
      BY <1>0, Zenon
    <3> QED BY <1>5, <2>1, <3>1, <3>2, <3>3, Zenon DEF OwnRoot, Latest
  <2> QED BY <2>2, <2>3, Zenon DEF Roots
<1>6. ASSUME NEW r \in Runs, InsertEffect(r) \/ BindEffect(r) PROVE Roots'
  <2>1. /\ claim' = claim /\ proc' = proc /\ call' = call /\ wire' = wire
        /\ cli[r] \in {"claimed", "inserted"} /\ cli'[r] \in {"inserted", "registered", "failed"}
        /\ \A s \in Runs \ {r} : cli'[s] = cli[s]
    BY <1>6, Zenon DEF InsertEffect, BindEffect, Phase
  <2>2. Carry /\ Forks' = Forks
    BY <2>1, Zenon DEF Carry, CallGoesOn, Forks
  <2> QED BY <1>5, <2>1, <2>2, Zenon DEF Claimed
<1>7. ASSUME cli' = cli, claim' = claim, Carry, Stays \/ \E m \in Frames : ReportEffect(m)
      PROVE  Roots'
  <2>1. Forks' \subseteq Forks
    BY <1>7, Zenon DEF Stays, ReportEffect
  <2> QED BY <1>5, <1>7, <2>1, Zenon
<1> QED BY <1>2, <1>3, <1>4, <1>6, <1>7, Registering, Staying, Carries, Zenon
=============================================================================
