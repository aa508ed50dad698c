------------------------- MODULE ProcessTreeProofs -------------------------
(***************************************************************************)
(* Proofs about ProcessTree for any number of pids, runs, incarnations,    *)
(* executable files and frames, and about the chunked search of ExecScan   *)
(* for files and chunks of any size: every step keeps the parts of the     *)
(* inductive invariant about the tree, reports, refusals, admissions and   *)
(* images, takes no coverage gap off a node, and the theorems follow.      *)
(***************************************************************************)
EXTENDS ProcessTreeEffects, WellFoundedInduction

-----------------------------------------------------------------------------
(* The tree                                                                 *)

\* The token of a fork is never that of a run's root.
LEMMA ForkIsNoRoot ==
    ASSUME TypeOK, Known, Roots, NEW m \in Forks, NEW r \in Runs, Claimed(r)
    PROVE  ForkToken(m.child, m.pv) # claim[r]
<1>1. /\ ForkToken(m.child, m.pv).pid = m.child /\ ForkToken(m.child, m.pv).pv = m.pv
      /\ ForkToken(m.child, m.pv).src # "bsdinfo"
  BY Zenon DEF ForkToken
<1>2. NotForked(r)
  BY Zenon DEF Roots
<1> QED BY <1>1, <1>2, Zenon DEF NotForked

\* Few steps touch the tree.
LEMMA Growing ==
    ASSUME Effect
    PROVE  \/ nodes' = nodes /\ runRoot' = runRoot
           \/ GapEffect
           \/ \E m \in Frames : ReportEffect(m)
           \/ \E r \in Runs : InsertEffect(r) \/ BindEffect(r)
<1>1. ASSUME NEW D, NEW I, DeathEffect(D, I) PROVE nodes' = nodes /\ runRoot' = runRoot
  BY <1>1, Zenon DEF DeathEffect
<1>2. ASSUME NEW p \in Pids, \/ ExitEffect(p) \/ ImageEffect(p) \/ SendEffect(p)
                             \/ TimeoutEffect(p) \/ ReturnEffect(p) \/ FailEffect(p)
      PROVE  nodes' = nodes /\ runRoot' = runRoot
  BY <1>1, <1>2, Zenon
     DEF ExitEffect, ImageEffect, SendEffect, TimeoutEffect, ReturnEffect, FailEffect,
                    SameRest
<1>3. ASSUME NEW c \in Pids, BirthEffect(c) PROVE nodes' = nodes /\ runRoot' = runRoot
  BY <1>3, Zenon DEF BirthEffect
<1>4. ASSUME NEW a \in arming, ArmEffect(a) PROVE nodes' = nodes /\ runRoot' = runRoot
  BY <1>4, Zenon DEF ArmEffect
<1>5. ASSUME NEW r \in Runs, ClaimEffect(r) PROVE nodes' = nodes /\ runRoot' = runRoot
  BY <1>5, Zenon DEF ClaimEffect
<1>6. ASSUME NEW t \in timers, KillEffect(t) PROVE nodes' = nodes /\ runRoot' = runRoot
  BY <1>1, <1>6 DEF KillEffect
<1> QED BY <1>2, <1>3, <1>4, <1>5, <1>6, Zenon DEF Effect

\* The tree stays a forest of runs.
LEMMA ForestStep == ASSUME TypeOK, Known, Roots, Forest, Effect PROVE Forest'
<1> DEFINE In(r) == cli[r] \in {"inserted", "registered"}
<1>0. /\ \A t \in DOMAIN nodes : nodes[t].run \in Runs /\ nodes[t].root \in Tokens
      /\ \A r \in Runs : In(r) => Claimed(r)
      /\ runRoot \in [Runs -> Tokens \cup {NoToken}]
  <2>1. \A t \in DOMAIN nodes : nodes[t] \in Nodes
    BY Zenon DEF TypeOK
  <2>2. \A t \in DOMAIN nodes : nodes[t].run \in Runs /\ nodes[t].root \in Tokens
    BY <2>1, Zenon DEF Nodes
  <2>3. runRoot \in [Runs -> Tokens \cup {NoToken}]
    BY Zenon DEF TypeOK
  <2> QED BY <2>2, <2>3, Zenon DEF Claimed
<1>1. ASSUME \A r \in Runs : In(r) => cli'[r] = cli[r] /\ claim'[r] = claim[r],
             \A r \in Runs : cli'[r] \in {"inserted", "registered"}
                             => In(r) \/ claim'[r] \in DOMAIN nodes,
             runRoot' = runRoot, DOMAIN nodes' = DOMAIN nodes,
             \A t \in DOMAIN nodes : nodes'[t].root = nodes[t].root /\ nodes'[t].run = nodes[t].run
      PROVE  Forest'
  <2>1. \A r \in Runs : cli'[r] \in {"inserted", "registered"} => claim'[r] \in DOMAIN nodes
    BY <1>1, Zenon DEF Forest
  <2>2. ASSUME NEW r \in Runs, runRoot[r] # NoToken
        PROVE  cli'[r] = "registered" /\ runRoot[r] = claim'[r] /\ nodes'[claim'[r]].root = claim'[r]
    BY <1>1, <2>2 DEF Forest
  <2>3. ASSUME NEW t \in DOMAIN nodes, nodes[t].root = t
        PROVE  claim'[nodes[t].run] = t /\ cli'[nodes[t].run] \in {"inserted", "registered"}
    BY <1>0, <1>1, <2>3, Zenon DEF Forest
  <2>4. ASSUME NEW t \in DOMAIN nodes
        PROVE  /\ nodes[t].root \in DOMAIN nodes /\ nodes'[nodes[t].root].root = nodes[t].root
               /\ nodes'[nodes[t].root].run = nodes[t].run
    BY <1>1, Zenon DEF Forest
  <2> QED BY <1>1, <2>1, <2>2, <2>3, <2>4, SMTT(30) DEF Forest
<1>2. ASSUME NEW r \in Runs, InsertEffect(r) PROVE Forest'
  <2> DEFINE tok == claim[r]
  <2>1. /\ cli[r] = "claimed" /\ claim' = claim /\ runRoot' = runRoot
        /\ \A s \in Runs \ {r} : cli'[s] = cli[s]
    BY <1>2, Zenon DEF InsertEffect, Phase
  <2>2. CASE nodes' = nodes
    <3>1. cli'[r] = "failed" \/ (cli'[r] = "inserted" /\ tok \in DOMAIN nodes)
      BY <1>2, <2>2, Zenon DEF InsertEffect, Phase, NodeSet
    <3> QED BY <1>1, <2>1, <2>2, <3>1, Zenon
  <2>3. CASE /\ cli'[r] = "inserted" /\ tok \notin DOMAIN nodes /\ NodeSet(tok)
             /\ nodes'[tok].root = tok /\ nodes'[tok].run = r
    <3>1. /\ DOMAIN nodes' = DOMAIN nodes \cup {tok} /\ \A t \in DOMAIN nodes : nodes'[t] = nodes[t]
      BY <2>3, Zenon DEF NodeSet
    <3>2. \A s \in Runs : cli'[s] \in {"inserted", "registered"} => claim[s] \in DOMAIN nodes'
      BY <2>1, <2>3, <3>1, Zenon DEF Forest
    <3>3. ASSUME NEW s \in Runs, runRoot[s] # NoToken
          PROVE  cli'[s] = "registered" /\ runRoot[s] = claim[s] /\ nodes'[claim[s]].root = claim[s]
      BY <2>1, <3>1, <3>3, Zenon DEF Forest
    <3>4. ASSUME NEW t \in DOMAIN nodes', nodes'[t].root = t
          PROVE  claim[nodes'[t].run] = t /\ cli'[nodes'[t].run] \in {"inserted", "registered"}
      BY <1>0, <2>1, <2>3, <3>1, <3>4, SMTT(30) DEF Forest
    <3>5. ASSUME NEW t \in DOMAIN nodes'
          PROVE  LET u == nodes'[t].root
                 IN  u \in DOMAIN nodes' /\ nodes'[u].root = u /\ nodes'[u].run = nodes'[t].run
      BY <2>3, <3>1 DEF Forest
    <3> QED BY <2>1, <3>2, <3>3, <3>4, <3>5, Zenon DEF Forest
  <2> QED BY <1>2, <2>2, <2>3, Zenon DEF InsertEffect, Phase
<1>3. ASSUME NEW r \in Runs, BindEffect(r) PROVE Forest'
  <2> DEFINE tok == claim[r]
  <2>1. /\ cli[r] = "inserted" /\ cli'[r] = "registered" /\ claim' = claim
        /\ \A s \in Runs \ {r} : cli'[s] = cli[s] /\ runRoot'[s] = runRoot[s]
        /\ runRoot'[r] = tok /\ nodes'[tok].root = tok /\ nodes'[tok].run = r
    BY <1>3, Zenon DEF BindEffect, Phase
  <2>2. tok \in DOMAIN nodes
    BY <2>1, Zenon DEF Forest
  <2>3. DOMAIN nodes' = DOMAIN nodes /\ \A t \in DOMAIN nodes \ {tok} : nodes'[t] = nodes[t]
    BY <1>3, <2>2, Zenon DEF BindEffect, NodeSet
  <2>4. \A s \in Runs \ {r} : In(s) => claim[s] # tok
    BY <1>0, <2>1, Zenon DEF Roots, OwnRoot
  <2>5. nodes[tok].root = tok => nodes[tok].run = r
    BY <1>0, <2>2, <2>4, Zenon DEF Forest
  <2>6. \A s \in Runs : cli'[s] \in {"inserted", "registered"} => claim[s] \in DOMAIN nodes'
    BY <2>1, <2>3, Zenon DEF Forest
  <2>7. ASSUME NEW s \in Runs, runRoot'[s] # NoToken
        PROVE  /\ cli'[s] = "registered" /\ runRoot'[s] = claim[s]
               /\ nodes'[claim[s]].root = claim[s]
    <3>1. CASE s = r
      BY <2>1, <3>1, Zenon
    <3>2. CASE s # r
      <4>1. /\ cli[s] = "registered" /\ runRoot[s] = claim[s] /\ nodes[claim[s]].root = claim[s]
            /\ claim[s] \in DOMAIN nodes
        BY <2>1, <2>7, <3>2, Zenon DEF Forest
      <4> QED BY <2>1, <2>3, <2>4, <3>2, <4>1, Zenon
    <3> QED BY <3>1, <3>2, Zenon
  <2>8. ASSUME NEW t \in DOMAIN nodes', nodes'[t].root = t
        PROVE  claim[nodes'[t].run] = t /\ cli'[nodes'[t].run] \in {"inserted", "registered"}
    <3>1. CASE t = tok
      BY <2>1, <3>1, Zenon
    <3>2. CASE t # tok
      BY <1>0, <2>1, <2>3, <2>8, <3>2, SMTT(30) DEF Forest
    <3> QED BY <3>1, <3>2, Zenon
  <2>9. ASSUME NEW t \in DOMAIN nodes'
        PROVE  LET u == nodes'[t].root
               IN  u \in DOMAIN nodes' /\ nodes'[u].root = u /\ nodes'[u].run = nodes'[t].run
    <3>1. CASE t = tok
      BY <2>1, <2>2, <2>3, <3>1, Zenon
    <3>2. CASE t # tok
      <4> DEFINE u == nodes[t].root
      <4>1. /\ nodes'[t] = nodes[t] /\ u \in DOMAIN nodes /\ nodes[u].root = u
            /\ nodes[u].run = nodes[t].run
        BY <2>3, <3>2, Zenon DEF Forest
      <4>2. nodes'[u].root = u /\ nodes'[u].run = nodes[t].run
        BY <2>1, <2>3, <2>5, <4>1, Zenon
      <4> QED BY <2>3, <4>1, <4>2, Zenon
    <3> QED BY <3>1, <3>2, Zenon
  <2> HIDE DEF tok
  <2> QED BY <2>1, <2>6, <2>7, <2>8, <2>9, Zenon DEF Forest
<1>4. ASSUME NEW m \in Frames, ReportEffect(m) PROVE Forest'
  <2> DEFINE tok == ForkToken(m.child, m.pv)
  <2>1. m \in Forks /\ cli' = cli /\ claim' = claim /\ runRoot' = runRoot
    BY <1>4, Zenon DEF ReportEffect
  <2>2. \A t \in DOMAIN nodes : nodes[t].root = t => t # tok
    BY <1>0, <2>1, ForkIsNoRoot DEF Forest
  <2> HIDE DEF tok
  <2>3. CASE nodes' = nodes
    BY <1>1, <2>1, <2>3, Zenon
  <2>4. CASE /\ m.peer \in DOMAIN nodes /\ NodeSet(tok)
             /\ nodes'[tok].root = nodes[m.peer].root /\ nodes'[tok].run = nodes[m.peer].run
    <3>1. DOMAIN nodes' = DOMAIN nodes \cup {tok} /\ \A t \in DOMAIN nodes \ {tok} : nodes'[t] = nodes[t]
      BY <2>4, Zenon DEF NodeSet
    <3>2. \A t \in DOMAIN nodes : /\ nodes[t].root \in DOMAIN nodes /\ nodes[t].root # tok
                                  /\ nodes'[nodes[t].root].root = nodes[t].root
                                  /\ nodes'[nodes[t].root].run = nodes[t].run
      BY <2>2, <3>1, Zenon DEF Forest
    <3>3. \A r \in Runs : In(r) => claim[r] \in DOMAIN nodes'
      BY <3>1, Zenon DEF Forest
    <3>4. ASSUME NEW r \in Runs, runRoot[r] # NoToken
          PROVE  cli[r] = "registered" /\ runRoot[r] = claim[r] /\ nodes'[claim[r]].root = claim[r]
      BY <2>2, <3>1, <3>4, Zenon DEF Forest
    <3>5. ASSUME NEW t \in DOMAIN nodes', nodes'[t].root = t
          PROVE  claim[nodes'[t].run] = t /\ In(nodes'[t].run)
      BY <2>4, <3>1, <3>2, <3>5, SMTT(30) DEF Forest
    <3>6. ASSUME NEW t \in DOMAIN nodes'
          PROVE  LET u == nodes'[t].root
                 IN  u \in DOMAIN nodes' /\ nodes'[u].root = u /\ nodes'[u].run = nodes'[t].run
      BY <2>4, <3>1, <3>2
    <3> QED BY <2>1, <3>3, <3>4, <3>5, <3>6, Zenon DEF Forest
  <2> QED BY <1>4, <2>3, <2>4, Zenon DEF ReportEffect, tok
<1>5. CASE GapEffect
  BY <1>1, <1>5, Zenon DEF GapEffect
<1>6. ASSUME nodes' = nodes, runRoot' = runRoot, cli' = cli, claim' = claim PROVE Forest'
  BY <1>1, <1>6, Zenon
<1>7. ASSUME nodes' = nodes, runRoot' = runRoot, NEW c \in Pids, BirthEffect(c) PROVE Forest'
  <2>1. \A r \in Runs : \/ cli'[r] = cli[r] /\ claim'[r] = claim[r]
                        \/ cli[r] = "start" /\ cli'[r] = "spawned"
    BY <1>7, Zenon DEF BirthEffect
  <2> QED BY <1>1, <1>7, <2>1, Zenon
<1>8. ASSUME nodes' = nodes, runRoot' = runRoot, NEW r \in Runs, ClaimEffect(r) PROVE Forest'
  <2>1. /\ \A s \in Runs \ {r} : cli'[s] = cli[s] /\ claim'[s] = claim[s]
        /\ cli[r] = "spawned" /\ cli'[r] \in {"failed", "claimed"}
    BY <1>8, Zenon DEF ClaimEffect, Phase
  <2> QED BY <1>1, <1>8, <2>1, Zenon
<1> QED BY <1>2, <1>3, <1>4, <1>5, <1>6, <1>7, <1>8, Growing, Registering, Zenon

-----------------------------------------------------------------------------
(* Reports                                                                  *)

\* No report, on its way or still to be sent, is about an incarnation that the
\* tree has a node for.
LEMMA FreshStep ==
    ASSUME TypeOK, TypeOK', Calls, Known, Roots, Forest, Fresh, Effect PROVE Fresh'
<1>0. /\ MaxPv \in Nat /\ "none" \notin Pids /\ IdleCall.st = "idle"
      /\ \A p \in Pids : proc[p].pv \in 0 .. MaxPv /\ proc'[p].pv \in 0 .. MaxPv
      /\ \A m \in Forks : m.child \in Pids /\ m.pv \in Pvs /\ Past(m.child, m.pv)
      /\ \A t \in DOMAIN nodes : t.pid \in Pids /\ t.pv \in Pvs /\ Past(t.pid, t.pv)
  <2>1. wire \subseteq Frames /\ DOMAIN nodes \subseteq Tokens
    BY Zenon DEF TypeOK
  <2>2. \A m \in Forks : m.child \in Pids /\ m.pv \in Pvs /\ Past(m.child, m.pv)
    BY <2>1, Zenon DEF Known, Forks, Frames
  <2>3. \A t \in DOMAIN nodes : t.pid \in Pids /\ t.pv \in Pvs /\ Past(t.pid, t.pv)
    BY <2>1, Zenon DEF Known, Tokens
  <2> QED BY <2>2, <2>3, Grows, Numbers, TreeAssumption, CallsAre, Zenon
<1>1. ASSUME NEW p \in Pids, call[p].st = "created"
      PROVE  Child(p) \in Pids /\ \A q \in Pids \ {p} : Child(q) # Child(p)
  BY <1>1, Zenon DEF Calls, CallKept, InCall
<1>2. ASSUME NEW p \in Pids, Live(p)
      PROVE  Version(p) # 0 /\ (Version(p) = proc[p].pv \/ Version(p) > MaxPv)
  <2>1. proc[p].pv >= 1
    BY <1>2, Zenon DEF Calls
  <2> QED BY <1>0, <1>2, <2>1, Numbers, SMTT(30) DEF Version
<1> DEFINE Seen(p, v) == \E t \in DOMAIN nodes' : t.src # "bsdinfo" /\ t.pid = p /\ t.pv = v
           Now(p) == IF proc'[p].st # "live" THEN 0
                     ELSE IF p \in NoTaskPort THEN StartTime(proc'[p].pv) ELSE proc'[p].pv
           Good == /\ \A m \in Forks' : m.pv # 0 => ~ Seen(m.child, m.pv)
                   /\ \A m, n \in Forks' : m.pv # 0 /\ m.pv = n.pv /\ m.child = n.child => m = n
                   /\ \A p \in Pids :
                         call'[p].st = "created" /\ proc'[call'[p].child].st = "live" =>
                            /\ ~ Seen(call'[p].child, Now(call'[p].child))
                            /\ \A m \in Forks' : m.child = call'[p].child
                                                 => m.pv # Now(call'[p].child)
<1>3. SUFFICES Good
  BY Zenon DEF Fresh, Recorded, Version, Live, Child
<1>4. \A p, v : DOMAIN nodes' = DOMAIN nodes => (Seen(p, v) <=> Recorded(p, v))
  BY Zenon DEF Recorded
<1>5. \A p \in Pids : proc' = proc => Now(p) = Version(p)
  BY Zenon DEF Version, Live
<1>6. ASSUME NEW p \in Pids, NEW q \in Pids, call'[q] = call[q], call[q].st = "created",
             proc'[Child(q)].pv = proc[Child(q)].pv, proc'[Child(q)].st = "live" => Live(Child(q)),
             proc'[Child(q)].st = "live"
      PROVE  Live(Child(q)) /\ Now(Child(q)) = Version(Child(q))
  BY <1>6, Zenon DEF Version, Live
<1> HIDE DEF Seen
<1>7. CASE Stays
  <2>1. Forks' = Forks /\ \A p, v : Seen(p, v) <=> Recorded(p, v)
    BY <1>4, <1>7, Zenon DEF Stays
  <2>2. ASSUME NEW p \in Pids, call'[p] = call[p], call[p].st = "created",
               proc'[Child(p)].pv = proc[Child(p)].pv, proc'[Child(p)].st = "live" => Live(Child(p)),
               proc'[Child(p)].st = "live"
        PROVE  /\ ~ Seen(Child(p), Now(Child(p)))
               /\ \A m \in Forks' : m.child = Child(p) => m.pv # Now(Child(p))
    <3>1. Live(Child(p)) /\ Now(Child(p)) = Version(Child(p))
      BY <1>6, <2>2, Zenon
    <3> QED BY <2>1, <2>2, <3>1, Zenon DEF Fresh
  <2>3. CASE Carry
    <3>1. ASSUME NEW p \in Pids, call'[p].st = "created", proc'[call'[p].child].st = "live"
          PROVE  /\ ~ Seen(call'[p].child, Now(call'[p].child))
                 /\ \A m \in Forks' : m.child = call'[p].child => m.pv # Now(call'[p].child)
      <4>1. call'[p] = call[p] /\ call'[p].child = Child(p)
        BY <1>0, <2>3, <3>1, Zenon DEF Carry, CallGoesOn, Child
      <4>2. proc'[Child(p)].pv = proc[Child(p)].pv /\ (proc'[Child(p)].st = "live" => Live(Child(p)))
        BY <1>1, <2>3, <3>1, <4>1, Zenon DEF Carry, Live
      <4> QED BY <2>2, <3>1, <4>1, <4>2, Zenon
    <3> QED BY <2>1, <3>1, Zenon DEF Fresh
  <2>4. ASSUME NEW c \in Pids, BirthEffect(c) PROVE Good
    <3>1. /\ ~ Live(c) /\ \A q \in Pids : InCall(q) => Child(q) # c
      BY <2>4, Zenon DEF BirthEffect, Births, Reusable, Calls, CallKept, Child
    <3>2. /\ proc'[c].pv = proc[c].pv + 1 /\ proc'[c].st = "live"
          /\ \A q \in Pids \ {c} : proc'[q] = proc[q]
          /\ \A q \in Pids : call'[q] = call[q] \/ call'[q].child = c
      BY <2>4, Zenon DEF BirthEffect, Births, OthersSame
    <3>3. ~ Past(c, Now(c))
      <4>1. Now(c) \in {proc'[c].pv, StartTime(proc'[c].pv)} /\ Now(c) \in Pvs
        BY <1>0, <3>2, Numbers, Zenon
      <4> QED BY <1>0, <3>2, <4>1, NewVersion, SMTT(30)
    <3>4. ASSUME NEW p \in Pids, call'[p].st = "created", proc'[call'[p].child].st = "live"
          PROVE  /\ ~ Seen(call'[p].child, Now(call'[p].child))
                 /\ \A m \in Forks' : m.child = call'[p].child => m.pv # Now(call'[p].child)
      <4>1. CASE call'[p].child = c
        <5>1. \A m \in Forks : m.child = c => m.pv # Now(c)
          BY <1>0, <3>3, Zenon
        <5>2. ~ Recorded(c, Now(c))
          BY <1>0, <3>3, Zenon DEF Recorded
        <5> QED BY <2>1, <4>1, <5>1, <5>2, Zenon
      <4>2. CASE call'[p].child # c
        <5>1. call'[p] = call[p] /\ call'[p].child = Child(p)
          BY <3>2, <4>2, Zenon DEF Child
        <5>2. Child(p) \in Pids \ {c}
          BY <1>1, <3>4, <4>2, <5>1, Zenon
        <5>3. proc'[Child(p)] = proc[Child(p)]
          BY <3>2, <5>2, Zenon
        <5> QED BY <2>2, <3>4, <5>1, <5>3, Zenon DEF Live
      <4> QED BY <4>1, <4>2, Zenon
    <3> QED BY <2>1, <3>4, Zenon DEF Fresh
  <2> QED BY <2>3, <2>4, Carries, Zenon
<1>8. ASSUME NEW p \in Pids, SendEffect(p) PROVE Good
  <2> DEFINE c == Child(p)
             v == Version(c)
  <2>1. /\ proc' = proc /\ nodes' = nodes /\ call[p].st = "created" /\ call'[p].st # "created"
        /\ \A q \in Pids \ {p} : call'[q] = call[q]
    BY <1>8, Zenon DEF SendEffect, SameRest, OthersSame
  <2>2. c \in Pids /\ \A q \in Pids \ {p} : Child(q) # c
    BY <1>1, <2>1, Zenon
  <2>3. PICK m : Forks' \subseteq Forks \cup {m} /\ m.child = c /\ m.pv = v
    <3>1. CASE Forks' = Forks
      <4> DEFINE m == [child |-> c, pv |-> v]
      <4>1. Forks' \subseteq Forks \cup {m} /\ m.child = c /\ m.pv = v
        BY <3>1, Zenon
      <4> QED BY <4>1, Zenon
    <3> QED BY <1>8, <3>1, Zenon DEF SendEffect
  <2>4. v # 0 => Live(c) /\ ~ Recorded(c, v) /\ \A n \in Forks : n.child = c => n.pv # v
    <3>1. v # 0 => Live(c)
      BY Zenon DEF Version
    <3> QED BY <2>1, <3>1, Zenon DEF Fresh
  <2>5. \A q, w : Seen(q, w) <=> Recorded(q, w)
    BY <1>4, <2>1, Zenon
  <2> HIDE DEF c, v
  <2>6. \A n \in Forks' : n.pv # 0 => ~ Seen(n.child, n.pv)
    BY <2>3, <2>4, <2>5 DEF Fresh
  <2>7. \A n, k \in Forks' : n.pv # 0 /\ n.pv = k.pv /\ n.child = k.child => n = k
    BY <2>3, <2>4, Zenon DEF Fresh
  <2>8. ASSUME NEW q \in Pids, call'[q].st = "created", proc'[call'[q].child].st = "live"
        PROVE  /\ ~ Seen(call'[q].child, Now(call'[q].child))
               /\ \A n \in Forks' : n.child = call'[q].child => n.pv # Now(call'[q].child)
    <3>1. q # p /\ call'[q].child = Child(q) /\ call[q].st = "created" /\ Live(Child(q))
      BY <2>1, <2>8, Zenon DEF Child, Live
    <3>2. Child(q) # c /\ Now(Child(q)) = Version(Child(q))
      BY <1>1, <1>5, <2>1, <2>2, <3>1, Zenon
    <3> QED BY <2>3, <2>5, <3>1, <3>2, Zenon DEF Fresh
  <2> QED BY <2>6, <2>7, <2>8, Zenon
<1> DEFINE Adds(k, w) ==
        /\ proc' = proc /\ \A q \in Pids : call'[q].st = "created" => call'[q] = call[q]
        /\ Forks' \subseteq Forks
        /\ \A p, v : Seen(p, v) => Recorded(p, v) \/ (p = k /\ v = w)
        /\ w # 0 => \A n \in Forks' : ~ (n.child = k /\ n.pv = w)
        /\ \A p \in Pids : call[p].st = "created" /\ Live(Child(p))
                           => ~ (Child(p) = k /\ Version(Child(p)) = w)
<1>9. ASSUME NEW k, NEW w, Adds(k, w) PROVE Good
  <2>1. \A n \in Forks' : n.pv # 0 => ~ Seen(n.child, n.pv)
    BY <1>9, Zenon DEF Fresh
  <2>2. \A m, n \in Forks' : m.pv # 0 /\ m.pv = n.pv /\ m.child = n.child => m = n
    BY <1>9, Zenon DEF Fresh
  <2>3. ASSUME NEW q \in Pids, call'[q].st = "created", proc'[call'[q].child].st = "live"
        PROVE  /\ ~ Seen(call'[q].child, Now(call'[q].child))
               /\ \A n \in Forks' : n.child = call'[q].child => n.pv # Now(call'[q].child)
    <3>1. call'[q].child = Child(q) /\ call[q].st = "created" /\ Live(Child(q))
      BY <1>9, <2>3, Zenon DEF Child, Live
    <3>2. Now(Child(q)) = Version(Child(q))
      BY <1>1, <1>5, <1>9, <3>1, Zenon
    <3> QED BY <1>9, <3>1, <3>2, SMTT(30) DEF Fresh
  <2> QED BY <2>1, <2>2, <2>3, Zenon
<1> HIDE DEF Good, Now, Adds
<1>10. ASSUME NEW m \in Frames, ReportEffect(m) PROVE Good
  <2> DEFINE tok == ForkToken(m.child, m.pv)
  <2>1. tok.pid = m.child /\ tok.pv = m.pv
    BY Zenon DEF ForkToken
  <2> HIDE DEF tok
  <2>2. /\ m \in Forks /\ Forks' = Forks \ {m} /\ proc' = proc
        /\ \A q \in Pids : call'[q].st = "created" => call'[q] = call[q]
        /\ DOMAIN nodes' \subseteq DOMAIN nodes \cup {tok}
    BY <1>10, Zenon DEF ReportEffect, NodeSet, Answered, tok
  <2>3. \A p, v : Seen(p, v) => Recorded(p, v) \/ (p = m.child /\ v = m.pv)
    BY <2>1, <2>2, Zenon DEF Seen, Recorded
  <2>4. m.pv # 0 => \A n \in Forks' : ~ (n.child = m.child /\ n.pv = m.pv)
    BY <2>2, Zenon DEF Fresh
  <2>5. \A p \in Pids : call[p].st = "created" /\ Live(Child(p))
                        => ~ (Child(p) = m.child /\ Version(Child(p)) = m.pv)
    BY <2>2, Zenon DEF Fresh
  <2>6. Adds(m.child, m.pv)
    BY <2>2, <2>3, <2>4, <2>5, Zenon DEF Adds
  <2> QED BY <1>9, <2>6, Zenon
<1>11. ASSUME NEW r \in Runs, InsertEffect(r) PROVE Good
  <2> DEFINE tok == claim[r]
  <2>1. /\ proc' = proc /\ call' = call /\ wire' = wire /\ cli[r] = "claimed"
        /\ DOMAIN nodes' \subseteq DOMAIN nodes \cup {tok}
    BY <1>11, Zenon DEF InsertEffect, Phase, NodeSet
  <2>2. /\ tok \in Tokens
        /\ \/ tok.src = "bsdinfo"
           \/ /\ tok.pv \in 1 .. MaxPv
              /\ \A q \in Pids : Child(q) = tok.pid => proc[tok.pid].pv # tok.pv
              /\ \A n \in Forks : n.child = tok.pid => n.pv # tok.pv
    BY <2>1, Zenon DEF Roots, NotForked, Claimed
  <2>3. Forks' = Forks
    BY <2>1, Zenon DEF Forks
  <2> HIDE DEF tok
  <2>4. CASE tok.src = "bsdinfo"
    <3>1. \A p, v : Seen(p, v) => Recorded(p, v) \/ (p = "none" /\ v = 0)
      BY <2>1, <2>4, Zenon DEF Seen, Recorded
    <3>2. \A p \in Pids : call[p].st = "created" /\ Live(Child(p))
                          => ~ (Child(p) = "none" /\ Version(Child(p)) = 0)
      BY <1>0, <1>1, Zenon
    <3>3. Adds("none", 0)
      BY <2>1, <2>3, <3>1, <3>2, Zenon DEF Adds
    <3> QED BY <1>9, <3>3, Zenon
  <2>5. CASE /\ tok.pv \in 1 .. MaxPv
             /\ \A q \in Pids : Child(q) = tok.pid => proc[tok.pid].pv # tok.pv
             /\ \A n \in Forks : n.child = tok.pid => n.pv # tok.pv
    <3>1. \A p, v : Seen(p, v) => Recorded(p, v) \/ (p = tok.pid /\ v = tok.pv)
      BY <2>1, Zenon DEF Seen, Recorded
    <3>2. ASSUME NEW p \in Pids, call[p].st = "created", Live(Child(p)), Child(p) = tok.pid,
                 Version(Child(p)) = tok.pv
          PROVE  FALSE
      <4>1. Version(Child(p)) = proc[Child(p)].pv \/ Version(Child(p)) > MaxPv
        BY <1>1, <1>2, <3>2, Zenon
      <4> QED BY <1>0, <2>5, <3>2, <4>1, SMTT(30)
    <3>3. Adds(tok.pid, tok.pv)
      BY <2>1, <2>3, <2>5, <3>1, <3>2, Zenon DEF Adds
    <3> QED BY <1>9, <3>3, Zenon
  <2> QED BY <2>2, <2>4, <2>5, Zenon
<1> QED BY <1>7, <1>8, <1>10, <1>11, Staying, Zenon

-----------------------------------------------------------------------------
(* Refusals, admissions and images                                          *)

\* Only a failed call refuses a child, and only a timer kills for a gap.
LEMMA Recording ==
    ASSUME Effect
    PROVE  /\ refused' = refused \/ \E p \in Pids : FailEffect(p)
           /\ killed' = killed \/ \E t \in timers : KillEffect(t)
<1>1. ASSUME NEW p \in Pids, \/ ExitEffect(p) \/ ImageEffect(p) \/ SendEffect(p)
                             \/ TimeoutEffect(p) \/ ReturnEffect(p)
      PROVE  refused' = refused /\ killed' = killed
  BY <1>1, Zenon DEF ExitEffect, ImageEffect, SendEffect, TimeoutEffect, ReturnEffect, SameRest
<1>2. ASSUME NEW c \in Pids, BirthEffect(c) PROVE refused' = refused /\ killed' = killed
  BY <1>2, Zenon DEF BirthEffect
<1>3. ASSUME NEW p \in Pids, FailEffect(p) PROVE killed' = killed
  BY <1>3, Zenon DEF FailEffect
<1>4. ASSUME NEW r \in Runs, ClaimEffect(r) \/ InsertEffect(r) \/ BindEffect(r)
      PROVE  refused' = refused /\ killed' = killed
  BY <1>4, Zenon DEF ClaimEffect, InsertEffect, BindEffect
<1>5. ASSUME NEW m \in Frames, ReportEffect(m) PROVE refused' = refused /\ killed' = killed
  BY <1>5, Zenon DEF ReportEffect
<1>6. ASSUME NEW a \in arming, ArmEffect(a) PROVE refused' = refused /\ killed' = killed
  BY <1>6, Zenon DEF ArmEffect
<1>7. CASE GapEffect
  BY <1>7, Zenon DEF GapEffect
<1>8. ASSUME NEW t \in timers, KillEffect(t) PROVE refused' = refused
  BY <1>8, Zenon DEF KillEffect
<1> QED BY <1>1, <1>2, <1>3, <1>4, <1>5, <1>6, <1>7, <1>8, Zenon DEF Effect

\* An incarnation that a call refused does not live and does not come back.
LEMMA GoneStep == ASSUME TypeOK, TypeOK', Calls, Gone, Effect PROVE Gone'
<1>0. \A p \in Pids : /\ proc[p].pv \in 0 .. MaxPv /\ proc'[p].pv \in 0 .. MaxPv
                      /\ proc[p].pv <= proc'[p].pv
  BY Grows, Zenon
<1>1. \A p \in Pids : \/ proc'[p].pv = proc[p].pv + 1
                      \/ /\ proc'[p].pv = proc[p].pv
                         /\ proc'[p].st = "live" => proc[p].st = "live"
  <2>1. CASE Carry
    BY <2>1, Zenon DEF Carry
  <2>2. ASSUME NEW c \in Pids, BirthEffect(c)
        PROVE  \A p \in Pids : proc'[p].pv = proc[p].pv + 1 \/ proc'[p] = proc[p]
    BY <2>2, Zenon DEF BirthEffect, Births, OthersSame
  <2> QED BY <2>1, <2>2, Carries, Zenon
<1>2. ASSUME NEW p \in Pids, NEW v \in 0 .. MaxPv, <<p, v>> \in refused
      PROVE  v <= proc'[p].pv /\ (v = proc'[p].pv => proc'[p].st # "live")
  <2>1. v <= proc[p].pv /\ (v = proc[p].pv => proc[p].st # "live")
    BY <1>2, Zenon DEF Gone, Live
  <2> QED BY <1>0, <1>1, <2>1
<1>3. CASE refused' = refused
  BY <1>2, <1>3, Zenon DEF Gone, Live
<1>4. ASSUME NEW p \in Pids, FailEffect(p) PROVE Gone'
  <2> DEFINE c == Child(p)
  <2>1. c \in Pids /\ (Live(c) => call[p].pv = Version(c) /\ Version(c) # 0)
    <3>1. InCall(p) /\ call[p].st # "created"
      BY <1>4, Zenon DEF FailEffect, InCall
    <3>2. c \in Pids /\ (Live(c) => call[p].pv = Version(c) /\ proc[c].pv >= 1)
      BY <3>1, Zenon DEF Calls, CallKept
    <3> QED BY <1>0, <3>2, Numbers DEF Version
  <2>2. Version(c) = ChildPidversion(c)
    BY <2>1, VersionIs, Zenon
  <2>3. proc'[c].pv = proc[c].pv /\ proc'[c].st # "live"
    <3>1. CASE KillsChild(p)
      BY <1>4, <2>1, <3>1, Zenon DEF FailEffect, DeathEffect, Dies
    <3>2. CASE ~ KillsChild(p)
      <4>1. ~ Live(c)
        BY <2>1, <2>2, <3>2, Zenon DEF KillsChild, Child
      <4>2. proc'[c] = proc[c]
        BY <1>4, <2>1, <3>2, Zenon DEF FailEffect, DeathEffect, Dies
      <4> QED BY <4>1, <4>2, Zenon DEF Live
    <3> QED BY <3>1, <3>2, Zenon
  <2>4. refused' = refused \cup {<<c, proc[c].pv>>}
    BY <1>4, Zenon DEF FailEffect
  <2> HIDE DEF c
  <2>5. ASSUME NEW q \in Pids, NEW v \in 0 .. MaxPv, <<q, v>> \in refused'
        PROVE  v <= proc'[q].pv /\ (v = proc'[q].pv => proc'[q].st # "live")
    <3>1. CASE <<q, v>> \in refused
      BY <1>2, <3>1, Zenon
    <3>2. CASE q = c /\ v = proc[c].pv
      BY <1>0, <2>1, <2>3, <3>2, Zenon
    <3> QED BY <2>4, <2>5, <3>1, <3>2, Zenon
  <2> QED BY <2>5, Zenon DEF Gone, Live
<1> QED BY <1>3, <1>4, Recording, Zenon

\* The kill of a timer is for the incarnation it finds.
LEMMA KillStep ==
    ASSUME TypeOK, Calls, KillHitsArmedProcess, Effect PROVE KillHitsArmedProcess'
<1>1. CASE killed' = killed
  BY <1>1, Zenon DEF KillHitsArmedProcess
<1>2. ASSUME NEW t \in timers, KillEffect(t) PROVE KillHitsArmedProcess'
  <2> DEFINE p == t.tok.pid
  <2>1. p \in Pids
    BY Zenon DEF TypeOK, Tokens
  <2>2. CASE killed' = killed
    BY <2>2, Zenon DEF KillHitsArmedProcess
  <2>3. CASE /\ Live(p) /\ PidversionStillMatches(t)
             /\ killed' = killed \cup {[tok |-> t.tok, pv |-> proc[p].pv]}
    <3>1. proc[p].pv # 0
      BY <2>1, <2>3, VersionIs DEF Calls
    <3>2. t.tok.pv # 0 /\ p \notin NoTaskPort => proc[p].pv = t.tok.pv
      BY <2>3, <3>1, Zenon DEF PidversionStillMatches, KernelPidversion
    <3> QED BY <2>3, <3>2 DEF KillHitsArmedProcess
  <2> QED BY <1>2, <2>2, <2>3, Zenon DEF KillEffect
<1> QED BY <1>1, <1>2, Recording, Zenon


\* A process that is admitted after a step was so before, or a call has just
\* returned it.
Admits(p) ==
    proc'[p].st = "live" /\ proc'[p].adm = "ok" =>
        /\ Live(p) /\ proc'[p].pv = proc[p].pv
        /\ \/ proc[p].adm = "ok"
           \/ \E q \in Pids : call[q].st = "ok" /\ Child(q) = p

\* A call that is accepted after a step was so before, or a handler has just
\* acknowledged its report.
Accepts(p) ==
    call'[p].st = "ok" =>
        \/ call'[p] = call[p]
        \/ /\ InCall(p) /\ call[p].st # "created" /\ call'[p].child = Child(p)
           /\ \E a \in arming : Child(p) = a[1].pid /\ call[p].pv = a[1].pv

\* The image that runs after a step ran before, or the hook has just let it run.
Images(p) ==
    proc'[p].st = "live" /\ proc'[p].via = "hook" =>
        \/ Decision[proc'[p].file] = "Allow"
        \/ \E q \in Pids : Live(q) /\ proc'[p].via = proc[q].via /\ proc'[p].file = proc[q].file

\* How processes are admitted and images get to run.
LEMMA Admitting ==
    ASSUME TypeOK, Calls, Effect PROVE \A p \in Pids : Admits(p) /\ Accepts(p) /\ Images(p)
<1> DEFINE Good == \A p \in Pids : Admits(p) /\ Accepts(p) /\ Images(p)
<1>0. IdleCall.st = "idle"
  BY CallsAre, Zenon
<1>1. ASSUME NEW q \in Pids, proc'[q] = proc[q] \/ proc'[q].st = "dead" PROVE Admits(q) /\ Images(q)
  BY <1>1, Zenon DEF Admits, Images, Live
<1>2. ASSUME NEW q \in Pids, call'[q] = call[q] \/ call'[q].st # "ok" PROVE Accepts(q)
  BY <1>2, Zenon DEF Accepts
<1>3. ASSUME NEW D, NEW I, DeathEffect(D, I) PROVE Good
  <2> SUFFICES ASSUME NEW q \in Pids PROVE Admits(q) /\ Accepts(q) /\ Images(q)
    OBVIOUS
  <2>1. proc'[q] = proc[q] \/ proc'[q].st = "dead"
    BY <1>3, Zenon DEF DeathEffect, Dies
  <2>2. call'[q] = call[q] \/ call'[q].st # "ok"
    BY <1>0, <1>3, Zenon DEF DeathEffect
  <2> QED BY <1>1, <1>2, <2>1, <2>2, Zenon
<1>4. ASSUME NEW c \in Pids, BirthEffect(c) PROVE Good
  <2> SUFFICES ASSUME NEW q \in Pids PROVE Admits(q) /\ Accepts(q) /\ Images(q)
    OBVIOUS
  <2>1. Accepts(q)
    <3>1. call'[q] = call[q] \/ call'[q].st # "ok"
      BY <1>4, Zenon DEF BirthEffect, OthersSame
    <3> QED BY <1>2, <3>1, Zenon
  <2>2. CASE q = c
    <3>1. proc'[q].adm = "none"
      BY <1>4, <2>2, Zenon DEF BirthEffect, Births
    <3>2. Images(q)
      BY <1>4, <2>2, Zenon DEF BirthEffect, Images
    <3> QED BY <2>1, <3>1, <3>2, Zenon DEF Admits
  <2>3. CASE q # c
    <3>1. proc'[q] = proc[q]
      BY <1>4, <2>3, Zenon DEF BirthEffect, Births, OthersSame
    <3> QED BY <1>1, <2>1, <3>1, Zenon
  <2> QED BY <2>2, <2>3, Zenon
<1>5. ASSUME NEW p \in Pids, ImageEffect(p) PROVE Good
  <2> SUFFICES ASSUME NEW q \in Pids PROVE Admits(q) /\ Accepts(q) /\ Images(q)
    OBVIOUS
  <2>1. Accepts(q)
    <3>1. call'[q] = call[q]
      BY <1>5, Zenon DEF ImageEffect
    <3> QED BY <1>2, <3>1, Zenon
  <2>2. CASE q = p
    BY <1>5, <2>1, <2>2, Zenon DEF ImageEffect, Admits, Images
  <2>3. CASE q # p
    <3>1. proc'[q] = proc[q]
      BY <1>5, <2>3, Zenon DEF ImageEffect, OthersSame
    <3> QED BY <1>1, <2>1, <3>1
  <2> QED BY <2>2, <2>3
<1>6. ASSUME NEW p \in Pids, SendEffect(p) \/ TimeoutEffect(p) PROVE Good
  <2> SUFFICES ASSUME NEW q \in Pids PROVE Admits(q) /\ Accepts(q) /\ Images(q)
    OBVIOUS
  <2>1. proc'[q] = proc[q] /\ (call'[q] = call[q] \/ call'[q].st # "ok")
    BY <1>6, Zenon DEF SendEffect, TimeoutEffect, OthersSame
  <2> QED BY <1>1, <1>2, <2>1, Zenon
<1>7. ASSUME NEW p \in Pids, ReturnEffect(p) PROVE Good
  <2> SUFFICES ASSUME NEW q \in Pids PROVE Admits(q) /\ Accepts(q) /\ Images(q)
    OBVIOUS
  <2>1. Accepts(q)
    <3>1. call'[q] = call[q] \/ call'[q].st # "ok"
      BY <1>0, <1>7, Zenon DEF ReturnEffect, OthersSame
    <3> QED BY <1>2, <3>1
  <2>2. CASE q = Child(p)
    <3>1. /\ proc'[q].st = proc[q].st /\ proc'[q].pv = proc[q].pv /\ proc'[q].file = proc[q].file
          /\ proc'[q].via = proc[q].via /\ proc'[q].adm = IF Live(q) THEN call[p].st ELSE proc[q].adm
      BY <1>7, <2>2, Zenon DEF ReturnEffect
    <3>2. Admits(q)
      BY <2>2, <3>1, Zenon DEF Admits, Live
    <3>3. Images(q)
      BY <3>1, Zenon DEF Images, Live
    <3> QED BY <2>1, <3>2, <3>3, Zenon
  <2>3. CASE q # Child(p)
    <3>1. proc'[q] = proc[q]
      BY <1>7, <2>3, Zenon DEF ReturnEffect, OthersSame
    <3> QED BY <1>1, <2>1, <3>1
  <2> QED BY <2>2, <2>3, Zenon
<1>8. ASSUME NEW m \in Frames, ReportEffect(m) PROVE Good
  <2> SUFFICES ASSUME NEW q \in Pids PROVE Admits(q) /\ Accepts(q) /\ Images(q)
    OBVIOUS
  <2>1. proc'[q] = proc[q] /\ (call'[q] = call[q] \/ call'[q].st # "ok")
    BY <1>8, Zenon DEF ReportEffect, Answered
  <2> QED BY <1>1, <1>2, <2>1, Zenon
<1>9. ASSUME NEW a \in arming, ArmEffect(a) PROVE Good
  <2> SUFFICES ASSUME NEW q \in Pids PROVE Admits(q) /\ Accepts(q) /\ Images(q)
    OBVIOUS
  <2>1. proc'[q] = proc[q]
    BY <1>9, Zenon DEF ArmEffect
  <2>2. \/ call'[q] = call[q]
        \/ /\ InCall(q) /\ call[q].st # "created" /\ call'[q].child = Child(q)
           /\ Child(q) = a[1].pid /\ call[q].pv = a[1].pv
    BY <1>9, Zenon DEF ArmEffect, Answered, InCall, Child
  <2>3. Accepts(q)
    BY <2>2, Zenon DEF Accepts
  <2> QED BY <1>1, <2>1, <2>3, Zenon
<1>10. ASSUME proc' = proc, call' = call PROVE Good
  BY <1>1, <1>2, <1>10, Zenon
<1>11. ASSUME NEW r \in Runs, ClaimEffect(r) \/ InsertEffect(r) \/ BindEffect(r) PROVE Good
  BY <1>10, <1>11, Zenon DEF ClaimEffect, InsertEffect, BindEffect
<1>12. ASSUME GapEffect PROVE Good
  BY <1>10, <1>12, Zenon DEF GapEffect
<1> HIDE DEF Good
<1>13. ASSUME NEW p \in Pids, ExitEffect(p) \/ FailEffect(p) PROVE Good
  BY <1>3, <1>13, Zenon DEF ExitEffect, FailEffect
<1>14. ASSUME NEW t \in timers, KillEffect(t) PROVE Good
  BY <1>3, <1>14, Zenon DEF KillEffect
<1>15. Good
  BY <1>4, <1>5, <1>6, <1>7, <1>8, <1>9, <1>11, <1>12, <1>13, <1>14, Zenon DEF Effect
<1> QED BY <1>15, Zenon DEF Good


\* No node is ever removed.
LEMMA Keeps == ASSUME Effect PROVE DOMAIN nodes \subseteq DOMAIN nodes'
<1>1. CASE nodes' = nodes
  BY <1>1, Zenon
<1>2. CASE GapEffect
  BY <1>2, Zenon DEF GapEffect
<1>3. ASSUME NEW m \in Frames, ReportEffect(m) PROVE DOMAIN nodes \subseteq DOMAIN nodes'
  BY <1>3, Zenon DEF ReportEffect, NodeSet
<1>4. ASSUME NEW r \in Runs, InsertEffect(r) \/ BindEffect(r)
      PROVE  DOMAIN nodes \subseteq DOMAIN nodes'
  BY <1>4, Zenon DEF InsertEffect, BindEffect, NodeSet
<1> QED BY <1>1, <1>2, <1>3, <1>4, Growing, Zenon

\* What a call returned as accepted is in the tree.
LEMMA AdmittedStep ==
    ASSUME TypeOK, Calls, Known, Admitted, Effect PROVE Admitted'
<1> DEFINE Now(p) == \E t \in DOMAIN nodes' :
                        t.pid = p /\ t.pv \in {proc'[p].pv, StartTime(proc'[p].pv)}
<1>0. ASSUME NEW p, InTree(p), proc'[p].pv = proc[p].pv PROVE Now(p)
  BY <1>0, Keeps, Zenon DEF InTree, Latest
<1>1. ASSUME NEW p \in Pids, InCall(p)
      PROVE  LET c == Child(p)
             IN  c \in Pids /\ proc'[c].pv = proc[c].pv /\ (proc'[c].st = "live" => Live(c))
  <2>1. Child(p) \in Pids
    BY <1>1, Zenon DEF Calls, CallKept
  <2>2. CASE Carry
    BY <2>1, <2>2, Zenon DEF Carry, Live
  <2>3. ASSUME NEW b \in Pids, BirthEffect(b) PROVE proc'[Child(p)] = proc[Child(p)]
    <3>1. Child(p) # b
      BY <1>1, <2>3, Zenon DEF BirthEffect, Births, Reusable, Calls, CallKept, Child
    <3> QED BY <2>1, <2>3, <3>1, Zenon DEF BirthEffect, Births, OthersSame
  <2> QED BY <2>1, <2>2, <2>3, Carries, Zenon DEF Live
<1> HIDE DEF Now
<1>2. ASSUME NEW p \in Pids, call'[p].st = "ok", proc'[call'[p].child].st = "live"
      PROVE  Now(call'[p].child)
  <2>1. Accepts(p)
    BY Admitting, Zenon
  <2>2. CASE call'[p] = call[p]
    <3>1. InCall(p) /\ call'[p].child = Child(p) /\ call[p].st = "ok"
      BY <1>2, <2>2, Zenon DEF InCall, Child
    <3>2. InTree(Child(p)) /\ proc'[Child(p)].pv = proc[Child(p)].pv
      BY <1>1, <1>2, <3>1, Zenon DEF Admitted
    <3> QED BY <1>0, <3>1, <3>2, Zenon
  <2>3. CASE /\ InCall(p) /\ call[p].st # "created" /\ call'[p].child = Child(p)
             /\ \E a \in arming : Child(p) = a[1].pid /\ call[p].pv = a[1].pv
    <3>1. PICK a \in arming : Child(p) = a[1].pid /\ call[p].pv = a[1].pv
      BY <2>3, Zenon
    <3>2. Live(Child(p)) /\ Child(p) \in Pids /\ proc'[Child(p)].pv = proc[Child(p)].pv
      BY <1>1, <1>2, <2>3, Zenon
    <3>3. call[p].pv = Version(Child(p))
      BY <2>3, <3>2, Zenon DEF Calls, CallKept
    <3>4. Latest(Child(p), a[1].pv)
      BY <3>1, <3>2, <3>3, VersionPast, Zenon
    <3>5. InTree(Child(p))
      BY <3>1, <3>4, Zenon DEF Known, InTree
    <3> QED BY <1>0, <2>3, <3>2, <3>5, Zenon
  <2> QED BY <1>2, <2>1, <2>2, <2>3, Zenon DEF Accepts
<1>3. ASSUME NEW p \in Pids, proc'[p].st = "live", proc'[p].adm = "ok" PROVE Now(p)
  <2>1. /\ Live(p) /\ proc'[p].pv = proc[p].pv
        /\ \/ proc[p].adm = "ok"
           \/ \E q \in Pids : call[q].st = "ok" /\ Child(q) = p
    BY <1>3, Admitting, Zenon DEF Admits
  <2>2. InTree(p)
    BY <2>1, Zenon DEF Admitted
  <2> QED BY <1>0, <2>1, <2>2, Zenon
<1> QED BY <1>2, <1>3, Zenon DEF Admitted, InTree, Latest, Child, Live, Now

\* An image that runs under the hook was let to run.
LEMMA AllowedStep == ASSUME TypeOK, Calls, Allowed, Effect PROVE Allowed'
<1> SUFFICES ASSUME NEW p \in Pids, proc'[p].st = "live", proc'[p].via = "hook"
             PROVE  Decision[proc'[p].file] = "Allow"
  BY Zenon DEF Allowed, Live, Decision
<1>1. \/ Decision[proc'[p].file] = "Allow"
      \/ \E q \in Pids : Live(q) /\ proc'[p].via = proc[q].via /\ proc'[p].file = proc[q].file
  BY Admitting, Zenon DEF Images
<1> QED BY <1>1, Zenon DEF Allowed

\* A gap that a node of a known incarnation has is not taken off.
GapKept ==
    \A t \in DOMAIN nodes :
        t.pv # 0 /\ nodes[t].gap # "none" => t \in DOMAIN nodes' /\ nodes'[t].gap # "none"

\* No step takes off a gap.
LEMMA GapStep == ASSUME Fresh, Effect PROVE GapKept
<1>1. CASE nodes' = nodes
  BY <1>1, Zenon DEF GapKept
<1>2. CASE GapEffect
  BY <1>2, Zenon DEF GapEffect, GapKept
<1>3. ASSUME NEW m \in Frames, ReportEffect(m) PROVE GapKept
  <2> DEFINE tok == ForkToken(m.child, m.pv)
  <2>1. tok.pid = m.child /\ tok.pv = m.pv /\ tok.src # "bsdinfo"
    BY Zenon DEF ForkToken
  <2>2. m \in Forks /\ (nodes' = nodes \/ NodeSet(tok))
    BY <1>3, Zenon DEF ReportEffect
  <2> HIDE DEF tok
  <2>3. tok \in DOMAIN nodes => tok.pv = 0
    BY <2>1, <2>2, Zenon DEF Fresh, Recorded
  <2> QED BY <2>2, <2>3, Zenon DEF NodeSet, GapKept
<1>4. ASSUME NEW r \in Runs, InsertEffect(r) PROVE GapKept
  BY <1>4, Zenon DEF InsertEffect, NodeSet, GapKept
<1>5. ASSUME NEW r \in Runs, BindEffect(r) PROVE GapKept
  BY <1>5, Zenon DEF BindEffect, NodeSet, GapKept
<1> QED BY <1>1, <1>2, <1>3, <1>4, <1>5, Growing, Zenon

-----------------------------------------------------------------------------
(* The chunked search                                                       *)

Less == {ss \in Nat \X Nat : ss[1] < ss[2]}

\* The order of the numbers is well founded.
LEMMA LessWF == IsWellFoundedOn(Less, Nat)
BY NatLessThanWellFounded, Zenon DEF OpToRel, Less

\* A set of numbers that is not empty has a least one, such as the first range
\* that is not clean.
LEMMA LeastOf == ASSUME NEW S \in SUBSET Nat, S # {} PROVE \E x \in S : \A y \in S : x <= y
<1>1. PICK x \in S : \A y \in S : ~ (<<y, x>> \in Less)
  BY LessWF, WFMin, Zenon
<1>2. \A y \in S : ~ (y < x)
  BY <1>1, Zenon DEF Less
<1> QED BY <1>2

\* Every byte is in some chunk.
LEMMA ChunkOf ==
    ASSUME NEW n \in Nat
    PROVE  \E k \in Nat : k <= n /\ k * ScanChunk <= n /\ n < (k + 1) * ScanChunk
<1> DEFINE Above == {j \in Nat : n < (j + 1) * ScanChunk}
<1>0. ScanChunk \in Nat /\ ScanChunk >= 1
  BY ScanAssumption
<1>1. ASSUME NEW j \in Nat PROVE j <= j * ScanChunk /\ j * ScanChunk \in Nat
  BY <1>0, <1>1
<1>2. n \in Above
  <2>1. n + 1 <= (n + 1) * ScanChunk
    BY <1>1
  <2> QED BY <1>0, <2>1
<1>3. PICK k \in Above : \A j \in Above : k <= j
  BY <1>2, LeastOf, Zenon
<1>4. CASE k = 0
  BY <1>0, <1>3, <1>4, SMTT(30)
<1>5. CASE k # 0
  <2>1. k - 1 \in Nat /\ k - 1 \notin Above
    BY <1>3, <1>5
  <2>2. k * ScanChunk <= n
    BY <1>0, <1>1, <1>3, <2>1, SMTT(30)
  <2> QED BY <1>1, <1>3, <2>2, SMTT(30)
<1> QED BY <1>4, <1>5, Zenon

\* A part of the bytes of a file.
LEMMA PartIs ==
    ASSUME NEW bytes \in Seq(STRING), NEW a \in Nat, NEW b \in Nat, a <= b, b <= Len(bytes)
    PROVE  /\ SubSeq(bytes, a + 1, b) \in Seq(STRING) /\ Len(SubSeq(bytes, a + 1, b)) = b - a
           /\ \A j \in 1 .. b - a : SubSeq(bytes, a + 1, b)[j] = bytes[a + j]
OBVIOUS

\* contains_syscall_pattern finds four bytes in a row.
LEMMA PatternIs ==
    ASSUME NEW bytes \in Seq(STRING)
    PROVE  ContainsSyscallPattern(bytes) <=>
              \E i \in Nat : /\ i + 4 <= Len(bytes)
                             /\ bytes[i + 1] = "P1" /\ bytes[i + 2] = "P2"
                             /\ bytes[i + 3] = "P3" /\ bytes[i + 4] = "P4"
<1>1. Len(SyscallPattern) = 4 /\ SyscallPattern = <<"P1", "P2", "P3", "P4">>
  BY Zenon DEF SyscallPattern
<1>2. ASSUME NEW i \in Nat, i + 4 <= Len(bytes)
      PROVE  SubSeq(bytes, i + 1, i + 4) = SyscallPattern <=>
                /\ bytes[i + 1] = "P1" /\ bytes[i + 2] = "P2"
                /\ bytes[i + 3] = "P3" /\ bytes[i + 4] = "P4"
  <2>1. /\ SubSeq(bytes, i + 1, i + 4) \in Seq(STRING) /\ Len(SubSeq(bytes, i + 1, i + 4)) = 4
        /\ \A j \in 1 .. 4 : SubSeq(bytes, i + 1, i + 4)[j] = bytes[i + j]
    BY <1>2, PartIs
  <2> DEFINE S == SubSeq(bytes, i + 1, i + 4)
  <2>2. /\ S[1] = bytes[i + 1] /\ S[2] = bytes[i + 2] /\ S[3] = bytes[i + 3] /\ S[4] = bytes[i + 4]
        /\ S \in Seq(STRING) /\ Len(S) = 4
    BY <2>1
  <2> HIDE DEF S
  <2>3. S = <<"P1", "P2", "P3", "P4">> <=> S[1] = "P1" /\ S[2] = "P2" /\ S[3] = "P3" /\ S[4] = "P4"
    BY ONLY <2>2
  <2> QED BY <1>1, <2>2, <2>3, Zenon DEF S
<1> QED BY <1>1, <1>2 DEF ContainsSyscallPattern, Occurs

\* scan_file_range finds whatever a search of the whole range would find: a
\* pattern ends in some chunk, and begins there or in the carried-over bytes.
LEMMA ScanIsWhole ==
    ASSUME NEW bytes \in Seq(STRING), NEW off \in Nat, NEW size \in Nat, off + size <= Len(bytes),
           ContainsSyscallPattern(SubSeq(bytes, off + 1, off + size))
    PROVE  ScanFileRange(bytes, off, size)
<1> DEFINE W == SubSeq(bytes, off + 1, off + size)
<1>1. W \in Seq(STRING) /\ Len(W) = size /\ \A j \in 1 .. size : W[j] = bytes[off + j]
  BY PartIs, SMTT(30)
<1> HIDE DEF W
<1>2. PICK i \in Nat : /\ i + 4 <= Len(W)
                       /\ W[i + 1] = "P1" /\ W[i + 2] = "P2" /\ W[i + 3] = "P3" /\ W[i + 4] = "P4"
  BY <1>1, PatternIs, Zenon DEF W
<1>3. /\ i + 4 <= size
      /\ bytes[off + (i + 1)] = "P1" /\ bytes[off + (i + 2)] = "P2"
      /\ bytes[off + (i + 3)] = "P3" /\ bytes[off + (i + 4)] = "P4"
  BY <1>1, <1>2
<1>4. PICK k \in Nat : k <= i + 3 /\ k * ScanChunk <= i + 3 /\ i + 3 < (k + 1) * ScanChunk
  <2>1. i + 3 \in Nat
    OBVIOUS
  <2> QED BY <2>1, ChunkOf, Zenon
<1>5. k * ScanChunk \in Nat /\ (k + 1) * ScanChunk \in Nat
  BY ScanAssumption
<1>6. k \in Chunks(size)
  BY <1>3, <1>4, <1>5, SMTT(30) DEF Chunks
<1> DEFINE K == k * ScanChunk
           from == IF K < Tail3 THEN 0 ELSE K - Tail3
           end == ChunkEnd(k, size)
<1>7. end \in Nat /\ i + 4 <= end /\ end <= size
  BY <1>3, <1>4, <1>5, SMTT(30) DEF ChunkEnd
<1>8. from \in Nat /\ from <= i
  BY <1>4, <1>5, ScanAssumption, SMTT(30)
<1> HIDE DEF end, from
<1> DEFINE V == SubSeq(bytes, (off + from) + 1, off + end)
<1>9. /\ V \in Seq(STRING) /\ Len(V) = (off + end) - (off + from)
      /\ \A j \in 1 .. (off + end) - (off + from) : V[j] = bytes[(off + from) + j]
  <2>1. off + from \in Nat /\ off + end \in Nat /\ off + from <= off + end /\ off + end <= Len(bytes)
    BY <1>7, <1>8, SMTT(30)
  <2> QED BY <2>1, PartIs, Zenon
<1> HIDE DEF V
<1>10. /\ (i - from) \in Nat /\ (i - from) + 4 <= Len(V)
       /\ V[(i - from) + 1] = "P1" /\ V[(i - from) + 2] = "P2"
       /\ V[(i - from) + 3] = "P3" /\ V[(i - from) + 4] = "P4"
  BY <1>3, <1>7, <1>8, <1>9, SMTT(30)
<1>11. ContainsSyscallPattern(V)
  BY <1>9, <1>10, PatternIs, Zenon
<1>12. ContainsSyscallPattern(SubSeq(bytes,
           off + (IF k * ScanChunk < Tail3 THEN 0 ELSE k * ScanChunk - Tail3) + 1,
           off + ChunkEnd(k, size)))
  BY <1>11, Zenon DEF V, from, end
<1> QED BY <1>6, <1>12, Zenon DEF ScanFileRange

\* A range that scan_path finds clean has no system-call instruction.
LEMMA CleanRange ==
    ASSUME NEW f, NEW c, f.bytes \in Seq(STRING), c.off \in Nat, c.filesize \in Nat,
           RangeVerdict(f, c) = "Clean"
    PROVE  ~ ContainsSyscallPattern(SubSeq(f.bytes, c.off + 1, c.off + c.filesize))
<1>1. CASE c.off + c.filesize <= Len(f.bytes)
  BY <1>1, ScanIsWhole DEF RangeVerdict
<1>2. CASE ~ (c.off + c.filesize <= Len(f.bytes))
  <2>1. c.filesize = 0
    BY <1>2 DEF RangeVerdict
  <2>2. SubSeq(f.bytes, c.off + 1, c.off + c.filesize) = << >>
    BY <2>1
  <2>3. ~ ContainsSyscallPattern(<< >>)
    BY DEF ContainsSyscallPattern, Occurs, SyscallPattern
  <2> QED BY <2>2, <2>3, Zenon
<1> QED BY <1>1, <1>2, Zenon

\* A native image that check_exec_target allows keeps the hook and has no
\* system-call instruction in its text.
LEMMA CleanImage ==
    ASSUME NEW f, f.bytes \in Seq(STRING),
           f.cmds \in Seq([cmd : STRING, size : Nat, off : Nat, filesize : Nat]),
           CheckExecTarget(f) = "Allow", HeaderKind(f) = "Thin64"
    PROVE  /\ ~ WillShedDylib(f)
           /\ \A i \in TextRanges(f) :
                 ~ ContainsSyscallPattern(SubSeq(f.bytes, f.cmds[i].off + 1,
                                                 f.cmds[i].off + f.cmds[i].filesize))
<1>1. ClassifyPath(f) \notin {"T0Blocked", "T3SuspiciousUnknown"}
  BY Zenon DEF CheckExecTarget
<1>2. ~ WillShedDylib(f) /\ ScanPath(f) \notin {"failed", "Suspicious"}
  BY <1>1, Zenon DEF ClassifyPath
<1> DEFINE notClean == {i \in TextRanges(f) : RangeVerdict(f, f.cmds[i]) # "Clean"}
<1>3. notClean \in SUBSET Nat
  BY DEF TextRanges
<1>4. notClean = {}
  <2> SUFFICES ASSUME notClean # {} PROVE FALSE
    OBVIOUS
  <2> HIDE DEF notClean
  <2>1. Min(notClean) \in notClean
    BY <1>3, LeastOf, Zenon DEF Min
  <2>2. RangeVerdict(f, f.cmds[Min(notClean)]) \in {"failed", "Suspicious"}
    BY <2>1, Zenon DEF RangeVerdict, notClean
  <2> QED BY <1>2, <2>2, Zenon DEF ScanPath, notClean
<1>5. ASSUME NEW i \in TextRanges(f)
      PROVE  ~ ContainsSyscallPattern(SubSeq(f.bytes, f.cmds[i].off + 1,
                                             f.cmds[i].off + f.cmds[i].filesize))
  <2>1. f.cmds[i] \in [cmd : STRING, size : Nat, off : Nat, filesize : Nat]
    <3> DEFINE C == [cmd : STRING, size : Nat, off : Nat, filesize : Nat]
    <3>1. f.cmds \in Seq(C) /\ i \in DOMAIN f.cmds
      BY Zenon DEF TextRanges
    <3> HIDE DEF C
    <3>2. f.cmds[i] \in C
      BY <3>1
    <3> QED BY <3>2, Zenon DEF C
  <2>2. f.cmds[i].off \in Nat /\ f.cmds[i].filesize \in Nat
    BY <2>1, Zenon
  <2> QED BY <1>4, <2>2, CleanRange, Zenon
<1> QED BY <1>2, <1>5, Zenon

-----------------------------------------------------------------------------
(* The inductive invariant                                                  *)

\* It holds while no process has been started.
LEMMA InitInv == Init => IndInv
<1> SUFFICES ASSUME Init PROVE IndInv
  OBVIOUS
<1>0. /\ IdleCall \in CallRecs /\ IdleCall.st = "idle" /\ IdleCall.child = "none"
      /\ MaxPv \in Nat /\ MaxExecs \in Nat /\ "none" \notin Pids
  BY CallsAre, TreeAssumption, Zenon
<1>1. Dead(0) \in ProcRecs /\ Dead(0).st = "dead" /\ Dead(0).pv = 0
  <2>1. (CHOOSE f \in Files : TRUE) \in Files /\ 0 \in 0 .. MaxPv
    BY <1>0, TreeAssumption
  <2> QED BY <2>1, Zenon DEF Dead, ProcRecs
<1>2. NoToken \in Claims /\ "start" \in CliPhases
  BY DEF Claims, NoToken, CliPhases
<1>3. /\ user \in Users /\ proc = [p \in Pids |-> Dead(0)] /\ call = [p \in Pids |-> IdleCall]
      /\ execs = 0 /\ wire = {} /\ cli = [r \in Runs |-> "start"] /\ claim = [r \in Runs |-> NoToken]
      /\ runRoot = [r \in Runs |-> NoToken] /\ DOMAIN nodes = {}
      /\ arming = {} /\ timers = {} /\ killed = {} /\ refused = {}
  BY Zenon DEF Init
<1>4. /\ \A p \in Pids : ~ Live(p) /\ ~ InCall(p) /\ Child(p) = "none"
      /\ \A r \in Runs : cli[r] = "start" /\ runRoot[r] = NoToken
      /\ Forks = {}
  BY <1>0, <1>1, <1>3, Zenon DEF Live, InCall, Child, Forks
<1>5. TypeOK
  <2>1. 0 \in 0 .. MaxExecs
    BY <1>0
  <2>2. Typed
    BY <1>0, <1>1, <1>2, <1>3, <2>1, Zenon DEF Typed, NodesOK, TimersOK
  <2> QED BY <2>2, TypedIs, Zenon
<1>6. Calls /\ Known
  BY <1>3, <1>4, Zenon DEF Calls, CallKept, Known
<1>7. Roots /\ Forest
  BY <1>3, <1>4, Zenon DEF Roots, NotForked, OwnRoot, Claimed, Forest
<1>8. Fresh /\ Gone
  BY <1>3, <1>4, Zenon DEF Fresh, InCall, Gone
<1>9. Admitted /\ Allowed /\ KillHitsArmedProcess
  BY <1>3, <1>4, Zenon DEF Admitted, InCall, Allowed, KillHitsArmedProcess
<1> QED BY <1>5, <1>6, <1>7, <1>8, <1>9, Zenon DEF IndInv

\* Every step keeps it.
LEMMA NextInv == IndInv /\ [Next]_vars => IndInv'
<1>1. ASSUME IndInv, Next PROVE IndInv'
  <2>1. /\ TypeOK /\ Calls /\ Known /\ Roots /\ Forest /\ Fresh /\ Gone /\ Admitted /\ Allowed
        /\ KillHitsArmedProcess
    BY <1>1, Zenon DEF IndInv
  <2>2. Effect
    BY <1>1, <2>1, Effects, Zenon
  <2>3. TypeOK'
    BY <2>1, <2>2, TypeStep, Zenon
  <2>4. Calls' /\ Known' /\ Roots' /\ Forest'
    BY <2>1, <2>2, <2>3, CallsStep, KnownStep, RootsStep, ForestStep, Zenon
  <2>5. Fresh' /\ Gone' /\ Admitted' /\ Allowed' /\ KillHitsArmedProcess'
    BY <2>1, <2>2, <2>3, FreshStep, GoneStep, AdmittedStep, AllowedStep, KillStep, Zenon
  <2> QED BY <2>3, <2>4, <2>5, Zenon DEF IndInv
<1>2. ASSUME IndInv, UNCHANGED vars PROVE IndInv'
  <2>0. UNCHANGED <<user, proc, execs, call, wire, cli, claim, runRoot, nodes, arming, timers,
                    killed, refused>>
    BY <1>2, Zenon DEF vars
  <2>1. TypeOK'
    BY <1>2, <2>0, Zenon DEF IndInv, TypeOK
  <2>2. Calls' /\ Known'
    BY <1>2, <2>0, Zenon DEF IndInv, Calls, CallKept, Known, Live, InCall, Child, Version, Past,
                             Forks
  <2>3. Roots'
    BY <1>2, <2>0, ZenonT(60) DEF IndInv, Roots, NotForked, OwnRoot, Claimed, Child, Past, Latest, Forks
  <2>4. Forest'
    BY <1>2, <2>0, Zenon DEF IndInv, Forest
  <2>5. Fresh' /\ Gone'
    BY <1>2, <2>0, Zenon DEF IndInv, Fresh, Recorded, Version, Forks, Live, Child, Gone
  <2>6. Admitted' /\ Allowed' /\ KillHitsArmedProcess'
    BY <1>2, <2>0, Zenon DEF IndInv, Admitted, InTree, Latest, Allowed, KillHitsArmedProcess, Live,
                             Child, Decision
  <2> QED BY <2>1, <2>2, <2>3, <2>4, <2>5, <2>6, Zenon DEF IndInv
<1> QED BY <1>1, <1>2, Zenon

\* The inductive invariant holds in every state.
THEOREM Inductive == Spec => []IndInv
BY InitInv, NextInv, PTL DEF Spec

\* The tables of the kernel, the hook and the daemon keep their shape.
THEOREM TypeCorrect == Spec => []TypeOK
<1>1. IndInv => TypeOK
  BY Zenon DEF IndInv
<1> QED BY <1>1, Inductive, PTL

\* insert_root, record_fork and bind_run_root keep a forest of runs, whatever the
\* order of registrations, fork reports and pid reuse.
THEOREM TreesRooted == Spec => []TreeRooted
<1>1. IndInv => TreeRooted
  <2> SUFFICES ASSUME IndInv PROVE TreeRooted
    OBVIOUS
  <2>1. Forest
    BY Zenon DEF IndInv
  <2>2. \A r \in Runs : runRoot[r] # NoToken
           => runRoot[r] \in DOMAIN nodes /\ nodes[runRoot[r]].root = runRoot[r]
    BY <2>1, Zenon DEF Forest
  <2> QED BY <2>1, <2>2, Zenon DEF Forest, TreeRooted
<1> QED BY <1>1, Inductive, PTL

\* kill_gap_process hits the incarnation its timer was armed for.
THEOREM KillsHitArmedProcess == Spec => []KillHitsArmedProcess
<1>1. IndInv => KillHitsArmedProcess
  BY Zenon DEF IndInv
<1> QED BY <1>1, Inductive, PTL

\* A fork or posix_spawn that failed leaves no child behind.
THEOREM FailedForksLeaveNoChild == Spec => []FailedForkLeavesNoChild
<1>1. IndInv => FailedForkLeavesNoChild
  <2> SUFFICES ASSUME IndInv, NEW p \in Pids, Live(p) PROVE <<p, proc[p].pv>> \notin refused
    BY Zenon DEF FailedForkLeavesNoChild
  <2>1. TypeOK /\ Gone
    BY Zenon DEF IndInv
  <2>2. proc[p].pv \in 0 .. MaxPv
    BY <2>1, VersionIs, Zenon
  <2> QED BY <2>1, <2>2, Zenon DEF Gone
<1> QED BY <1>1, Inductive, PTL

\* An accepted child is in the daemon's tree as long as it lives.
THEOREM AdmittedAreTracked == Spec => []AdmittedIsTracked
<1>1. IndInv => AdmittedIsTracked
  BY Zenon DEF IndInv, Admitted, InTree, Latest, AdmittedIsTracked
<1> QED BY <1>1, Inductive, PTL

\* A native image that the hook let run has no system-call instruction in its
\* text, for files and chunks of any size, and does not shed the hook.
THEOREM AdmittedImagesClean == Spec => []AdmittedImageClean
<1>1. IndInv => AdmittedImageClean
  <2> SUFFICES ASSUME IndInv, NEW p \in Pids, Live(p), proc[p].via = "hook",
                      HeaderKind(Content[proc[p].file]) = "Thin64"
               PROVE  LET f == Content[proc[p].file]
                      IN  /\ ~Sheds[proc[p].file]
                          /\ \A i \in TextRanges(f) :
                               LET c == f.cmds[i]
                               IN  ~ContainsSyscallPattern(SubSeq(f.bytes, c.off + 1,
                                                                  c.off + c.filesize))
    BY Zenon DEF AdmittedImageClean
  <2> DEFINE g == proc[p].file
             f == Content[g]
  <2>1. TypeOK /\ Allowed
    BY Zenon DEF IndInv
  <2>2. g \in Files
    <3>1. proc[p] \in ProcRecs
      BY <2>1, Tables, Zenon
    <3> QED BY <3>1, Zenon DEF ProcRecs
  <2>3. CheckExecTarget(f) = "Allow" /\ HeaderKind(f) = "Thin64"
    BY <2>1, <2>2, Zenon DEF Allowed, Decision
  <2>4. f.bytes \in Seq(STRING) /\ f.cmds \in Seq([cmd : STRING, size : Nat, off : Nat, filesize : Nat])
    BY <2>2, TreeAssumption, Zenon
  <2>5. ~ Sheds[g] <=> ~ WillShedDylib(f)
    <3>1. Image(g) = g
      BY <2>3, Zenon DEF Image
    <3> QED BY <2>2, <3>1, Zenon DEF Sheds
  <2> HIDE DEF f
  <2>6. /\ ~ WillShedDylib(f)
        /\ \A i \in TextRanges(f) :
              ~ ContainsSyscallPattern(SubSeq(f.bytes, f.cmds[i].off + 1,
                                              f.cmds[i].off + f.cmds[i].filesize))
    BY <2>3, <2>4, CleanImage, Zenon
  <2> QED BY <2>5, <2>6, Zenon DEF f
<1> QED BY <1>1, Inductive, PTL

\* A coverage gap stays on the node of a known incarnation: neither a late
\* ForkEvent nor bind_run_root erases it.
THEOREM GapsNeverErased == Spec => GapNeverErased
<1>1. IndInv /\ [Next]_vars
      => [\A t \in DOMAIN nodes : t.pv # 0 /\ nodes[t].gap # "none"
                                  => t \in DOMAIN nodes' /\ nodes'[t].gap # "none"]_vars
  <2> SUFFICES ASSUME IndInv, Next PROVE GapKept
    BY Zenon DEF GapKept
  <2>1. TypeOK /\ Calls /\ Known /\ Roots /\ Forest /\ Fresh
    BY Zenon DEF IndInv
  <2>2. Effect
    BY <2>1, Effects, Zenon
  <2> QED BY <2>1, <2>2, GapStep, Zenon
<1> QED BY <1>1, Inductive, PTL DEF Spec, GapNeverErased
=============================================================================
