---------------------- MODULE SnapshotLifecycleProofs ----------------------
(***************************************************************************)
(* Proofs about SnapshotLifecycle, for every set of runs and every bound.  *)
(*                                                                         *)
(* The properties are not inductive by themselves.  What makes them hold   *)
(* is where a run can be when its files appear: nothing of a run exists    *)
(* before its CLI signs, the signed bytes never change afterwards, both    *)
(* files are in place before the CLI is answered, and the sweep only looks *)
(* at runs that are past that point.                                       *)
(***************************************************************************)
EXTENDS SnapshotLifecycle, TLAPS

Early  == {"new", "wait_inputs", "signing"}
Late   == {"idle", "manifest", "record"}
Active == {"snapshot", "manifest", "record"}

SweepStates == [phase : SweepPhases, todo : SUBSET Runs, run : Runs,
                why : {None, "orphan", "dead"}]

\* The inputs a worker or a CLI is about to use have been collected.
Collected ==
    \A r \in Runs :
        /\ worker[r] = "rules" \/ cli[r] = "signing" => input[r] \in Policies
        /\ worker[r] \in {"take", "snapshot", "manifest", "record"} => signed[r] \in Policies

\* Nothing of a run exists before its CLI has signed the snapshot.
NothingEarly ==
    \A r \in Runs :
        /\ cli[r] \in Early => worker[r] \in {"idle", "disabled", "rules"}
        /\ cli[r] \in Early \/ worker[r] \notin Late => cbor[r] = Absent
        /\ cli[r] \in Early => manifest[r] = Absent
        /\ cli[r] \in Early \cup {"wait_publish", "ok"} \/ worker[r] # "idle" => root[r] = None
        /\ root[r] = None => hook[r] = Absent /\ loader[r] = Absent

\* What is on disk, or has been read from it, is what the CLI signed.
OnlySigned ==
    \A r \in Runs :
        /\ cbor[r] \in {Absent, signed[r]}
        /\ manifest[r] \in {Absent, signed[r]}
        /\ loader[r] \in {Absent, signed[r]}
        /\ hook[r] \in {Absent, FailClosed, signed[r]}

\* A run that is about to be answered, or was, has its manifest while it has
\* its snapshot, unless a removal failed.
Found(r) == cbor[r] = Absent \/ manifest[r] # Absent \/ ioErrors > 0

BothInPlace ==
    /\ \A r \in Runs :
          worker[r] = "record" \/ cli[r] = "ok" \/ root[r] # None => Found(r)
    /\ \A r \in Runs : cli[r] = "ok" => worker[r] = "idle"

\* The sweep looks at runs whose snapshot has been written.
SweepLate ==
    /\ \A r \in Runs :
          r \in sweep.todo \/ (sweep.phase \in Active /\ sweep.run = r)
              => worker[r] \in Late /\ cli[r] \notin Early
    /\ sweep.phase = "manifest" => cbor[sweep.run] = Absent \/ ioErrors > 0

\* A root found dead stays dead, and a bound run has had a root.
DeadStaysDead ==
    /\ \A r \in Runs :
          /\ root[r] = "alive" => r \in held
          /\ records[r] = "bound" => root[r] # None
    /\ sweep.phase \in Active /\ sweep.why = "dead" => root[sweep.run] = "dead"

IndInv ==
    /\ TypeOK /\ Collected /\ NothingEarly /\ OnlySigned /\ FailsClosedOnlySwept
    /\ BothInPlace /\ SweepLate /\ DeadStaysDead

USE DEF vars, storeVars, clientVars, daemonVars, fileVars, procVars, hookVars

\* The placeholders are no snapshot of any run.
LEMMA Placeholders == Absent \notin Policies /\ FailClosed \notin Policies /\ Absent # FailClosed
BY RunsAssumption DEF Absent, Policies, FailClosed, None

\* The initial state satisfies the inductive invariant.
LEMMA IndInit == Init => IndInv
<1> SUFFICES ASSUME Init PROVE IndInv
  OBVIOUS
<1>1. TypeOK
  BY BoundsAssumption
  DEF Init, TypeOK, MaybePolicy, Versions, CliPhases, WorkerPhases, SweepPhases, None
<1>2. Collected /\ NothingEarly /\ OnlySigned /\ FailsClosedOnlySwept
  BY Placeholders DEF Init, Collected, NothingEarly, OnlySigned, FailsClosedOnlySwept, Early, Late
<1>3. BothInPlace /\ SweepLate /\ DeadStaysDead
  BY DEF Init, BothInPlace, Found, SweepLate, DeadStaysDead, Active, None
<1> QED BY <1>1, <1>2, <1>3 DEF IndInv

\* Every step keeps the variables in their types.
LEMMA TypeNext == TypeOK /\ Collected /\ [Next]_vars => TypeOK'
<1> SUFFICES ASSUME TypeOK, Collected, [Next]_vars PROVE TypeOK'
  OBVIOUS
<1> USE BoundsAssumption
    DEF TypeOK, MaybePolicy, CliPhases, WorkerPhases, SweepPhases, Ask, ReplyTo
<1>1. CASE DisableCurated \/ InsertRule
  <2>1. disabled' \in Versions /\ rules' \in Versions
    BY <1>1 DEF DisableCurated, InsertRule, Versions
  <2> QED BY <1>1, <2>1 DEF DisableCurated, InsertRule
<1>2. ASSUME NEW r \in Runs, WorkerStep(r) PROVE TypeOK'
  <2>1. CASE ReadDisabled(r)
    <3>1. ASSUME NEW d \in {disabled, 0}
          PROVE [run |-> r, disabled |-> d, rules |-> 0] \in Policies
      BY DEF Policies, Versions
    <3>2. input' \in [Runs -> MaybePolicy]
      BY <2>1, <3>1 DEF ReadDisabled
    <3>3. Pruned \in [Runs -> {None, "fresh", "old"}]
      BY DEF Pruned
    <3> QED BY <2>1, <3>2, <3>3 DEF ReadDisabled
  <2>2. CASE ReadRules(r)
    <3>1. [run |-> r, disabled |-> input[r].disabled, rules |-> rules] \in Policies
      BY <2>2 DEF Collected, Policies, ReadRules
    <3>2. input' \in [Runs -> MaybePolicy]
      BY <2>2, <3>1 DEF ReadRules
    <3> QED BY <2>2, <3>2 DEF ReadRules
  <2>3. CASE TakePending(r)
    <3>1. Pruned \in [Runs -> {None, "fresh", "old"}]
      BY DEF Pruned
    <3> QED BY <2>3, <3>1 DEF TakePending
  <2>4. CASE WriteSnapshot(r)
    BY <2>4 DEF WriteSnapshot, PublishedBytes
  <2>5. CASE WriteManifest(r)
    BY <2>5 DEF WriteManifest, PublishedBytes
  <2>6. CASE RecordRun(r)
    BY <2>6 DEF RecordRun
  <2> QED BY <1>2, <2>1, <2>2, <2>3, <2>4, <2>5, <2>6 DEF WorkerStep
<1>3. ASSUME NEW r \in Runs, RunStep(r) PROVE TypeOK'
  <2>1. CASE PrepareSnapshotInputs(r)
    BY <2>1 DEF PrepareSnapshotInputs
  <2>2. CASE PendingExpires(r)
    BY <2>2 DEF PendingExpires
  <2>3. CASE SignAndPublish(r)
    BY <2>3 DEF SignAndPublish
  <2>4. CASE GiveUp(r) \/ Spawn(r) \/ RootExits(r) \/ PidReused(r)
    BY <2>4 DEF GiveUp, Spawn, RootExits, PidReused
  <2>5. CASE RegisterRoot(r)
    BY <2>5 DEF RegisterRoot
  <2>6. CASE HookReadsManifest(r)
    BY <2>6 DEF HookReadsManifest
  <2>7. CASE HookReadsSnapshot(r)
    BY <2>7 DEF HookReadsSnapshot
  <2> QED BY <1>3, <2>1, <2>2, <2>3, <2>4, <2>5, <2>6, <2>7 DEF RunStep
<1>4. CASE SweepStep
  <2>1. CASE SweepBegins \/ SweepEnds
    <3>1. /\ sweep'.phase \in {"next", "idle"} /\ sweep'.todo \subseteq Runs
          /\ sweep' \in SweepStates
      <4>1. CASE SweepBegins
        BY <4>1, Zenon DEF SweepBegins, SweepStates
      <4>2. CASE SweepEnds
        BY <4>2, Zenon DEF SweepEnds, SweepStates
      <4> QED BY <2>1, <4>1, <4>2, Zenon
    <3> QED BY <2>1, <3>1 DEF SweepBegins, SweepEnds, SweepStates
  <2>2. ASSUME NEW r \in Runs, SweepLooks(r) PROVE TypeOK'
    <3>1. ReasonToCollect(r) \in {None, "orphan", "dead"}
      BY DEF ReasonToCollect
    <3> QED BY <2>2, <3>1 DEF SweepLooks, None
  <2>3. CASE SweepSnapshot
    BY <2>3 DEF SweepSnapshot, Removal
  <2>4. CASE SweepManifest
    BY <2>4 DEF SweepManifest, Removal
  <2>5. CASE SweepRecord
    BY <2>5 DEF SweepRecord
  <2> QED BY <1>4, <2>1, <2>2, <2>3, <2>4, <2>5 DEF SweepStep
<1>5. CASE Crash
  <2>1. sweep'.phase = "idle" /\ sweep' \in SweepStates
    BY <1>5, Zenon DEF Crash, SweepStates
  <2> QED BY <1>5, <2>1 DEF Crash, SweepStates
<1>6. CASE UNCHANGED vars
  BY <1>6
<1> QED BY <1>1, <1>2, <1>3, <1>4, <1>5, <1>6 DEF Next

\* The collected inputs, and the files of a run, in each step.
LEMMA FilesNext ==
    ASSUME IndInv, [Next]_vars
    PROVE Collected' /\ NothingEarly' /\ OnlySigned'
<1> USE Placeholders DEF IndInv, TypeOK, Collected, NothingEarly, OnlySigned, Early, Late,
        Ask, ReplyTo
<1>1. CASE DisableCurated \/ InsertRule
  BY <1>1 DEF DisableCurated, InsertRule
<1>2. ASSUME NEW r \in Runs, WorkerStep(r) PROVE Collected' /\ NothingEarly' /\ OnlySigned'
  <2>1. CASE ReadDisabled(r)
    <3>1. input'[r] \in Policies
      BY <2>1, BoundsAssumption DEF ReadDisabled, Policies, Versions
    <3> QED BY <2>1, <3>1 DEF ReadDisabled
  <2>2. CASE ReadRules(r)
    <3>1. [run |-> r, disabled |-> input[r].disabled, rules |-> rules] \in Policies
      BY <2>2 DEF Policies, ReadRules
    <3> QED BY <2>2, <3>1 DEF ReadRules
  <2>3. CASE TakePending(r)
    BY <2>3 DEF TakePending
  <2>4. CASE WriteSnapshot(r)
    BY <2>4 DEF WriteSnapshot, PublishedBytes
  <2>5. CASE WriteManifest(r)
    BY <2>5 DEF WriteManifest, PublishedBytes
  <2>6. CASE RecordRun(r)
    BY <2>6 DEF RecordRun
  <2> QED BY <1>2, <2>1, <2>2, <2>3, <2>4, <2>5, <2>6 DEF WorkerStep
<1>3. ASSUME NEW r \in Runs, RunStep(r) PROVE Collected' /\ NothingEarly' /\ OnlySigned'
  <2>1. CASE PrepareSnapshotInputs(r)
    BY <2>1 DEF PrepareSnapshotInputs
  <2>2. CASE PendingExpires(r)
    BY <2>2 DEF PendingExpires
  <2>3. CASE SignAndPublish(r)
    BY <2>3 DEF SignAndPublish
  <2>4. CASE GiveUp(r)
    BY <2>4 DEF GiveUp
  <2>5. CASE Spawn(r)
    BY <2>5, <1>3 DEF Spawn, BothInPlace
  <2>6. CASE RegisterRoot(r) \/ RootExits(r) \/ PidReused(r)
    BY <2>6 DEF RegisterRoot, RootExits, PidReused, None
  <2>7. CASE HookReadsManifest(r)
    BY <2>7 DEF HookReadsManifest
  <2>8. CASE HookReadsSnapshot(r)
    BY <2>8 DEF HookReadsSnapshot
  <2> QED BY <1>3, <2>1, <2>2, <2>3, <2>4, <2>5, <2>6, <2>7, <2>8 DEF RunStep
<1>4. CASE SweepStep
  <2>1. CASE SweepBegins \/ SweepEnds \/ SweepRecord \/ \E r \in Runs : SweepLooks(r)
    BY <2>1 DEF SweepBegins, SweepEnds, SweepRecord, SweepLooks
  <2>2. CASE SweepSnapshot
    BY <2>2 DEF SweepSnapshot, Removal
  <2>3. CASE SweepManifest
    BY <2>3 DEF SweepManifest, Removal
  <2> QED BY <1>4, <2>1, <2>2, <2>3 DEF SweepStep
<1>5. CASE Crash
  BY <1>5 DEF Crash
<1>6. CASE UNCHANGED vars
  BY <1>6
<1> QED BY <1>1, <1>2, <1>3, <1>4, <1>5, <1>6 DEF Next

\* Both files precede the answer, so that a missing one was swept.
LEMMA InPlaceNext ==
    ASSUME IndInv, [Next]_vars
    PROVE FailsClosedOnlySwept' /\ BothInPlace'
<1> USE Placeholders
    DEF IndInv, TypeOK, Collected, NothingEarly, OnlySigned, FailsClosedOnlySwept, BothInPlace,
        Found, SweepLate, Early, Late, Active, Ask, ReplyTo, None
<1>1. CASE DisableCurated \/ InsertRule
  BY <1>1 DEF DisableCurated, InsertRule
<1>2. ASSUME NEW r \in Runs, WorkerStep(r) PROVE FailsClosedOnlySwept' /\ BothInPlace'
  <2>1. CASE ReadDisabled(r) \/ ReadRules(r) \/ TakePending(r)
    BY <2>1 DEF ReadDisabled, ReadRules, TakePending
  <2>2. CASE WriteSnapshot(r)
    BY <2>2 DEF WriteSnapshot
  <2>3. CASE WriteManifest(r)
    BY <2>3 DEF WriteManifest, PublishedBytes
  <2>4. CASE RecordRun(r)
    BY <2>4 DEF RecordRun
  <2> QED BY <1>2, <2>1, <2>2, <2>3, <2>4 DEF WorkerStep
<1>3. ASSUME NEW r \in Runs, RunStep(r) PROVE FailsClosedOnlySwept' /\ BothInPlace'
  <2>1. CASE PrepareSnapshotInputs(r) \/ PendingExpires(r) \/ SignAndPublish(r)
    BY <2>1 DEF PrepareSnapshotInputs, PendingExpires, SignAndPublish
  <2>2. CASE GiveUp(r)
    BY <2>2 DEF GiveUp
  <2>3. CASE Spawn(r)
    BY <2>3 DEF Spawn
  <2>4. CASE RegisterRoot(r)
    BY <2>4 DEF RegisterRoot
  <2>5. CASE RootExits(r) \/ PidReused(r)
    BY <2>5 DEF RootExits, PidReused
  <2>6. CASE HookReadsManifest(r)
    BY <2>6 DEF HookReadsManifest
  <2>7. CASE HookReadsSnapshot(r)
    <3>1. hook'[r] = FailClosed => cbor[r] = Absent
      BY <2>7 DEF HookReadsSnapshot, MaybePolicy
    <3> QED BY <2>7, <3>1 DEF HookReadsSnapshot
  <2> QED BY <1>3, <2>1, <2>2, <2>3, <2>4, <2>5, <2>6, <2>7 DEF RunStep
<1>4. CASE SweepStep
  <2>1. CASE SweepBegins
    BY <2>1 DEF SweepBegins
  <2>2. CASE SweepEnds
    BY <2>2 DEF SweepEnds
  <2>3. CASE SweepRecord
    BY <2>3 DEF SweepRecord
  <2>4. ASSUME NEW r \in Runs, SweepLooks(r) PROVE FailsClosedOnlySwept' /\ BothInPlace'
    BY <2>4 DEF SweepLooks, ReasonToCollect
  <2>5. CASE SweepSnapshot
    BY <2>5 DEF SweepSnapshot, Removal
  <2>6. CASE SweepManifest
    BY <2>6 DEF SweepManifest, Removal
  <2> QED BY <1>4, <2>1, <2>2, <2>3, <2>4, <2>5, <2>6 DEF SweepStep
<1>5. CASE Crash
  BY <1>5 DEF Crash
<1>6. CASE UNCHANGED vars
  BY <1>6
<1> QED BY <1>1, <1>2, <1>3, <1>4, <1>5, <1>6 DEF Next

\* The sweep stays behind the publication, and its verdict on a root stands.
LEMMA SweepNext ==
    ASSUME IndInv, [Next]_vars
    PROVE SweepLate' /\ DeadStaysDead'
<1> USE DEF IndInv, TypeOK, NothingEarly, SweepLate, DeadStaysDead, Early, Late, Active,
        Ask, ReplyTo, None
<1>1. CASE DisableCurated \/ InsertRule
  BY <1>1 DEF DisableCurated, InsertRule
<1>2. ASSUME NEW r \in Runs, WorkerStep(r) PROVE SweepLate' /\ DeadStaysDead'
  <2>1. CASE ReadDisabled(r) \/ ReadRules(r) \/ TakePending(r)
    BY <2>1 DEF ReadDisabled, ReadRules, TakePending
  <2>2. CASE WriteSnapshot(r)
    BY <2>2 DEF WriteSnapshot
  <2>3. CASE WriteManifest(r)
    BY <2>3 DEF WriteManifest, PublishedBytes
  <2>4. CASE RecordRun(r)
    BY <2>4 DEF RecordRun
  <2> QED BY <1>2, <2>1, <2>2, <2>3, <2>4 DEF WorkerStep
<1>3. ASSUME NEW r \in Runs, RunStep(r) PROVE SweepLate' /\ DeadStaysDead'
  <2>1. CASE PrepareSnapshotInputs(r) \/ PendingExpires(r) \/ SignAndPublish(r)
    BY <2>1 DEF PrepareSnapshotInputs, PendingExpires, SignAndPublish
  <2>2. CASE GiveUp(r)
    BY <2>2 DEF GiveUp
  <2>3. CASE Spawn(r)
    BY <2>3 DEF Spawn
  <2>4. CASE RegisterRoot(r)
    BY <2>4 DEF RegisterRoot
  <2>5. CASE RootExits(r) \/ PidReused(r)
    BY <2>5 DEF RootExits, PidReused
  <2>6. CASE HookReadsManifest(r)
    BY <2>6 DEF HookReadsManifest
  <2>7. CASE HookReadsSnapshot(r)
    BY <2>7 DEF HookReadsSnapshot
  <2> QED BY <1>3, <2>1, <2>2, <2>3, <2>4, <2>5, <2>6, <2>7 DEF RunStep
<1>4. CASE SweepStep
  <2>1. CASE SweepBegins
    BY <2>1 DEF SweepBegins
  <2>2. CASE SweepEnds
    BY <2>2 DEF SweepEnds
  <2>3. CASE SweepRecord
    BY <2>3 DEF SweepRecord
  <2>4. ASSUME NEW r \in Runs, SweepLooks(r) PROVE SweepLate' /\ DeadStaysDead'
    BY <2>4 DEF SweepLooks, ReasonToCollect
  <2>5. CASE SweepSnapshot
    BY <2>5 DEF SweepSnapshot, Removal
  <2>6. CASE SweepManifest
    BY <2>6 DEF SweepManifest, Removal
  <2> QED BY <1>4, <2>1, <2>2, <2>3, <2>4, <2>5, <2>6 DEF SweepStep
<1>5. CASE Crash
  BY <1>5 DEF Crash
<1>6. CASE UNCHANGED vars
  BY <1>6
<1> QED BY <1>1, <1>2, <1>3, <1>4, <1>5, <1>6 DEF Next

\* Every behaviour keeps the inductive invariant.
THEOREM Inductive == Spec => []IndInv
<1>1. IndInv /\ [Next]_vars => IndInv'
  BY TypeNext, FilesNext, InPlaceNext, SweepNext DEF IndInv
<1> QED BY IndInit, <1>1, PTL DEF Spec

\* Type correctness of the snapshot life cycle, for every set of runs.
THEOREM TypeCorrect == Spec => []TypeOK
BY Inductive, PTL DEF IndInv

\* A hook enforces exactly the snapshot its CLI signed, for any number of runs,
\* edits of the rule store, crashes and failed removals.
THEOREM HooksLoadSigned == Spec => []LoadedPolicyIsSigned
<1>1. IndInv => LoadedPolicyIsSigned
  BY Placeholders DEF IndInv, OnlySigned, LoadedPolicyIsSigned
<1> QED BY Inductive, <1>1, PTL

\* A hook fails closed only after a sweep: publication order and the reply that
\* follows it leave no other way to miss a file.
THEOREM FailClosedIsSwept == Spec => []FailsClosedOnlySwept
BY Inductive, PTL DEF IndInv

\* A step that removes the snapshot of a live root is the sweep acting on a run
\* it found without a record.
THEOREM LiveRunsKept == Spec => RecordedLiveRunKept
<1>1. IndInv /\ [Next]_vars =>
        [\A r \in Runs :
            root[r] = "alive" /\ cbor[r] # Absent /\ cbor'[r] = Absent
                => sweep.why = "orphan"]_vars
  <2> SUFFICES ASSUME IndInv, Next, NEW r \in Runs, root[r] = "alive", cbor[r] # Absent,
                      cbor'[r] = Absent
               PROVE sweep.why = "orphan"
    OBVIOUS
  <2>1. ASSUME NEW q \in Runs, WorkerStep(q) PROVE FALSE
    <3>1. CASE WriteSnapshot(q)
      BY <3>1, Placeholders DEF WriteSnapshot, PublishedBytes, IndInv, TypeOK, Collected
    <3>2. CASE ~WriteSnapshot(q)
      BY <2>1, <3>2
      DEF WorkerStep, ReadDisabled, ReadRules, TakePending, WriteManifest, RecordRun
    <3> QED BY <3>1, <3>2
  <2>2. ASSUME NEW q \in Runs, RunStep(q) PROVE FALSE
    BY <2>2
    DEF RunStep, PrepareSnapshotInputs, PendingExpires, SignAndPublish, GiveUp, Spawn,
        RegisterRoot, RootExits, PidReused, HookReadsManifest, HookReadsSnapshot
  <2>3. CASE DisableCurated \/ InsertRule \/ Crash
    BY <2>3 DEF DisableCurated, InsertRule, Crash
  <2>4. CASE SweepStep
    <3>1. sweep.phase = "snapshot" /\ sweep.run = r
      BY <2>4 DEF SweepStep, SweepBegins, SweepEnds, SweepLooks, SweepRecord, SweepSnapshot,
                  SweepManifest, Removal, IndInv, TypeOK
    <3>2. sweep.why # "dead"
      BY <3>1 DEF IndInv, DeadStaysDead, Active
    <3> QED BY <3>1, <3>2 DEF IndInv, TypeOK, SweepStates, Active
  <2> QED BY <2>1, <2>2, <2>3, <2>4, Zenon DEF Next
<1> QED BY Inductive, <1>1, PTL DEF Spec, RecordedLiveRunKept
=============================================================================
