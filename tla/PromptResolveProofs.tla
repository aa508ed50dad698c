------------------------ MODULE PromptResolveProofs ------------------------
(***************************************************************************)
(* Proofs about PromptResolve for any number of workers, runs, hosts and   *)
(* prompts: the type invariant, that every deferred entry has its waiter,  *)
(* and that addresses are handed out through a prompt only for a           *)
(* destination the user of that run allowed; then the invariants that give *)
(* each reply its cause (where a channel thread is while its run is        *)
(* registered, where a denial on its way to a worker comes from, which     *)
(* requests get past the policy to the prompt), and that PromptResolve     *)
(* implements ResolveService.                                              *)
(***************************************************************************)
EXTENDS PromptResolve, SequenceTheorems, TLAPS

Parked == {"get_channel", "try_send", "waiting"}
HasId  == Parked \cup {"insert"}

Job(r, h) == [run |-> r, host |-> h]

\* id i was allocated for (or coalesced into a prompt allocated for) job j.
IdFor(i, j) == i \in 1 .. Len(prompts) /\ prompts[i] = j

Elems(q) == {q[i] : i \in 1 .. Len(q)}

EntriesByKey == \A e, f \in pending : e.id = f.id => e = f

OneHandle == \A c, d \in dispatching : c.chan = d.chan => c = d

\* A handle whose verdict is still to be sent owns its waiter.
HandleOwnsWaiter ==
    \A d \in dispatching : d.stage = "taken" =>
        /\ pc[d.waiter] \in Parked
        /\ job[d.waiter] = Job(d.chan, d.host)
        /\ mailbox[d.waiter] = "empty"
        /\ \A e \in pending : e.waiter # d.waiter

\* A worker with mail is parked and no entry will send it more.
MailIsFinal ==
    \A w \in Workers : mailbox[w] # "empty" =>
        /\ pc[w] \in Parked
        /\ \A e \in pending : e.waiter # w

WorkerIds == \A w \in Workers : pc[w] \in HasId => IdFor(eid[w], job[w])
WindowIds == \A d \in dedup : IdFor(d.id, Job(d.run, d.host))
QueueIds  == \A r \in Runs : \A m \in Elems(queue[r]) : IdFor(m.id, Job(r, m.host))
ScreenIds == \A r \in Runs : \A m \in Elems(screen[r]) : IdFor(m.id, Job(r, m.host))
InboxIds  == \A r \in Runs : \A m \in Elems(inbox[r]) : IdFor(m.id, Job(r, m.host))

\* Dropping the receiver of a handle changes nothing but its stage.
PlainStage(d) ==
    LET o == [d EXCEPT !.stage = "orphan"]
    IN  o.verdict = d.verdict /\ o.chan = d.chan /\ o.host = d.host

\* Every allow on its way to a worker is one the user gave for its key.
InboxApproved == \A r \in Runs : \A m \in Elems(inbox[r]) :
                    m.choice \in {"once", "always"} => <<r, m.host>> \in Approved
HandleApproved == \A d \in dispatching : d.verdict = "allow" => <<d.chan, d.host>> \in Approved
MailApproved == \A w \in Workers : mailbox[w] = "allow" => KeyOf(w) \in Approved

Waiters  == EntryHasWaiter /\ EntriesByKey /\ OneHandle /\ HandleOwnsWaiter /\ MailIsFinal
IdsKept  == WorkerIds /\ WindowIds /\ QueueIds /\ ScreenIds /\ InboxIds
Approvals == InboxApproved /\ HandleApproved /\ MailApproved /\ AllowWasApproved

IndInv == TypeOK /\ Waiters /\ IdsKept /\ Approvals

-----------------------------------------------------------------------------
USE DEF NextPromptId, DrainForRun
USE DEF vars, cliVars, tableVars, treeVars, threadVars, workerVars, seenVars

\* Dropping a receiver only changes the stage of a handle.
LEMMA ReceiverTypes ==
  ASSUME NEW w \in Workers, dispatching \subseteq Handles
  PROVE  WithoutReceiver(w) \subseteq Handles
  BY DEF WithoutReceiver, Handles

\* Every step of PromptResolve keeps every variable within its type.
LEMMA TypeNext == TypeOK /\ WorkerIds /\ [Next]_vars => TypeOK'
<1> SUFFICES ASSUME TypeOK, WorkerIds, [Next]_vars PROVE TypeOK'
  OBVIOUS
<1> USE RunsAssumption, BoundsAssumption
<1>0. ASSUME NEW w \in Workers, pc[w] \in HasId PROVE eid[w] \in Ids
  <2>1. Len(prompts) \in Nat
    BY LenProperties DEF TypeOK
  <2> QED
    BY <1>0, <2>1 DEF TypeOK, WorkerIds, IdFor, Ids
<1>1. ASSUME NEW r \in Runs, OpenChannel(r) PROVE TypeOK'
  BY <1>1, Zenon DEF TypeOK, OpenChannel, CliPhases, ThreadPhases
<1>2. ASSUME NEW r \in Runs, SpawnChild(r) PROVE TypeOK'
  BY <1>2 DEF TypeOK, SpawnChild, CliPhases
<1>3. ASSUME NEW r \in Runs, RegisterRoot(r) PROVE TypeOK'
  BY <1>3 DEF TypeOK, RegisterRoot, CliPhases
<1>4. ASSUME NEW r \in Runs, RootExits(r) PROVE TypeOK'
  BY <1>4 DEF TypeOK, RootExits, CliPhases
<1>5. ASSUME NEW r \in Runs, CloseChannel(r) PROVE TypeOK'
  <2>1. << >> \in Seq(Requests)
    BY EmptySeq
  <2> QED
    BY <1>5, <2>1 DEF TypeOK, CloseChannel, CliPhases
<1>6. ASSUME NEW r \in Runs, BaselineCommit(r) PROVE TypeOK'
  BY <1>6 DEF TypeOK, BaselineCommit, CliPhases
<1>7. ASSUME NEW r \in Runs, NEW c \in UserChoices, Answer(r, c) PROVE TypeOK'
  <2>1. Head(screen[r]) \in Requests /\ Tail(screen[r]) \in Seq(Requests)
    BY <1>7, HeadTailProperties DEF TypeOK, Answer
  <2> DEFINE f == [id |-> Head(screen[r]).id, host |-> Head(screen[r]).host, choice |-> c]
  <2>2. f \in Frames
    BY <2>1 DEF Frames, Requests, Answers
  <2>3. Append(inbox[r], f) \in Seq(Frames)
    BY <2>2, AppendProperties DEF TypeOK
  <2>4. <<r, Head(screen[r]).host, c>> \in Runs \X Hosts \X Answers
    BY <2>1 DEF Requests, Answers
  <2> QED
    BY <1>7, <2>1, <2>3, <2>4, Zenon DEF TypeOK, Answer
<1>8. ASSUME NEW r \in Runs, Sigint(r) PROVE TypeOK'
  <2>1. Head(screen[r]) \in Requests
    BY <1>8, HeadTailProperties DEF TypeOK, Sigint
  <2> DEFINE f == [id |-> Head(screen[r]).id, host |-> Head(screen[r]).host,
                   choice |-> "cancel"]
  <2>2. f \in Frames
    BY <2>1 DEF Frames, Requests, Answers
  <2>3. Append(inbox[r], f) \in Seq(Frames)
    BY <2>2, AppendProperties DEF TypeOK
  <2>4. <<r, Head(screen[r]).host, "cancel">> \in Runs \X Hosts \X Answers
    BY <2>1 DEF Requests, Answers
  <2> QED
    BY <1>8, <2>3, <2>4, SMTT(30) DEF TypeOK, Sigint
<1>9. ASSUME NEW w \in Workers, NEW r \in Runs, NEW h \in Hosts, Resolve(w, r, h) PROVE TypeOK'
  BY <1>9, Zenon DEF TypeOK, Resolve, Jobs, PcValues, Replies, DnsReplies
<1>10. ASSUME NEW w \in Workers, Policy(w) PROVE TypeOK'
  <2>1. <<job[w].run, job[w].host>> \in Keys /\ BlockRow(job[w].run, job[w].host) \in Rows
    BY DEF TypeOK, Jobs, Keys, Rows, BlockRow
  <2>2. staging' \subseteq Keys /\ learned' \subseteq Keys /\ rows' \subseteq Rows
    BY <1>10, <2>1, Zenon DEF TypeOK, Policy
  <2>3. /\ pc' \in [Workers -> PcValues] /\ out' \in [Workers -> Replies]
        /\ eid' \in [Workers -> Ids \cup {0}]
        /\ mailbox' \in [Workers -> {"empty", "allow", "deny"}] /\ job' = job
    BY <1>10, ZenonT(60) DEF TypeOK, Policy, Reply, Goto, PcValues, Replies, DnsReplies
  <2> QED
    BY <1>10, <2>2, <2>3, Zenon DEF TypeOK, Policy
<1>11. ASSUME NEW w \in Workers, Gate(w) PROVE TypeOK'
  <2>1. <<job[w].run, job[w].host>> \in Keys /\ BlockRow(job[w].run, job[w].host) \in Rows
    BY DEF TypeOK, Jobs, Keys, Rows, BlockRow
  <2>2. staging' \subseteq Keys /\ learned' \subseteq Keys /\ rows' \subseteq Rows
    BY <1>11, <2>1, Zenon DEF TypeOK, Gate
  <2>3. /\ pc' \in [Workers -> PcValues] /\ out' \in [Workers -> Replies]
        /\ eid' \in [Workers -> Ids \cup {0}]
        /\ mailbox' \in [Workers -> {"empty", "allow", "deny"}] /\ job' = job
    BY <1>11, ZenonT(60) DEF TypeOK, Gate, Reply, PcValues, Replies, DnsReplies
  <2> QED
    BY <1>11, <2>2, <2>3, Zenon DEF TypeOK, Gate
<1>12. ASSUME NEW w \in Workers, Coalesce(w) PROVE TypeOK'
  <2>1. prompts' \in Seq(Jobs) /\ Len(prompts) \in Nat /\ Len(prompts') <= MaxPrompts
    BY <1>12, AppendProperties, LenProperties DEF TypeOK, Coalesce
  <2>2. Len(prompts) + 1 \in Ids
    BY <1>12, <2>1 DEF Coalesce, Ids
  <2>3. [id |-> Len(prompts) + 1, run |-> job[w].run, host |-> job[w].host, age |-> "live"]
           \in Windows
    BY <2>2 DEF TypeOK, Windows, Jobs
  <2>4. dedup' \subseteq Windows
    BY <1>12, <2>3 DEF TypeOK, Coalesce
  <2>5. eid' \in [Workers -> Ids \cup {0}]
    BY <1>12, <2>2, Zenon DEF TypeOK, Coalesce, Window, Windows
  <2> QED
    BY <1>12, <2>1, <2>4, <2>5 DEF TypeOK, Coalesce, PcValues
<1>13. ASSUME NEW w \in Workers, Park(w) PROVE TypeOK'
  <2>1. eid[w] \in Ids
    BY <1>0, <1>13 DEF Park, HasId
  <2>2. [id |-> eid[w], run |-> job[w].run, host |-> job[w].host, waiter |-> w] \in Entries
    BY <2>1 DEF TypeOK, Entries, Jobs
  <2>3. pending' \subseteq Entries
    BY <1>13, <2>2 DEF TypeOK, Park
  <2> QED
    BY <1>13, <2>3, Zenon DEF TypeOK, Park, Goto, PcValues
<1>14. ASSUME NEW w \in Workers, GetChannel(w) PROVE TypeOK'
  BY <1>14, ReceiverTypes, ZenonT(60) DEF TypeOK, GetChannel, Goto, Reply, PcValues, Replies
<1>15. ASSUME NEW w \in Workers, TrySend(w) PROVE TypeOK'
  <2> DEFINE q == [id |-> eid[w], host |-> job[w].host]
  <2>0. eid[w] \in Ids
    BY <1>0, <1>15 DEF TrySend, HasId, Parked
  <2>1. q \in Requests /\ job[w].run \in Runs
    BY <2>0 DEF TypeOK, Requests, Jobs
  <2>2. Append(queue[job[w].run], q) \in Seq(Requests)
    BY <2>1, AppendProperties DEF TypeOK
  <2>3a. queue' \in [Runs -> Seq(Requests)]
    <3>1. \/ queue' = queue
          \/ queue' = [queue EXCEPT ![job[w].run] = Append(queue[job[w].run], q)]
      BY <1>15 DEF TrySend
    <3> QED
      BY <2>1, <2>2, <3>1, Zenon DEF TypeOK
  <2>3b. dispatching' \subseteq Handles
    BY <1>15, ReceiverTypes, Zenon DEF TypeOK, TrySend
  <2>4. /\ pc' \in [Workers -> PcValues] /\ out' \in [Workers -> Replies]
        /\ eid' \in [Workers -> Ids \cup {0}]
        /\ mailbox' \in [Workers -> {"empty", "allow", "deny"}] /\ job' = job
    BY <1>15, Zenon DEF TypeOK, TrySend, Goto, Reply, PcValues, Replies, DnsReplies
  <2> QED
    BY <1>15, <2>3a, <2>3b, <2>4, Zenon DEF TypeOK, TrySend
<1>16. ASSUME NEW w \in Workers, ReceiveVerdict(w) PROVE TypeOK'
  BY <1>16 DEF TypeOK, ReceiveVerdict, Reply, PcValues, Replies, DnsReplies
<1>17. ASSUME NEW w \in Workers, PromptTimeout(w) \/ Disconnected(w) PROVE TypeOK'
  BY <1>17, ReceiverTypes, Zenon
  DEF TypeOK, PromptTimeout, Disconnected, GiveUp, Reply, PcValues, Replies
<1>18. ASSUME NEW r \in Runs, RegisterChannel(r) \/ StartReader(r) \/ ReaderExits(r)
       PROVE TypeOK'
  BY <1>18, ZenonT(60) DEF TypeOK, RegisterChannel, StartReader, ReaderExits, ThreadPhases
<1>19. ASSUME NEW r \in Runs, WriteRequest(r) PROVE TypeOK'
  <2>1. Head(queue[r]) \in Requests /\ Tail(queue[r]) \in Seq(Requests)
    BY <1>19, HeadTailProperties DEF TypeOK, WriteRequest
  <2>2. Append(screen[r], Head(queue[r])) \in Seq(Requests)
    BY <2>1, AppendProperties, ZenonT(60) DEF TypeOK
  <2> QED
    BY <1>19, <2>1, <2>2 DEF TypeOK, WriteRequest
<1>20. ASSUME NEW r \in Runs, NEW store \in {"ok", "err"}, Dispatch(r, store) PROVE TypeOK'
  <2> DEFINE f == Head(inbox[r])
  <2>1. f \in Frames /\ Tail(inbox[r]) \in Seq(Frames)
    BY <1>20, HeadTailProperties DEF TypeOK, Dispatch
  <2>2. Owned(f.id, r) \subseteq pending
    BY Zenon DEF Owned, Entry
  <2>3. dispatching' \subseteq Handles
    BY <1>20, <2>2, SMTT(30) DEF TypeOK, Dispatch, Entries, Handles
  <2>4. rules' \subseteq Keys /\ rows' \subseteq Rows
    BY <1>20, <2>1 DEF TypeOK, Dispatch, Frames, Keys, Rows
  <2> QED
    BY <1>20, <2>1, <2>3, <2>4, Zenon DEF TypeOK, Dispatch
<1>21. ASSUME NEW r \in Runs, SendVerdict(r) \/ ForgetWindow(r) PROVE TypeOK'
  BY <1>21, ZenonT(60) DEF TypeOK, SendVerdict, ForgetWindow, Handles
<1>22. ASSUME NEW r \in Runs, LeaveLoop(r) PROVE TypeOK'
  <2>1. queue[r] # << >> => Tail(queue[r]) \in Seq(Requests)
    BY HeadTailProperties DEF TypeOK
  <2>2. queue' \in [Runs -> Seq(Requests)]
    BY <1>22, <2>1, Zenon DEF TypeOK, LeaveLoop
  <2>3. mailbox' \in [Workers -> {"empty", "allow", "deny"}]
    BY <1>22 DEF TypeOK, LeaveLoop
  <2> QED
    BY <1>22, <2>2, <2>3, Zenon DEF TypeOK, LeaveLoop, ThreadPhases
<1>23. ASSUME NEW r \in Runs, ThreadExits(r) PROVE TypeOK'
  <2>1. << >> \in Seq(Requests) /\ << >> \in Seq(Frames)
    BY EmptySeq
  <2> QED
    BY <1>23, <2>1 DEF TypeOK, ThreadExits, ThreadPhases
<1>24. ASSUME NEW r \in Runs, GcExpired(r) \/ SweepFiles(r) \/ SweepRecord(r) PROVE TypeOK'
  BY <1>24, Zenon DEF TypeOK, GcExpired, SweepFiles, SweepRecord
<1>25. CASE WindowExpires
  BY <1>25, Zenon DEF TypeOK, WindowExpires, Windows
<1>26. CASE UNCHANGED vars
  BY <1>26 DEF TypeOK
<1> QED
  BY <1>1, <1>2, <1>3, <1>4, <1>5, <1>6, <1>7, <1>8, <1>9, <1>10, <1>11, <1>12, <1>13, <1>14,
     <1>15, <1>16, <1>17, <1>18, <1>19, <1>20, <1>21, <1>22, <1>23, <1>24, <1>25, <1>26
  DEF Next, CliStep, ChannelStep, WorkerStep

-----------------------------------------------------------------------------
(* Who waits for what: Waiters is preserved. *)

OthersKept(w) ==
    \A v \in Workers \ {w} : /\ pc'[v] = pc[v] /\ job'[v] = job[v]
                            /\ eid'[v] = eid[v] /\ mailbox'[v] = mailbox[v]

\* A worker that is not parked may move as long as it stays off its mailbox.
LEMMA UnparkedMoves ==
  ASSUME TypeOK, Waiters, NEW w \in Workers, pc[w] \notin Parked, OthersKept(w),
         mailbox'[w] = "empty", pending' = pending, dispatching' = dispatching
  PROVE  Waiters'
<1>1. (\A e \in pending : e.waiter # w) /\ (\A e \in pending : e.waiter \in Workers)
  BY Zenon DEF Waiters, EntryHasWaiter, Parked, TypeOK, Entries
<1>2. \A d \in dispatching : d.waiter \in Workers /\ (d.stage = "taken" => d.waiter # w)
  BY DEF Waiters, HandleOwnsWaiter, TypeOK, Handles
<1>3. EntryHasWaiter'
  BY <1>1, ZenonT(60) DEF Waiters, EntryHasWaiter, OthersKept
<1>4. HandleOwnsWaiter'
  BY <1>2 DEF Waiters, HandleOwnsWaiter, OthersKept
<1>5. MailIsFinal'
  BY DEF Waiters, MailIsFinal, OthersKept
<1> QED
  BY <1>3, <1>4, <1>5 DEF Waiters, EntriesByKey, OneHandle

\* A worker that leaves takes its entry, or the receiver of its handle, along.
LEMMA ParkedLeaves ==
  ASSUME TypeOK, Waiters, NEW w \in Workers, OthersKept(w), mailbox'[w] = "empty",
         pending' \subseteq pending, \A e \in pending' : e.waiter # w,
         dispatching' = WithoutReceiver(w)
  PROVE  Waiters'
<1>1. \A e \in pending' : e \in pending /\ e.waiter \in Workers \ {w}
  BY DEF TypeOK, Entries
<1>2. \A d \in dispatching' : d.stage = "taken" =>
        d \in dispatching /\ d.waiter \in Workers \ {w}
  BY DEF WithoutReceiver, TypeOK, Handles
<1>3. EntryHasWaiter'
  BY <1>1, Zenon DEF Waiters, EntryHasWaiter, OthersKept
<1>4. HandleOwnsWaiter'
  BY <1>1, <1>2 DEF Waiters, HandleOwnsWaiter, OthersKept
<1>5. MailIsFinal'
  BY <1>1, Zenon DEF Waiters, MailIsFinal, OthersKept
<1>6. OneHandle'
  <2> DEFINE drop(d) == IF d.waiter = w /\ d.stage = "taken"
                        THEN [d EXCEPT !.stage = "orphan"] ELSE d
  <2>1. ASSUME NEW d \in dispatching PROVE drop(d).chan = d.chan
    BY DEF TypeOK, Handles
  <2>2. \A c \in dispatching' : \E d \in dispatching : c = drop(d)
    BY DEF WithoutReceiver
  <2> HIDE DEF drop
  <2> QED
    BY <2>1, <2>2 DEF Waiters, OneHandle
<1>7. EntriesByKey'
  BY <1>1 DEF Waiters, EntriesByKey
<1> QED
  BY <1>3, <1>4, <1>5, <1>6, <1>7 DEF Waiters

\* Every step of PromptResolve preserves Waiters.
LEMMA WaitersNext == TypeOK /\ Waiters /\ [Next]_vars => Waiters'
<1> SUFFICES ASSUME TypeOK, Waiters, [Next]_vars PROVE Waiters'
  OBVIOUS
<1>1. ASSUME UNCHANGED <<pending, dispatching, pc, job, eid, mailbox>> PROVE Waiters'
  BY <1>1, Zenon DEF Waiters, EntryHasWaiter, EntriesByKey, OneHandle, HandleOwnsWaiter, MailIsFinal
<1>2. ASSUME NEW r \in Runs, CliStep(r) PROVE Waiters'
  BY <1>1, <1>2, Zenon DEF CliStep, OpenChannel, SpawnChild, RegisterRoot, RootExits, CloseChannel,
     BaselineCommit, Sigint, Answer
<1>3. ASSUME NEW r \in Runs,
             \/ RegisterChannel(r) \/ StartReader(r) \/ WriteRequest(r) \/ ThreadExits(r)
             \/ ReaderExits(r) \/ GcExpired(r) \/ SweepFiles(r) \/ SweepRecord(r)
      PROVE  Waiters'
  BY <1>1, <1>3 DEF RegisterChannel, StartReader, WriteRequest, ThreadExits, ReaderExits,
     GcExpired, SweepFiles, SweepRecord
<1>4. CASE WindowExpires \/ UNCHANGED vars
  BY <1>1, <1>4, Zenon DEF WindowExpires
<1>5. ASSUME NEW w \in Workers, NEW r \in Runs, NEW h \in Hosts, Resolve(w, r, h)
      PROVE  Waiters'
  <2>1. pc[w] \notin Parked /\ mailbox[w] = "empty"
    BY <1>5, Zenon DEF Resolve, Parked, Waiters, MailIsFinal
  <2>2. OthersKept(w) /\ mailbox' = mailbox
    BY <1>5, Zenon DEF Resolve, OthersKept, TypeOK
  <2> QED
    BY <1>5, <2>1, <2>2, UnparkedMoves, ZenonT(60) DEF Resolve
<1>6. ASSUME NEW w \in Workers, Policy(w) \/ Gate(w) \/ Coalesce(w) PROVE Waiters'
  <2>1. pc[w] \notin Parked /\ mailbox[w] = "empty"
    BY <1>6, Zenon DEF Policy, Gate, Coalesce, Parked, Waiters, MailIsFinal
  <2>2. OthersKept(w) /\ mailbox'[w] = "empty"
    BY <1>6, <2>1, ZenonT(60) DEF Policy, Gate, Coalesce, Reply, Goto, OthersKept, TypeOK
  <2>3. pending' = pending /\ dispatching' = dispatching
    BY <1>6, ZenonT(60) DEF Policy, Gate, Coalesce
  <2> QED
    BY <2>1, <2>2, <2>3, UnparkedMoves, Zenon
<1>7. ASSUME NEW w \in Workers, Park(w) PROVE Waiters'
  <2> DEFINE new == [id |-> eid[w], run |-> job[w].run, host |-> job[w].host, waiter |-> w]
  <2>1. /\ pc[w] = "insert" /\ mailbox[w] = "empty"
        /\ \A e \in pending : e.waiter # w
        /\ \A d \in dispatching : d.stage = "taken" => d.waiter # w
    BY <1>7, Zenon DEF Park, Parked, Waiters, EntryHasWaiter, HandleOwnsWaiter, MailIsFinal
  <2>2. /\ pending' = (pending \ Entry(eid[w])) \cup {new}
        /\ pc' = [pc EXCEPT ![w] = "get_channel"]
        /\ UNCHANGED <<job, eid, mailbox, dispatching>>
    BY <1>7, Zenon DEF Park, Goto
  <2>3. job[w] = [run |-> job[w].run, host |-> job[w].host]
    BY ZenonT(60) DEF TypeOK, Jobs
  <2>4. \A e \in pending' : e = new \/ (e \in pending /\ e.id # eid[w] /\ e.waiter \in Workers)
    BY <2>2 DEF Entry, TypeOK, Entries
  <2>5. EntryHasWaiter'
    <3> SUFFICES ASSUME NEW e \in pending'
                 PROVE  /\ pc'[e.waiter] \in {"get_channel", "try_send", "waiting"}
                        /\ eid'[e.waiter] = e.id
                        /\ job'[e.waiter] = [run |-> e.run, host |-> e.host]
      BY Zenon DEF EntryHasWaiter
    <3>1. CASE e = new
      BY <2>2, <2>3, <3>1, Zenon DEF TypeOK
    <3>2. CASE e \in pending /\ e.waiter \in Workers
      <4>1. e.waiter # w
        BY <2>1, <3>2, Zenon
      <4>2. pc'[e.waiter] = pc[e.waiter]
        BY <2>2, <3>2, <4>1 DEF TypeOK
      <4> QED
        BY <2>2, <3>2, <4>2, ZenonT(60) DEF Waiters, EntryHasWaiter
    <3> QED
      BY <2>4, <3>1, <3>2, Zenon
  <2>6. EntriesByKey'
    BY <2>4, SMTT(30) DEF Waiters, EntriesByKey
  <2>7. HandleOwnsWaiter'
    BY <2>1, <2>2, <2>4, SMTT(30) DEF Waiters, HandleOwnsWaiter, Parked, TypeOK, Handles
  <2>8. MailIsFinal'
    <3> SUFFICES ASSUME NEW v \in Workers, mailbox[v] # "empty"
                 PROVE  pc'[v] \in Parked /\ \A e \in pending' : e.waiter # v
      BY <2>2 DEF MailIsFinal
    <3>1. v # w /\ pc[v] \in Parked /\ \A e \in pending : e.waiter # v
      BY <2>1, Zenon DEF Waiters, MailIsFinal
    <3> QED
      BY <2>2, <2>4, <3>1, SMTT(30) DEF TypeOK
  <2> QED
    BY <2>2, <2>5, <2>6, <2>7, <2>8, Zenon DEF Waiters, OneHandle
<1>8. ASSUME NEW w \in Workers, pc[w] \in Parked, pending' = pending \ Entry(eid[w]),
             dispatching' = WithoutReceiver(w), NEW o, Reply(w, o)
      PROVE  Waiters'
  <2>1. OthersKept(w) /\ mailbox'[w] = "empty"
    BY <1>8, Zenon DEF Reply, OthersKept, TypeOK
  <2>2. pending' \subseteq pending /\ \A e \in pending' : e.waiter # w
    BY <1>8, Zenon DEF Entry, Waiters, EntryHasWaiter
  <2> QED
    BY <1>8, <2>1, <2>2, ParkedLeaves
<1>9. ASSUME NEW w \in Workers, NEW l \in {"try_send", "waiting"}, pc[w] \in Parked, Goto(w, l),
             UNCHANGED <<pending, dispatching>>
      PROVE  Waiters'
  <2>1. pc' = [pc EXCEPT ![w] = l] /\ UNCHANGED <<job, eid, mailbox>> /\ l \in Parked
    BY <1>9 DEF Goto, Parked
  <2>2. \A v \in Workers : pc[v] \in Parked => pc'[v] \in Parked
    BY <2>1 DEF TypeOK
  <2>3. EntryHasWaiter'
    BY <1>9, <2>1, <2>2, ZenonT(60) DEF Waiters, EntryHasWaiter, TypeOK, Entries, Parked
  <2>4. HandleOwnsWaiter'
    BY <1>9, <2>1, <2>2 DEF Waiters, HandleOwnsWaiter, TypeOK, Handles
  <2>5. MailIsFinal'
    BY <1>9, <2>1, <2>2 DEF Waiters, MailIsFinal
  <2> QED
    BY <1>9, <2>3, <2>4, <2>5 DEF Waiters, EntriesByKey, OneHandle
<1>10. ASSUME NEW w \in Workers, GetChannel(w) \/ TrySend(w) PROVE Waiters'
  BY <1>8, <1>9, <1>10, ZenonT(60) DEF GetChannel, TrySend, Parked
<1>11. ASSUME NEW w \in Workers, ReceiveVerdict(w) PROVE Waiters'
  <2>1. OthersKept(w) /\ mailbox'[w] = "empty"
    BY <1>11, Zenon DEF ReceiveVerdict, Reply, OthersKept, TypeOK
  <2>2. pending' = pending /\ dispatching' = dispatching /\ \A e \in pending : e.waiter # w
    BY <1>11, Zenon DEF ReceiveVerdict, Waiters, MailIsFinal
  <2>3. \A d \in dispatching : ~(d.waiter = w /\ d.stage = "taken")
    BY <1>11, Zenon DEF ReceiveVerdict, Waiters, HandleOwnsWaiter
  <2>4. dispatching' = WithoutReceiver(w)
    BY <2>2, <2>3, Zenon DEF WithoutReceiver
  <2> QED
    BY <2>1, <2>2, <2>4, ParkedLeaves, Zenon
<1>12. ASSUME NEW w \in Workers, PromptTimeout(w) \/ Disconnected(w) PROVE Waiters'
  BY <1>8, <1>12, Zenon DEF PromptTimeout, Disconnected, GiveUp, Parked
<1>13. ASSUME NEW r \in Runs, NEW store \in {"ok", "err"}, Dispatch(r, store) PROVE Waiters'
  <2> DEFINE f == Head(inbox[r])
             own == Owned(f.id, r)
             v == IF f.choice = "once" \/ (f.choice = "always" /\ store = "ok")
                  THEN "allow" ELSE "deny"
             hd(e) == [chan |-> r, host |-> e.host, waiter |-> e.waiter, stage |-> "taken",
                       verdict |-> v]
  <2>1. /\ pending' = pending \ own
        /\ dispatching' = dispatching \cup {hd(e) : e \in own}
        /\ \A d \in dispatching : d.chan # r
        /\ UNCHANGED <<pc, job, eid, mailbox>>
    BY <1>13, Zenon DEF Dispatch, InLoop
  <2>2. \A e \in own : e \in pending /\ e.run = r /\ e.id = f.id
    BY DEF Owned, Entry
  <2>3. \A e, g \in own : e = g
    BY <2>2 DEF Waiters, EntriesByKey
  <2>4. \A e \in own : /\ pc[e.waiter] \in Parked /\ job[e.waiter] = Job(r, e.host)
                        /\ e.waiter \in Workers /\ mailbox[e.waiter] = "empty"
                        /\ \A d \in pending : d.waiter = e.waiter => d.id = e.id
    <3> SUFFICES ASSUME NEW e \in own
                 PROVE  /\ pc[e.waiter] \in Parked /\ job[e.waiter] = Job(r, e.host)
                        /\ e.waiter \in Workers /\ mailbox[e.waiter] = "empty"
                        /\ \A d \in pending : d.waiter = e.waiter => d.id = e.id
      OBVIOUS
    <3> HIDE DEF own, v, f
    <3>1. e \in pending /\ e.run = r
      BY <2>2
    <3>2. e.waiter \in Workers
      BY <3>1 DEF TypeOK, Entries
    <3>3. pc[e.waiter] \in Parked /\ job[e.waiter] = Job(r, e.host)
      BY <3>1 DEF Waiters, EntryHasWaiter, Parked, Job
    <3>4. mailbox[e.waiter] = "empty"
      BY <3>1, <3>2 DEF Waiters, MailIsFinal
    <3>5. \A d \in pending : d.waiter = e.waiter => d.id = e.id
      BY <3>1, ZenonT(60) DEF Waiters, EntryHasWaiter
    <3> QED
      BY <3>2, <3>3, <3>4, <3>5, Zenon
  <2>5. \A e \in own, g \in pending' : g.waiter # e.waiter
    BY <2>1, <2>2, <2>4 DEF Waiters, EntriesByKey
  <2> HIDE DEF own, v, f
  <2>6. \A d \in dispatching' : d \in dispatching \/
          \E e \in own : d.chan = r /\ d.host = e.host /\ d.waiter = e.waiter /\ d = hd(e)
    BY <2>1
  <2>7. EntryHasWaiter' /\ EntriesByKey' /\ MailIsFinal'
    BY <2>1 DEF Waiters, EntryHasWaiter, EntriesByKey, MailIsFinal
  <2>8. OneHandle'
    BY <2>1, <2>3, <2>6 DEF Waiters, OneHandle
  <2>9. HandleOwnsWaiter'
    BY <2>1, <2>4, <2>5, <2>6 DEF Waiters, HandleOwnsWaiter
  <2> QED
    BY <2>7, <2>8, <2>9, Zenon DEF Waiters
<1>14. ASSUME NEW r \in Runs, SendVerdict(r) PROVE Waiters'
  <2>1. PICK d \in dispatching :
          /\ mailbox' = IF d.stage = "taken" THEN [mailbox EXCEPT ![d.waiter] = d.verdict]
                        ELSE mailbox
          /\ dispatching' = (dispatching \ {d}) \cup {[d EXCEPT !.stage = "sent"]}
          /\ UNCHANGED <<pending, pc, job, eid>>
    BY <1>14, Zenon DEF SendVerdict
  <2> DEFINE s == [d EXCEPT !.stage = "sent"]
  <2>2. s.stage = "sent" /\ s.chan = d.chan /\ d \in Handles /\ d.waiter \in Workers
    BY DEF TypeOK, Handles
  <2>3. \A c \in dispatching' : c = s \/ (c \in dispatching /\ c # d)
    BY <2>1
  <2> HIDE DEF s
  <2>4. \A c \in dispatching' : c.stage = "taken" /\ d.stage = "taken" => c.waiter # d.waiter
    <3> SUFFICES ASSUME NEW c \in dispatching', c.stage = "taken", d.stage = "taken",
                        c.waiter = d.waiter
                 PROVE  FALSE
      OBVIOUS
    <3>1. c \in dispatching /\ c # d
      BY <2>2, <2>3
    <3>2. Job(c.chan, c.host) = Job(d.chan, d.host)
      BY <3>1 DEF Waiters, HandleOwnsWaiter
    <3>3. c.chan = d.chan
      BY <3>2 DEF Job
    <3> QED
      BY <3>1, <3>3 DEF Waiters, OneHandle
  <2>5. EntryHasWaiter' /\ EntriesByKey'
    BY <2>1 DEF Waiters, EntryHasWaiter, EntriesByKey
  <2>6. OneHandle'
    BY <2>2, <2>3 DEF Waiters, OneHandle
  <2>7. HandleOwnsWaiter'
    BY <2>1, <2>2, <2>3, <2>4 DEF Waiters, HandleOwnsWaiter, TypeOK, Handles
  <2>8. MailIsFinal'
    BY <2>1, <2>2, ZenonT(60) DEF Waiters, MailIsFinal, HandleOwnsWaiter, TypeOK
  <2> QED
    BY <2>5, <2>6, <2>7, <2>8 DEF Waiters
<1>15. ASSUME NEW r \in Runs, ForgetWindow(r) PROVE Waiters'
  <2>1. dispatching' \subseteq dispatching /\ UNCHANGED <<pending, pc, job, eid, mailbox>>
    BY <1>15 DEF ForgetWindow
  <2> QED
    BY <2>1 DEF Waiters, EntryHasWaiter, EntriesByKey, OneHandle, HandleOwnsWaiter, MailIsFinal
<1>16. ASSUME NEW r \in Runs, LeaveLoop(r) PROVE Waiters'
  <2> DEFINE mine == {e \in pending : e.run = r}
  <2>1. /\ pending' = pending \ mine
        /\ mailbox' = [w \in Workers |->
                         IF \E e \in mine : e.waiter = w THEN "deny" ELSE mailbox[w]]
        /\ UNCHANGED <<dispatching, pc, job, eid>>
    BY <1>16, Zenon DEF LeaveLoop
  <2>2. EntryHasWaiter' /\ EntriesByKey' /\ OneHandle'
    BY <2>1, Zenon DEF Waiters, EntryHasWaiter, EntriesByKey, OneHandle
  <2>3. HandleOwnsWaiter'
    BY <2>1, Zenon DEF Waiters, HandleOwnsWaiter, TypeOK, Handles
  <2>4. MailIsFinal'
    <3> SUFFICES ASSUME NEW w \in Workers, mailbox'[w] # "empty"
                 PROVE  pc[w] \in Parked /\ \A e \in pending' : e.waiter # w
      BY <2>1, Zenon DEF MailIsFinal
    <3>1. CASE \E e \in mine : e.waiter = w
      <4>1. PICK e \in pending : e \in mine /\ e.waiter = w
        BY <3>1, Zenon
      <4>0. \A g \in pending : eid[g.waiter] = g.id
        BY Zenon DEF Waiters, EntryHasWaiter
      <4>2. \A g \in pending : g.waiter = w => g.id = e.id
        BY <4>0, <4>1
      <4>3. \A g \in pending : g.waiter = w => g \in mine
        BY <4>1, <4>2 DEF Waiters, EntriesByKey
      <4>4. pc[w] \in Parked
        BY <4>1, Zenon DEF Waiters, EntryHasWaiter, Parked
      <4> QED
        BY <2>1, <4>3, <4>4
    <3>2. CASE mailbox[w] # "empty"
      BY <2>1, <3>2 DEF Waiters, MailIsFinal
    <3> QED
      BY <2>1, <3>1, <3>2, Zenon
  <2> QED
    BY <2>2, <2>3, <2>4, Zenon DEF Waiters
<1> QED
  BY <1>2, <1>3, <1>4, <1>5, <1>6, <1>7, <1>10, <1>11, <1>12, <1>13, <1>14, <1>15, <1>16
  DEF Next, ChannelStep, WorkerStep

-----------------------------------------------------------------------------
\* What a queue holds after each of the operations on it.
LEMMA QueueElems ==
  ASSUME NEW S, NEW q \in Seq(S)
  PROVE  /\ Elems(<< >>) = {}
         /\ \A x \in S : Elems(Append(q, x)) = Elems(q) \cup {x}
         /\ q # << >> => Head(q) \in Elems(q) /\ Elems(Tail(q)) \subseteq Elems(q)
<1>1. Len(q) \in Nat
  BY LenProperties
<1>2. Elems(<< >>) = {}
  BY EmptySeq DEF Elems
<1>3. ASSUME NEW x \in S PROVE Elems(Append(q, x)) = Elems(q) \cup {x}
  <2>1. /\ Len(Append(q, x)) = Len(q) + 1 /\ Append(q, x)[Len(q) + 1] = x
        /\ \A n \in 1 .. Len(q) : Append(q, x)[n] = q[n]
    BY AppendProperties
  <2> QED
    BY <1>1, <2>1 DEF Elems
<1>4. ASSUME q # << >> PROVE Head(q) \in Elems(q) /\ Elems(Tail(q)) \subseteq Elems(q)
  <2>1. /\ Len(q) >= 1 /\ Head(q) = q[1] /\ Len(Tail(q)) = Len(q) - 1
        /\ \A n \in 1 .. Len(q) - 1 : Tail(q)[n] = q[n + 1]
    BY <1>1, <1>4, EmptySeq, HeadTailProperties
  <2> QED
    BY <1>1, <2>1 DEF Elems
<1> QED
  BY <1>2, <1>3, <1>4

\* The prompts' sequence only grows, so an id keeps its job.
LEMMA IdsGrow ==
  ASSUME TypeOK, TypeOK', NEW i, NEW j, IdFor(i, j),
         prompts' = prompts \/ \E k \in Jobs : prompts' = Append(prompts, k)
  PROVE  IdFor(i, j)'
<1>1. Len(prompts) \in Nat
  BY LenProperties DEF TypeOK
<1>2. CASE prompts' = prompts
  BY <1>2 DEF IdFor
<1>3. ASSUME NEW k \in Jobs, prompts' = Append(prompts, k) PROVE IdFor(i, j)'
  <2>1. Len(prompts') = Len(prompts) + 1 /\ \A n \in 1 .. Len(prompts) : prompts'[n] = prompts[n]
    <3>1. prompts \in Seq(Jobs)
      BY DEF TypeOK
    <3> QED
      BY <1>3, <3>1, AppendProperties, ZenonT(60)
  <2> QED
    BY <1>1, <2>1, SMTT(30) DEF IdFor
<1> QED
  BY <1>2, <1>3, Zenon

\* Every id that travels (worker, window, queue, screen, inbox) names the job
\* it was allocated for, and every step keeps it so.
LEMMA IdsNext == TypeOK /\ TypeOK' /\ IdsKept /\ [Next]_vars => IdsKept'
<1> SUFFICES ASSUME TypeOK, TypeOK', IdsKept, [Next]_vars PROVE IdsKept'
  OBVIOUS
<1>0. prompts' = prompts \/ \E k \in Jobs : prompts' = Append(prompts, k)
  <2>1. ASSUME NEW w \in Workers, Coalesce(w) PROVE \E k \in Jobs : prompts' = Append(prompts, k)
    BY <2>1, Zenon DEF Coalesce, TypeOK
  <2>2. ASSUME NEW w \in Workers, WorkerStep(w), ~Coalesce(w) PROVE prompts' = prompts
    BY <2>2, ZenonT(60) DEF WorkerStep, Policy, Gate, Park, GetChannel, TrySend, ReceiveVerdict,
                PromptTimeout, Disconnected, GiveUp
  <2>3. ASSUME NEW r \in Runs, ChannelStep(r) PROVE prompts' = prompts
    BY <2>3, Zenon
       DEF ChannelStep, RegisterChannel, StartReader, WriteRequest, Dispatch, SendVerdict,
                ForgetWindow, LeaveLoop, ThreadExits
  <2>4. ASSUME NEW r \in Runs, CliStep(r) PROVE prompts' = prompts
    BY <2>4, Zenon DEF CliStep, OpenChannel, SpawnChild, RegisterRoot, RootExits, CloseChannel,
                BaselineCommit, Sigint, Answer
  <2> QED
    BY <2>1, <2>2, <2>3, <2>4, ZenonT(60) DEF Next, ReaderExits, GcExpired, SweepFiles, SweepRecord,
                                  WindowExpires, Resolve
<1>1. \A i, j : IdFor(i, j) => IdFor(i, j)'
  BY <1>0, IdsGrow
<1>2. WorkerIds'
  <2>1. ASSUME NEW w \in Workers, Coalesce(w), NEW v \in Workers, pc'[v] \in HasId
        PROVE  IdFor(eid[v], job[v])'
    <3>0. job' = job /\ \A u \in Workers \ {w} : pc'[u] = pc[u] /\ eid'[u] = eid[u]
      BY <2>1, ZenonT(60) DEF Coalesce, TypeOK
    <3>1. CASE v # w
      BY <1>1, <2>1, <3>0, <3>1, ZenonT(60) DEF IdsKept, WorkerIds
    <3>2. CASE v = w /\ eid'[w] = Len(prompts) + 1
      <4>1. prompts' = Append(prompts, job[w]) /\ job[w] \in Jobs
        BY <2>1, Zenon DEF Coalesce, TypeOK
      <4>2. prompts \in Seq(Jobs) /\ Len(prompts) \in Nat
        BY LenProperties, Zenon DEF TypeOK
      <4>3. Len(prompts') = Len(prompts) + 1 /\ prompts'[Len(prompts) + 1] = job[w]
        BY <4>1, <4>2, AppendProperties, Zenon
      <4>4. eid'[v] = Len(prompts) + 1 /\ job'[v] = job[w]
        BY <3>0, <3>2
      <4>5. Len(prompts) + 1 \in 1 .. Len(prompts')
        BY <4>2, <4>3, SMTT(30)
      <4> QED
        BY <4>3, <4>4, <4>5, Zenon DEF IdFor
    <3>3. ASSUME v = w, NEW d \in dedup, d.run = job[w].run, d.host = job[w].host, eid'[w] = d.id
          PROVE  IdFor(eid[v], job[v])'
      <4>1. job[w] = Job(d.run, d.host)
        BY <3>3, ZenonT(60) DEF TypeOK, Jobs, Job
      <4>2. IdFor(d.id, job[w])
        BY <3>3, <4>1, Zenon DEF IdsKept, WindowIds
      <4>3. IdFor(d.id, job[w])'
        BY <1>1, <3>0, <4>2, Zenon
      <4> QED
        BY <3>0, <3>3, <4>3, Zenon DEF IdFor
    <3> QED
      BY <2>1, <3>1, <3>2, <3>3, ZenonT(60) DEF Coalesce, Window, TypeOK
  <2>2. ASSUME NEW w \in Workers,
               \A u \in Workers \ {w} : pc'[u] = pc[u] /\ eid'[u] = eid[u] /\ job'[u] = job[u],
               \/ pc'[w] \notin HasId
               \/ pc[w] \in HasId /\ eid'[w] = eid[w] /\ job'[w] = job[w]
        PROVE  WorkerIds'
    BY <1>1, <2>2, Zenon DEF IdsKept, WorkerIds
  <2>3. ASSUME NEW w \in Workers, NEW r \in Runs, NEW h \in Hosts, Resolve(w, r, h) PROVE WorkerIds'
    <3>1. /\ \A u \in Workers \ {w} : pc'[u] = pc[u] /\ eid'[u] = eid[u] /\ job'[u] = job[u]
          /\ pc'[w] \notin HasId
      BY <2>3, ZenonT(60) DEF Resolve, HasId, Parked, TypeOK
    <3> QED
      BY <2>2, <3>1, Zenon
  <2>4. ASSUME NEW w \in Workers, Policy(w) \/ Gate(w) PROVE WorkerIds'
    <3>1. /\ \A u \in Workers \ {w} : pc'[u] = pc[u] /\ eid'[u] = eid[u] /\ job'[u] = job[u]
          /\ pc'[w] \notin HasId
      BY <2>4, ZenonT(60) DEF Policy, Gate, Reply, Goto, HasId, Parked, TypeOK
    <3> QED
      BY <2>2, <3>1, ZenonT(60)
  <2>5. ASSUME NEW w \in Workers, NEW o, Reply(w, o) PROVE WorkerIds'
    <3>1. /\ \A u \in Workers \ {w} : pc'[u] = pc[u] /\ eid'[u] = eid[u] /\ job'[u] = job[u]
          /\ pc'[w] \notin HasId
      BY <2>5, ZenonT(60) DEF Reply, HasId, Parked, TypeOK
    <3> QED
      BY <2>2, <3>1, Zenon
  <2>6. ASSUME NEW w \in Workers, NEW l, Goto(w, l), pc[w] \in HasId PROVE WorkerIds'
    <3>1. \A u \in Workers \ {w} : pc'[u] = pc[u]
      BY <2>6, Zenon DEF Goto, TypeOK
    <3> QED
      BY <1>1, <2>6, <3>1, ZenonT(60) DEF Goto, IdsKept, WorkerIds
  <2>7. ASSUME NEW w \in Workers, WorkerStep(w), ~Coalesce(w) PROVE WorkerIds'
    BY <2>4, <2>5, <2>6, <2>7, ZenonT(60) DEF WorkerStep, Park, GetChannel, TrySend, ReceiveVerdict,
       PromptTimeout, Disconnected, GiveUp, HasId, Parked
  <2>8. ASSUME UNCHANGED <<pc, eid, job>> PROVE WorkerIds'
    BY <1>1, <2>8, ZenonT(60) DEF IdsKept, WorkerIds
  <2>9. ASSUME NEW r \in Runs, CliStep(r) \/ ChannelStep(r) PROVE UNCHANGED <<pc, eid, job>>
    BY <2>9, ZenonT(60) DEF CliStep, OpenChannel, SpawnChild, RegisterRoot, RootExits, CloseChannel,
       BaselineCommit, Sigint, Answer, ChannelStep, RegisterChannel, StartReader, WriteRequest,
       Dispatch, SendVerdict, ForgetWindow, LeaveLoop, ThreadExits
  <2> QED
    BY <2>1, <2>3, <2>7, <2>8, <2>9, Zenon
       DEF Next, ReaderExits, GcExpired, SweepFiles, SweepRecord,
       WindowExpires, WorkerIds
<1>3. WindowIds'
  <2>1. ASSUME dedup' \subseteq dedup PROVE WindowIds'
    BY <1>1, <2>1 DEF IdsKept, WindowIds
  <2>2. ASSUME NEW w \in Workers, Coalesce(w) PROVE WindowIds'
    <3>0. PICK n : n = [id |-> Len(prompts) + 1, run |-> job[w].run, host |-> job[w].host,
                        age |-> "live"]
      BY ZenonT(60)
    <3>1. prompts' = Append(prompts, job[w]) /\ job[w] \in Jobs
      BY <2>2, Zenon DEF Coalesce, TypeOK
    <3>2. Len(prompts') = Len(prompts) + 1 /\ prompts'[Len(prompts) + 1] = job[w]
          /\ Len(prompts) \in Nat
      BY <3>1, AppendProperties, LenProperties, SMTT(30) DEF TypeOK
    <3>3. job[w] = Job(n.run, n.host)
      BY <3>0, <3>1, Zenon DEF Job, Jobs
    <3>4. IdFor(n.id, Job(n.run, n.host))'
      BY <3>0, <3>2, <3>3, SMTT(30) DEF IdFor, Job
    <3>5. \A d \in dedup' : d \in dedup \/ d = n
      BY <2>2, <3>0 DEF Coalesce
    <3> QED
      BY <1>1, <3>4, <3>5, Zenon DEF IdsKept, WindowIds, Job
  <2>3. ASSUME WindowExpires PROVE WindowIds'
    <3>1. PICK d \in dedup : dedup' = (dedup \ {d}) \cup {[d EXCEPT !.age = "expired"]}
      BY <2>3 DEF WindowExpires
    <3> DEFINE n == [d EXCEPT !.age = "expired"]
    <3>2. n.id = d.id /\ n.run = d.run /\ n.host = d.host
      BY DEF TypeOK, Windows
    <3>3. \A e \in dedup' : e \in dedup \/ e = n
      BY <3>1, Zenon
    <3> HIDE DEF n
    <3> QED
      BY <1>1, <3>2, <3>3, Zenon DEF IdsKept, WindowIds, Job
  <2>4. ASSUME NEW w \in Workers, WorkerStep(w), ~Coalesce(w) PROVE dedup' \subseteq dedup
    BY <2>4, ZenonT(60) DEF WorkerStep, Policy, Gate, Park, GetChannel, TrySend, ReceiveVerdict,
                PromptTimeout, Disconnected, GiveUp
  <2>5. ASSUME NEW r \in Runs, CliStep(r) \/ ChannelStep(r) PROVE dedup' \subseteq dedup
    BY <2>5, Zenon DEF CliStep, OpenChannel, SpawnChild, RegisterRoot, RootExits, CloseChannel,
       BaselineCommit, Sigint, Answer, ChannelStep, RegisterChannel, StartReader, WriteRequest,
       Dispatch, SendVerdict, ForgetWindow, LeaveLoop, ThreadExits
  <2> QED
    BY <2>1, <2>2, <2>3, <2>4, <2>5, Zenon
       DEF Next, ReaderExits, GcExpired, SweepFiles, SweepRecord,
       Resolve
<1>4. QueueIds'
  <2>0. ASSUME NEW r \in Runs,
               queue' = queue \/ queue' = [queue EXCEPT ![r] = queue'[r]],
               \A m \in Elems(queue'[r]) : m \in Elems(queue[r]) \/ IdFor(m.id, Job(r, m.host))
        PROVE  QueueIds'
    <3> SUFFICES ASSUME NEW q \in Runs, NEW m \in Elems(queue'[q]) PROVE IdFor(m.id, Job(q, m.host))'
      BY Zenon DEF QueueIds, Elems, Job
    <3>1. IdFor(m.id, Job(q, m.host))
      BY <2>0, ZenonT(60) DEF IdsKept, QueueIds, TypeOK
    <3> QED
      BY <1>1, <3>1 DEF Job
  <2>1. ASSUME queue' = queue PROVE QueueIds'
    BY <1>1, <2>1, Zenon DEF IdsKept, QueueIds, Elems, Job
  <2>2. ASSUME NEW w \in Workers, TrySend(w) PROVE QueueIds'
    <3>1. PICK r \in Runs : r = job[w].run
      BY ZenonT(60) DEF TypeOK, Jobs
    <3>2. PICK m : m = [id |-> eid[w], host |-> job[w].host]
      BY Zenon
    <3>3. IdFor(m.id, Job(r, m.host))
      BY <2>2, <3>1, <3>2, ZenonT(60)
         DEF TrySend, HasId, Parked, IdsKept, WorkerIds, TypeOK, Jobs, Job
    <3>4. m \in Requests
      <4>1. Len(prompts) \in Nat
        BY LenProperties, Zenon DEF TypeOK
      <4> QED
        BY <3>2, <3>3, <4>1, BoundsAssumption, SMTT(30) DEF TypeOK, Jobs, IdFor, Ids, Requests
    <3>5. queue' = queue \/ queue' = [queue EXCEPT ![r] = Append(queue[r], m)]
      BY <2>2, <3>1, <3>2, Zenon DEF TrySend
    <3>6. Elems(Append(queue[r], m)) = Elems(queue[r]) \cup {m}
      BY <3>4, QueueElems, SMTT(30) DEF TypeOK
    <3> QED
      BY <2>0, <2>1, <3>3, <3>5, <3>6, Zenon DEF TypeOK
  <2>3. ASSUME NEW r \in Runs, queue[r] # << >>, queue' = [queue EXCEPT ![r] = Tail(queue[r])]
        PROVE  QueueIds'
    <3>1. Elems(Tail(queue[r])) \subseteq Elems(queue[r])
      BY <2>3, QueueElems DEF TypeOK
    <3> QED
      BY <2>0, <2>3, <3>1, Zenon DEF TypeOK
  <2>4. ASSUME NEW r \in Runs, ThreadExits(r) PROVE QueueIds'
    <3>1. Elems(<< >>) = {}
      BY QueueElems, EmptySeq, ZenonT(60)
    <3> QED
      BY <2>0, <2>4, <3>1, Zenon DEF ThreadExits, TypeOK
  <2>5. ASSUME NEW r \in Runs, ChannelStep(r) PROVE QueueIds'
    BY <2>1, <2>3, <2>4, <2>5 DEF ChannelStep, RegisterChannel, StartReader, WriteRequest,
       Dispatch, SendVerdict, ForgetWindow, LeaveLoop
  <2>6. ASSUME NEW r \in Runs, CliStep(r) PROVE queue' = queue
    BY <2>6, Zenon DEF CliStep, OpenChannel, SpawnChild, RegisterRoot, RootExits, CloseChannel,
       BaselineCommit, Sigint, Answer
  <2>7. ASSUME NEW w \in Workers, WorkerStep(w), ~TrySend(w) PROVE queue' = queue
    BY <2>7, Zenon DEF WorkerStep, Policy, Gate, Coalesce, Park, GetChannel, ReceiveVerdict,
                PromptTimeout, Disconnected, GiveUp
  <2> QED
    BY <2>1, <2>2, <2>5, <2>6, <2>7, Zenon
       DEF Next, ReaderExits, GcExpired, SweepFiles, SweepRecord,
       WindowExpires, Resolve
<1>5. ScreenIds'
  <2>0. ASSUME NEW r \in Runs,
               screen' = screen \/ screen' = [screen EXCEPT ![r] = screen'[r]],
               \A m \in Elems(screen'[r]) : m \in Elems(screen[r]) \/ IdFor(m.id, Job(r, m.host))
        PROVE  ScreenIds'
    <3> SUFFICES ASSUME NEW q \in Runs, NEW m \in Elems(screen'[q])
                 PROVE  IdFor(m.id, Job(q, m.host))'
      BY Zenon DEF ScreenIds, Elems, Job
    <3>1. IdFor(m.id, Job(q, m.host))
      BY <2>0, Zenon DEF IdsKept, ScreenIds, TypeOK
    <3> QED
      BY <1>1, <3>1 DEF Job
  <2>1. ASSUME screen' = screen PROVE ScreenIds'
    BY <1>1, <2>1, Zenon DEF IdsKept, ScreenIds, Elems, Job
  <2>2. ASSUME NEW r \in Runs, WriteRequest(r) PROVE ScreenIds'
    <3>1. PICK m : m = Head(queue[r])
      OBVIOUS
    <3>2. m \in Elems(queue[r]) /\ m \in Requests
      BY <2>2, <3>1, QueueElems, HeadTailProperties, Zenon DEF WriteRequest, TypeOK
    <3>3. screen[r] \in Seq(Requests)
      BY Zenon DEF TypeOK
    <3>4. Elems(Append(screen[r], m)) = Elems(screen[r]) \cup {m}
      BY <3>2, <3>3, QueueElems, Zenon
    <3>5. IdFor(m.id, Job(r, m.host))
      BY <3>2 DEF IdsKept, QueueIds
    <3>6. screen' = [screen EXCEPT ![r] = Append(screen[r], m)]
      BY <2>2, <3>1, Zenon DEF WriteRequest
    <3>7. screen'[r] = Append(screen[r], m)
      BY <3>6, Zenon DEF TypeOK
    <3> QED
      BY <2>0, <3>4, <3>5, <3>6, <3>7, Zenon
  <2>3. ASSUME NEW r \in Runs, NEW c \in UserChoices, Answer(r, c) PROVE ScreenIds'
    <3>1. Elems(Tail(screen[r])) \subseteq Elems(screen[r])
      BY <2>3, QueueElems, ZenonT(60) DEF Answer, TypeOK
    <3> QED
      BY <2>0, <2>3, <3>1, ZenonT(60) DEF Answer, TypeOK
  <2>4. ASSUME NEW r \in Runs, CloseChannel(r) PROVE ScreenIds'
    <3>1. Elems(<< >>) = {}
      BY QueueElems, EmptySeq, Zenon
    <3> QED
      BY <2>0, <2>4, <3>1, ZenonT(60) DEF CloseChannel, TypeOK
  <2>5. ASSUME NEW r \in Runs, CliStep(r) PROVE ScreenIds'
    BY <2>1, <2>3, <2>4, <2>5, ZenonT(60)
       DEF CliStep, OpenChannel, SpawnChild, RegisterRoot, RootExits,
       BaselineCommit, Sigint
  <2>6. ASSUME NEW r \in Runs, ChannelStep(r) PROVE ScreenIds'
    BY <2>1, <2>2, <2>6, Zenon DEF ChannelStep, RegisterChannel, StartReader, Dispatch, SendVerdict,
       ForgetWindow, LeaveLoop, ThreadExits
  <2>7. ASSUME NEW w \in Workers, WorkerStep(w) PROVE screen' = screen
    BY <2>7, Zenon
       DEF WorkerStep, Policy, Gate, Coalesce, Park, GetChannel, TrySend, ReceiveVerdict,
                PromptTimeout, Disconnected, GiveUp
  <2> QED
    BY <2>1, <2>5, <2>6, <2>7, Zenon DEF Next, ReaderExits, GcExpired, SweepFiles, SweepRecord,
       WindowExpires, Resolve
<1>6. InboxIds'
  <2>0. ASSUME NEW r \in Runs,
               inbox' = inbox \/ inbox' = [inbox EXCEPT ![r] = inbox'[r]],
               \A m \in Elems(inbox'[r]) : m \in Elems(inbox[r]) \/ IdFor(m.id, Job(r, m.host))
        PROVE  InboxIds'
    <3> SUFFICES ASSUME NEW q \in Runs, NEW m \in Elems(inbox'[q])
                 PROVE  IdFor(m.id, Job(q, m.host))'
      BY Zenon DEF InboxIds, Elems, Job
    <3>1. IdFor(m.id, Job(q, m.host))
      BY <2>0, ZenonT(60) DEF IdsKept, InboxIds, TypeOK
    <3> QED
      BY <1>1, <3>1 DEF Job
  <2>1. ASSUME inbox' = inbox PROVE InboxIds'
    BY <1>1, <2>1, Zenon DEF IdsKept, InboxIds, Elems, Job
  <2>2. ASSUME NEW r \in Runs, NEW c \in Answers, screen[r] # << >>,
               inbox' = [inbox EXCEPT ![r] = Append(@, [id |-> Head(screen[r]).id,
                            host |-> Head(screen[r]).host, choice |-> c])]
        PROVE  InboxIds'
    <3>1. PICK m : m = [id |-> Head(screen[r]).id, host |-> Head(screen[r]).host, choice |-> c]
      BY Zenon
    <3>2. Head(screen[r]) \in Elems(screen[r]) /\ Head(screen[r]) \in Requests
      BY <2>2, QueueElems, HeadTailProperties, ZenonT(60) DEF TypeOK
    <3>3. m \in Frames
      BY <3>1, <3>2, Zenon DEF Frames, Requests
    <3>4. Elems(Append(inbox[r], m)) = Elems(inbox[r]) \cup {m}
      BY <3>3, QueueElems, SMTT(30) DEF TypeOK
    <3>5. IdFor(m.id, Job(r, m.host))
      BY <3>1, <3>2, Zenon DEF IdsKept, ScreenIds
    <3>6. inbox' = [inbox EXCEPT ![r] = Append(inbox[r], m)]
      BY <2>2, <3>1, Zenon
    <3> QED
      BY <2>0, <3>4, <3>5, <3>6, Zenon DEF TypeOK
  <2>3. ASSUME NEW r \in Runs, NEW store \in {"ok", "err"}, Dispatch(r, store) PROVE InboxIds'
    <3>1. inbox' = [inbox EXCEPT ![r] = Tail(inbox[r])] /\ inbox[r] # << >>
      BY <2>3, Zenon DEF Dispatch
    <3>2. Elems(Tail(inbox[r])) \subseteq Elems(inbox[r])
      BY <3>1, QueueElems, Zenon DEF TypeOK
    <3> QED
      BY <2>0, <3>1, <3>2, ZenonT(60) DEF TypeOK
  <2>4. ASSUME NEW r \in Runs, ThreadExits(r) PROVE InboxIds'
    <3>1. Elems(<< >>) = {}
      BY QueueElems, EmptySeq, Zenon
    <3> QED
      BY <2>0, <2>4, <3>1, ZenonT(60) DEF ThreadExits, TypeOK
  <2>5. ASSUME NEW r \in Runs, CliStep(r) PROVE InboxIds'
    <3>1. UserChoices \subseteq Answers /\ "cancel" \in Answers
      BY BoundsAssumption DEF Answers
    <3> QED
      BY <2>1, <2>2, <2>5, <3>1, Zenon
         DEF CliStep, OpenChannel, SpawnChild, RegisterRoot, RootExits,
         CloseChannel, BaselineCommit, Answer, Sigint
  <2>6. ASSUME NEW r \in Runs, ChannelStep(r) PROVE InboxIds'
    BY <2>1, <2>3, <2>4, <2>6, Zenon DEF ChannelStep, RegisterChannel, StartReader, WriteRequest,
       SendVerdict, ForgetWindow, LeaveLoop
  <2>7. ASSUME NEW w \in Workers, WorkerStep(w) PROVE inbox' = inbox
    BY <2>7, Zenon
       DEF WorkerStep, Policy, Gate, Coalesce, Park, GetChannel, TrySend, ReceiveVerdict,
                PromptTimeout, Disconnected, GiveUp
  <2> QED
    BY <2>1, <2>5, <2>6, <2>7, Zenon DEF Next, ReaderExits, GcExpired, SweepFiles, SweepRecord,
       WindowExpires, Resolve
<1> QED
  BY <1>2, <1>3, <1>4, <1>5, <1>6 DEF IdsKept

-----------------------------------------------------------------------------
\* What the user allowed stays allowed.
LEMMA ApprovedGrows ==
  ASSUME answers \subseteq answers'
  PROVE  Approved \subseteq Approved'
  BY DEF Approved

\* Only the CLI's own steps add to the user's answers, and none removes one.
LEMMA AnswersKept == [Next]_vars => answers \subseteq answers'
<1> SUFFICES ASSUME [Next]_vars PROVE answers \subseteq answers'
  OBVIOUS
<1>1. ASSUME NEW r \in Runs, CliStep(r) PROVE answers \subseteq answers'
  BY <1>1, Zenon DEF CliStep, OpenChannel, SpawnChild, RegisterRoot, RootExits, CloseChannel,
     BaselineCommit, Sigint, Answer
<1>2. ASSUME NEW r \in Runs, ChannelStep(r) PROVE answers' = answers
  BY <1>2, Zenon DEF ChannelStep, RegisterChannel, StartReader, WriteRequest, Dispatch, SendVerdict,
     ForgetWindow, LeaveLoop, ThreadExits
<1>3. ASSUME NEW w \in Workers, WorkerStep(w) PROVE answers' = answers
  BY <1>3, Zenon DEF WorkerStep, Policy, Gate, Coalesce, Park, GetChannel, TrySend, ReceiveVerdict,
     PromptTimeout, Disconnected, GiveUp
<1> QED
  BY <1>1, <1>2, <1>3, ZenonT(60)
     DEF Next, ReaderExits, GcExpired, SweepFiles, SweepRecord, WindowExpires,
     Resolve

\* An allow on its way to a worker, and the allow a worker has answered with,
\* stays one the user gave for that run and destination.
LEMMA ApprovalsNext == IndInv /\ TypeOK' /\ [Next]_vars => Approvals'
<1> SUFFICES ASSUME IndInv, TypeOK', [Next]_vars PROVE Approvals'
  OBVIOUS
<1> USE DEF IndInv
<1>0. Approved \subseteq Approved'
  BY AnswersKept, ApprovedGrows
<1>1. InboxApproved'
  <2>0. ASSUME NEW r \in Runs,
               inbox' = inbox \/ inbox' = [inbox EXCEPT ![r] = inbox'[r]],
               \A m \in Elems(inbox'[r]) : m \in Elems(inbox[r]) \/
                  (m.choice \in {"once", "always"} => <<r, m.host>> \in Approved')
        PROVE  InboxApproved'
    <3> SUFFICES ASSUME NEW q \in Runs, NEW m \in Elems(inbox'[q]), m.choice \in {"once", "always"}
                 PROVE  <<q, m.host>> \in Approved'
      BY Zenon DEF InboxApproved, Elems
    <3> QED
      BY <1>0, <2>0, Zenon DEF Approvals, InboxApproved, TypeOK
  <2>1. ASSUME inbox' = inbox PROVE InboxApproved'
    BY <1>0, <2>1, Zenon DEF Approvals, InboxApproved, Elems
  <2>2. ASSUME NEW r \in Runs, NEW c \in Answers, screen[r] # << >>,
               inbox' = [inbox EXCEPT ![r] = Append(@, [id |-> Head(screen[r]).id,
                            host |-> Head(screen[r]).host, choice |-> c])],
               answers' = answers \cup {<<r, Head(screen[r]).host, c>>}
        PROVE  InboxApproved'
    <3>1. PICK m : m = [id |-> Head(screen[r]).id, host |-> Head(screen[r]).host, choice |-> c]
      BY Zenon
    <3>2. Head(screen[r]) \in Requests
      BY <2>2, HeadTailProperties, Zenon DEF TypeOK
    <3>3. m \in Frames
      BY <3>1, <3>2, ZenonT(60) DEF Frames, Requests
    <3>4. Elems(Append(inbox[r], m)) = Elems(inbox[r]) \cup {m}
      BY <3>3, QueueElems, SMTT(30) DEF TypeOK
    <3>5. m.choice \in {"once", "always"} => <<r, m.host>> \in Approved'
      <4>1. <<r, m.host, m.choice>> \in answers'
        BY <2>2, <3>1, Zenon
      <4>2. PICK a : a = <<r, m.host, m.choice>>
        BY Zenon
      <4>3. a \in answers' /\ <<a[1], a[2]>> = <<r, m.host>> /\ a[3] = m.choice
        BY <4>1, <4>2, Zenon
      <4>4. ASSUME a[3] \in {"once", "always"} PROVE <<a[1], a[2]>> \in Approved'
        BY <4>3, <4>4, ZenonT(60) DEF Approved
      <4> QED
        BY <4>3, <4>4, Zenon
    <3>6. inbox' = [inbox EXCEPT ![r] = Append(inbox[r], m)]
      BY <2>2, <3>1, Zenon
    <3> QED
      BY <2>0, <3>4, <3>5, <3>6, Zenon DEF TypeOK
  <2>3. ASSUME NEW r \in Runs, NEW store \in {"ok", "err"}, Dispatch(r, store) PROVE InboxApproved'
    <3>1. inbox' = [inbox EXCEPT ![r] = Tail(inbox[r])] /\ inbox[r] # << >>
      BY <2>3, Zenon DEF Dispatch
    <3>2. Elems(Tail(inbox[r])) \subseteq Elems(inbox[r])
      BY <3>1, QueueElems, Zenon DEF TypeOK
    <3> QED
      BY <2>0, <3>1, <3>2, ZenonT(60) DEF TypeOK
  <2>4. ASSUME NEW r \in Runs, ThreadExits(r) PROVE InboxApproved'
    <3>1. Elems(<< >>) = {}
      BY QueueElems, EmptySeq, Zenon
    <3> QED
      BY <2>0, <2>4, <3>1, Zenon DEF ThreadExits, TypeOK
  <2>5. ASSUME NEW r \in Runs, CliStep(r) PROVE InboxApproved'
    <3>1. UserChoices \subseteq Answers /\ "cancel" \in Answers
      BY BoundsAssumption DEF Answers
    <3> QED
      BY <2>1, <2>2, <2>5, <3>1, Zenon
         DEF CliStep, OpenChannel, SpawnChild, RegisterRoot, RootExits,
         CloseChannel, BaselineCommit, Answer, Sigint
  <2>6. ASSUME NEW r \in Runs, ChannelStep(r) PROVE InboxApproved'
    BY <2>1, <2>3, <2>4, <2>6, Zenon DEF ChannelStep, RegisterChannel, StartReader, WriteRequest,
       SendVerdict, ForgetWindow, LeaveLoop
  <2>7. ASSUME NEW w \in Workers, WorkerStep(w) PROVE inbox' = inbox
    BY <2>7, Zenon
       DEF WorkerStep, Policy, Gate, Coalesce, Park, GetChannel, TrySend, ReceiveVerdict,
                PromptTimeout, Disconnected, GiveUp
  <2> QED
    BY <2>1, <2>5, <2>6, <2>7, Zenon DEF Next, ReaderExits, GcExpired, SweepFiles, SweepRecord,
       WindowExpires, Resolve
<1>2. HandleApproved'
  <2>1. ASSUME NEW r \in Runs, NEW store \in {"ok", "err"}, Dispatch(r, store) PROVE HandleApproved'
    <3>1. PICK f : f = Head(inbox[r])
      BY Zenon
    <3>2. f \in Elems(inbox[r])
      BY <2>1, <3>1, QueueElems, Zenon DEF Dispatch, TypeOK
    <3>3. PICK v : v = IF f.choice = "once" \/ (f.choice = "always" /\ store = "ok")
                       THEN "allow" ELSE "deny"
      BY Zenon
    <3>4. \A d \in dispatching' : d \in dispatching \/
            \E e \in pending : /\ e.id = f.id /\ e.run = r
                               /\ d = [chan |-> r, host |-> e.host, waiter |-> e.waiter,
                                       stage |-> "taken", verdict |-> v]
      BY <2>1, <3>1, <3>3, ZenonT(60) DEF Dispatch, Owned, Entry
    <3>5. \A e \in pending : e.id = f.id /\ e.run = r => e.host = f.host
      <4> SUFFICES ASSUME NEW e \in pending, e.id = f.id, e.run = r PROVE e.host = f.host
        BY Zenon
      <4>1. e.waiter \in Workers
        BY Zenon DEF TypeOK, Entries
      <4>2. pc[e.waiter] \in HasId /\ eid[e.waiter] = f.id /\ job[e.waiter] = Job(r, e.host)
        BY ZenonT(60) DEF Waiters, EntryHasWaiter, HasId, Parked, Job
      <4>3. IdFor(f.id, Job(r, e.host))
        BY <4>1, <4>2, Zenon DEF IdsKept, WorkerIds
      <4>4. IdFor(f.id, Job(r, f.host))
        BY <3>2, Zenon DEF IdsKept, InboxIds
      <4>5. Job(r, e.host) = Job(r, f.host)
        BY <4>3, <4>4 DEF IdFor
      <4> QED
        BY <4>5, ZenonT(60) DEF Job
    <3>6. v = "allow" => <<r, f.host>> \in Approved
      BY <3>2, <3>3 DEF Approvals, InboxApproved
    <3> SUFFICES ASSUME NEW d \in dispatching', d.verdict = "allow"
                 PROVE  <<d.chan, d.host>> \in Approved'
      BY DEF HandleApproved
    <3>7. CASE d \in dispatching
      BY <1>0, <3>7, Zenon DEF Approvals, HandleApproved
    <3>8. ASSUME NEW e \in pending, e.id = f.id, e.run = r,
                 d = [chan |-> r, host |-> e.host, waiter |-> e.waiter, stage |-> "taken",
                      verdict |-> v]
          PROVE  <<d.chan, d.host>> \in Approved'
      <4>1. d.chan = r /\ d.host = f.host /\ v = "allow"
        BY <3>5, <3>8
      <4> QED
        BY <1>0, <3>6, <4>1, Zenon
    <3> QED
      BY <3>4, <3>7, <3>8, Zenon
  <2>2. ASSUME \A c \in dispatching' : \E d \in dispatching :
                  c.verdict = d.verdict /\ c.chan = d.chan /\ c.host = d.host
        PROVE  HandleApproved'
    BY <1>0, <2>2 DEF Approvals, HandleApproved
  <2>3. ASSUME NEW r \in Runs, SendVerdict(r) PROVE HandleApproved'
    <3>1. PICK d \in dispatching :
            dispatching' = (dispatching \ {d}) \cup {[d EXCEPT !.stage = "sent"]}
      BY <2>3 DEF SendVerdict
    <3>2. PICK s : s = [d EXCEPT !.stage = "sent"]
      BY Zenon
    <3>3. s.verdict = d.verdict /\ s.chan = d.chan /\ s.host = d.host
      BY <3>2 DEF TypeOK, Handles
    <3> QED
      BY <2>2, <3>1, <3>2, <3>3, Zenon
  <2>4. ASSUME NEW w \in Workers, dispatching' = WithoutReceiver(w) PROVE HandleApproved'
    <3>1. \A d \in dispatching : PlainStage(d)
      BY DEF PlainStage, TypeOK, Handles
    <3> QED
      BY <2>2, <2>4, <3>1, ZenonT(60) DEF WithoutReceiver, PlainStage
  <2>5. ASSUME dispatching' \subseteq dispatching PROVE HandleApproved'
    BY <2>2, <2>5
  <2>6. ASSUME NEW w \in Workers, WorkerStep(w) PROVE HandleApproved'
    BY <2>4, <2>5, <2>6, Zenon DEF WorkerStep, Policy, Gate, Coalesce, Park, GetChannel, TrySend,
       ReceiveVerdict, PromptTimeout, Disconnected, GiveUp
  <2>7. ASSUME NEW r \in Runs, ChannelStep(r) PROVE HandleApproved'
    BY <2>1, <2>3, <2>5, <2>7, Zenon DEF ChannelStep, RegisterChannel, StartReader, WriteRequest,
       ForgetWindow, LeaveLoop, ThreadExits
  <2>8. ASSUME NEW r \in Runs, CliStep(r) PROVE dispatching' \subseteq dispatching
    BY <2>8, Zenon DEF CliStep, OpenChannel, SpawnChild, RegisterRoot, RootExits, CloseChannel,
       BaselineCommit, Answer, Sigint
  <2> QED
    BY <2>5, <2>6, <2>7, <2>8, Zenon DEF Next, ReaderExits, GcExpired, SweepFiles, SweepRecord,
       WindowExpires, Resolve
<1>3. MailApproved' /\ AllowWasApproved'
  <2>0. ASSUME \A w \in Workers : mailbox'[w] = "allow" => KeyOf(w)' = KeyOf(w)
                                     /\ (mailbox[w] = "allow" \/ KeyOf(w) \in Approved),
               \A w \in Workers : out'[w] = "dns_prompt" => KeyOf(w)' = KeyOf(w)
                                     /\ (out[w] = "dns_prompt" \/ mailbox[w] = "allow")
        PROVE  MailApproved' /\ AllowWasApproved'
    BY <1>0, <2>0, Zenon DEF Approvals, MailApproved, AllowWasApproved
  <2>1. ASSUME UNCHANGED <<mailbox, out, job>> PROVE MailApproved' /\ AllowWasApproved'
    BY <2>0, <2>1, Zenon DEF KeyOf
  <2>2. ASSUME NEW w \in Workers, NEW o, Reply(w, o), o = "dns_prompt" => mailbox[w] = "allow"
        PROVE  MailApproved' /\ AllowWasApproved'
    <3>1. /\ mailbox'[w] = "empty" /\ out'[w] = o /\ job' = job
          /\ \A u \in Workers \ {w} : mailbox'[u] = mailbox[u] /\ out'[u] = out[u]
      BY <2>2, ZenonT(60) DEF Reply, TypeOK
    <3> QED
      BY <2>0, <2>2, <3>1, Zenon DEF KeyOf
  <2>3. ASSUME NEW w \in Workers, NEW l, Goto(w, l) PROVE MailApproved' /\ AllowWasApproved'
    BY <2>1, <2>3 DEF Goto
  <2>4. ASSUME NEW w \in Workers, WorkerStep(w) PROVE MailApproved' /\ AllowWasApproved'
    BY <2>1, <2>2, <2>3, <2>4, ZenonT(60)
       DEF WorkerStep, Policy, Gate, Coalesce, Park, GetChannel, TrySend,
       ReceiveVerdict, PromptTimeout, Disconnected, GiveUp
  <2>5. ASSUME NEW w \in Workers, NEW r \in Runs, NEW h \in Hosts, Resolve(w, r, h)
        PROVE  MailApproved' /\ AllowWasApproved'
    <3>1. mailbox[w] = "empty"
      BY <2>5, ZenonT(60) DEF Resolve, Waiters, MailIsFinal, Parked
    <3>2. /\ mailbox' = mailbox /\ out'[w] \in {"none", "dns_untracked"}
          /\ \A u \in Workers \ {w} : job'[u] = job[u] /\ out'[u] = out[u]
      BY <2>5, ZenonT(60) DEF Resolve, TypeOK
    <3> QED
      BY <2>0, <3>1, <3>2, ZenonT(60) DEF KeyOf
  <2>6. ASSUME NEW r \in Runs, SendVerdict(r) PROVE MailApproved' /\ AllowWasApproved'
    <3>1. PICK d \in dispatching :
            /\ mailbox' = IF d.stage = "taken" THEN [mailbox EXCEPT ![d.waiter] = d.verdict]
                          ELSE mailbox
            /\ UNCHANGED <<job, out>>
      BY <2>6 DEF SendVerdict
    <3>2. CASE d.stage # "taken"
      BY <2>1, <3>1, <3>2, Zenon
    <3>3. CASE d.stage = "taken"
      <4>1. d.waiter \in Workers /\ job[d.waiter] = Job(d.chan, d.host)
        BY <3>3, Zenon DEF TypeOK, Handles, Waiters, HandleOwnsWaiter
      <4>2. d.verdict = "allow" => KeyOf(d.waiter) \in Approved
        BY <4>1, SMTT(30) DEF Approvals, HandleApproved, KeyOf, Job
      <4>3. \A u \in Workers : mailbox'[u] = IF u = d.waiter THEN d.verdict ELSE mailbox[u]
        BY <3>1, <3>3, Zenon DEF TypeOK
      <4> QED
        BY <2>0, <3>1, <4>2, <4>3, Zenon DEF KeyOf
    <3> QED
      BY <3>2, <3>3
  <2>7. ASSUME NEW r \in Runs, LeaveLoop(r) PROVE MailApproved' /\ AllowWasApproved'
    <3>1. UNCHANGED <<job, out>> /\ \A w \in Workers : mailbox'[w] \in {"deny", mailbox[w]}
      BY <2>7, Zenon DEF LeaveLoop
    <3> QED
      BY <2>0, <3>1, ZenonT(60) DEF KeyOf
  <2>8. ASSUME NEW r \in Runs, ChannelStep(r) PROVE MailApproved' /\ AllowWasApproved'
    BY <2>1, <2>6, <2>7, <2>8, ZenonT(60)
       DEF ChannelStep, RegisterChannel, StartReader, WriteRequest,
       Dispatch, ForgetWindow, ThreadExits
  <2>9. ASSUME NEW r \in Runs, CliStep(r) PROVE UNCHANGED <<mailbox, out, job>>
    BY <2>9, Zenon DEF CliStep, OpenChannel, SpawnChild, RegisterRoot, RootExits, CloseChannel,
       BaselineCommit, Answer, Sigint
  <2> QED
    BY <2>1, <2>4, <2>5, <2>8, <2>9, Zenon
       DEF Next, ReaderExits, GcExpired, SweepFiles, SweepRecord,
       WindowExpires
<1> QED
  BY <1>1, <1>2, <1>3 DEF Approvals

-----------------------------------------------------------------------------
\* The inductive invariant holds initially.
LEMMA IndInit == Init => IndInv
<1> SUFFICES ASSUME Init PROVE IndInv
  OBVIOUS
<1>1. << >> \in Seq(Requests) /\ << >> \in Seq(Frames) /\ << >> \in Seq(Jobs) /\ Len(<< >>) = 0
  BY EmptySeq, Zenon
<1>2. TypeOK
  <2>1. PICK r \in Runs, h \in Hosts : TRUE
    BY RunsAssumption
  <2>2. [run |-> r, host |-> h] \in Jobs
    BY DEF Jobs
  <2>3. (CHOOSE j \in Jobs : TRUE) \in Jobs
    BY <2>2
  <2>4. job \in [Workers -> Jobs]
    BY <2>3, Zenon DEF Init
  <2> QED
    BY <1>1, <2>4, RunsAssumption, BoundsAssumption DEF Init, TypeOK, CliPhases, ThreadPhases,
       PcValues, Replies, DnsReplies
<1>3. Waiters
  BY DEF Init, Waiters, EntryHasWaiter, EntriesByKey, OneHandle, HandleOwnsWaiter, MailIsFinal
<1>4. IdsKept /\ Approvals
  <2>1. Elems(<< >>) = {}
    BY QueueElems, EmptySeq, Zenon
  <2>2. WorkerIds /\ WindowIds
    BY DEF Init, WorkerIds, WindowIds, HasId, Parked
  <2>3. QueueIds /\ ScreenIds /\ InboxIds /\ InboxApproved
    BY <2>1 DEF Init, QueueIds, ScreenIds, InboxIds, InboxApproved
  <2>4. HandleApproved /\ MailApproved /\ AllowWasApproved
    BY DEF Init, HandleApproved, MailApproved, AllowWasApproved
  <2> QED
    BY <2>2, <2>3, <2>4 DEF IdsKept, Approvals
<1> QED
  BY <1>2, <1>3, <1>4 DEF IndInv

\* The inductive invariant is kept by every step.
LEMMA IndNext == IndInv /\ [Next]_vars => IndInv'
<1> SUFFICES ASSUME IndInv, [Next]_vars PROVE IndInv'
  OBVIOUS
<1>1. TypeOK'
  BY TypeNext, Zenon DEF IndInv, IdsKept
<1>2. Waiters' /\ IdsKept' /\ Approvals'
  BY <1>1, WaitersNext, IdsNext, ApprovalsNext DEF IndInv
<1> QED
  BY <1>1, <1>2 DEF IndInv

\* The inductive invariant holds in every reachable state.
THEOREM Inductive == Spec => []IndInv
  BY IndInit, IndNext, PTL DEF Spec

\* Every variable keeps its type, for any number of workers, runs and hosts:
\* in particular every effective prompt id is one that was allocated.
THEOREM TypeCorrect == Spec => []TypeOK
<1>1. IndInv => TypeOK
  BY DEF IndInv
<1> QED
  BY <1>1, Inductive, PTL

\* DeferredResolveTable holds entries of parked workers only: no timeout,
\* dropped sender, drain or coalesced overwrite leaves one behind.
THEOREM TableHasWaiters == Spec => []EntryHasWaiter
<1>1. IndInv => EntryHasWaiter
  BY DEF IndInv, Waiters
<1> QED
  BY <1>1, Inductive, PTL

\* A Resolve is answered with addresses through the prompt path only if the
\* user of that run allowed that destination.
THEOREM AllowsAreApproved == Spec => []AllowWasApproved
<1>1. IndInv => AllowWasApproved
  BY DEF IndInv, Approvals
<1> QED
  BY <1>1, Inductive, PTL

-----------------------------------------------------------------------------
(* Causes: registered channels, denials and hard denies                     *)

\* The CLI of run r has closed its stream, which it never opens again.
Gone(r) == cli[r] \in {"closed", "done"}

\* A channel is registered by its thread, before the reader starts, and a loop
\* without registration, or a reader that is done, has seen the stream close.
Registration ==
    \A r \in Runs :
        /\ cli[r] = "prepared" => thread[r] = "none"
        /\ r \in registry => thread[r] \in {"registered", "loop", "drained"}
        /\ thread[r] = "registered" => r \in registry
        /\ reader[r] = "reading" => thread[r] \in {"loop", "drained", "exit"}
        /\ reader[r] = "done" => Gone(r)
        /\ thread[r] = "loop" => r \in registry \/ Gone(r)

\* What can deny the request of run r for host h: an answer of its user, or the
\* end of its channel.
Deniable(r, h) ==
    \/ \E c \in {"deny", "cancel", "always"} : <<r, h, c>> \in answers
    \/ Gone(r)

InboxGiven   == \A r \in Runs : \A m \in Elems(inbox[r]) : <<r, m.host, m.choice>> \in answers
HandleDenied == \A d \in dispatching : d.verdict = "deny" => Deniable(d.chan, d.host)
MailDenied   == \A w \in Workers : mailbox[w] = "deny" => Deniable(job[w].run, job[w].host)
Denials      == InboxGiven /\ HandleDenied /\ MailDenied /\ DenyHasCause

\* A hard deny gets past the policy only where the snapshot is gone.
HardKind(h) == Source[h] \in {"BuiltinDeny", "ConfirmedDeny"}
Prompting   == {"coalesce"} \cup HasId

HardStops ==
    \A w \in Workers :
        pc[w] \in Prompting /\ HardKind(job[w].host) => job[w].run \notin readable

Snapshots == readable \subseteq runRec /\ HardStops /\ HardDenyHolds

ServiceInv == Registration /\ Denials /\ Snapshots

-----------------------------------------------------------------------------

\* A closed channel stays closed.
LEMMA GoneStays ==
  ASSUME TypeOK, [Next]_vars, NEW r \in Runs, Gone(r)
  PROVE  Gone(r)'
<1>1. ASSUME NEW q \in Runs, CliStep(q) PROVE Gone(r)'
  BY <1>1, ZenonT(60) DEF CliStep, OpenChannel, SpawnChild, RegisterRoot, RootExits, CloseChannel,
     BaselineCommit, Sigint, Answer, Gone, TypeOK
<1>2. ASSUME NEW q \in Runs, ChannelStep(q) PROVE cli' = cli
  BY <1>2, Zenon DEF ChannelStep, RegisterChannel, StartReader, WriteRequest, Dispatch, SendVerdict,
     ForgetWindow, LeaveLoop, ThreadExits
<1>3. ASSUME NEW w \in Workers, WorkerStep(w) PROVE cli' = cli
  BY <1>3, Zenon DEF WorkerStep, Policy, Gate, Coalesce, Park, GetChannel, TrySend, ReceiveVerdict,
     PromptTimeout, Disconnected, GiveUp
<1> QED
  BY <1>1, <1>2, <1>3, ZenonT(60)
     DEF Next, ReaderExits, GcExpired, SweepFiles, SweepRecord, WindowExpires, Resolve, Gone

\* What can deny a request can deny it ever after.
LEMMA DeniableStays ==
  ASSUME TypeOK, [Next]_vars, NEW r \in Runs, NEW h, Deniable(r, h)
  PROVE  Deniable(r, h)'
  BY AnswersKept, GoneStays, Zenon DEF Deniable

-----------------------------------------------------------------------------
\* Every step of the CLI, of the channel thread and of its reader keeps the
\* registration in line with the thread.
LEMMA RegistrationNext == TypeOK /\ Registration /\ [Next]_vars => Registration'
<1> SUFFICES ASSUME TypeOK, Registration, [Next]_vars PROVE Registration'
  OBVIOUS
<1> DEFINE Fits(r) ==
        /\ cli[r] = "prepared" => thread[r] = "none"
        /\ r \in registry => thread[r] \in {"registered", "loop", "drained"}
        /\ thread[r] = "registered" => r \in registry
        /\ reader[r] = "reading" => thread[r] \in {"loop", "drained", "exit"}
        /\ reader[r] = "done" => Gone(r)
        /\ thread[r] = "loop" => r \in registry \/ Gone(r)
<1>0. \A r \in Runs : Fits(r)
  BY Zenon DEF Registration
<1>1. ASSUME UNCHANGED <<cli, thread, reader, registry>> PROVE Registration'
  BY <1>1, Zenon DEF Registration, Gone
<1>2. ASSUME NEW r \in Runs, Fits(r)', \A q \in Runs \ {r} :
               /\ cli'[q] = cli[q] /\ thread'[q] = thread[q] /\ reader'[q] = reader[q]
               /\ q \in registry' <=> q \in registry
      PROVE  Registration'
  BY <1>0, <1>2, Zenon DEF Registration, Gone
<1>3. ASSUME NEW r \in Runs, OpenChannel(r) PROVE Registration'
  <2>1. /\ \A q \in Runs \ {r} : cli'[q] = cli[q] /\ thread'[q] = thread[q]
        /\ cli'[r] = "opened" /\ thread'[r] \in {"none", "spawned"}
        /\ UNCHANGED <<reader, registry>>
    BY <1>0, <1>3, Zenon DEF OpenChannel, TypeOK
  <2>2. thread[r] = "none" /\ ~ Gone(r)
    BY <1>0, <1>3, Zenon DEF OpenChannel, Gone
  <2>3. Fits(r)'
    BY <1>0, <2>1, <2>2, Zenon DEF Gone
  <2> QED
    BY <1>2, <2>1, <2>3, Zenon
<1>4. ASSUME NEW r \in Runs, CliStep(r), ~ OpenChannel(r) PROVE Registration'
  <2>1. \/ UNCHANGED <<cli, thread, reader, registry>>
        \/ /\ \A q \in Runs \ {r} : cli'[q] = cli[q]
           /\ cli'[r] # "prepared" /\ UNCHANGED <<thread, reader, registry>>
    BY <1>4, ZenonT(60) DEF CliStep, SpawnChild, RegisterRoot, RootExits, CloseChannel,
       BaselineCommit, Sigint, Answer, TypeOK
  <2>2. Gone(r) => Gone(r)'
    BY GoneStays, Zenon
  <2>3. CASE /\ \A q \in Runs \ {r} : cli'[q] = cli[q]
             /\ cli'[r] # "prepared" /\ UNCHANGED <<thread, reader, registry>>
    <3>1. Fits(r)'
      BY <1>0, <2>2, <2>3, Zenon
    <3> QED
      BY <1>2, <2>3, <3>1, Zenon
  <2> QED
    BY <1>1, <2>1, <2>3, Zenon
<1>5. ASSUME NEW r \in Runs,
             RegisterChannel(r) \/ StartReader(r) \/ ReaderExits(r) \/ LeaveLoop(r) \/ ThreadExits(r)
      PROVE  Registration'
  <2>1. /\ \A q \in Runs \ {r} : /\ cli'[q] = cli[q] /\ thread'[q] = thread[q]
                                 /\ reader'[q] = reader[q] /\ (q \in registry' <=> q \in registry)
        /\ cli'[r] = cli[r] /\ (Gone(r)' <=> Gone(r))
    BY <1>5, ZenonT(60)
       DEF RegisterChannel, StartReader, ReaderExits, LeaveLoop, ThreadExits, TypeOK,
       Gone
  <2>2. \/ /\ thread[r] = "spawned" /\ thread'[r] = "registered" /\ r \in registry'
           /\ reader'[r] = reader[r]
        \/ /\ thread[r] = "registered" /\ thread'[r] = "loop" /\ reader'[r] = "reading"
           /\ (r \in registry' <=> r \in registry)
        \/ /\ thread[r] \in {"registered", "drained"} /\ thread'[r] = "exit" /\ r \notin registry'
           /\ reader'[r] = reader[r]
        \/ /\ reader[r] = "reading" /\ Gone(r) /\ reader'[r] = "done" /\ r \notin registry'
           /\ thread'[r] = thread[r]
        \/ /\ thread[r] = "loop" /\ thread'[r] = "drained" /\ reader'[r] = reader[r]
           /\ (r \in registry' <=> r \in registry)
    BY <1>5, ZenonT(60)
       DEF RegisterChannel, StartReader, ReaderExits, LeaveLoop, ThreadExits, TypeOK,
       InLoop, Gone
  <2>3. cli[r] = "prepared" => thread[r] = "none" /\ reader[r] \notin {"reading", "done"}
    BY <1>0, Zenon DEF Gone
  <2>4. thread[r] \in {"none", "spawned", "registered"} => reader[r] # "reading"
    BY <1>0, Zenon
  <2>5. Fits(r)'
    BY <1>0, <2>1, <2>2, <2>3, <2>4
  <2> QED
    BY <1>2, <2>1, <2>5, Zenon
<1>6. ASSUME NEW r \in Runs, ChannelStep(r) PROVE Registration'
  BY <1>1, <1>5, <1>6, Zenon
     DEF ChannelStep, WriteRequest, Dispatch, SendVerdict, ForgetWindow
<1>7. ASSUME NEW w \in Workers, WorkerStep(w) PROVE UNCHANGED <<cli, thread, reader, registry>>
  BY <1>7, Zenon DEF WorkerStep, Policy, Gate, Coalesce, Park, GetChannel, TrySend, ReceiveVerdict,
     PromptTimeout, Disconnected, GiveUp
<1> QED
  BY <1>1, <1>3, <1>4, <1>5, <1>6, <1>7, ZenonT(60)
     DEF Next, GcExpired, SweepFiles, SweepRecord, WindowExpires, Resolve

-----------------------------------------------------------------------------
\* Every frame in an inbox is an answer that the user of that run gave: only
\* render_loop and the SIGINT handler send one.
LEMMA InboxNext ==
  IndInv /\ TypeOK' /\ InboxGiven /\ [Next]_vars => InboxGiven'
<1> SUFFICES ASSUME IndInv, TypeOK', InboxGiven, [Next]_vars PROVE InboxGiven'
  OBVIOUS
<1> USE DEF IndInv
<1>0. answers \subseteq answers'
  BY AnswersKept
<1>1. ASSUME NEW r \in Runs,
             inbox' = inbox \/ inbox' = [inbox EXCEPT ![r] = inbox'[r]],
             \A m \in Elems(inbox'[r]) : m \in Elems(inbox[r]) \/ <<r, m.host, m.choice>> \in answers'
      PROVE  InboxGiven'
  <2> SUFFICES ASSUME NEW q \in Runs, NEW m \in Elems(inbox'[q])
               PROVE  <<q, m.host, m.choice>> \in answers'
    BY Zenon DEF InboxGiven, Elems
  <2> QED
    BY <1>0, <1>1, Zenon DEF InboxGiven, TypeOK
<1>2. ASSUME inbox' = inbox PROVE InboxGiven'
  BY <1>0, <1>2, Zenon DEF InboxGiven, Elems
<1>3. ASSUME NEW r \in Runs, NEW c \in Answers, screen[r] # << >>,
             inbox' = [inbox EXCEPT ![r] = Append(@, [id |-> Head(screen[r]).id,
                          host |-> Head(screen[r]).host, choice |-> c])],
             answers' = answers \cup {<<r, Head(screen[r]).host, c>>}
      PROVE  InboxGiven'
  <2>1. PICK m : m = [id |-> Head(screen[r]).id, host |-> Head(screen[r]).host, choice |-> c]
    BY Zenon
  <2>2. Head(screen[r]) \in Requests
    BY <1>3, HeadTailProperties, Zenon DEF TypeOK
  <2>3. m \in Frames
    BY <2>1, <2>2, ZenonT(60) DEF Frames, Requests
  <2>4. Elems(Append(inbox[r], m)) = Elems(inbox[r]) \cup {m}
    BY <2>3, QueueElems, SMTT(30) DEF TypeOK
  <2>5. <<r, m.host, m.choice>> \in answers'
    BY <1>3, <2>1, Zenon
  <2>6. inbox' = [inbox EXCEPT ![r] = Append(inbox[r], m)]
    BY <1>3, <2>1, Zenon
  <2> QED
    BY <1>1, <2>4, <2>5, <2>6, Zenon DEF TypeOK
<1>4. ASSUME NEW r \in Runs, NEW store \in {"ok", "err"}, Dispatch(r, store) PROVE InboxGiven'
  <2>1. inbox' = [inbox EXCEPT ![r] = Tail(inbox[r])] /\ inbox[r] # << >>
    BY <1>4, Zenon DEF Dispatch
  <2>2. Elems(Tail(inbox[r])) \subseteq Elems(inbox[r])
    BY <2>1, QueueElems, Zenon DEF TypeOK
  <2> QED
    BY <1>1, <2>1, <2>2, ZenonT(60) DEF TypeOK
<1>5. ASSUME NEW r \in Runs, ThreadExits(r) PROVE InboxGiven'
  <2>1. Elems(<< >>) = {}
    BY QueueElems, EmptySeq, Zenon
  <2> QED
    BY <1>1, <1>5, <2>1, Zenon DEF ThreadExits, TypeOK
<1>6. ASSUME NEW r \in Runs, CliStep(r) PROVE InboxGiven'
  <2>1. UserChoices \subseteq Answers /\ "cancel" \in Answers
    BY BoundsAssumption DEF Answers
  <2> QED
    BY <1>2, <1>3, <1>6, <2>1, Zenon
       DEF CliStep, OpenChannel, SpawnChild, RegisterRoot, RootExits, CloseChannel, BaselineCommit,
           Answer, Sigint
<1>7. ASSUME NEW r \in Runs, ChannelStep(r) PROVE InboxGiven'
  BY <1>2, <1>4, <1>5, <1>7, Zenon DEF ChannelStep, RegisterChannel, StartReader, WriteRequest,
     SendVerdict, ForgetWindow, LeaveLoop
<1>8. ASSUME NEW w \in Workers, WorkerStep(w) PROVE inbox' = inbox
  BY <1>8, Zenon DEF WorkerStep, Policy, Gate, Coalesce, Park, GetChannel, TrySend, ReceiveVerdict,
     PromptTimeout, Disconnected, GiveUp
<1> QED
  BY <1>2, <1>6, <1>7, <1>8, Zenon DEF Next, ReaderExits, GcExpired, SweepFiles, SweepRecord,
     WindowExpires, Resolve

\* The entry a frame takes out of the table was parked for the destination of
\* that frame (take_full_if_owned, under an id that keeps its request).
LEMMA TakenForFrame ==
  ASSUME IndInv, NEW r \in Runs, NEW f \in Elems(inbox[r]), NEW e \in pending, e.id = f.id, e.run = r
  PROVE  e.host = f.host
<1>1. e.waiter \in Workers
  BY Zenon DEF IndInv, TypeOK, Entries
<1>2. pc[e.waiter] \in HasId /\ eid[e.waiter] = f.id /\ job[e.waiter] = Job(r, e.host)
  BY ZenonT(60) DEF IndInv, Waiters, EntryHasWaiter, HasId, Parked, Job
<1>3. IdFor(f.id, Job(r, e.host))
  BY <1>1, <1>2, Zenon DEF IndInv, IdsKept, WorkerIds
<1>4. IdFor(f.id, Job(r, f.host))
  BY Zenon DEF IndInv, IdsKept, InboxIds
<1>5. Job(r, e.host) = Job(r, f.host)
  BY <1>3, <1>4 DEF IdFor
<1> QED
  BY <1>5, ZenonT(60) DEF Job

\* A denial that a channel thread is about to send has its cause in the answers
\* of that run's user (dispatch_response, dispatch_cancel).
LEMMA HandlesNext ==
  IndInv /\ InboxGiven /\ HandleDenied /\ [Next]_vars => HandleDenied'
<1> SUFFICES ASSUME IndInv, InboxGiven, HandleDenied, [Next]_vars PROVE HandleDenied'
  OBVIOUS
<1> USE DEF IndInv
<1>0. \A d \in dispatching : d.verdict = "deny" => Deniable(d.chan, d.host)'
  BY DeniableStays, Zenon DEF HandleDenied, TypeOK, Handles
<1>1. ASSUME NEW r \in Runs, NEW store \in {"ok", "err"}, Dispatch(r, store) PROVE HandleDenied'
  <2>1. PICK f : f = Head(inbox[r])
    BY Zenon
  <2>2. f \in Elems(inbox[r]) /\ f \in Frames
    BY <1>1, <2>1, QueueElems, HeadTailProperties, Zenon DEF Dispatch, TypeOK
  <2>3. PICK v : v = IF f.choice = "once" \/ (f.choice = "always" /\ store = "ok")
                     THEN "allow" ELSE "deny"
    BY Zenon
  <2>4. \A d \in dispatching' : d \in dispatching \/
          \E e \in pending : /\ e.id = f.id /\ e.run = r
                             /\ d = [chan |-> r, host |-> e.host, waiter |-> e.waiter,
                                     stage |-> "taken", verdict |-> v]
    BY <1>1, <2>1, <2>3, ZenonT(60) DEF Dispatch, Owned, Entry
  <2>5. v = "deny" => f.choice \in {"deny", "cancel", "always"}
    BY <2>2, <2>3, Zenon DEF Frames, Answers
  <2>6. <<r, f.host, f.choice>> \in answers
    BY <2>2, Zenon DEF InboxGiven
  <2>7. v = "deny" => Deniable(r, f.host)'
    BY <2>5, <2>6, DeniableStays, Zenon DEF Deniable
  <2> SUFFICES ASSUME NEW d \in dispatching', d.verdict = "deny"
               PROVE  Deniable(d.chan, d.host)'
    BY Zenon DEF HandleDenied, Deniable, Gone
  <2>8. ASSUME NEW e \in pending, e.id = f.id, e.run = r,
               d = [chan |-> r, host |-> e.host, waiter |-> e.waiter, stage |-> "taken",
                    verdict |-> v]
        PROVE  Deniable(d.chan, d.host)'
    <3>1. d.chan = r /\ d.host = e.host /\ v = "deny"
      BY <2>8, Zenon
    <3>2. e.host = f.host
      BY <2>2, <2>8, TakenForFrame, Zenon
    <3> QED
      BY <2>7, <3>1, <3>2, Zenon DEF Deniable, Gone
  <2> QED
    BY <1>0, <2>4, <2>8, Zenon
<1>2. ASSUME \A c \in dispatching' : \E d \in dispatching :
                c.verdict = d.verdict /\ c.chan = d.chan /\ c.host = d.host
      PROVE  HandleDenied'
  BY <1>0, <1>2, Zenon DEF HandleDenied, Deniable, Gone
<1>3. ASSUME NEW r \in Runs, SendVerdict(r) PROVE HandleDenied'
  <2>1. PICK d \in dispatching :
          dispatching' = (dispatching \ {d}) \cup {[d EXCEPT !.stage = "sent"]}
    BY <1>3, Zenon DEF SendVerdict
  <2>2. PICK s : s = [d EXCEPT !.stage = "sent"]
    BY Zenon
  <2>3. s.verdict = d.verdict /\ s.chan = d.chan /\ s.host = d.host
    BY <2>2 DEF TypeOK, Handles
  <2> QED
    BY <1>2, <2>1, <2>2, <2>3, Zenon
<1>4. ASSUME NEW w \in Workers, dispatching' = WithoutReceiver(w) PROVE HandleDenied'
  <2>1. \A d \in dispatching : PlainStage(d)
    BY DEF PlainStage, TypeOK, Handles
  <2> QED
    BY <1>2, <1>4, <2>1, ZenonT(60) DEF WithoutReceiver, PlainStage
<1>5. ASSUME dispatching' \subseteq dispatching PROVE HandleDenied'
  BY <1>2, <1>5, Zenon
<1>6. ASSUME NEW w \in Workers, WorkerStep(w) PROVE HandleDenied'
  BY <1>4, <1>5, <1>6, Zenon DEF WorkerStep, Policy, Gate, Coalesce, Park, GetChannel, TrySend,
     ReceiveVerdict, PromptTimeout, Disconnected, GiveUp
<1>7. ASSUME NEW r \in Runs, ChannelStep(r) PROVE HandleDenied'
  BY <1>1, <1>3, <1>5, <1>7, Zenon DEF ChannelStep, RegisterChannel, StartReader, WriteRequest,
     ForgetWindow, LeaveLoop, ThreadExits
<1>8. ASSUME NEW r \in Runs, CliStep(r) PROVE dispatching' \subseteq dispatching
  BY <1>8, Zenon DEF CliStep, OpenChannel, SpawnChild, RegisterRoot, RootExits, CloseChannel,
     BaselineCommit, Answer, Sigint
<1> QED
  BY <1>5, <1>6, <1>7, <1>8, Zenon DEF Next, ReaderExits, GcExpired, SweepFiles, SweepRecord,
     WindowExpires, Resolve

\* The loop of a channel thread ends only after its CLI closed the stream.
LEMMA LoopEndsClosed ==
  ASSUME Registration, NEW r \in Runs, LeaveLoop(r)
  PROVE  Gone(r)
  BY Zenon DEF LeaveLoop, InLoop, Registration, Gone

\* A denial in a worker's mailbox, and the denial it replied with, has its cause
\* in the worker's own run.
LEMMA MailsNext ==
  IndInv /\ Registration /\ Denials /\ [Next]_vars => MailDenied' /\ DenyHasCause'
<1> SUFFICES ASSUME IndInv, Registration, Denials, [Next]_vars PROVE MailDenied' /\ DenyHasCause'
  OBVIOUS
<1> USE DEF IndInv
<1> DEFINE Den(w) == Deniable(job[w].run, job[w].host)
<1>0. \A w \in Workers : job[w].run \in Runs /\ job[w] \in Jobs
  BY Zenon DEF TypeOK, Jobs
<1>1. \A w \in Workers : job'[w] = job[w] /\ Den(w) => Den(w)'
  BY <1>0, DeniableStays, Zenon DEF Deniable, Gone
<1>2. /\ \A w \in Workers : mailbox[w] = "deny" => Den(w)
      /\ \A w \in Workers : out[w] = "deny_user" => Den(w)
  BY Zenon DEF Denials, MailDenied, DenyHasCause, Deniable, Gone
<1>3. ASSUME \A w \in Workers : mailbox'[w] = "deny" => job'[w] = job[w]
                                   /\ (mailbox[w] = "deny" \/ Den(w)),
             \A w \in Workers : out'[w] = "deny_user" => job'[w] = job[w]
                                   /\ (out[w] = "deny_user" \/ mailbox[w] = "deny")
      PROVE  MailDenied' /\ DenyHasCause'
  <2>1. /\ \A w \in Workers : mailbox'[w] = "deny" => Den(w)'
        /\ \A w \in Workers : out'[w] = "deny_user" => Den(w)'
    BY <1>1, <1>2, <1>3, Zenon
  <2> QED
    BY <2>1, Zenon DEF MailDenied, DenyHasCause, Deniable, Gone
<1> HIDE DEF Den
<1>4. ASSUME UNCHANGED <<mailbox, out, job>> PROVE MailDenied' /\ DenyHasCause'
  BY <1>3, <1>4, Zenon
<1>5. ASSUME NEW w \in Workers, NEW o, Reply(w, o),
             o = "deny_user" => mailbox[w] \notin {"empty", "allow"}
      PROVE  MailDenied' /\ DenyHasCause'
  <2>1. /\ mailbox'[w] = "empty" /\ out'[w] = o /\ job' = job
        /\ \A u \in Workers \ {w} : mailbox'[u] = mailbox[u] /\ out'[u] = out[u]
    BY <1>5, ZenonT(60) DEF Reply, TypeOK
  <2>2. o = "deny_user" => mailbox[w] = "deny"
    BY <1>5, Zenon DEF TypeOK
  <2> QED
    BY <1>3, <2>1, <2>2, Zenon
<1>6. ASSUME NEW w \in Workers, NEW l, Goto(w, l) PROVE MailDenied' /\ DenyHasCause'
  BY <1>4, <1>6, Zenon DEF Goto
<1>7. ASSUME NEW w \in Workers, WorkerStep(w) PROVE MailDenied' /\ DenyHasCause'
  BY <1>4, <1>5, <1>6, <1>7, ZenonT(60)
     DEF WorkerStep, Policy, Gate, Coalesce, Park, GetChannel, TrySend, ReceiveVerdict,
         PromptTimeout, Disconnected, GiveUp
<1>8. ASSUME NEW w \in Workers, NEW r \in Runs, NEW h \in Hosts, Resolve(w, r, h)
      PROVE  MailDenied' /\ DenyHasCause'
  <2>1. mailbox[w] = "empty"
    BY <1>8, ZenonT(60) DEF Resolve, Waiters, MailIsFinal, Parked
  <2>2. /\ mailbox' = mailbox /\ out'[w] \in {"none", "dns_untracked"}
        /\ \A u \in Workers \ {w} : job'[u] = job[u] /\ out'[u] = out[u]
    BY <1>8, ZenonT(60) DEF Resolve, TypeOK
  <2> QED
    BY <1>3, <2>1, <2>2, ZenonT(60)
<1>9. ASSUME NEW r \in Runs, SendVerdict(r) PROVE MailDenied' /\ DenyHasCause'
  <2>1. PICK d \in dispatching :
          /\ mailbox' = IF d.stage = "taken" THEN [mailbox EXCEPT ![d.waiter] = d.verdict]
                        ELSE mailbox
          /\ UNCHANGED <<job, out>>
    BY <1>9, Zenon DEF SendVerdict
  <2>2. CASE d.stage # "taken"
    BY <1>4, <2>1, <2>2, Zenon
  <2>3. CASE d.stage = "taken"
    <3>1. d.waiter \in Workers /\ job[d.waiter] = Job(d.chan, d.host)
      BY <2>3, Zenon DEF TypeOK, Handles, Waiters, HandleOwnsWaiter
    <3>2. job[d.waiter].run = d.chan /\ job[d.waiter].host = d.host
      BY <3>1, SMT DEF Job
    <3>3. d.verdict = "deny" => Den(d.waiter)
      BY <3>2, Zenon DEF Denials, HandleDenied, Den
    <3>4. \A u \in Workers : mailbox'[u] = IF u = d.waiter THEN d.verdict ELSE mailbox[u]
      BY <2>1, <2>3, Zenon DEF TypeOK
    <3> QED
      BY <1>3, <2>1, <3>3, <3>4, Zenon
  <2> QED
    BY <2>2, <2>3, Zenon
<1>10. ASSUME NEW r \in Runs, LeaveLoop(r) PROVE MailDenied' /\ DenyHasCause'
  <2>1. /\ UNCHANGED <<job, out>>
        /\ \A w \in Workers : \/ mailbox'[w] = mailbox[w]
                              \/ \E e \in pending : e.run = r /\ e.waiter = w
    BY <1>10, Zenon DEF LeaveLoop, DrainForRun
  <2>2. ASSUME NEW e \in pending, e.run = r PROVE job[e.waiter].run = r
    <3>1. job[e.waiter] = [run |-> r, host |-> e.host]
      BY <2>2, Zenon DEF Waiters, EntryHasWaiter
    <3> QED
      BY <3>1, SMT
  <2>3. Gone(r)
    BY <1>10, LoopEndsClosed, Zenon
  <2>4. \A e \in pending : e.run = r => Den(e.waiter)
    BY <2>2, <2>3, Zenon DEF Den, Deniable
  <2> QED
    BY <1>3, <2>1, <2>4, ZenonT(60)
<1>11. ASSUME NEW r \in Runs, ChannelStep(r) PROVE MailDenied' /\ DenyHasCause'
  BY <1>4, <1>9, <1>10, <1>11, ZenonT(60)
     DEF ChannelStep, RegisterChannel, StartReader, WriteRequest, Dispatch, ForgetWindow, ThreadExits
<1>12. ASSUME NEW r \in Runs, CliStep(r) PROVE UNCHANGED <<mailbox, out, job>>
  BY <1>12, Zenon DEF CliStep, OpenChannel, SpawnChild, RegisterRoot, RootExits, CloseChannel,
     BaselineCommit, Answer, Sigint
<1> QED
  BY <1>4, <1>7, <1>8, <1>11, <1>12, Zenon
     DEF Next, ReaderExits, GcExpired, SweepFiles, SweepRecord, WindowExpires

\* Every step of PromptResolve preserves Denials.
LEMMA DenialsNext == IndInv /\ TypeOK' /\ Registration /\ Denials /\ [Next]_vars => Denials'
  BY InboxNext, HandlesNext, MailsNext, Zenon DEF Denials

-----------------------------------------------------------------------------
\* What the policy makes of a destination under a snapshot that can be read is
\* kept all the way to the reply, and the sweep takes the files before the record.
LEMMA SnapshotsNext == TypeOK /\ Snapshots /\ [Next]_vars => Snapshots'
<1> SUFFICES ASSUME TypeOK, Snapshots, [Next]_vars PROVE Snapshots'
  OBVIOUS
<1>0. /\ readable \subseteq runRec
      /\ \A w \in Workers : pc[w] \in Prompting /\ HardKind(job[w].host) => job[w].run \notin readable
      /\ \A w \in Workers : out[w] \in DnsReplies \ {"dns_untracked"} /\ HardKind(job[w].host)
                               => job[w].run \notin readable
  BY Zenon DEF Snapshots, HardStops, HardDenyHolds, HardKind
<1>1. ASSUME readable' \subseteq runRec',
             \A w \in Workers : pc'[w] \in Prompting /\ HardKind(job'[w].host)
                                   => job'[w].run \notin readable',
             \A w \in Workers : out'[w] \in DnsReplies \ {"dns_untracked"} /\ HardKind(job'[w].host)
                                   => job'[w].run \notin readable'
      PROVE  Snapshots'
  BY <1>1, Zenon DEF Snapshots, HardStops, HardDenyHolds, HardKind
<1>2. ASSUME readable' \subseteq readable, readable' \subseteq runRec', UNCHANGED <<pc, job, out>>
      PROVE  Snapshots'
  BY <1>0, <1>1, <1>2, Zenon
<1>3. ASSUME NEW w \in Workers, UNCHANGED <<readable, runRec, job>>,
             \A u \in Workers \ {w} : pc'[u] = pc[u] /\ out'[u] = out[u],
             \/ pc'[w] \notin Prompting /\ out'[w] \notin DnsReplies \ {"dns_untracked"}
             \/ HardKind(job[w].host) => job[w].run \notin readable
      PROVE  Snapshots'
  BY <1>0, <1>1, <1>3, ZenonT(60)
<1>4. ASSUME NEW w \in Workers, NEW o, Reply(w, o), UNCHANGED <<readable, runRec>>,
             \/ o \notin DnsReplies \ {"dns_untracked"}
             \/ HardKind(job[w].host) => job[w].run \notin readable
      PROVE  Snapshots'
  <2>1. /\ pc'[w] = "idle" /\ out'[w] = o /\ job' = job
        /\ \A u \in Workers \ {w} : pc'[u] = pc[u] /\ out'[u] = out[u]
    BY <1>4, ZenonT(60) DEF Reply, TypeOK
  <2>2. "idle" \notin Prompting
    BY Zenon DEF Prompting, HasId, Parked
  <2> QED
    BY <1>3, <1>4, <2>1, <2>2, Zenon
<1>5. ASSUME NEW w \in Workers, NEW l, Goto(w, l), UNCHANGED <<readable, runRec>>,
             HardKind(job[w].host) => job[w].run \notin readable
      PROVE  Snapshots'
  <2>1. job' = job /\ \A u \in Workers \ {w} : pc'[u] = pc[u] /\ out'[u] = out[u]
    BY <1>5, Zenon DEF Goto, TypeOK
  <2> QED
    BY <1>3, <1>5, <2>1, Zenon
<1>6. ASSUME NEW w \in Workers, NEW r \in Runs, NEW h \in Hosts, Resolve(w, r, h) PROVE Snapshots'
  <2>1. /\ \A u \in Workers \ {w} : pc'[u] = pc[u] /\ out'[u] = out[u] /\ job'[u] = job[u]
        /\ pc'[w] \in {"idle", "policy", "gate"} /\ out'[w] \in {"none", "dns_untracked"}
        /\ UNCHANGED <<readable, runRec>>
    BY <1>6, ZenonT(60) DEF Resolve, TypeOK
  <2>2. pc'[w] \notin Prompting /\ out'[w] \notin DnsReplies \ {"dns_untracked"}
    BY <2>1, Zenon DEF Prompting, HasId, Parked, DnsReplies
  <2> QED
    BY <1>0, <1>1, <2>1, <2>2, ZenonT(60)
<1>7. ASSUME NEW w \in Workers, Policy(w) \/ Gate(w) PROVE Snapshots'
  <2>1. UNCHANGED <<readable, runRec>>
    BY <1>7, Zenon DEF Policy, Gate
  <2>2. job[w].run \in readable => job[w].run \in runRec
    BY <1>0, Zenon
  <2>3. \/ Reply(w, "deny_policy") \/ Reply(w, "dns_untracked")
        \/ /\ \/ Reply(w, "dns_policy") \/ Reply(w, "dns_learn") \/ Goto(w, "coalesce")
           /\ HardKind(job[w].host) => job[w].run \notin readable
    <3>1. CASE Policy(w)
      BY <2>2, <3>1, ZenonT(60) DEF Policy, BlocksWithoutPrompt, HardKind
    <3>2. CASE Gate(w)
      BY <2>2, <3>2, ZenonT(60) DEF Gate, IsHardResolveDeny, HardKind
    <3> QED
      BY <1>7, <3>1, <3>2, Zenon
  <2>4. "deny_policy" \notin DnsReplies
    BY Zenon DEF DnsReplies
  <2> QED
    BY <1>4, <1>5, <2>1, <2>3, <2>4, Zenon
<1>8. ASSUME NEW w \in Workers, Coalesce(w) PROVE Snapshots'
  <2>1. /\ \A u \in Workers \ {w} : pc'[u] = pc[u] /\ out'[u] = out[u]
        /\ UNCHANGED <<readable, runRec, job>> /\ pc[w] \in Prompting
    BY <1>8, ZenonT(60) DEF Coalesce, TypeOK, Prompting
  <2> QED
    BY <1>0, <1>3, <2>1, Zenon
<1>9. ASSUME NEW w \in Workers, WorkerStep(w), ~ (Policy(w) \/ Gate(w) \/ Coalesce(w))
      PROVE  Snapshots'
  <2>1. pc[w] \in Prompting /\ UNCHANGED <<readable, runRec>>
    BY <1>9, ZenonT(60) DEF WorkerStep, Park, GetChannel, TrySend, ReceiveVerdict, PromptTimeout,
       Disconnected, GiveUp, Prompting, HasId, Parked
  <2>2. HardKind(job[w].host) => job[w].run \notin readable
    BY <1>0, <2>1, Zenon
  <2>3. (\E o : Reply(w, o)) \/ \E l : Goto(w, l)
    BY <1>9, ZenonT(60) DEF WorkerStep, Park, GetChannel, TrySend, ReceiveVerdict, PromptTimeout,
       Disconnected, GiveUp
  <2> QED
    BY <1>4, <1>5, <2>1, <2>2, <2>3, Zenon
<1>10. ASSUME NEW r \in Runs, CliStep(r) \/ ChannelStep(r) PROVE Snapshots'
  <2>1. UNCHANGED <<readable, runRec, pc, job, out>>
    BY <1>10, ZenonT(60)
       DEF CliStep, OpenChannel, SpawnChild, RegisterRoot, RootExits, CloseChannel,
       BaselineCommit, Answer, Sigint, ChannelStep, RegisterChannel, StartReader, WriteRequest,
       Dispatch, SendVerdict, ForgetWindow, LeaveLoop, ThreadExits
  <2> QED
    BY <1>0, <1>2, <2>1, Zenon
<1>11. ASSUME NEW r \in Runs, SweepFiles(r) \/ SweepRecord(r) PROVE Snapshots'
  <2>1. /\ readable' \subseteq readable /\ readable' \subseteq runRec' /\ UNCHANGED <<pc, job, out>>
    BY <1>0, <1>11, ZenonT(60) DEF SweepFiles, SweepRecord
  <2> QED
    BY <1>2, <2>1, Zenon
<1> QED
  BY <1>0, <1>2, <1>6, <1>7, <1>8, <1>9, <1>10, <1>11, ZenonT(60)
     DEF Next, ReaderExits, GcExpired, WindowExpires

-----------------------------------------------------------------------------
\* The invariant holds initially.
LEMMA ServiceInit == Init => ServiceInv
<1> SUFFICES ASSUME Init PROVE ServiceInv
  OBVIOUS
<1>1. Elems(<< >>) = {}
  BY QueueElems, EmptySeq, Zenon
<1>2. Registration
  BY DEF Init, Registration, Gone
<1>3. Denials
  BY <1>1 DEF Init, Denials, InboxGiven, HandleDenied, MailDenied, DenyHasCause
<1>4. Snapshots
  BY DEF Init, Snapshots, HardStops, HardDenyHolds, Prompting, HasId, Parked, DnsReplies
<1> QED
  BY <1>2, <1>3, <1>4, Zenon DEF ServiceInv

\* Every step preserves it.
LEMMA ServiceNext == IndInv /\ IndInv' /\ ServiceInv /\ [Next]_vars => ServiceInv'
  BY RegistrationNext, DenialsNext, SnapshotsNext, Zenon DEF ServiceInv, IndInv

\* Registration, Denials and Snapshots hold in every reachable state.
THEOREM CausesKnown == Spec => []ServiceInv
  BY Inductive, ServiceInit, ServiceNext, PTL DEF Spec

\* A channel thread that has returned, by any of the exits of
\* prompt_channel::run, has left no sender in the registry.
THEOREM ExitedChannelsUnregistered == Spec => []ExitedChannelUnregistered
<1>1. TypeOK /\ ServiceInv => ExitedChannelUnregistered
  BY Zenon DEF ServiceInv, Registration, ExitedChannelUnregistered, TypeOK
<1> QED
  BY <1>1, TypeCorrect, CausesKnown, PTL

\* A waiter that is sent a denial was denied by the user of its own run or by
\* the end of its own run's channel.
THEOREM DenialsHaveCauses == Spec => []DenyHasCause
<1>1. ServiceInv => DenyHasCause
  BY Zenon DEF ServiceInv, Denials
<1> QED
  BY <1>1, CausesKnown, PTL

\* No path through handle_resolve_frame gives a tracked run the addresses of a
\* built-in or confirmed deny while its snapshot can be read.
THEOREM HardDeniesHold == Spec => []HardDenyHolds
<1>1. ServiceInv => HardDenyHolds
  BY Zenon DEF ServiceInv, Snapshots
<1> QED
  BY <1>1, CausesKnown, PTL

-----------------------------------------------------------------------------
(* The refinement.                                                          *)

asking == [w \in Workers |-> IF pc[w] = "idle" THEN "no" ELSE "yes"]
closed == {r \in Runs : cli[r] \in {"closed", "done"}}
swept  == Runs \ readable

\* A reply with its cause is a reply of the service.
LEMMA ReplyRefines ==
  ASSUME TypeOK, NEW w \in Workers, NEW o, pc[w] # "idle", Reply(w, o),
         o \in Service!Replies, Service!Justified(o, job[w]), UNCHANGED <<cli, answers, readable>>
  PROVE  Service!Reply(w)
<1>1. pc' = [pc EXCEPT ![w] = "idle"] /\ job' = job /\ out' = [out EXCEPT ![w] = o]
  BY Zenon DEF Reply
<1>2. asking' = [asking EXCEPT ![w] = "no"] /\ asking[w] = "yes"
  BY <1>1, Zenon DEF asking, TypeOK
<1>3. closed' = closed /\ swept' = swept
  BY Zenon DEF closed, swept
<1> QED
  BY <1>1, <1>2, <1>3, Zenon DEF Service!Reply, asking, closed, swept

\* A step between request and reply, or one that is no worker's, is the service's
\* environment at work.
LEMMA OutsideRefines ==
  ASSUME TypeOK, [Next]_vars, UNCHANGED <<job, out>>, readable' \subseteq readable,
         \A w \in Workers : pc'[w] = "idle" <=> pc[w] = "idle"
  PROVE  Service!Outside
<1>1. asking' = asking
  BY Zenon DEF asking
<1>2. closed \subseteq closed'
  BY GoneStays, Zenon DEF closed, Gone
<1>3. swept \subseteq swept' /\ answers \subseteq answers'
  BY AnswersKept, Zenon DEF swept
<1> QED
  BY <1>1, <1>2, <1>3, Zenon DEF Service!Outside, asking, closed, swept

\* The request of a worker's job, in the service's words.
LEMMA HardIs ==
  ASSUME TypeOK, NEW w \in Workers
  PROVE  /\ Service!Hard(job[w]) <=> HardKind(job[w].host) /\ job[w].run \in readable
         /\ job[w].run \in Runs \ readable <=> job[w].run \notin readable
  BY Zenon DEF Service!Hard, HardKind, TypeOK, Jobs

\* The policy's own replies (try_handle_prompted_resolve, resolve_policy_deny)
\* have the cause the service asks for.
LEMMA PolicyRefines ==
  ASSUME TypeOK, Snapshots, [Next]_vars, NEW w \in Workers, Policy(w) \/ Gate(w)
  PROVE  Service!Reply(w) \/ Service!Outside
<1>0. /\ pc[w] # "idle" /\ UNCHANGED <<cli, answers, readable>>
      /\ job[w].run \in readable => job[w].run \in runRec
  BY Zenon DEF Policy, Gate, Snapshots
<1>1. ASSUME NEW o \in Service!Replies, Reply(w, o), Service!Justified(o, job[w])
      PROVE  Service!Reply(w)
  BY <1>0, <1>1, ReplyRefines, Zenon
<1>2. ASSUME Goto(w, "coalesce") PROVE Service!Outside
  <2>1. UNCHANGED <<job, out>> /\ \A u \in Workers : pc'[u] = "idle" <=> pc[u] = "idle"
    BY <1>0, <1>2, ZenonT(60) DEF Goto, TypeOK
  <2> QED
    BY <1>0, <2>1, OutsideRefines, Zenon
<1>3. \/ Goto(w, "coalesce") \/ Reply(w, "dns_untracked")
      \/ Reply(w, "dns_policy") /\ Source[job[w].host] = "Allow"
      \/ Reply(w, "dns_learn") /\ job[w].run \in Baseline
            /\ ~ (HardKind(job[w].host) /\ job[w].run \in readable)
      \/ Reply(w, "deny_policy") /\ (Source[job[w].host] # "Allow" \/ job[w].run \notin readable)
  <2>1. CASE Policy(w)
    BY <1>0, <2>1, ZenonT(60) DEF Policy, BlocksWithoutPrompt, HardKind
  <2>2. CASE Gate(w)
    BY <1>0, <2>2, ZenonT(60) DEF Gate, IsHardResolveDeny, HardKind
  <2> QED
    BY <2>1, <2>2, Zenon
<1>4. /\ {"dns_untracked", "dns_policy", "dns_learn", "deny_policy"} \subseteq Service!Replies
      /\ "dns_untracked" \in Service!Undecided
  BY Zenon DEF Service!Replies, Service!Undecided
<1> QED
  BY <1>1, <1>2, <1>3, <1>4, HardIs, ZenonT(60) DEF Service!Justified

\* The reply with a verdict has its cause in an answer of the run's user or in
\* the end of the run's channel.
LEMMA VerdictRefines ==
  ASSUME IndInv, ServiceInv, NEW w \in Workers, ReceiveVerdict(w)
  PROVE  Service!Reply(w)
<1> USE DEF IndInv
<1>0. pc[w] # "idle" /\ UNCHANGED <<cli, answers, readable>> /\ pc[w] \in Prompting
  BY ZenonT(60) DEF ReceiveVerdict, Prompting, HasId, Parked
<1>1. ~ Service!Hard(job[w])
  BY <1>0, HardIs, Zenon DEF ServiceInv, Snapshots, HardStops
<1>2. CASE mailbox[w] = "allow"
  <2>1. KeyOf(w) \in Approved
    BY <1>2, Zenon DEF Approvals, MailApproved
  <2>2. PICK a \in answers : KeyOf(w) = <<a[1], a[2]>> /\ a[3] \in {"once", "always"}
    BY <2>1, Zenon DEF Approved
  <2>3. a = <<job[w].run, job[w].host, a[3]>>
    <3>1. a \in Runs \X Hosts \X Answers
      BY <2>2, Zenon DEF TypeOK
    <3>2. a = <<a[1], a[2], a[3]>>
      BY ONLY <3>1
    <3>3. job[w].run = a[1] /\ job[w].host = a[2]
      BY <2>2, Zenon DEF KeyOf
    <3> QED
      BY ONLY <3>2, <3>3, Zenon
  <2>4. Service!Answered(job[w], {"once", "always"})
    BY <2>2, <2>3, Zenon DEF Service!Answered
  <2>5. Service!Justified("dns_prompt", job[w]) /\ "dns_prompt" \in Service!Replies
    BY <1>1, <2>4, Zenon DEF Service!Justified, Service!Replies
  <2> QED
    BY <1>0, <1>2, <2>5, ReplyRefines, Zenon DEF ReceiveVerdict
<1>3. CASE mailbox[w] = "deny"
  <2>1. Deniable(job[w].run, job[w].host) /\ job[w].run \in Runs
    BY <1>3, Zenon DEF ServiceInv, Denials, MailDenied, TypeOK, Jobs
  <2>2. \/ Service!Answered(job[w], {"deny", "cancel", "always"})
        \/ job[w].run \in {r \in Runs : cli[r] \in {"closed", "done"}}
    BY <2>1, Zenon DEF Deniable, Gone, Service!Answered
  <2>3. Service!Justified("deny_user", job[w]) /\ "deny_user" \in Service!Replies
    BY <2>2, Zenon DEF Service!Justified, Service!Replies
  <2> QED
    BY <1>0, <1>3, <2>3, ReplyRefines, Zenon DEF ReceiveVerdict
<1> QED
  BY <1>2, <1>3, Zenon DEF ReceiveVerdict, TypeOK

\* The other steps of a worker move on without a reply, or reply that nobody
\* decided.
LEMMA WorkerRefines ==
  ASSUME IndInv, ServiceInv, [Next]_vars, NEW w \in Workers, WorkerStep(w)
  PROVE  Service!Reply(w) \/ Service!Outside
<1> USE DEF IndInv
<1>1. CASE Policy(w) \/ Gate(w)
  BY <1>1, PolicyRefines, Zenon DEF ServiceInv
<1>2. CASE ReceiveVerdict(w)
  BY <1>2, VerdictRefines, Zenon
<1>3. CASE Coalesce(w)
  <2>1. /\ UNCHANGED <<job, out, readable>>
        /\ \A u \in Workers : pc'[u] = "idle" <=> pc[u] = "idle"
    BY <1>3, ZenonT(60) DEF Coalesce, TypeOK
  <2> QED
    BY <2>1, OutsideRefines, Zenon
<1>4. ASSUME Park(w) \/ GetChannel(w) \/ TrySend(w) \/ PromptTimeout(w) \/ Disconnected(w)
      PROVE  Service!Reply(w) \/ Service!Outside
  <2>1. pc[w] # "idle" /\ UNCHANGED <<cli, answers, readable>>
    BY <1>4, ZenonT(60) DEF Park, GetChannel, TrySend, PromptTimeout, Disconnected, GiveUp
  <2>2. \/ \E l \in {"get_channel", "try_send", "waiting"} : Goto(w, l)
        \/ \E o \in Service!Undecided : Reply(w, o)
    BY <1>4, ZenonT(60) DEF Park, GetChannel, TrySend, PromptTimeout, Disconnected, GiveUp,
       Service!Undecided
  <2>3. ASSUME NEW l \in {"get_channel", "try_send", "waiting"}, Goto(w, l) PROVE Service!Outside
    <3>1. UNCHANGED <<job, out>> /\ \A u \in Workers : pc'[u] = "idle" <=> pc[u] = "idle"
      BY <2>1, <2>3, ZenonT(60) DEF Goto, TypeOK
    <3> QED
      BY <2>1, <3>1, OutsideRefines, Zenon
  <2>4. ASSUME NEW o \in Service!Undecided, Reply(w, o) PROVE Service!Reply(w)
    <3>1. o \in Service!Replies /\ Service!Justified(o, job[w])
      BY Zenon DEF Service!Replies, Service!Justified
    <3> QED
      BY <2>1, <2>4, <3>1, ReplyRefines, Zenon
  <2> QED
    BY <2>2, <2>3, <2>4, Zenon
<1> QED
  BY <1>1, <1>2, <1>3, <1>4, Zenon DEF WorkerStep

\* A Resolve that arrives is a request of the service.
LEMMA ResolveRefines ==
  ASSUME TypeOK, NEW w \in Workers, NEW r \in Runs, NEW h \in Hosts, Resolve(w, r, h)
  PROVE  Service!Ask(w)
<1>1. /\ job' = [job EXCEPT ![w] = [run |-> r, host |-> h]]
      /\ pc[w] = "idle" /\ UNCHANGED <<cli, answers, readable>>
      /\ \/ pc' = pc /\ out' = [out EXCEPT ![w] = "dns_untracked"]
         \/ /\ \E l \in {"policy", "gate"} : pc' = [pc EXCEPT ![w] = l]
            /\ out' = [out EXCEPT ![w] = "none"]
  BY ZenonT(60) DEF Resolve
<1>2. asking[w] = "no" /\ closed' = closed /\ swept' = swept
  BY <1>1, Zenon DEF asking, closed, swept
<1>3. pc' = pc => asking' = asking
  BY Zenon DEF asking
<1>4. ASSUME NEW l \in {"policy", "gate"}, pc' = [pc EXCEPT ![w] = l]
      PROVE  asking' = [asking EXCEPT ![w] = "yes"]
  BY <1>4, Zenon DEF asking, TypeOK
<1> QED
  BY <1>1, <1>2, <1>3, <1>4, ZenonT(60) DEF Service!Ask, asking, closed, swept

\* Every step of PromptResolve is a step of ResolveService.
LEMMA NextRefines ==
  IndInv /\ ServiceInv /\ [Next]_vars => [Service!Next]_Service!vars
<1> SUFFICES ASSUME IndInv, ServiceInv, [Next]_vars PROVE Service!Next
  BY Zenon
<1> USE DEF IndInv
<1>1. ASSUME NEW w \in Workers, WorkerStep(w) PROVE Service!Next
  BY <1>1, WorkerRefines, Zenon DEF Service!Next
<1>2. ASSUME NEW w \in Workers, NEW r \in Runs, NEW h \in Hosts, Resolve(w, r, h)
      PROVE  Service!Next
  BY <1>2, ResolveRefines, Zenon DEF Service!Next
<1>3. ASSUME UNCHANGED <<pc, job, out>>, readable' \subseteq readable PROVE Service!Next
  BY <1>3, OutsideRefines, Zenon DEF Service!Next
<1>4. ASSUME NEW r \in Runs, CliStep(r) \/ ChannelStep(r) PROVE UNCHANGED <<pc, job, out, readable>>
  BY <1>4, ZenonT(60) DEF CliStep, OpenChannel, SpawnChild, RegisterRoot, RootExits, CloseChannel,
     BaselineCommit, Answer, Sigint, ChannelStep, RegisterChannel, StartReader, WriteRequest,
     Dispatch, SendVerdict, ForgetWindow, LeaveLoop, ThreadExits
<1>5. ASSUME NEW r \in Runs, ReaderExits(r) \/ GcExpired(r) \/ SweepFiles(r) \/ SweepRecord(r)
      PROVE  UNCHANGED <<pc, job, out>> /\ readable' \subseteq readable
  BY <1>5, Zenon DEF ReaderExits, GcExpired, SweepFiles, SweepRecord
<1>6. ASSUME WindowExpires \/ UNCHANGED vars
      PROVE  UNCHANGED <<pc, job, out>> /\ readable' \subseteq readable
  BY <1>6, Zenon DEF WindowExpires
<1> QED
  BY <1>1, <1>2, <1>3, <1>4, <1>5, <1>6, Zenon DEF Next

\* A daemon without requests is the service without requests.
LEMMA InitRefines == Init => Service!Init
<1> SUFFICES ASSUME Init PROVE Service!Init
  OBVIOUS
<1>1. PICK r \in Runs, h \in Hosts : TRUE
  BY RunsAssumption, Zenon
<1>2. [run |-> r, host |-> h] \in Jobs
  BY DEF Jobs
<1>3. PICK j \in Jobs : j = CHOOSE i \in Jobs : TRUE
  BY <1>2, Zenon
<1>4. job = [w \in Workers |-> j]
  BY <1>3 DEF Init
<1>5. \E i \in [run : Runs, host : Hosts] : job = [w \in Workers |-> i]
  BY <1>4, Zenon DEF Jobs
<1>6. asking = [w \in Workers |-> "no"] /\ closed = {} /\ swept = {}
  BY DEF Init, asking, closed, swept
<1> QED
  BY <1>5, <1>6, Zenon DEF Init, Service!Init, asking, closed, swept

\* The prompt path, with its tables, ids, windows, queues and threads, does what
\* ResolveService promises: one reply to each request, for the destination that
\* was asked for, and only with a cause that preceded it.
THEOREM PromptPathImplementsService == Spec => ImplementsService
  BY Inductive, CausesKnown, InitRefines, NextRefines, PTL DEF Spec, ImplementsService, Service!Spec
=============================================================================
