--------------------------- MODULE PromptResolve ---------------------------
(***************************************************************************)
(* Prompted name resolution in the daemon.                                 *)
(*                                                                         *)
(* A worker thread that serves a Resolve frame either answers at once from *)
(* the run's snapshot or parks: it allocates a prompt id, coalesces it in  *)
(* the dedup window, inserts a DeferredEntry, queues a PromptRequest on    *)
(* the run's prompt channel and waits for a verdict.  The channel thread   *)
(* writes the request to the CLI, whose user answers; its dispatcher takes *)
(* the entry back and sends the verdict.  Every lock section of            *)
(* send_prompted_resolve, prompt_channel::run and dispatch_response is an  *)
(* action, so all their interleavings are behaviours.                      *)
(*                                                                         *)
(* Abstractions: host and port are one value of Hosts; a host's verdict    *)
(* under the run's snapshot is the constant Source; the 5 s dedup window   *)
(* is a flag that expires; the 35 s wait may end at any time after the     *)
(* window of its own dedup entry; a DNS answer and a DNS failure are one   *)
(* reply "dns_*".                                                          *)
(***************************************************************************)
EXTENDS Naturals, Sequences, FiniteSets

CONSTANTS
    Workers,      \* worker threads that may serve a Resolve at the same time
    Runs,         \* run_uuids of `stt-guard wrap` invocations
    Hosts,        \* destinations (host, port)
    Source,       \* Source[h]: what evaluate_policy says of h under the snapshot
    Tty,          \* runs whose CLI has a terminal (RunRecord.is_tty)
    Baseline,     \* runs started with --learn (RunRecord.baseline_mode)
    QueueDepth,   \* capacity of the PromptRequest channel (64 in the code)
    MaxChannels,  \* MAX_CONCURRENT_CHANNELS (64 in the code)
    MaxPrompts,   \* bound: prompt ids allocated in a behaviour
    UserChoices,  \* bound: what the user, or a Ctrl-C ("cancel"), may choose
    SweptRuns     \* bound: runs whose root's death a sweep notices

SourceKinds == {"Allow", "HardRule", "BuiltinDeny", "ConfirmedDeny", "UserDeny",
                "SuspectDeny", "DefaultDeny"}

ASSUME SourceAssumption == Source \in [Hosts -> SourceKinds]
ASSUME RunsAssumption ==
    /\ Runs # {} /\ Hosts # {}
    /\ Tty \subseteq Runs /\ Baseline \subseteq Tty /\ SweptRuns \subseteq Runs
ASSUME BoundsAssumption ==
    /\ QueueDepth \in Nat /\ MaxChannels \in Nat /\ MaxPrompts \in Nat
    /\ UserChoices \subseteq {"once", "always", "deny", "cancel"}

VARIABLES
    \* the CLI of each run
    cli,          \* phase of run_orchestrator::run
    screen,       \* PromptRequests written to the CLI and not yet answered
    interrupted,  \* runs whose (single) SIGINT was handled
    \* the daemon's registries
    runRec,       \* ProcessTree.runs
    readable,     \* runs whose snapshot file is on disk
    registry,     \* ProcessTree.prompt_channels
    pending,      \* DeferredResolveTable.pending
    prompts,      \* the Resolve each prompt id was allocated for; its length is
                  \* DeferredResolveTable.counter
    dedup,        \* PromptDedup.pending
    staging,      \* BaselineStaging.inner
    \* the prompt-channel threads
    thread,       \* where each run's channel thread is
    reader,       \* its reader thread
    queue,        \* its bounded PromptRequest channel
    inbox,        \* frames of the CLI not yet dispatched
    dispatching,  \* the response or cancel a channel thread is dispatching
    \* the worker threads
    pc, job, eid, mailbox, out,
    \* what the user and the log saw
    answers,      \* <<run, host, choice>> given by the user
    learned,      \* <<run, host>> resolved by learn mode
    proposed,     \* <<run, host>> that BaselineCommit returned to the CLI
    rules,        \* <<run, host>> allow-always rules inserted in the rule store
    rows          \* decision rows sent to the log writer

cliVars    == <<cli, screen, interrupted>>
tableVars  == <<pending, prompts, dedup>>
treeVars   == <<runRec, readable>>
threadVars == <<thread, reader, queue, inbox, dispatching>>
workerVars == <<pc, job, eid, mailbox, out>>
seenVars   == <<answers, learned, proposed, rules, rows>>
vars == <<cliVars, tableVars, treeVars, registry, staging, threadVars, workerVars, seenVars>>

Ids      == 1 .. MaxPrompts
Keys     == Runs \X Hosts
Jobs     == [run : Runs, host : Hosts]
Entries  == [id : Ids, run : Runs, host : Hosts, waiter : Workers]
Windows  == [id : Ids, run : Runs, host : Hosts, age : {"live", "expired"}]
Requests == [id : Ids, host : Hosts]
Answers  == {"once", "always", "deny", "cancel"}
Frames   == [id : Ids, host : Hosts, choice : Answers]
\* A DeferredEntry taken out of the table by the thread of run `chan`: "orphan"
\* if its receiver gives up before the verdict is sent.
Handles  == [chan : Runs, host : Hosts, waiter : Workers,
             verdict : {"allow", "deny"}, stage : {"taken", "orphan", "sent"}]
NoHost   == "no_host"
Rows     == [run : Runs, host : Hosts \cup {NoHost}, verdict : {"Allow", "Block", "Gap"}]

CliPhases    == {"prepared", "opened", "spawned", "running", "exited", "closed", "done"}
ThreadPhases == {"none", "spawned", "registered", "loop", "drained", "exit"}
PcValues     == {"idle", "policy", "gate", "coalesce", "insert", "get_channel",
                 "try_send", "waiting"}
DnsReplies   == {"dns_untracked", "dns_policy", "dns_learn", "dns_fallback", "dns_prompt"}
Replies      == DnsReplies \cup {"none", "deny_policy", "deny_user", "deny_timeout",
                                 "deny_dropped", "closed"}

TypeOK ==
    /\ cli \in [Runs -> CliPhases]
    /\ screen \in [Runs -> Seq(Requests)]
    /\ interrupted \subseteq Runs
    /\ runRec \subseteq Runs
    /\ readable \subseteq Runs
    /\ registry \subseteq Runs
    /\ pending \subseteq Entries
    /\ prompts \in Seq(Jobs) /\ Len(prompts) <= MaxPrompts
    /\ dedup \subseteq Windows
    /\ staging \subseteq Keys
    /\ thread \in [Runs -> ThreadPhases]
    /\ reader \in [Runs -> {"none", "reading", "done"}]
    /\ queue \in [Runs -> Seq(Requests)]
    /\ inbox \in [Runs -> Seq(Frames)]
    /\ dispatching \subseteq Handles
    /\ pc \in [Workers -> PcValues]
    /\ job \in [Workers -> Jobs]
    /\ eid \in [Workers -> Ids \cup {0}]
    /\ mailbox \in [Workers -> {"empty", "allow", "deny"}]
    /\ out \in [Workers -> Replies]
    /\ answers \subseteq Runs \X Hosts \X Answers
    /\ learned \subseteq Keys
    /\ proposed \subseteq Keys
    /\ rules \subseteq Keys
    /\ rows \subseteq Rows

Init ==
    /\ cli = [r \in Runs |-> "prepared"]
    /\ screen = [r \in Runs |-> << >>]
    /\ interrupted = {}
    /\ runRec = Runs
    /\ readable = Runs
    /\ registry = {}
    /\ pending = {} /\ prompts = << >> /\ dedup = {}
    /\ staging = {}
    /\ thread = [r \in Runs |-> "none"]
    /\ reader = [r \in Runs |-> "none"]
    /\ queue = [r \in Runs |-> << >>]
    /\ inbox = [r \in Runs |-> << >>]
    /\ dispatching = {}
    /\ pc = [w \in Workers |-> "idle"]
    /\ job \in [Workers -> {CHOOSE j \in Jobs : TRUE}]
    /\ eid = [w \in Workers |-> 0]
    /\ mailbox = [w \in Workers |-> "empty"]
    /\ out = [w \in Workers |-> "none"]
    /\ answers = {} /\ learned = {} /\ proposed = {} /\ rules = {} /\ rows = {}

\* Variant: the dedup key without the host.
WindowOfRun(r, h) == {d \in dedup : d.run = r}

Window(r, h) == {d \in dedup : d.run = r /\ d.host = h}
Entry(i)     == {e \in pending : e.id = i}
Owned(i, r)  == {e \in Entry(i) : e.run = r}
KeyOf(w)     == <<job[w].run, job[w].host>>

-----------------------------------------------------------------------------
(* The CLI: run_orchestrator::run, its render loop and its SIGINT handler.  *)

\* PromptChannel::open, answered by handle_prompt_channel_init_frame: the cap
\* is read from the registry, the thread registers itself later.  On an error
\* ack (or without a terminal) the run goes on without a channel.
OpenChannel(r) ==
    /\ cli[r] = "prepared"
    /\ cli' = [cli EXCEPT ![r] = "opened"]
    /\ thread' = IF r \in Tty /\ r \in runRec /\ Cardinality(registry) < MaxChannels
                 THEN [thread EXCEPT ![r] = "spawned"] ELSE thread
    /\ UNCHANGED <<screen, interrupted, tableVars, treeVars, registry, staging, reader,
                   queue, inbox, dispatching, workerVars, seenVars>>

\* spawn_wrapped_with_pgid: the child runs, and is unknown to the daemon
\* until RegisterRoot.
SpawnChild(r) ==
    /\ cli[r] = "opened"
    /\ cli' = [cli EXCEPT ![r] = "spawned"]
    /\ UNCHANGED <<screen, interrupted, tableVars, treeVars, registry, staging, threadVars,
                   workerVars, seenVars>>

RegisterRoot(r) ==
    /\ cli[r] = "spawned"
    /\ cli' = [cli EXCEPT ![r] = "running"]
    /\ UNCHANGED <<screen, interrupted, tableVars, treeVars, registry, staging, threadVars,
                   workerVars, seenVars>>

\* child.wait() returns; descendants may go on resolving.
RootExits(r) ==
    /\ cli[r] = "running"
    /\ cli' = [cli EXCEPT ![r] = "exited"]
    /\ UNCHANGED <<screen, interrupted, tableVars, treeVars, registry, staging, threadVars,
                   workerVars, seenVars>>

\* The writer half is dropped and the stream shut down in both directions.
CloseChannel(r) ==
    /\ cli[r] = "exited"
    /\ cli' = [cli EXCEPT ![r] = "closed"]
    /\ screen' = [screen EXCEPT ![r] = << >>]
    /\ UNCHANGED <<interrupted, tableVars, treeVars, registry, staging, threadVars,
                   workerVars, seenVars>>

\* present_learn_review and the daemon's handle_baseline_commit: without a
\* RunRecord the request fails; otherwise the run's staging is consumed.
BaselineCommit(r) ==
    /\ cli[r] = "closed"
    /\ r \in Baseline
    /\ cli' = [cli EXCEPT ![r] = "done"]
    /\ IF r \in runRec
       THEN /\ proposed' = proposed \cup {k \in staging : k[1] = r}
            /\ staging' = {k \in staging : k[1] # r}
       ELSE UNCHANGED <<proposed, staging>>
    /\ UNCHANGED <<screen, interrupted, tableVars, treeVars, registry, threadVars,
                   workerVars, answers, learned, rules, rows>>

\* render_loop: the user answers the prompt on screen; a failed render cancels it.
Answer(r, c) ==
    /\ cli[r] \notin {"closed", "done"}
    /\ screen[r] # << >>
    /\ screen' = [screen EXCEPT ![r] = Tail(@)]
    /\ inbox' = [inbox EXCEPT ![r] =
                   Append(@, [id |-> Head(screen[r]).id, host |-> Head(screen[r]).host,
                              choice |-> c])]
    /\ answers' = answers \cup {<<r, Head(screen[r]).host, c>>}
    /\ UNCHANGED <<cli, interrupted, tableVars, treeVars, registry, staging, thread, reader,
                   queue, dispatching, workerVars, learned, proposed, rules, rows>>

\* handle_sigint: cancels the prompt being rendered, which the render loop
\* still answers afterwards.  The handler thread serves one signal only.
Sigint(r) ==
    /\ cli[r] = "running"
    /\ "cancel" \in UserChoices
    /\ r \notin interrupted
    /\ screen[r] # << >>
    /\ interrupted' = interrupted \cup {r}
    /\ inbox' = [inbox EXCEPT ![r] =
                   Append(@, [id |-> Head(screen[r]).id, host |-> Head(screen[r]).host,
                              choice |-> "cancel"])]
    /\ answers' = answers \cup {<<r, Head(screen[r]).host, "cancel">>}
    /\ UNCHANGED <<cli, screen, tableVars, treeVars, registry, staging, thread, reader,
                   queue, dispatching, workerVars, learned, proposed, rules, rows>>

-----------------------------------------------------------------------------
(* Workers: handle_resolve_frame and what it calls.                         *)

Reply(w, o) ==
    /\ pc' = [pc EXCEPT ![w] = "idle"]
    /\ out' = [out EXCEPT ![w] = o]
    /\ eid' = [eid EXCEPT ![w] = 0]
    /\ mailbox' = [mailbox EXCEPT ![w] = "empty"]
    /\ UNCHANGED job

Goto(w, l) ==
    /\ pc' = [pc EXCEPT ![w] = l]
    /\ UNCHANGED <<job, eid, mailbox, out>>

\* A tracked process of run r asks for h.  prompt_eligible_run picks the path;
\* a peer without a node or a RunRecord is resolved unconditionally.
Resolve(w, r, h) ==
    /\ pc[w] = "idle"
    /\ cli[r] \notin {"prepared", "opened"}
    /\ Len(prompts) + Cardinality({v \in Workers : pc[v] \in {"policy", "coalesce"}})
          < MaxPrompts
    /\ job' = [job EXCEPT ![w] = [run |-> r, host |-> h]]
    /\ IF cli[r] = "spawned" \/ r \notin runRec
       THEN pc' = pc /\ out' = [out EXCEPT ![w] = "dns_untracked"]
       ELSE /\ pc' = [pc EXCEPT ![w] = IF r \in Tty \cap registry THEN "policy" ELSE "gate"]
            /\ out' = [out EXCEPT ![w] = "none"]
    /\ UNCHANGED <<cliVars, tableVars, treeVars, registry, staging, threadVars, eid, mailbox,
                   seenVars>>

\* Variant: only the built-in deny is checked before prompting.
BlocksOnlyBuiltin(src) == src = "BuiltinDeny"

\* prompt_policy_blocks_without_prompt and is_hard_resolve_deny.
BlocksWithoutPrompt(src) == src \in {"ConfirmedDeny", "BuiltinDeny"}
IsHardResolveDeny(src)   == src \in {"ConfirmedDeny", "BuiltinDeny", "HardRule"}

BlockRow(r, h) == [run |-> r, host |-> h, verdict |-> "Block"]

\* try_handle_prompted_resolve after the eligibility check; a snapshot that
\* cannot be read counts as DefaultDeny here.
Policy(w) ==
    LET r == job[w].run
        h == job[w].host
        src == IF r \in runRec /\ r \in readable THEN Source[h] ELSE "DefaultDeny"
    IN  /\ pc[w] = "policy"
        /\ \/ /\ src = "Allow"
              /\ Reply(w, "dns_policy")
              /\ UNCHANGED <<staging, learned, rows>>
           \/ /\ BlocksWithoutPrompt(src)
              /\ Reply(w, "deny_policy")
              /\ rows' = rows \cup {BlockRow(r, h)}
              /\ UNCHANGED <<staging, learned>>
           \/ /\ src \notin {"Allow", "SuspectDeny"} /\ ~BlocksWithoutPrompt(src)
              /\ r \in Baseline
              /\ Reply(w, "dns_learn")
              /\ staging' = staging \cup {<<r, h>>}
              /\ learned' = learned \cup {<<r, h>>}
              /\ UNCHANGED rows
           \/ /\ src # "Allow" /\ ~BlocksWithoutPrompt(src)
              /\ r \notin Baseline \/ src = "SuspectDeny"
              /\ Goto(w, "coalesce")
              /\ UNCHANGED <<staging, learned, rows>>
        /\ UNCHANGED <<cliVars, tableVars, treeVars, registry, threadVars,
                       answers, proposed, rules>>

\* resolve_policy_deny for a run without a prompt channel, then the plain DNS
\* answer; an unreadable snapshot is denied here.
Gate(w) ==
    LET r == job[w].run
        h == job[w].host
        hard == IsHardResolveDeny(Source[h])
    IN  /\ pc[w] = "gate"
        /\ \/ /\ r \notin runRec
              /\ Reply(w, "dns_untracked")
              /\ UNCHANGED <<staging, learned, rows>>
           \/ /\ r \in runRec \cap readable
              /\ Source[h] = "Allow"
              /\ Reply(w, "dns_policy")
              /\ UNCHANGED <<staging, learned, rows>>
           \/ /\ r \in runRec \cap readable \cap Baseline
              /\ Source[h] # "Allow" /\ ~hard
              /\ Reply(w, "dns_learn")
              /\ staging' = staging \cup {<<r, h>>}
              /\ learned' = learned \cup {<<r, h>>}
              /\ UNCHANGED rows
           \/ /\ r \in runRec
              /\ r \notin readable \/ (Source[h] # "Allow" /\ (r \notin Baseline \/ hard))
              /\ Reply(w, "deny_policy")
              /\ rows' = rows \cup {BlockRow(r, h)}
              /\ UNCHANGED <<staging, learned>>
        /\ UNCHANGED <<cliVars, tableVars, treeVars, registry, threadVars,
                       answers, proposed, rules>>

\* Variant: the id is read before the counter moves and is not its own.
NextPromptIdReused == Len(prompts)

NextPromptId == Len(prompts) + 1

\* next_prompt_id and PromptDedup::coalesce: an unexpired window of the same
\* key lends its id, otherwise a new window opens under the new id.
Coalesce(w) ==
    LET r == job[w].run
        h == job[w].host
        live == {d \in Window(r, h) : d.age = "live"}
        new == NextPromptId
    IN  /\ pc[w] = "coalesce"
        /\ Len(prompts) < MaxPrompts
        /\ prompts' = Append(prompts, job[w])
        /\ pc' = [pc EXCEPT ![w] = "insert"]
        /\ \/ /\ live = {}
              /\ eid' = [eid EXCEPT ![w] = new]
              /\ dedup' = (dedup \ Window(r, h))
                             \cup {[id |-> new, run |-> r, host |-> h, age |-> "live"]}
           \/ \E d \in live : eid' = [eid EXCEPT ![w] = d.id] /\ dedup' = dedup
        /\ UNCHANGED <<cliVars, pending, treeVars, registry, staging, threadVars, job,
                       mailbox, out, seenVars>>

\* DeferredResolveTable::insert under the effective id; an entry already there
\* is overwritten and its sender dropped.
Park(w) ==
    /\ pc[w] = "insert"
    /\ pending' = (pending \ Entry(eid[w]))
                     \cup {[id |-> eid[w], run |-> job[w].run, host |-> job[w].host,
                            waiter |-> w]}
    /\ Goto(w, "get_channel")
    /\ UNCHANGED <<cliVars, prompts, dedup, treeVars, registry, staging, threadVars, seenVars>>

\* The receiving end of worker w's verdict channel is dropped.
WithoutReceiver(w) ==
    {IF d.waiter = w /\ d.stage = "taken" THEN [d EXCEPT !.stage = "orphan"] ELSE d :
       d \in dispatching}

\* get_prompt_channel: without a channel the entry is taken back and the
\* connection closed without a reply.
GetChannel(w) ==
    /\ pc[w] = "get_channel"
    /\ \/ /\ job[w].run \in registry
          /\ Goto(w, "try_send")
          /\ UNCHANGED <<pending, dispatching>>
       \/ /\ job[w].run \notin registry
          /\ pending' = pending \ Entry(eid[w])
          /\ dispatching' = WithoutReceiver(w)
          /\ Reply(w, "closed")
    /\ UNCHANGED <<cliVars, prompts, dedup, treeVars, registry, staging, thread, reader,
                   queue, inbox, seenVars>>

\* channel.try_send: a full queue, or one whose receiver is gone, falls back to
\* plain resolution.
TrySend(w) ==
    LET r == job[w].run
        ok == thread[r] # "exit" /\ Len(queue[r]) < QueueDepth
    IN  /\ pc[w] = "try_send"
        /\ \/ /\ ok
              /\ queue' = [queue EXCEPT ![r] =
                             Append(@, [id |-> eid[w], host |-> job[w].host])]
              /\ Goto(w, "waiting")
              /\ UNCHANGED <<pending, dispatching>>
           \/ /\ ~ok
              /\ pending' = pending \ Entry(eid[w])
              /\ dispatching' = WithoutReceiver(w)
              /\ Reply(w, "dns_fallback")
              /\ UNCHANGED queue
        /\ UNCHANGED <<cliVars, prompts, dedup, treeVars, registry, staging, thread, reader,
                       inbox, seenVars>>

\* recv_timeout returns a verdict.
ReceiveVerdict(w) ==
    /\ pc[w] = "waiting"
    /\ mailbox[w] # "empty"
    /\ Reply(w, IF mailbox[w] = "allow" THEN "dns_prompt" ELSE "deny_user")
    /\ UNCHANGED <<cliVars, tableVars, treeVars, registry, staging, threadVars, seenVars>>

SenderAlive(w) ==
    \/ \E e \in pending : e.waiter = w
    \/ \E d \in dispatching : d.waiter = w /\ d.stage = "taken"

\* Variant: the worker leaves its entry in the table.
GiveUpKeepsEntry(w, o) ==
    /\ dedup' = dedup \ Window(job[w].run, job[w].host)
    /\ dispatching' = WithoutReceiver(w)
    /\ Reply(w, o)
    /\ UNCHANGED <<cliVars, pending, prompts, treeVars, registry, staging, thread, reader, queue,
                   inbox, seenVars>>

\* The error arm of recv_timeout: whatever entry holds the id is taken, the
\* window of the key forgotten, and the request denied.
GiveUp(w, o) ==
    /\ pending' = pending \ Entry(eid[w])
    /\ dedup' = dedup \ Window(job[w].run, job[w].host)
    /\ dispatching' = WithoutReceiver(w)
    /\ Reply(w, o)
    /\ UNCHANGED <<cliVars, prompts, treeVars, registry, staging, thread, reader, queue,
                   inbox, seenVars>>

\* Variant: recv without a timeout.
RecvWithoutTimeout(w) == FALSE

\* 35 s have passed, so the 5 s window opened under the worker's id is over.
PromptTimeout(w) ==
    /\ pc[w] = "waiting"
    /\ mailbox[w] = "empty"
    /\ SenderAlive(w)
    /\ \A d \in Window(job[w].run, job[w].host) : d.id = eid[w] => d.age = "expired"
    /\ GiveUp(w, "deny_timeout")

\* The sender was dropped without a verdict.
Disconnected(w) ==
    /\ pc[w] = "waiting"
    /\ mailbox[w] = "empty"
    /\ ~SenderAlive(w)
    /\ GiveUp(w, "deny_dropped")

-----------------------------------------------------------------------------
(* The prompt-channel thread of a run and its reader: prompt_channel::run.  *)

\* set_prompt_channel.
RegisterChannel(r) ==
    /\ thread[r] = "spawned"
    /\ thread' = [thread EXCEPT ![r] = "registered"]
    /\ registry' = registry \cup {r}
    /\ UNCHANGED <<cliVars, tableVars, treeVars, staging, reader, queue, inbox, dispatching,
                   workerVars, seenVars>>

\* The reader thread starts and the select loop begins; or cloning the stream
\* or spawning the reader fails and the channel is taken back.
StartReader(r) ==
    /\ thread[r] = "registered"
    /\ \/ /\ thread' = [thread EXCEPT ![r] = "loop"]
          /\ reader' = [reader EXCEPT ![r] = "reading"]
          /\ UNCHANGED registry
       \/ /\ thread' = [thread EXCEPT ![r] = "exit"]
          /\ registry' = registry \ {r}
          /\ UNCHANGED reader
    /\ UNCHANGED <<cliVars, tableVars, treeVars, staging, queue, inbox, dispatching,
                   workerVars, seenVars>>

\* Variant: the reader goes on after the end of the stream, until its loop is gone.
ReaderIgnoresEof(r) ==
    /\ reader[r] = "reading"
    /\ thread[r] = "exit"
    /\ reader' = [reader EXCEPT ![r] = "done"]
    /\ registry' = registry \ {r}
    /\ UNCHANGED <<cliVars, tableVars, treeVars, staging, thread, queue, inbox, dispatching,
                   workerVars, seenVars>>

\* The reader sees the end of the stream and takes the channel off the registry.
ReaderExits(r) ==
    /\ reader[r] = "reading"
    /\ cli[r] \in {"closed", "done"}
    /\ reader' = [reader EXCEPT ![r] = "done"]
    /\ registry' = registry \ {r}
    /\ UNCHANGED <<cliVars, tableVars, treeVars, staging, thread, queue, inbox, dispatching,
                   workerVars, seenVars>>

InLoop(r) == thread[r] = "loop" /\ \A d \in dispatching : d.chan # r

\* recv(rx): the request is written to the CLI.
WriteRequest(r) ==
    /\ InLoop(r)
    /\ queue[r] # << >>
    /\ cli[r] \notin {"closed", "done"}
    /\ queue' = [queue EXCEPT ![r] = Tail(@)]
    /\ screen' = [screen EXCEPT ![r] = Append(@, Head(queue[r]))]
    /\ UNCHANGED <<cli, interrupted, tableVars, treeVars, registry, staging, thread, reader,
                   inbox, dispatching, workerVars, seenVars>>

\* The first half of dispatch_response and dispatch_cancel: take_full_if_owned
\* takes the entry of this run, the row is logged and an allow-always rule
\* inserted (`store`: whether handle_insert_user_rule accepts it).  Without an entry there
\* is no one to wake, but row and rule are written all the same.  (The row of a
\* cancel follows the wake-up in the code; no step reads the rows.)
Dispatch(r, store) ==
    LET f == Head(inbox[r])
        owned == Owned(f.id, r)
        foreign == Entry(f.id) \ owned
        allow == f.choice = "once" \/ (f.choice = "always" /\ store = "ok")
        kind == IF allow THEN "Allow" ELSE IF f.choice = "cancel" THEN "Gap" ELSE "Block"
        host == IF owned = {} \/ f.choice = "cancel" THEN NoHost ELSE f.host
    IN  /\ InLoop(r)
        /\ inbox[r] # << >>
        /\ f.choice = "always" \/ store = "err"
        /\ inbox' = [inbox EXCEPT ![r] = Tail(@)]
        /\ pending' = pending \ owned
        /\ dispatching' = dispatching \cup
             {[chan |-> r, host |-> e.host, waiter |-> e.waiter, stage |-> "taken",
               verdict |-> IF allow THEN "allow" ELSE "deny"] : e \in owned}
        /\ rules' = IF f.choice = "always" /\ store = "ok" THEN rules \cup {<<r, f.host>>} ELSE rules
        /\ rows' = IF f.choice = "cancel" /\ foreign # {} THEN rows
                   ELSE rows \cup {[run |-> r, host |-> host, verdict |-> kind]}
        /\ UNCHANGED <<cliVars, prompts, dedup, treeVars, registry, staging, thread, reader,
                       queue, workerVars, answers, learned, proposed>>

\* entry.sender.send: lost if the receiver has given up.
SendVerdict(r) ==
    \E d \in dispatching :
        /\ d.chan = r /\ d.stage # "sent"
        /\ mailbox' = IF d.stage = "taken" THEN [mailbox EXCEPT ![d.waiter] = d.verdict] ELSE mailbox
        /\ dispatching' = (dispatching \ {d}) \cup {[d EXCEPT !.stage = "sent"]}
        /\ UNCHANGED <<cliVars, tableVars, treeVars, registry, staging, thread, reader, queue,
                       inbox, pc, job, eid, out, seenVars>>

\* prompt_dedup.forget of the dispatched entry's key.
ForgetWindow(r) ==
    \E d \in dispatching :
        /\ d.chan = r /\ d.stage = "sent"
        /\ dedup' = dedup \ Window(r, d.host)
        /\ dispatching' = dispatching \ {d}
        /\ UNCHANGED <<cliVars, pending, prompts, treeVars, registry, staging, thread, reader,
                       queue, inbox, workerVars, seenVars>>

\* Variant: the drain does not look at the run.
DrainEveryRun(r) == pending

DrainForRun(r) == {e \in pending : e.run = r}

\* The select loop ends (the write failed, every sender is gone, or the reader
\* is), and drain_for_run denies every parked entry of the run.
LeaveLoop(r) ==
    LET mine == DrainForRun(r)
    IN  /\ InLoop(r)
        /\ \/ /\ queue[r] # << >> /\ cli[r] \in {"closed", "done"}
              /\ queue' = [queue EXCEPT ![r] = Tail(@)]
           \/ /\ queue[r] = << >> /\ r \notin registry
              /\ \A w \in Workers : pc[w] \in {"try_send", "waiting"} => job[w].run # r
              /\ UNCHANGED queue
           \/ /\ inbox[r] = << >> /\ reader[r] = "done"
              /\ UNCHANGED queue
        /\ thread' = [thread EXCEPT ![r] = "drained"]
        /\ pending' = pending \ mine
        /\ mailbox' = [w \in Workers |->
                         IF \E e \in mine : e.waiter = w THEN "deny" ELSE mailbox[w]]
        /\ dedup' = dedup \ UNION {Window(r, e.host) : e \in mine}
        /\ UNCHANGED <<cliVars, prompts, treeVars, registry, staging, reader, inbox,
                       dispatching, pc, job, eid, out, seenVars>>

\* Variant: the thread relies on its reader to take the channel off the registry.
ThreadExitsRegistered(r) ==
    /\ thread[r] = "drained"
    /\ thread' = [thread EXCEPT ![r] = "exit"]
    /\ staging' = {k \in staging : k[1] # r}
    /\ queue' = [queue EXCEPT ![r] = << >>]
    /\ inbox' = [inbox EXCEPT ![r] = << >>]
    /\ UNCHANGED <<cliVars, tableVars, treeVars, registry, reader, dispatching, workerVars,
                   seenVars>>

\* The thread takes its channel off the registry, discards the run's baseline
\* staging and returns, dropping the receiver of the queue.
ThreadExits(r) ==
    /\ thread[r] = "drained"
    /\ thread' = [thread EXCEPT ![r] = "exit"]
    /\ registry' = registry \ {r}
    /\ staging' = {k \in staging : k[1] # r}
    /\ queue' = [queue EXCEPT ![r] = << >>]
    /\ inbox' = [inbox EXCEPT ![r] = << >>]
    /\ UNCHANGED <<cliVars, tableVars, treeVars, reader, dispatching, workerVars, seenVars>>

\* gc_tick: PromptDedup::gc_expired drops the expired windows of every run.
GcExpired(r) ==
    /\ InLoop(r)
    /\ \E d \in dedup : d.age = "expired"
    /\ dedup' = {d \in dedup : d.age = "live"}
    /\ UNCHANGED <<cliVars, pending, prompts, treeVars, registry, staging, threadVars,
                   workerVars, seenVars>>

-----------------------------------------------------------------------------
(* Time and the snapshot sweep.                                             *)

\* Five seconds pass since the window opened.
WindowExpires ==
    \E d \in dedup :
        /\ d.age = "live"
        /\ dedup' = (dedup \ {d}) \cup {[d EXCEPT !.age = "expired"]}
        /\ UNCHANGED <<cliVars, pending, prompts, treeVars, registry, staging, threadVars,
                       workerVars, seenVars>>

\* gc_sweep finds the root of run r dead: it removes the snapshot files, and
\* then the RunRecord.
SweepFiles(r) ==
    /\ r \in SweptRuns
    /\ cli[r] \in {"exited", "closed", "done"}
    /\ r \in readable
    /\ readable' = readable \ {r}
    /\ UNCHANGED <<cliVars, tableVars, runRec, registry, staging, threadVars, workerVars,
                   seenVars>>

SweepRecord(r) ==
    /\ r \in runRec \ readable
    /\ runRec' = runRec \ {r}
    /\ UNCHANGED <<cliVars, tableVars, readable, registry, staging, threadVars, workerVars,
                   seenVars>>

-----------------------------------------------------------------------------
CliStep(r) ==
    \/ OpenChannel(r) \/ SpawnChild(r) \/ RegisterRoot(r) \/ RootExits(r)
    \/ CloseChannel(r) \/ BaselineCommit(r) \/ Sigint(r)
    \/ \E c \in UserChoices : Answer(r, c)

ChannelStep(r) ==
    \/ RegisterChannel(r) \/ StartReader(r) \/ WriteRequest(r)
    \/ \E store \in {"ok", "err"} : Dispatch(r, store)
    \/ SendVerdict(r) \/ ForgetWindow(r) \/ LeaveLoop(r) \/ ThreadExits(r)

WorkerStep(w) ==
    \/ Policy(w) \/ Gate(w) \/ Coalesce(w) \/ Park(w) \/ GetChannel(w) \/ TrySend(w)
    \/ ReceiveVerdict(w) \/ PromptTimeout(w) \/ Disconnected(w)

Next ==
    \/ \E r \in Runs : CliStep(r) \/ ChannelStep(r) \/ ReaderExits(r) \/ GcExpired(r)
                        \/ SweepFiles(r) \/ SweepRecord(r)
    \/ \E w \in Workers : WorkerStep(w) \/ \E r \in Runs, h \in Hosts : Resolve(w, r, h)
    \/ WindowExpires

Spec == Init /\ [][Next]_vars

\* The scheduler runs every thread that can run, and time passes.  Nothing is
\* assumed of the CLI, of its user or of the sweep.
Fairness ==
    /\ \A w \in Workers : WF_vars(WorkerStep(w))
    /\ \A r \in Runs : WF_vars(ChannelStep(r)) /\ WF_vars(ReaderExits(r))
    /\ WF_vars(WindowExpires)

FairSpec == Spec /\ Fairness

-----------------------------------------------------------------------------
(* Properties. *)

Approved == {<<a[1], a[2]>> : a \in {b \in answers : b[3] \in {"once", "always"}}}

\* A Resolve answered through the prompt path is answered with addresses only
\* if the user of the same run chose to allow the same destination: neither a
\* coalesced id, nor a reused table slot, nor a late answer hands one prompt's
\* verdict to another request (send_prompted_resolve, dispatch_response).
AllowWasApproved ==
    \A w \in Workers : out[w] = "dns_prompt" => KeyOf(w) \in Approved

\* Every entry of the deferred table belongs to a worker that is parked on it
\* for that very run and destination, so the table cannot outgrow the worker
\* pool and no entry is left behind by a timeout, a dropped sender or a drain.
EntryHasWaiter ==
    \A e \in pending :
        /\ pc[e.waiter] \in {"get_channel", "try_send", "waiting"}
        /\ eid[e.waiter] = e.id
        /\ job[e.waiter] = [run |-> e.run, host |-> e.host]

\* A prompt-channel thread that has returned has left no sender in the
\* registry, whichever of its exits it took (prompt_channel::run): the slot
\* counts against MAX_CONCURRENT_CHANNELS no longer.
ExitedChannelUnregistered ==
    \A r \in registry : thread[r] \notin {"none", "spawned", "exit"}

\* A waiter that is sent a denial was denied on behalf of its own run: its user
\* gave an answer that can deny (an allow-always rule may be rejected), or its
\* CLI closed the channel.  Tearing down one run never denies another's.
DenyHasCause ==
    \A w \in Workers : out[w] = "deny_user" =>
        \/ \E c \in {"deny", "cancel", "always"} :
              <<job[w].run, job[w].host, c>> \in answers
        \/ cli[job[w].run] \in {"closed", "done"}

\* While its snapshot can be read, a tracked run gets no addresses for a
\* built-in or confirmed deny, by any path through handle_resolve_frame.
HardDenyHolds ==
    \A w \in Workers :
        out[w] \in DnsReplies \ {"dns_untracked"}
            /\ Source[job[w].host] \in {"BuiltinDeny", "ConfirmedDeny"}
        => job[w].run \notin readable

\* Every worker that serves a Resolve gets back to the pool, whatever the CLI
\* and its user do (the recv_timeout of send_prompted_resolve).
WorkerReturns == \A w \in Workers : pc[w] # "idle" ~> pc[w] = "idle"

\* Once the CLI closes the stream the channel thread ends and its registration
\* is gone for good (the reader's end of file, LeaveLoop and ThreadExits).
ClosedChannelEnds ==
    \A r \in Runs :
        cli[r] = "closed" ~> [](r \notin registry /\ thread[r] \in {"none", "exit"})

\* The tables, ids, windows, queues and threads of the prompt path together do what
\* ResolveService promises: one reply to each request, for the destination that was
\* asked for, and only with a cause that preceded it, whatever was coalesced, timed
\* out, drained or answered late.
Service ==
    INSTANCE ResolveService WITH
        asking <- [w \in Workers |-> IF pc[w] = "idle" THEN "no" ELSE "yes"],
        closed <- {r \in Runs : cli[r] \in {"closed", "done"}},
        swept  <- Runs \ readable

ImplementsService == Service!Spec

-----------------------------------------------------------------------------
(* What the repository says and the code does not do. *)

\* prompt/dedup.rs says identical requests within the window are coalesced, and
\* the only failure send_prompted_resolve names is a 35 s timeout: no parked
\* request loses its sender.
CoalescedWaitersAnswered == \A w \in Workers : out[w] # "deny_dropped"
=============================================================================
