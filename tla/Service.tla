------------------------------ MODULE Service ------------------------------
(***************************************************************************)
(* The daemon as a service: launchd starts it (KeepAlive), it binds its    *)
(* socket, accepts connections into a bounded queue served by a pool of    *)
(* workers, and writes the rows of denials and gaps to a log that rotates. *)
(* The watchdog pings it over the same socket and kills it when it does    *)
(* not answer.                                                             *)
(*                                                                         *)
(* A connection is the number of a request, Ping, or Closed when its peer  *)
(* has hung up; which frame a request sent is settled by the handler that  *)
(* takes it.  Faults (a crash, a hang, a panic of a handler, a failed      *)
(* start or file operation, a slow ping, a restart of the watchdog) happen *)
(* at most MaxFaults times; time-outs that follow from the state are free. *)
(* Process ids are never reused here.                                      *)
(***************************************************************************)
EXTENDS Integers, Sequences, FiniteSets, SequencesExt

CONSTANTS
    Workers,          \* worker threads (WORKER_THREADS = 32 in the code)
    Requests,         \* numbers of the connections of hooks
    QueueDepth,       \* ACCEPT_QUEUE_DEPTH
    ListenBacklog,    \* connections the kernel holds for accept (128)
    LogCapacity,      \* QUEUE_CAPACITY of the log writer (4096)
    RotateAt,         \* rows that fill the active log (SIZE_THRESHOLD)
    MaxArchives,      \* MAX_ARCHIVES (7)
    KillThreshold,    \* KILL_THRESHOLD of the watchdog (2)
    MaxFaults         \* bound: faults in a behaviour

ASSUME ServiceAssumption ==
    /\ Workers # {} /\ Requests \subseteq Nat \ {0}
    /\ {QueueDepth, ListenBacklog, LogCapacity, RotateAt} \subseteq Nat \ {0}
    /\ {MaxArchives, MaxFaults} \subseteq Nat /\ KillThreshold \in Nat \ {0, 1}

Ping   == 0
Closed == -1
NoConn == -2        \* an idle worker

VARIABLES
    daemon,   \* [pid, st, hung] of the newest daemon process
    ready,    \* pid in the ready file, 0 when there is none
    backlog,  \* connections the kernel holds for accept
    queue,    \* the channel of run_forever
    worker,   \* the connection each worker handles
    fate,     \* what became of each request
    log,      \* the log writer: its channel, the active file and the thread
    files,    \* rotated files, the oldest archive first
    wd,       \* the watchdog's loop
    faults    \* faults so far

vars == <<daemon, ready, backlog, queue, worker, fate, log, files, wd, faults>>

\* States of a rotated file: "log" and "zip" have a rotation thread that has not
\* begun or is compressing; "half" is a log beside an unfinished .gz and "orphan"
\* a log alone, both without a thread; a "gone" file has been removed and keeps
\* its place in the sequence.
FileStates == {"log", "zip", "gz", "half", "orphan", "gone"}

TypeOK ==
    /\ daemon \in [pid : Nat, st : {"down", "starting", "bound", "serving"}, hung : {"no", "yes"}]
    /\ ready \in 0 .. daemon.pid
    /\ backlog \in Seq(Requests \cup {Ping, Closed}) /\ Len(backlog) <= ListenBacklog
    /\ queue \in Seq(Requests \cup {Ping, Closed}) /\ Len(queue) <= QueueDepth
    /\ worker \in [Workers -> Requests \cup {Ping, Closed, NoConn}]
    /\ fate \in [Requests -> {"new", "sent", "acked", "answered", "lost"}]
    /\ log.q \in Seq(Requests) /\ Len(log.q) <= LogCapacity
    /\ log.active \in SUBSET Requests
    /\ log.torn \in {"no", "yes"} /\ log.st \in {"off", "run", "full", "stopped"}
    /\ files \in Seq([rows : SUBSET Requests, st : FileStates])
    /\ wd.pc \in {"absent", "idle", "waiting", "kill", "grace"}
    /\ wd.misses \in 0 .. KillThreshold + 1
    /\ {wd.last, wd.target} \subseteq 0 .. daemon.pid
    /\ faults \in 0 .. MaxFaults

\* The installer sets up no watchdog, so it may be absent.
Init ==
    /\ daemon = [pid |-> 0, st |-> "down", hung |-> "no"]
    /\ ready = 0
    /\ backlog = << >> /\ queue = << >>
    /\ worker = [w \in Workers |-> NoConn]
    /\ fate = [n \in Requests |-> "new"]
    /\ log = [q |-> << >>, active |-> {}, torn |-> "no", st |-> "off"]
    /\ files = << >>
    /\ \E p \in {"absent", "idle"} :
           wd = [pc |-> p, misses |-> 0, last |-> 0, target |-> 0]
    /\ faults = 0

Up       == daemon.st # "down"
Running  == Up /\ daemon.hung = "no"
Bound    == daemon.st \in {"bound", "serving"}
Serving  == daemon.st = "serving" /\ daemon.hung = "no"
Fault    == faults < MaxFaults /\ faults' = faults + 1

Elements(s) == {s[i] : i \in DOMAIN s}
InDaemon == Elements(backlog) \cup Elements(queue) \cup {worker[w] : w \in Workers}
HangUp(s, c) == [i \in DOMAIN s |-> IF s[i] = c THEN Closed ELSE s[i]]

-----------------------------------------------------------------------------
(* The end of a daemon process                                              *)

\* The process ends: its connections, its queues and its threads are gone, files
\* stay.  The writer may have been inside append, which is several writes.
\* Requests it held, and rows not yet written, are lost.
Die ==
    /\ daemon' = [daemon EXCEPT !.st = "down", !.hung = "no"]
    /\ backlog' = << >> /\ queue' = << >>
    /\ worker' = [w \in Workers |-> NoConn]
    /\ fate' = [n \in Requests |->
                   IF n \in InDaemon \/ n \in Elements(log.q) THEN "lost" ELSE fate[n]]
    /\ \E t \in {log.torn} \cup (IF log.q = << >> THEN {} ELSE {"yes"}) :
           log' = [log EXCEPT !.q = << >>, !.st = "off", !.torn = t]
    /\ files' = [i \in DOMAIN files |->
                    [files[i] EXCEPT !.st = IF @ = "log" THEN "orphan"
                                            ELSE IF @ = "zip" THEN "half" ELSE @]]

DaemonCrashes == Up /\ Fault /\ Die /\ UNCHANGED <<ready, wd>>

\* The process stays but none of its threads gets on.
DaemonHangs ==
    /\ Running /\ Fault
    /\ daemon' = [daemon EXCEPT !.hung = "yes"]
    /\ UNCHANGED <<ready, backlog, queue, worker, fate, log, files, wd>>

-----------------------------------------------------------------------------
(* Start-up: launchd and serve                                              *)

\* launchd, KeepAlive
LaunchdStarts ==
    /\ ~Up
    /\ daemon' = [pid |-> daemon.pid + 1, st |-> "starting", hung |-> "no"]
    /\ UNCHANGED <<ready, backlog, queue, worker, fate, log, files, wd, faults>>

\* serve up to IpcServer::bind: the stores are opened, the log writer is started
\* on the log file there is, and a stale socket file is replaced.
Bind ==
    /\ daemon.st = "starting" /\ Running
    /\ daemon' = [daemon EXCEPT !.st = "bound"]
    /\ log' = [log EXCEPT !.st = "run"]
    /\ UNCHANGED <<ready, backlog, queue, worker, fate, files, wd, faults>>

\* The ready file is written after the socket is bound, over the one of the
\* daemon before, which nobody removes; then run_forever.
WriteReady ==
    /\ daemon.st = "bound" /\ Running
    /\ daemon' = [daemon EXCEPT !.st = "serving"]
    /\ ready' = daemon.pid
    /\ UNCHANGED <<backlog, queue, worker, fate, log, files, wd, faults>>

\* Any step of serve that fails ends the process.
StartFails ==
    /\ daemon.st \in {"starting", "bound"} /\ Running
    /\ Fault /\ Die
    /\ UNCHANGED <<ready, wd>>

-----------------------------------------------------------------------------
(* Connections: clients, the accept loop, the workers                       *)

\* A hook connects and writes its frame.  A refused connection is not retried.
Connect(n) ==
    /\ fate[n] = "new"
    /\ IF Bound /\ Len(backlog) < ListenBacklog
       THEN backlog' = Append(backlog, n) /\ fate' = [fate EXCEPT ![n] = "sent"]
       ELSE fate' = [fate EXCEPT ![n] = "lost"] /\ UNCHANGED backlog
    /\ UNCHANGED <<daemon, ready, queue, worker, log, files, wd, faults>>

\* Its time-out (50 ms for a notice) ends before a worker has the connection.
GiveUp(n) ==
    /\ n \in Elements(backlog) \cup Elements(queue)
    /\ backlog' = HangUp(backlog, n) /\ queue' = HangUp(queue, n)
    /\ fate' = [fate EXCEPT ![n] = "lost"]
    /\ UNCHANGED <<daemon, ready, worker, log, files, wd, faults>>

\* Variant: the connection waits in the queue however many wait already.
AcceptAlways ==
    /\ Serving /\ backlog # << >>
    /\ queue' = Append(queue, Head(backlog)) /\ backlog' = Tail(backlog)
    /\ UNCHANGED <<daemon, ready, worker, fate, log, files, wd, faults>>

\* run_forever: try_send drops the connection when the queue is full.
Accept ==
    /\ Serving /\ backlog # << >>
    /\ LET c == Head(backlog)
       IN  IF Len(queue) < QueueDepth
           THEN queue' = Append(queue, c) /\ UNCHANGED fate
           ELSE /\ fate' = IF c \in Requests THEN [fate EXCEPT ![c] = "lost"] ELSE fate
                /\ UNCHANGED queue
    /\ backlog' = Tail(backlog)
    /\ UNCHANGED <<daemon, ready, worker, log, files, wd, faults>>

\* The worker loop receives a connection.
Receive(w) ==
    /\ Serving /\ queue # << >> /\ worker[w] = NoConn
    /\ queue' = Tail(queue)
    /\ worker' = [worker EXCEPT ![w] = Head(queue)]
    /\ UNCHANGED <<daemon, ready, backlog, fate, log, files, wd, faults>>

\* handle returns, and with it the connection is closed.
Return(w) == worker' = [worker EXCEPT ![w] = NoConn]

\* authenticate_verified_peer and classify_peer_frame: the peer is gone, has sent
\* nothing, or is refused for its identity, its signature or its frame.
RefusePeer(w) ==
    /\ Serving /\ worker[w] \in Requests \cup {Closed}
    /\ Return(w)
    /\ fate' = IF worker[w] = Closed THEN fate ELSE [fate EXCEPT ![worker[w]] = "lost"]
    /\ UNCHANGED <<daemon, ready, backlog, queue, log, files, wd, faults>>

\* LogWriter::send: a row is dropped when the channel is full or its thread ended.
\* The peer is acknowledged all the same.
Send(n) ==
    LET room == log.st \in {"run", "full"} /\ Len(log.q) < LogCapacity
    IN  /\ log' = IF room THEN [log EXCEPT !.q = Append(@, n)] ELSE log
        /\ fate' = [fate EXCEPT ![n] = IF room THEN "acked" ELSE "lost"]

\* handle_deny_notify_frame: a Block row with the context of the process tree
HandleDenyNotify(w) ==
    /\ Serving /\ worker[w] \in Requests
    /\ Send(worker[w]) /\ Return(w)
    /\ UNCHANGED <<daemon, ready, backlog, queue, files, wd, faults>>

\* handle_exec_blocked_frame: a Gap row
HandleExecBlocked(w) ==
    /\ Serving /\ worker[w] \in Requests
    /\ Send(worker[w]) /\ Return(w)
    /\ UNCHANGED <<daemon, ready, backlog, queue, files, wd, faults>>

\* handle_persistence_write_frame: a Gap row
HandlePersistenceWrite(w) ==
    /\ Serving /\ worker[w] \in Requests
    /\ Send(worker[w]) /\ Return(w)
    /\ UNCHANGED <<daemon, ready, backlog, queue, files, wd, faults>>

\* A prompted Resolve keeps its worker until the user answers or 35 s are over.
HandleResolve(w) ==
    /\ Serving /\ worker[w] \in Requests
    /\ fate' = [fate EXCEPT ![worker[w]] = "answered"] /\ Return(w)
    /\ UNCHANGED <<daemon, ready, backlog, queue, log, files, wd, faults>>

\* handle_ping_frame; the watchdog still waits for the answer (its connection
\* would be Closed otherwise), so this is LivenessState::Alive: misses start anew.
HandlePing(w) ==
    /\ Serving /\ worker[w] = Ping
    /\ Return(w)
    /\ wd' = [wd EXCEPT !.pc = "idle", !.misses = 0, !.last = daemon.pid]
    /\ UNCHANGED <<daemon, ready, backlog, queue, fate, log, files, faults>>

\* spawn_worker: a handler panics.  Under the test profile, which unwinds, the panic
\* is caught and the worker spawned again.
HandlerUnwinds(w) ==
    /\ Serving /\ worker[w] \in Requests /\ Fault
    /\ fate' = [fate EXCEPT ![worker[w]] = "lost"] /\ Return(w)
    /\ UNCHANGED <<daemon, ready, backlog, queue, log, files, wd>>

\* The dev and release profiles of the workspace abort: the panic ends the process,
\* whatever its other workers do.
HandlerAborts(w) ==
    /\ Serving /\ worker[w] \in Requests /\ Fault
    /\ Die
    /\ UNCHANGED <<ready, wd>>

-----------------------------------------------------------------------------
(* The log writer's thread                                                  *)

\* One turn of the loop: append the row, then look at the size of the file.  A row
\* after the remains of a broken one shares its line and cannot be read.
AppendRow ==
    /\ Running /\ log.st = "run" /\ log.q # << >>
    /\ LET n == Head(log.q)
           rows == log.active \cup {n}
       IN  /\ log' = [log EXCEPT !.q = Tail(@), !.active = rows, !.torn = "no",
                          !.st = IF Cardinality(rows) >= RotateAt THEN "full" ELSE @]
           /\ fate' = IF log.torn = "yes" THEN [fate EXCEPT ![n] = "lost"] ELSE fate
    /\ UNCHANGED <<daemon, ready, backlog, queue, worker, files, wd, faults>>

\* A write fails; the loop goes on behind what was written of the row, if anything.
AppendFails ==
    /\ Running /\ log.st = "run" /\ log.q # << >> /\ Fault
    /\ \E t \in {log.torn, "yes"} :
           log' = [log EXCEPT !.q = Tail(@), !.torn = t,
                       !.st = IF Cardinality(log.active) >= RotateAt THEN "full" ELSE @]
    /\ fate' = [fate EXCEPT ![Head(log.q)] = "lost"]
    /\ UNCHANGED <<daemon, ready, backlog, queue, worker, files, wd>>

\* Variant: the active file is truncated without being renamed.
RotateTruncates ==
    /\ Running /\ log.st = "full"
    /\ log' = [log EXCEPT !.active = {}, !.torn = "no", !.st = "run"]
    /\ UNCHANGED <<daemon, ready, backlog, queue, worker, fate, files, wd, faults>>

\* rotate: the active file is renamed to a name of its own, a thread to compress it
\* is started, and a new active file is opened.
Rotate ==
    /\ Running /\ log.st = "full"
    /\ files' = Append(files, [rows |-> log.active, st |-> "log"])
    /\ log' = [log EXCEPT !.active = {}, !.torn = "no", !.st = "run"]
    /\ UNCHANGED <<daemon, ready, backlog, queue, worker, fate, wd, faults>>

\* rename fails: the loop goes on with the same file and tries again after the
\* next row.
RotateFails ==
    /\ Running /\ log.st = "full" /\ Fault
    /\ log' = [log EXCEPT !.st = "run"]
    /\ UNCHANGED <<daemon, ready, backlog, queue, worker, fate, files, wd>>

\* open_active fails after the rename, or after its failure: the thread ends, and
\* its channel with it.
ReopenFails ==
    /\ Running /\ log.st = "full" /\ Fault
    /\ \/ /\ files' = Append(files, [rows |-> log.active, st |-> "log"])
          /\ log' = [log EXCEPT !.active = {}, !.torn = "no", !.st = "stopped", !.q = << >>]
       \/ /\ log' = [log EXCEPT !.st = "stopped", !.q = << >>]
          /\ UNCHANGED files
    /\ fate' = [n \in Requests |-> IF n \in Elements(log.q) THEN "lost" ELSE fate[n]]
    /\ UNCHANGED <<daemon, ready, backlog, queue, worker, wd>>

-----------------------------------------------------------------------------
(* The rotation threads                                                     *)

\* enforce_retention over the files in order of their last change: what has a .gz
\* counts, finished or not, and the oldest goes while there are too many.  The log
\* beside an unfinished .gz stays, unless its thread still runs and removes it.
EnforceRetention(fs) ==
    LET archives == {i \in DOMAIN fs : fs[i].st \in {"gz", "half", "zip"}}
        newer(i) == {j \in archives : j > i \/ (fs[j].st = "zip" /\ fs[i].st # "zip")}
        goes(i)  == i \in archives /\ Cardinality(newer(i)) >= MaxArchives
    IN  [i \in DOMAIN fs |-> IF ~goes(i) THEN fs[i]
                            ELSE IF fs[i].st = "half" THEN [fs[i] EXCEPT !.st = "orphan"]
                            ELSE [rows |-> {}, st |-> "gone"]]

\* gzip_in_place creates the .gz ...
GzipStarts(i) ==
    /\ Running /\ i \in DOMAIN files /\ files[i].st = "log"
    /\ files' = [files EXCEPT ![i].st = "zip"]
    /\ UNCHANGED <<daemon, ready, backlog, queue, worker, fate, log, wd, faults>>

RowsOf(fs) == UNION {fs[i].rows : i \in DOMAIN fs}

\* Rows of pruned files are lost.
Prune(fs) ==
    /\ files' = EnforceRetention(fs)
    /\ fate' = [n \in Requests |->
                   IF n \in RowsOf(fs) \ RowsOf(EnforceRetention(fs)) THEN "lost" ELSE fate[n]]

\* ... and removes the log when it is complete; then the retention is enforced.
GzipEnds(i) ==
    /\ Running /\ i \in DOMAIN files /\ files[i].st = "zip"
    /\ Prune(Append(RemoveAt(files, i), [files[i] EXCEPT !.st = "gz"]))
    /\ UNCHANGED <<daemon, ready, backlog, queue, worker, log, wd, faults>>

\* Compression fails, before there is a .gz or half way.
GzipFails(i) ==
    /\ Running /\ i \in DOMAIN files /\ files[i].st \in {"log", "zip"} /\ Fault
    /\ Prune(Append(RemoveAt(files, i),
                    [files[i] EXCEPT !.st = IF @ = "log" THEN "orphan" ELSE "half"]))
    /\ UNCHANGED <<daemon, ready, backlog, queue, worker, log, wd>>

-----------------------------------------------------------------------------
(* The watchdog                                                             *)

\* LivenessState::Unreachable.  Only the values 1 and KillThreshold of the counter
\* are told apart, so it stays at the first one above.
Miss ==
    LET m == IF wd.misses > KillThreshold THEN wd.misses ELSE wd.misses + 1
    IN  wd' = [wd EXCEPT !.misses = m, !.pc = IF m = KillThreshold THEN "kill" ELSE "idle"]

\* ping_daemon: connect, and write the frame
WdConnect ==
    /\ wd.pc = "idle"
    /\ IF Bound /\ Len(backlog) < ListenBacklog
       THEN backlog' = Append(backlog, Ping) /\ wd' = [wd EXCEPT !.pc = "waiting"]
       ELSE Miss /\ UNCHANGED backlog
    /\ UNCHANGED <<daemon, ready, queue, worker, fate, log, files, faults>>

\* The watchdog closes the connection of its ping.
DropPing ==
    /\ backlog' = HangUp(backlog, Ping) /\ queue' = HangUp(queue, Ping)
    /\ worker' = [w \in Workers |-> IF worker[w] = Ping THEN Closed ELSE worker[w]]

\* No answer within 500 ms: the connection was dropped, the daemon hangs or has
\* not begun to accept, or every worker is busy.
WdTimeout ==
    /\ wd.pc = "waiting"
    /\ \/ Ping \notin InDaemon
       \/ ~Serving
       \/ \A w \in Workers : worker[w] \in Requests
    /\ Miss /\ DropPing
    /\ UNCHANGED <<daemon, ready, fate, log, files, faults>>

\* No answer although nothing is in its way.
WdSlow ==
    /\ wd.pc = "waiting" /\ Ping \in InDaemon /\ Fault
    /\ Miss /\ DropPing
    /\ UNCHANGED <<daemon, ready, fate, log, files>>

\* Variant: the pid of the last answer goes before the ready file's.
TargetLastKnown == IF wd.last # 0 THEN wd.last ELSE ready

\* read_daemon_pid(..).or(last_known_pid)
Target == IF ready # 0 THEN ready ELSE wd.last

\* kill_escalation: SIGTERM, which a hung process may survive.  The daemon has no
\* handler for it.
WdTerm ==
    /\ wd.pc = "kill"
    /\ IF Target = daemon.pid /\ Up
       THEN \/ Die /\ wd' = [wd EXCEPT !.pc = "idle"]
            \/ /\ daemon.hung = "yes"
               /\ wd' = [wd EXCEPT !.pc = "grace", !.target = Target]
               /\ UNCHANGED <<daemon, backlog, queue, worker, fate, log, files>>
       ELSE /\ wd' = [wd EXCEPT !.pc = "idle"]
            /\ UNCHANGED <<daemon, backlog, queue, worker, fate, log, files>>
    /\ UNCHANGED <<ready, faults>>

\* SIGKILL after the grace period, when the process is still there
WdKill ==
    /\ wd.pc = "grace"
    /\ IF wd.target = daemon.pid /\ Up THEN Die
       ELSE UNCHANGED <<daemon, backlog, queue, worker, fate, log, files>>
    /\ wd' = [wd EXCEPT !.pc = "idle", !.target = 0]
    /\ UNCHANGED <<ready, faults>>

\* The watchdog itself is started again.
WdRestarts ==
    /\ wd.pc # "absent" /\ Fault
    /\ wd' = [pc |-> "idle", misses |-> 0, last |-> ready, target |-> 0]
    /\ DropPing
    /\ UNCHANGED <<daemon, ready, fate, log, files>>

-----------------------------------------------------------------------------

Startup == LaunchdStarts \/ Bind \/ WriteReady

WorkerStep(w) ==
    \/ Receive(w) \/ HandleDenyNotify(w) \/ HandleExecBlocked(w) \/ HandlePersistenceWrite(w)
    \/ HandleResolve(w) \/ HandlePing(w) \/ RefusePeer(w)

LogStep == AppendRow \/ Rotate

GzipStep == \E i \in DOMAIN files : GzipStarts(i) \/ GzipEnds(i)

Watch == WdConnect \/ WdTimeout \/ WdTerm \/ WdKill

Next ==
    \/ Startup \/ StartFails \/ DaemonCrashes \/ DaemonHangs
    \/ \E n \in Requests : Connect(n) \/ GiveUp(n)
    \/ Accept
    \/ \E w \in Workers : WorkerStep(w) \/ HandlerUnwinds(w) \/ HandlerAborts(w)
    \/ LogStep \/ AppendFails \/ RotateFails \/ ReopenFails
    \/ GzipStep \/ \E i \in DOMAIN files : GzipFails(i)
    \/ Watch \/ WdSlow \/ WdRestarts

\* launchd restarts a daemon that ended (KeepAlive), threads that can run do run,
\* a handler returns (every wait of one has a time-out), and the watchdog's loop
\* goes on.  Nothing is assumed of clients, and no fault has to happen.
Fairness ==
    /\ WF_vars(Startup) /\ WF_vars(Accept)
    /\ \A w \in Workers : WF_vars(WorkerStep(w))
    /\ WF_vars(LogStep) /\ WF_vars(GzipStep) /\ WF_vars(Watch)

Spec == Init /\ [][Next]_vars /\ Fairness

-----------------------------------------------------------------------------
(* Properties                                                               *)

KeptRows == log.active \cup RowsOf(files)

\* A denial or gap that was reported over an accepted connection ends up in the log
\* and stays there through rotations, compressions and restarts, or its loss has one
\* of the causes the code knows: the peer gave up or was refused, a queue was full, a
\* write failed or was cut, the process ended first, or the retention pruned it.  No
\* request is stuck behind a pool that does not work (run_forever, spawn_worker,
\* LogWriter::spawn, rotate, enforce_retention).
NotifiedRowKept ==
    \A n \in Requests :
        fate[n] = "sent" ~>
            [](n \in KeptRows \/ fate[n] \in {"answered", "lost"} \/ daemon.hung = "yes")

\* A daemon that hangs after it wrote its ready file, while the watchdog's counter is
\* still below the threshold, is killed, and another one is started in its place
\* (main of the watchdog, kill_escalation).
HungDaemonReplaced ==
    (/\ daemon.st = "serving" /\ daemon.hung = "yes"
     /\ wd.pc # "absent" /\ wd.misses < KillThreshold)
        ~> (Up /\ daemon.hung = "no")
=============================================================================
