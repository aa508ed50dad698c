---------------------------- MODULE ServiceProofs ----------------------------
(***************************************************************************)
(* Proofs about the daemon as a service (Service): its state is well typed *)
(* and its queues stay within their depths; every request has at most one  *)
(* outcome, however accepting, handling, writing, rotating, compressing,   *)
(* pruning, killing and starting again interleave; and an acknowledged row *)
(* is in the log or on its way to it.                                      *)
(*                                                                         *)
(* The inductive invariant says where a request is: an open one is held by *)
(* exactly one of the kernel's backlog, the accept queue and one worker,   *)
(* and a row waits at most once in the writer's channel, before it is in a *)
(* file and not after.  Without the uniqueness a second copy would outlive *)
(* the outcome of the first and be given another one.                      *)
(***************************************************************************)
EXTENDS Service, TLAPS

-----------------------------------------------------------------------------
(* The inductive invariant                                                  *)

Conns    == Requests \cup {Ping, Closed}
ConnSeqs == Seq(Conns)
RowSeqs  == Seq(Requests)
FileRecs == [rows : SUBSET Requests, st : FileStates]
FileSeqs == Seq(FileRecs)
Fates    == {"new", "sent", "acked", "answered", "lost"}

DaemonRecs ==
    [pid : Nat, st : {"down", "starting", "bound", "serving"}, hung : {"no", "yes"}]

LogRecs ==
    [q : RowSeqs, active : SUBSET Requests, torn : {"no", "yes"},
     st : {"off", "run", "full", "stopped"}]

WdRecs ==
    [pc : {"absent", "idle", "waiting", "kill", "grace"}, misses : 0 .. KillThreshold + 1,
     last : Nat, target : Nat]

\* The processes: no pid is known before its process was started.
ProcInv ==
    /\ daemon \in DaemonRecs /\ ready \in 0 .. daemon.pid
    /\ wd \in WdRecs /\ wd.last <= daemon.pid /\ wd.target <= daemon.pid
    /\ faults \in 0 .. MaxFaults

\* No request is twice in the sequence; pings and closed connections may be.
Once(s) ==
    \A i, j \in 1 .. Len(s) : s[i] = s[j] /\ s[i] \in Requests => i = j

\* A request is held by one of the backlog, the queue and one worker.
OneHolder ==
    /\ Once(backlog) /\ Once(queue)
    /\ \A n \in Requests :
           /\ n \in Elements(backlog) => n \notin Elements(queue)
           /\ n \in Elements(backlog) \/ n \in Elements(queue) => \A w \in Workers : worker[w] # n
           /\ \A v, w \in Workers : worker[v] = n /\ worker[w] = n => v = w

\* The connections, and that the open requests are the ones the daemon holds.
ConnInv ==
    /\ backlog \in ConnSeqs /\ Len(backlog) <= ListenBacklog
    /\ queue \in ConnSeqs /\ Len(queue) <= QueueDepth
    /\ worker \in [Workers -> Conns \cup {NoConn}]
    /\ OneHolder

HeldInv ==
    /\ fate \in [Requests -> Fates]
    /\ \A n \in Requests : fate[n] = "sent" <=> n \in InDaemon

\* The log.
LogInv ==
    /\ log \in LogRecs /\ Len(log.q) <= LogCapacity
    /\ files \in FileSeqs
    /\ Once(log.q)

\* A row is in the channel before it is in a file and not after; the rows of the
\* channel are acknowledged, the ones of the files are or have been.
RowsInv ==
    \A n \in Requests :
        /\ n \in Elements(log.q) => fate[n] = "acked" /\ n \notin KeptRows
        /\ n \in KeptRows => fate[n] \in {"acked", "lost"}
        /\ fate[n] = "acked" => n \in Elements(log.q) \/ n \in KeptRows

Inv == ProcInv /\ ConnInv /\ HeldInv /\ LogInv /\ RowsInv

\* The outcomes a request can still have.
Later(f) ==
    {f} \cup (IF f = "new" THEN {"sent", "lost"}
              ELSE IF f = "sent" THEN {"acked", "answered", "lost"}
              ELSE IF f = "acked" THEN {"lost"} ELSE {})

Forward == \A n \in Requests : fate'[n] \in Later(fate[n])

-----------------------------------------------------------------------------
(* Sequences of connections and of rows                                     *)

\* The marks for a ping, a closed connection and an idle worker are no requests
\* and differ.
LEMMA Marks ==
    /\ Ping \notin Requests /\ Closed \notin Requests /\ NoConn \notin Requests
    /\ Ping # Closed /\ Ping # NoConn /\ Closed # NoConn
    /\ NoConn \notin Conns
BY ServiceAssumption, SMT DEF ServiceAssumption, Ping, Closed, NoConn, Conns

\* Membership in a queue is a position of it.
LEMMA ElementAt ==
    ASSUME NEW S, NEW s \in Seq(S), NEW n
    PROVE  n \in Elements(s) <=> \E i \in 1 .. Len(s) : s[i] = n
<1>1. DOMAIN s = 1 .. Len(s)
  OBVIOUS
<1> QED BY <1>1, Zenon DEF Elements

\* An empty queue holds nothing (Die, and the start).
LEMMA EmptyQueue ==
    ASSUME NEW S
    PROVE  /\ << >> \in Seq(S) /\ Len(<< >>) = 0 /\ Once(<< >>)
           /\ \A n : n \notin Elements(<< >>)
<1>1. << >> \in Seq(S) /\ Len(<< >>) = 0 /\ Once(<< >>)
  BY DEF Once
<1>2. DOMAIN << >> = {}
  OBVIOUS
<1> QED BY <1>1, <1>2, Zenon DEF Elements

\* What taking the head of a queue does (recv in the worker loop and in the log
\* writer's thread): the rest is the queue without that connection.
TakenFrom(s, t, S) ==
    /\ t \in Seq(S) /\ Len(t) = Len(s) - 1 /\ Len(t) <= Len(s) /\ Head(s) \in S
    /\ Once(t)
    /\ \A n \in Requests : n \in Elements(s) <=> n = Head(s) \/ n \in Elements(t)
    /\ \A n \in Requests : n \in Elements(t) => n # Head(s)

\* recv takes one connection, or row, from a queue in which requests are unique.
LEMMA HeadTaken ==
    ASSUME NEW S, NEW s \in Seq(S), s # << >>, Once(s)
    PROVE  TakenFrom(s, Tail(s), S)
<1>1. /\ Tail(s) \in Seq(S) /\ Len(Tail(s)) = Len(s) - 1 /\ Head(s) = s[1] /\ Head(s) \in S
      /\ Len(s) \in Nat \ {0}
      /\ \A i \in 1 .. Len(Tail(s)) : Tail(s)[i] = s[i + 1]
  OBVIOUS
<1>2. ASSUME NEW i \in 1 .. Len(Tail(s)), NEW j \in 1 .. Len(Tail(s)),
             Tail(s)[i] = Tail(s)[j], Tail(s)[i] \in Requests
      PROVE  i = j
  <2>1. i + 1 \in 1 .. Len(s) /\ j + 1 \in 1 .. Len(s) /\ (i + 1 = j + 1 => i = j)
    BY <1>1
  <2> QED BY <2>1, <1>1, <1>2, Zenon DEF Once
<1>3. ASSUME NEW n \in Requests, n \in Elements(Tail(s))
      PROVE  n \in Elements(s) /\ n # Head(s)
  <2>1. PICK i \in 1 .. Len(Tail(s)) : Tail(s)[i] = n
    BY <1>1, <1>3, ElementAt, Zenon
  <2>2. i + 1 \in 1 .. Len(s) /\ i + 1 # 1 /\ s[i + 1] = n /\ 1 \in 1 .. Len(s)
    BY <2>1, <1>1
  <2>3. n \in Elements(s)
    BY <2>2, ElementAt, Zenon
  <2>4. s[1] # n
    BY <2>2, Zenon DEF Once
  <2> QED BY <2>3, <2>4, <1>1, Zenon
<1>4. ASSUME NEW n \in Requests, n \in Elements(s)
      PROVE  n = Head(s) \/ n \in Elements(Tail(s))
  <2>1. PICK i \in 1 .. Len(s) : s[i] = n
    BY <1>4, ElementAt, Zenon
  <2>2. CASE i = 1
    BY <2>1, <2>2, <1>1, Zenon
  <2>3. CASE i # 1
    <3>1. i - 1 \in 1 .. Len(Tail(s)) /\ Tail(s)[i - 1] = n
      BY <2>1, <2>3, <1>1
    <3> QED BY <3>1, <1>1, ElementAt, Zenon
  <2> QED BY <2>2, <2>3, Zenon
<1>5. 1 \in 1 .. Len(s)
  BY <1>1
<1>6. Head(s) \in Elements(s)
  BY <1>1, <1>5, ElementAt, Zenon
<1>7. Once(Tail(s))
  BY <1>2, Zenon DEF Once
<1>8. Len(Tail(s)) <= Len(s)
  BY <1>1
<1> QED BY <1>1, <1>3, <1>4, <1>6, <1>7, <1>8, Zenon DEF TakenFrom

\* What putting a connection or a row at the end of a queue does.
PutTo(s, t, c, S) ==
    /\ t \in Seq(S) /\ Len(t) = Len(s) + 1
    /\ Once(t)
    /\ \A n \in Requests : n \in Elements(t) <=> n = c \/ n \in Elements(s)

\* accept, try_send and the log writer's send put one more at the end; a request that
\* was not in the queue is then in it once.
LEMMA LastPut ==
    ASSUME NEW S, NEW s \in Seq(S), NEW c \in S, Once(s),
           c \in Requests => c \notin Elements(s)
    PROVE  PutTo(s, Append(s, c), c, S)
<1> DEFINE t == Append(s, c)
<1>1. /\ t \in Seq(S) /\ Len(t) = Len(s) + 1 /\ t[Len(s) + 1] = c /\ Len(s) \in Nat
      /\ \A i \in 1 .. Len(s) : t[i] = s[i]
  OBVIOUS
<1>0. \A i \in 1 .. Len(t) : i = Len(s) + 1 \/ i \in 1 .. Len(s)
  BY <1>1
<1>a. Len(s) + 1 \in 1 .. Len(t) /\ \A i \in 1 .. Len(s) : i \in 1 .. Len(t)
  BY <1>1
<1> HIDE DEF t
<1>b. \A n : n \in Elements(s) <=> \E i \in 1 .. Len(s) : s[i] = n
  BY ElementAt, Zenon
<1>c. \A n : n \in Elements(t) <=> \E i \in 1 .. Len(t) : t[i] = n
  BY <1>1, ElementAt, Zenon
<1>2. ASSUME NEW i \in 1 .. Len(t), NEW j \in 1 .. Len(t), t[i] = t[j], t[i] \in Requests
      PROVE  i = j
  <2>1. CASE i \in 1 .. Len(s) /\ j \in 1 .. Len(s)
    BY <2>1, <1>1, <1>2, Zenon DEF Once
  <2>2. CASE i = Len(s) + 1 /\ j \in 1 .. Len(s)
    BY <2>2, <1>1, <1>2, <1>b, Zenon
  <2>3. CASE i \in 1 .. Len(s) /\ j = Len(s) + 1
    BY <2>3, <1>1, <1>2, <1>b, Zenon
  <2> QED BY <2>1, <2>2, <2>3, <1>0, Zenon
<1>3. Once(t)
  BY <1>2, Zenon DEF Once
<1>4. \A n : n \in Elements(t) <=> n = c \/ n \in Elements(s)
  BY <1>0, <1>1, <1>a, <1>b, <1>c, Zenon
<1> QED BY <1>1, <1>3, <1>4, Zenon DEF PutTo, t

\* What a peer that hangs up does to a queue.
HungUp(s, t, c, S) ==
    /\ t \in Seq(S) /\ Len(t) = Len(s)
    /\ Once(t)
    /\ \A n \in Requests : n \in Elements(t) <=> n # c /\ n \in Elements(s)

\* A connection whose peer has hung up stays in its place, and is no request.
LEMMA PeerGone ==
    ASSUME NEW s \in ConnSeqs, NEW c, Once(s)
    PROVE  HungUp(s, HangUp(s, c), c, Conns)
<1> DEFINE t == HangUp(s, c)
<1>0. s \in Seq(Conns) /\ Closed \in Conns
  BY DEF ConnSeqs, Conns
<1>1. Len(s) \in Nat /\ DOMAIN s = 1 .. Len(s) /\ \A i \in 1 .. Len(s) : s[i] \in Conns
  BY <1>0
<1>2. t = [i \in 1 .. Len(s) |-> IF s[i] = c THEN Closed ELSE s[i]]
  BY <1>1, Zenon DEF HangUp
<1> HIDE DEF t
<1>3. t \in [1 .. Len(s) -> Conns]
  BY <1>0, <1>1, <1>2, Zenon
<1>4. t \in Seq(Conns) /\ Len(t) = Len(s)
  BY <1>1, <1>3
<1>5. \A i \in 1 .. Len(s) : t[i] = IF s[i] = c THEN Closed ELSE s[i]
  BY <1>2, Zenon
<1>6. Once(t)
  BY <1>4, <1>5, Marks, Zenon DEF Once
<1>b. \A n : n \in Elements(s) <=> \E i \in 1 .. Len(s) : s[i] = n
  BY <1>0, ElementAt, Zenon
<1>c. \A n : n \in Elements(t) <=> \E i \in 1 .. Len(t) : t[i] = n
  BY <1>4, ElementAt, Zenon
<1>7. \A n \in Requests : n \in Elements(t) <=> n # c /\ n \in Elements(s)
  <2> SUFFICES ASSUME NEW n \in Requests
               PROVE  n \in Elements(t) <=> n # c /\ n \in Elements(s)
    OBVIOUS
  <2>1. ASSUME n \in Elements(t) PROVE n # c /\ n \in Elements(s)
    BY <2>1, <1>4, <1>5, <1>b, <1>c, Marks, Zenon
  <2>2. ASSUME n # c, n \in Elements(s) PROVE n \in Elements(t)
    BY <2>2, <1>4, <1>5, <1>b, <1>c, Zenon
  <2> QED BY <2>1, <2>2, Zenon
<1> QED BY <1>4, <1>6, <1>7, Zenon DEF HungUp, t

-----------------------------------------------------------------------------
(* Rotated files                                                            *)

\* A row is in the rotated files when it is in one of them.
LEMMA RowAt ==
    ASSUME NEW fs \in FileSeqs, NEW n
    PROVE  n \in RowsOf(fs) <=> \E i \in 1 .. Len(fs) : n \in fs[i].rows
<1>1. DOMAIN fs = 1 .. Len(fs)
  BY DEF FileSeqs
<1> QED BY <1>1, Zenon DEF RowsOf

\* Same rows: the files of two states hold the same rows.
SameRows(fs, gs) ==
    gs \in FileSeqs /\ \A n : n \in RowsOf(gs) <=> n \in RowsOf(fs)

\* A change of the files' states alone keeps their rows (the end of the process
\* stops the rotation threads; gzip_in_place creates the .gz).
LEMMA Relabelled ==
    ASSUME NEW fs \in FileSeqs, NEW gs \in FileSeqs, Len(gs) = Len(fs),
           \A i \in 1 .. Len(fs) : gs[i].rows = fs[i].rows
    PROVE  SameRows(fs, gs)
BY RowAt, Zenon DEF SameRows

\* rotate adds the rows of the active file to the rotated ones.
LEMMA FileAdded ==
    ASSUME NEW fs \in FileSeqs, NEW r \in FileRecs
    PROVE  /\ Append(fs, r) \in FileSeqs
           /\ \A n : n \in RowsOf(Append(fs, r)) <=> n \in RowsOf(fs) \/ n \in r.rows
<1> DEFINE gs == Append(fs, r)
<1>1. /\ gs \in FileSeqs /\ Len(gs) = Len(fs) + 1 /\ gs[Len(fs) + 1] = r /\ Len(fs) \in Nat
      /\ \A i \in 1 .. Len(fs) : gs[i] = fs[i]
  BY DEF FileSeqs
<1>2. /\ \A i \in 1 .. Len(gs) : i = Len(fs) + 1 \/ i \in 1 .. Len(fs)
      /\ Len(fs) + 1 \in 1 .. Len(gs) /\ \A i \in 1 .. Len(fs) : i \in 1 .. Len(gs)
  BY <1>1
<1> HIDE DEF gs
<1>3. \A n : n \in RowsOf(fs) <=> \E i \in 1 .. Len(fs) : n \in fs[i].rows
  BY RowAt, Zenon
<1>4. \A n : n \in RowsOf(gs) <=> \E i \in 1 .. Len(gs) : n \in gs[i].rows
  BY <1>1, RowAt, Zenon
<1>5. \A n : n \in RowsOf(gs) <=> n \in RowsOf(fs) \/ n \in r.rows
  BY <1>1, <1>2, <1>3, <1>4, Zenon
<1> QED BY <1>1, <1>5, Zenon DEF gs

\* The end of a compression makes a file the one changed last and keeps its rows.
LEMMA FileMoved ==
    ASSUME NEW fs \in FileSeqs, NEW i \in DOMAIN fs, NEW r \in FileRecs,
           r.rows = fs[i].rows
    PROVE  SameRows(fs, Append(RemoveAt(fs, i), r))
<1> DEFINE a == SubSeq(fs, 1, i - 1)
           b == SubSeq(fs, i + 1, Len(fs))
           gs == a \o b
<1>1. fs \in Seq(FileRecs) /\ Len(fs) \in Nat /\ i \in 1 .. Len(fs)
  BY DEF FileSeqs
<1>2. /\ a \in Seq(FileRecs) /\ Len(a) = i - 1
      /\ \A k \in 1 .. i - 1 : a[k] = fs[k]
  BY <1>1
<1>3. /\ b \in Seq(FileRecs) /\ Len(b) = Len(fs) - i
      /\ \A k \in 1 .. Len(fs) - i : b[k] = fs[i + k]
  BY <1>1
<1> HIDE DEF a, b
<1>4. /\ gs \in Seq(FileRecs) /\ Len(gs) = Len(fs) - 1
      /\ \A k \in 1 .. i - 1 : gs[k] = a[k]
      /\ \A k \in 1 .. Len(fs) - i : gs[i - 1 + k] = b[k]
  BY <1>1, <1>2, <1>3, SMTT(30)
<1> HIDE DEF gs
<1>5. ASSUME NEW k \in 1 .. Len(gs)
      PROVE  \E j \in 1 .. Len(fs) : gs[k] = fs[j]
  <2>1. CASE k \in 1 .. i - 1
    <3>1. gs[k] = fs[k] /\ k \in 1 .. Len(fs)
      BY <2>1, <1>1, <1>2, <1>4
    <3> QED BY <3>1, Zenon
  <2>2. CASE k \notin 1 .. i - 1
    <3> DEFINE m == k - i + 1
    <3>1. m \in 1 .. Len(fs) - i /\ i - 1 + m = k /\ i + m \in 1 .. Len(fs)
      BY <2>2, <1>1, <1>4
    <3> HIDE DEF m
    <3>2. gs[k] = b[m] /\ b[m] = fs[i + m]
      BY <3>1, <1>3, <1>4, Zenon
    <3> QED BY <3>1, <3>2, Zenon
  <2> QED BY <2>1, <2>2, Zenon
<1>6. ASSUME NEW j \in 1 .. Len(fs), j # i
      PROVE  \E k \in 1 .. Len(gs) : gs[k] = fs[j]
  <2>1. CASE j < i
    <3>1. gs[j] = fs[j] /\ j \in 1 .. Len(gs)
      BY <2>1, <1>1, <1>2, <1>4
    <3> QED BY <3>1, Zenon
  <2>2. CASE ~(j < i)
    <3> DEFINE m == j - i
    <3>1. m \in 1 .. Len(fs) - i /\ i - 1 + m \in 1 .. Len(gs) /\ i + m = j
      BY <2>2, <1>1, <1>4, <1>6
    <3> HIDE DEF m
    <3>2. gs[i - 1 + m] = b[m] /\ b[m] = fs[i + m]
      BY <3>1, <1>3, <1>4, Zenon
    <3> QED BY <3>1, <3>2, Zenon
  <2> QED BY <2>1, <2>2, Zenon
<1>7. gs \in FileSeqs
  BY <1>4, Zenon DEF FileSeqs
<1>8. \A n : n \in RowsOf(fs) <=> \E k \in 1 .. Len(fs) : n \in fs[k].rows
  BY RowAt, Zenon
<1>9. \A n : n \in RowsOf(gs) <=> \E k \in 1 .. Len(gs) : n \in gs[k].rows
  BY <1>7, RowAt, Zenon
<1>10. /\ Append(gs, r) \in FileSeqs
       /\ \A n : n \in RowsOf(Append(gs, r)) <=> n \in RowsOf(gs) \/ n \in r.rows
  BY <1>7, FileAdded, Zenon
<1>11. RemoveAt(fs, i) = gs
  BY Zenon DEF RemoveAt, gs, a, b
<1>12. ASSUME NEW n PROVE n \in RowsOf(Append(gs, r)) <=> n \in RowsOf(fs)
  <2>1. ASSUME n \in RowsOf(gs) PROVE n \in RowsOf(fs)
    BY <2>1, <1>5, <1>8, <1>9, Zenon
  <2>2. ASSUME n \in r.rows PROVE n \in RowsOf(fs)
    BY <2>2, <1>1, <1>8, Zenon
  <2>3. ASSUME n \in RowsOf(fs), n \notin r.rows PROVE n \in RowsOf(gs)
    <3>1. PICK k \in 1 .. Len(fs) : n \in fs[k].rows
      BY <2>3, <1>8, Zenon
    <3>2. k # i
      BY <3>1, <2>3, Zenon
    <3> QED BY <3>1, <3>2, <1>6, <1>9, Zenon
  <2> QED BY <2>1, <2>2, <2>3, <1>10, Zenon
<1> QED BY <1>10, <1>11, <1>12, Zenon DEF SameRows

\* enforce_retention removes files and adds no row.
LEMMA FilesPruned ==
    ASSUME NEW fs \in FileSeqs
    PROVE  /\ EnforceRetention(fs) \in FileSeqs
           /\ \A n : n \in RowsOf(EnforceRetention(fs)) => n \in RowsOf(fs)
<1> DEFINE gs == EnforceRetention(fs)
<1>1. Len(fs) \in Nat /\ DOMAIN fs = 1 .. Len(fs) /\ \A i \in 1 .. Len(fs) : fs[i] \in FileRecs
  BY DEF FileSeqs
<1>2. \A f \in FileRecs : /\ [f EXCEPT !.st = "orphan"] \in FileRecs
                          /\ [f EXCEPT !.st = "orphan"].rows = f.rows
  BY DEF FileRecs, FileStates
<1>3. [rows |-> {}, st |-> "gone"] \in FileRecs /\ [rows |-> {}, st |-> "gone"].rows = {}
  BY DEF FileRecs, FileStates
<1>4. /\ DOMAIN gs = DOMAIN fs /\ gs = [i \in DOMAIN gs |-> gs[i]]
      /\ \A i \in DOMAIN fs : gs[i] \in {fs[i], [fs[i] EXCEPT !.st = "orphan"],
                                         [rows |-> {}, st |-> "gone"]}
  BY Zenon DEF EnforceRetention
<1> HIDE DEF gs
<1>5. \A i \in 1 .. Len(fs) : gs[i] \in {fs[i], [fs[i] EXCEPT !.st = "orphan"],
                                        [rows |-> {}, st |-> "gone"]}
  BY <1>1, <1>4, Zenon
<1>6. \A i \in 1 .. Len(fs) : gs[i] \in FileRecs /\ \A n : n \in gs[i].rows => n \in fs[i].rows
  BY <1>1, <1>2, <1>3, <1>5, Zenon
<1>7. gs = [i \in 1 .. Len(fs) |-> gs[i]]
  BY <1>1, <1>4, Zenon
<1>8. gs \in [1 .. Len(fs) -> FileRecs]
  BY <1>6, <1>7, Zenon
<1>9. gs \in FileSeqs /\ Len(gs) = Len(fs)
  BY <1>1, <1>8 DEF FileSeqs
<1> QED BY <1>6, <1>9, RowAt, Zenon DEF gs

-----------------------------------------------------------------------------
(* What a step leaves alone                                                 *)

Good == Inv' /\ Forward

\* A step that starts or ends no process, and is not the watchdog's, keeps what is
\* known of the processes.
LEMMA ProcKeeps ==
    ASSUME ProcInv, UNCHANGED <<daemon, ready, wd>>, faults' = faults \/ Fault
    PROVE  ProcInv'
<1>1. faults' \in 0 .. MaxFaults
  BY ServiceAssumption DEF ServiceAssumption, ProcInv, Fault
<1> QED BY <1>1, Zenon DEF ProcInv

\* A step that touches no connection keeps where the requests are.
LEMMA ConnKeeps ==
    ASSUME ConnInv, UNCHANGED <<backlog, queue, worker>>
    PROVE  ConnInv'
BY Zenon DEF ConnInv, OneHolder

\* A step that touches neither a connection nor an open request's outcome keeps the
\* open requests the held ones.
LEMMA HeldKeeps ==
    ASSUME HeldInv, UNCHANGED <<backlog, queue, worker>>, fate' \in [Requests -> Fates],
           \A n \in Requests : fate'[n] = "sent" <=> fate[n] = "sent"
    PROVE  HeldInv'
<1>1. InDaemon' = InDaemon
  BY Zenon DEF InDaemon
<1> QED BY <1>1, Zenon DEF HeldInv

\* A step of neither the log writer nor a rotation thread keeps the log.
LEMMA LogKeeps ==
    ASSUME LogInv, UNCHANGED <<log, files>>
    PROVE  LogInv'
BY Zenon DEF LogInv

\* A step outside the log that acknowledges nothing keeps what is known of the rows.
LEMMA RowsKeep ==
    ASSUME RowsInv, UNCHANGED <<log, files>>,
           \A n \in Requests : \/ fate'[n] = fate[n]
                               \/ fate[n] \notin {"acked", "lost"} /\ fate'[n] # "acked"
    PROVE  RowsInv'
<1>1. KeptRows' = KeptRows
  BY Zenon DEF KeptRows
<1>2. ASSUME NEW n \in Requests, fate'[n] # fate[n]
      PROVE  n \notin Elements(log.q) /\ n \notin KeptRows /\ fate'[n] # "acked"
  <2>1. "acked" \in {"acked", "lost"}
    OBVIOUS
  <2> QED BY <1>2, <2>1, Zenon DEF RowsInv
<1> QED BY <1>1, <1>2, Zenon DEF RowsInv

\* An outcome that does not change is one of the possible ones.
LEMMA SameIsLater ==
    ASSUME UNCHANGED fate
    PROVE  Forward
BY Zenon DEF Forward, Later

\* A step that leaves connections, outcomes and log alone keeps the invariant when it
\* keeps what is known of the processes.
LEMMA QuietStep ==
    ASSUME Inv, ProcInv', UNCHANGED <<backlog, queue, worker, fate, log, files>>
    PROVE  Good
<1>1. ConnInv' /\ LogInv' /\ Forward
  BY ConnKeeps, LogKeeps, SameIsLater, Zenon DEF Inv
<1>2. HeldInv'
  <2>1. fate' \in [Requests -> Fates] /\ HeldInv
    BY Zenon DEF Inv, HeldInv
  <2> QED BY <2>1, HeldKeeps, Zenon
<1>3. RowsInv'
  BY RowsKeep, Zenon DEF Inv
<1> QED BY <1>1, <1>2, <1>3, Zenon DEF Inv, Good

\* What giving one request an outcome does to the outcomes.
Decides(n, f) ==
    /\ fate' \in [Requests -> Fates] /\ fate'[n] = f
    /\ \A m \in Requests : m # n => fate'[m] = fate[m]
    /\ Forward

\* One request is given an outcome it can have.
LEMMA OneDecided ==
    ASSUME HeldInv, NEW n \in Requests, NEW f \in Fates, f \in Later(fate[n]),
           fate' = [fate EXCEPT ![n] = f]
    PROVE  Decides(n, f)
<1>1. fate \in [Requests -> Fates]
  BY Zenon DEF HeldInv
<1>2. fate' \in [Requests -> Fates] /\ fate'[n] = f
  BY <1>1, Zenon
<1>3. \A m \in Requests : m # n => fate'[m] = fate[m]
  BY <1>1, Zenon
<1>4. \A m \in Requests : m # n => fate'[m] \in Later(fate[m])
  BY <1>3, Zenon DEF Later
<1> QED BY <1>2, <1>3, <1>4, Zenon DEF Decides, Forward

\* The outcomes each kind of request can have.
LEMMA Outcomes ==
    /\ Later("new") = {"new", "sent", "lost"}
    /\ Later("sent") = {"sent", "acked", "answered", "lost"}
    /\ Later("acked") = {"acked", "lost"}
BY Zenon DEF Later

-----------------------------------------------------------------------------
(* Start-up and hangs                                                       *)

\* The daemon hangs, launchd starts it, it binds its socket, it writes its ready file.
LEMMA DaemonSteps ==
    ASSUME Inv, DaemonHangs \/ LaunchdStarts \/ WriteReady
    PROVE  Good
<1>1. ProcInv
  BY Zenon DEF Inv
<1>2. CASE DaemonHangs
  <2>1. ProcInv'
    BY <1>1, <1>2, ServiceAssumption
       DEF ServiceAssumption, ProcInv, DaemonHangs, Fault, DaemonRecs, WdRecs
  <2> QED BY <1>2, <2>1, QuietStep, Zenon DEF DaemonHangs
<1>3. CASE LaunchdStarts
  <2>1. ProcInv'
    BY <1>1, <1>3 DEF ProcInv, LaunchdStarts, DaemonRecs, WdRecs
  <2> QED BY <1>3, <2>1, QuietStep, Zenon DEF LaunchdStarts
<1>4. CASE WriteReady
  <2>1. ProcInv'
    BY <1>1, <1>4 DEF ProcInv, WriteReady, DaemonRecs, WdRecs
  <2> QED BY <1>4, <2>1, QuietStep, Zenon DEF WriteReady
<1> QED BY <1>2, <1>3, <1>4, Zenon

\* A step of the log that moves no row keeps what is known of the rows.
LEMMA SameRowsKeep ==
    ASSUME RowsInv, log'.q = log.q, log'.active = log.active, UNCHANGED <<files, fate>>
    PROVE  RowsInv'
<1>1. KeptRows' = KeptRows
  BY Zenon DEF KeptRows
<1> QED BY <1>1, Zenon DEF RowsInv

\* The log writer is started on the log there is.
LEMMA BindKeeps ==
    ASSUME Inv, Bind
    PROVE  Good
<1>1. /\ ProcInv /\ ConnInv /\ HeldInv /\ LogInv /\ RowsInv
      /\ UNCHANGED <<ready, backlog, queue, worker, fate, files, wd, faults>>
      /\ daemon' = [daemon EXCEPT !.st = "bound"] /\ log' = [log EXCEPT !.st = "run"]
  BY Zenon DEF Inv, Bind
<1>2. ProcInv'
  BY <1>1 DEF ProcInv, DaemonRecs, WdRecs
<1>3. log' \in LogRecs /\ log'.q = log.q /\ log'.active = log.active
  BY <1>1 DEF LogInv, LogRecs
<1>4. LogInv'
  BY <1>1, <1>3, Zenon DEF LogInv
<1>5. RowsInv'
  BY <1>1, <1>3, SameRowsKeep, Zenon
<1>6. fate' \in [Requests -> Fates]
  BY <1>1, Zenon DEF HeldInv
<1> QED BY <1>1, <1>2, <1>4, <1>5, <1>6, ConnKeeps, HeldKeeps, SameIsLater, Zenon DEF Inv, Good

-----------------------------------------------------------------------------
(* Connections                                                              *)

\* A request is held in the backlog, in the queue or by a worker.
LEMMA HeldWhere ==
    \A n : n \in InDaemon <=> \/ n \in Elements(backlog) \/ n \in Elements(queue)
                              \/ \E w \in Workers : worker[w] = n
BY Zenon DEF InDaemon

\* A step about connections alone keeps the invariant when it keeps what is known of
\* the processes and of the connections and gives outcomes to unsettled requests only.
LEMMA ConnStep ==
    ASSUME Inv, ProcInv', ConnInv', HeldInv', Forward, UNCHANGED <<log, files>>,
           \A n \in Requests : \/ fate'[n] = fate[n]
                               \/ fate[n] \notin {"acked", "lost"} /\ fate'[n] # "acked"
    PROVE  Good
<1>1. LogInv' /\ RowsInv'
  BY LogKeeps, RowsKeep, Zenon DEF Inv
<1> QED BY <1>1, Zenon DEF Inv, Good

\* A hook connects: the kernel holds its connection, or refuses it.
LEMMA ConnectKeeps ==
    ASSUME Inv, NEW n \in Requests, Connect(n)
    PROVE  Good
<1>1. /\ ProcInv /\ ConnInv /\ HeldInv
      /\ UNCHANGED <<daemon, ready, queue, worker, log, files, wd, faults>>
      /\ fate[n] = "new"
  BY Zenon DEF Inv, Connect
<1>2. ProcInv'
  BY <1>1, ProcKeeps, Zenon
<1>3. n \notin InDaemon
  BY <1>1, Zenon DEF HeldInv
<1>4. CASE Bound /\ Len(backlog) < ListenBacklog
  <2>1. backlog' = Append(backlog, n) /\ fate' = [fate EXCEPT ![n] = "sent"]
    BY <1>4, Zenon DEF Connect
  <2>2. Decides(n, "sent")
    BY <1>1, <2>1, OneDecided, Outcomes, Zenon DEF Fates
  <2>3. backlog \in Seq(Conns) /\ n \in Conns /\ Once(backlog) /\ n \notin Elements(backlog)
    BY <1>1, <1>3, HeldWhere, Zenon DEF ConnInv, ConnSeqs, OneHolder, Conns
  <2>4. PutTo(backlog, backlog', n, Conns)
    BY <2>1, <2>3, LastPut, Zenon
  <2>5. Len(backlog') <= ListenBacklog
    <3>1. Len(backlog') = Len(backlog) + 1 /\ Len(backlog) \in Nat
      BY <2>3, <2>4 DEF PutTo
    <3> QED BY <3>1, <1>4, ServiceAssumption DEF ServiceAssumption
  <2>6. ConnInv'
    BY <1>1, <1>3, <2>4, <2>5, HeldWhere, Zenon DEF ConnInv, ConnSeqs, OneHolder, PutTo
  <2>7. \A m \in Requests : m \in InDaemon' <=> m = n \/ m \in InDaemon
    BY <1>1, <2>4, HeldWhere, Zenon DEF InDaemon, PutTo
  <2>8. HeldInv'
    BY <1>1, <2>2, <2>7, Zenon DEF HeldInv, Decides
  <2> QED BY <1>1, <1>2, <2>2, <2>6, <2>8, ConnStep, Zenon DEF Decides
<1>5. CASE ~(Bound /\ Len(backlog) < ListenBacklog)
  <2>1. UNCHANGED backlog /\ fate' = [fate EXCEPT ![n] = "lost"]
    BY <1>5, Zenon DEF Connect
  <2>2. Decides(n, "lost")
    BY <1>1, <2>1, OneDecided, Outcomes, Zenon DEF Fates
  <2>3. HeldInv'
    BY <1>1, <2>1, <2>2, HeldKeeps, Zenon DEF Decides
  <2>4. ConnInv'
    BY <1>1, <2>1, ConnKeeps, Zenon
  <2> QED BY <1>1, <1>2, <2>2, <2>3, <2>4, ConnStep, Zenon DEF Decides
<1> QED BY <1>4, <1>5, Zenon

\* A hook gives up: its connection stays where it is, closed.
LEMMA GiveUpKeeps ==
    ASSUME Inv, NEW n \in Requests, GiveUp(n)
    PROVE  Good
<1>1. /\ ProcInv /\ ConnInv /\ HeldInv
      /\ UNCHANGED <<daemon, ready, worker, log, files, wd, faults>>
      /\ n \in Elements(backlog) \/ n \in Elements(queue)
      /\ backlog' = HangUp(backlog, n) /\ queue' = HangUp(queue, n)
      /\ fate' = [fate EXCEPT ![n] = "lost"]
  BY Zenon DEF Inv, GiveUp
<1>2. ProcInv'
  BY <1>1, ProcKeeps, Zenon
<1>3. fate[n] = "sent"
  BY <1>1, HeldWhere, Zenon DEF HeldInv
<1>4. Decides(n, "lost")
  BY <1>1, <1>3, OneDecided, Outcomes, Zenon DEF Fates
<1>5. HungUp(backlog, backlog', n, Conns) /\ HungUp(queue, queue', n, Conns)
  BY <1>1, PeerGone, Zenon DEF ConnInv, OneHolder
<1>6. \A w \in Workers : worker[w] # n
  BY <1>1, Zenon DEF ConnInv, OneHolder
<1>7. ConnInv'
  BY <1>1, <1>5, Zenon DEF ConnInv, ConnSeqs, OneHolder, HungUp
<1>8. \A m \in Requests : m \in InDaemon' <=> m # n /\ m \in InDaemon
  BY <1>1, <1>5, <1>6, HeldWhere, Zenon DEF InDaemon, HungUp
<1>9. HeldInv'
  BY <1>1, <1>4, <1>8, Zenon DEF HeldInv, Decides
<1> QED BY <1>1, <1>2, <1>3, <1>4, <1>7, <1>9, ConnStep, Zenon DEF Decides

\* The accept loop takes a connection and queues it, or drops it when the queue is
\* full.
LEMMA AcceptKeeps ==
    ASSUME Inv, Accept
    PROVE  Good
<1> DEFINE c == Head(backlog)
<1>1. /\ ProcInv /\ ConnInv /\ HeldInv
      /\ UNCHANGED <<daemon, ready, worker, log, files, wd, faults>>
      /\ backlog # << >> /\ backlog' = Tail(backlog)
  BY Zenon DEF Inv, Accept
<1>2. ProcInv'
  BY <1>1, ProcKeeps, Zenon
<1>3. TakenFrom(backlog, backlog', Conns)
  BY <1>1, HeadTaken, Zenon DEF ConnInv, ConnSeqs, OneHolder
<1>4. Len(backlog') <= ListenBacklog
  <2>1. Len(backlog') = Len(backlog) - 1 /\ Len(backlog) \in Nat
    BY <1>1, <1>3 DEF TakenFrom, ConnInv, ConnSeqs
  <2>2. Len(backlog) <= ListenBacklog /\ ListenBacklog \in Nat
    BY <1>1, ServiceAssumption, Zenon DEF ConnInv, ServiceAssumption
  <2> QED BY <2>1, <2>2
<1>5. c \in Conns /\ (c \in Requests => c \in Elements(backlog))
  BY <1>3, Zenon DEF TakenFrom
<1>6. CASE Len(queue) < QueueDepth
  <2>1. queue' = Append(queue, c) /\ UNCHANGED fate
    BY <1>6, Zenon DEF Accept
  <2>2. queue \in Seq(Conns) /\ Once(queue) /\ (c \in Requests => c \notin Elements(queue))
    BY <1>1, <1>5, Zenon DEF ConnInv, ConnSeqs, OneHolder
  <2> HIDE DEF c
  <2>3. PutTo(queue, queue', c, Conns)
    BY <1>5, <2>1, <2>2, LastPut, Zenon
  <2>4. Len(queue') <= QueueDepth
    <3>1. Len(queue') = Len(queue) + 1 /\ Len(queue) \in Nat
      BY <2>2, <2>3 DEF PutTo
    <3> QED BY <3>1, <1>6, ServiceAssumption DEF ServiceAssumption
  <2>5. /\ \A n \in Requests : n \in Elements(backlog) <=> n = c \/ n \in Elements(backlog')
        /\ \A n \in Requests : n \in Elements(backlog') => n # c
    BY <1>3, Zenon DEF TakenFrom, c
  <2>6. OneHolder'
    <3>1. Once(backlog') /\ Once(queue')
      BY <1>3, <2>3, Zenon DEF TakenFrom, PutTo
    <3>2. \A n \in Requests : n \in Elements(queue') <=> n = c \/ n \in Elements(queue)
      BY <2>3, Zenon DEF PutTo
    <3> QED BY <1>1, <2>5, <3>1, <3>2, Zenon DEF ConnInv, OneHolder
  <2>7. ConnInv'
    BY <1>1, <1>3, <1>4, <2>3, <2>4, <2>6, Zenon DEF ConnInv, ConnSeqs, TakenFrom, PutTo
  <2>8. \A n \in Requests : n \in InDaemon' <=> n \in InDaemon
    BY <1>1, <2>3, <2>5, HeldWhere, Zenon DEF InDaemon, PutTo
  <2>9. HeldInv'
    BY <1>1, <2>1, <2>8, Zenon DEF HeldInv
  <2> QED BY <1>1, <1>2, <2>1, <2>7, <2>9, ConnStep, SameIsLater, Zenon
<1>7. CASE ~(Len(queue) < QueueDepth)
  <2>1. /\ UNCHANGED queue
        /\ fate' = IF c \in Requests THEN [fate EXCEPT ![c] = "lost"] ELSE fate
    BY <1>7, Zenon DEF Accept
  <2>2. /\ \A n \in Requests : n \in Elements(backlog) <=> n = c \/ n \in Elements(backlog')
        /\ \A n \in Requests : n \in Elements(backlog') => n # c
    BY <1>3, Zenon DEF TakenFrom, c
  <2> HIDE DEF c
  <2>3. OneHolder'
    <3>1. Once(backlog')
      BY <1>3, Zenon DEF TakenFrom
    <3> QED BY <1>1, <2>1, <2>2, <3>1, Zenon DEF ConnInv, OneHolder
  <2>4. ConnInv'
    BY <1>1, <1>3, <1>4, <2>1, <2>3, Zenon DEF ConnInv, ConnSeqs, TakenFrom
  <2>5. \A n \in Requests : n \in InDaemon' <=> n \in InDaemon /\ n # c
    <3>1. c \in Requests => c \notin Elements(queue) /\ \A w \in Workers : worker[w] # c
      BY <1>1, <1>5, Zenon DEF ConnInv, OneHolder
    <3> QED BY <1>1, <2>1, <2>2, <3>1, HeldWhere, Zenon DEF InDaemon
  <2>6. CASE c \in Requests
    <3>1. fate[c] = "sent" /\ fate' = [fate EXCEPT ![c] = "lost"]
      BY <1>1, <1>5, <2>1, <2>6, HeldWhere, Zenon DEF HeldInv
    <3>2. Decides(c, "lost")
      BY <1>1, <2>6, <3>1, OneDecided, Outcomes, Zenon DEF Fates
    <3>3. HeldInv'
      BY <1>1, <2>5, <2>6, <3>2, Zenon DEF HeldInv, Decides
    <3> QED BY <1>1, <1>2, <2>4, <2>6, <3>1, <3>2, <3>3, ConnStep, Zenon DEF Decides
  <2>7. CASE c \notin Requests
    <3>1. UNCHANGED fate
      BY <2>1, <2>7, Zenon
    <3>2. HeldInv'
      BY <1>1, <2>5, <2>7, <3>1, Zenon DEF HeldInv
    <3> QED BY <1>1, <1>2, <2>4, <3>1, <3>2, ConnStep, SameIsLater, Zenon
  <2> QED BY <2>6, <2>7, Zenon
<1> QED BY <1>6, <1>7, Zenon

\* A worker receives a connection.
LEMMA ReceiveKeeps ==
    ASSUME Inv, NEW w \in Workers, Receive(w)
    PROVE  Good
<1> DEFINE c == Head(queue)
<1>1. /\ ProcInv /\ ConnInv /\ HeldInv
      /\ UNCHANGED <<daemon, ready, backlog, fate, log, files, wd, faults>>
      /\ queue # << >> /\ queue' = Tail(queue) /\ worker[w] = NoConn
      /\ worker' = [worker EXCEPT ![w] = c]
  BY Zenon DEF Inv, Receive
<1>2. ProcInv'
  BY <1>1, ProcKeeps, Zenon
<1>3. TakenFrom(queue, queue', Conns)
  BY <1>1, HeadTaken, Zenon DEF ConnInv, ConnSeqs, OneHolder
<1>4. Len(queue') <= QueueDepth
  <2>1. Len(queue') = Len(queue) - 1 /\ Len(queue) \in Nat
    BY <1>1, <1>3 DEF TakenFrom, ConnInv, ConnSeqs
  <2>2. Len(queue) <= QueueDepth /\ QueueDepth \in Nat
    BY <1>1, ServiceAssumption, Zenon DEF ConnInv, ServiceAssumption
  <2> QED BY <2>1, <2>2
<1>5. /\ \A n \in Requests : n \in Elements(queue) <=> n = c \/ n \in Elements(queue')
      /\ \A n \in Requests : n \in Elements(queue') => n # c
      /\ c \in Conns /\ Once(queue') /\ queue' \in Seq(Conns)
  BY <1>3, Zenon DEF TakenFrom
<1> HIDE DEF c
<1>6. worker' \in [Workers -> Conns \cup {NoConn}]
  BY <1>1, <1>5, Zenon DEF ConnInv
<1>7. worker'[w] = c /\ \A v \in Workers : v # w => worker'[v] = worker[v]
  BY <1>1, Zenon DEF ConnInv
<1>8. OneHolder'
  BY <1>1, <1>5, <1>7, Marks, Zenon DEF ConnInv, OneHolder
<1>9. ConnInv'
  BY <1>1, <1>4, <1>5, <1>6, <1>8, Zenon DEF ConnInv, ConnSeqs
<1>10. ASSUME NEW n \in Requests PROVE n \in InDaemon' <=> n \in InDaemon
  <2>0. n # NoConn
    BY Marks, Zenon
  <2>1. (\E v \in Workers : worker'[v] = n) <=> n = c \/ \E v \in Workers : worker[v] = n
    <3>1. ASSUME NEW v \in Workers, worker'[v] = n
          PROVE  n = c \/ \E u \in Workers : worker[u] = n
      BY <3>1, <1>7, Zenon
    <3>2. ASSUME NEW v \in Workers, worker[v] = n
          PROVE  \E u \in Workers : worker'[u] = n
      BY <3>2, <2>0, <1>1, <1>7, Zenon
    <3> QED BY <3>1, <3>2, <1>7, Zenon
  <2> QED BY <2>1, <1>1, <1>5, HeldWhere, Zenon DEF InDaemon
<1>11. HeldInv'
  BY <1>1, <1>10, Zenon DEF HeldInv
<1> QED BY <1>1, <1>2, <1>9, <1>11, ConnStep, SameIsLater, Zenon

\* A worker whose handler returns holds nothing, and the other holders are as before.
LEMMA Released ==
    ASSUME ConnInv, NEW w \in Workers, Return(w), UNCHANGED <<backlog, queue>>
    PROVE  /\ ConnInv'
           /\ \A n \in Requests : n \in InDaemon' <=> n \in InDaemon /\ n # worker[w]
<1>1. worker' = [worker EXCEPT ![w] = NoConn]
  BY Zenon DEF Return
<1>2. /\ worker' \in [Workers -> Conns \cup {NoConn}]
      /\ worker'[w] = NoConn /\ \A v \in Workers : v # w => worker'[v] = worker[v]
  BY <1>1, Zenon DEF ConnInv
<1>3. OneHolder'
  BY <1>2, Marks, Zenon DEF ConnInv, OneHolder
<1>4. \A n \in Requests : n \in InDaemon' <=> n \in InDaemon /\ n # worker[w]
  <2> SUFFICES ASSUME NEW n \in Requests
               PROVE  n \in InDaemon' <=> n \in InDaemon /\ n # worker[w]
    OBVIOUS
  <2>0. n # NoConn
    BY Marks, Zenon
  <2>1. ASSUME NEW v \in Workers, worker'[v] = n
        PROVE  n \in InDaemon /\ n # worker[w]
    <3>1. worker[v] = n /\ v # w
      BY <2>0, <2>1, <1>2, Zenon
    <3> QED BY <3>1, HeldWhere, Zenon DEF ConnInv, OneHolder
  <2>2. ASSUME NEW v \in Workers, worker[v] = n, n # worker[w]
        PROVE  \E u \in Workers : worker'[u] = n
    BY <2>2, <1>2, Zenon
  <2>3. n \in Elements(backlog) \/ n \in Elements(queue) => n # worker[w]
    BY Zenon DEF ConnInv, OneHolder
  <2> QED BY <2>1, <2>2, <2>3, HeldWhere, Zenon DEF InDaemon
<1> QED BY <1>2, <1>3, <1>4, Zenon DEF ConnInv

\* A handler that returns settles the request it had.
LEMMA Settles ==
    ASSUME Inv, NEW w \in Workers, Return(w), UNCHANGED <<backlog, queue>>,
           worker[w] \in Requests, NEW f \in {"acked", "answered", "lost"},
           fate' = [fate EXCEPT ![worker[w]] = f]
    PROVE  /\ ConnInv' /\ HeldInv' /\ Decides(worker[w], f) /\ fate[worker[w]] = "sent"
<1>1. ConnInv /\ HeldInv
  BY Zenon DEF Inv
<1>2. fate[worker[w]] = "sent"
  BY <1>1, HeldWhere, Zenon DEF HeldInv
<1>3. f \in Fates /\ f \in Later("sent") /\ f # "sent"
  BY Outcomes DEF Fates
<1>4. Decides(worker[w], f)
  BY <1>1, <1>2, <1>3, OneDecided, Zenon
<1>5. HeldInv'
  BY <1>1, <1>3, <1>4, Released, Zenon DEF HeldInv, Decides
<1> QED BY <1>1, <1>2, <1>4, <1>5, Released, Zenon

\* A peer is refused, a Resolve is answered, or the handler's panic is caught.
LEMMA HandlerReturns ==
    ASSUME Inv, NEW w \in Workers, RefusePeer(w) \/ HandleResolve(w) \/ HandlerUnwinds(w)
    PROVE  Good
<1>1. /\ ProcInv /\ ConnInv /\ HeldInv /\ Return(w)
      /\ UNCHANGED <<daemon, ready, backlog, queue, log, files, wd>>
      /\ faults' = faults \/ Fault
  BY Zenon DEF Inv, RefusePeer, HandleResolve, HandlerUnwinds
<1>2. ProcInv'
  BY <1>1, ProcKeeps, Zenon
<1>3. CASE worker[w] \in Requests
  <2>1. PICK f \in {"acked", "answered", "lost"} :
            f # "acked" /\ fate' = [fate EXCEPT ![worker[w]] = f]
    BY <1>3, Marks, Zenon DEF RefusePeer, HandleResolve, HandlerUnwinds
  <2>2. /\ ConnInv' /\ HeldInv' /\ Decides(worker[w], f) /\ fate[worker[w]] = "sent"
    BY <1>1, <1>3, <2>1, Settles, Zenon
  <2> QED BY <1>1, <1>2, <1>3, <2>1, <2>2, ConnStep, Zenon DEF Decides
<1>4. CASE worker[w] \notin Requests
  <2>1. UNCHANGED fate
    BY <1>4, Zenon DEF RefusePeer, HandleResolve, HandlerUnwinds
  <2>2. ConnInv' /\ HeldInv'
    BY <1>1, <1>4, <2>1, Released, Zenon DEF HeldInv
  <2> QED BY <1>1, <1>2, <2>1, <2>2, ConnStep, SameIsLater, Zenon
<1> QED BY <1>3, <1>4, Zenon

\* The watchdog learns of no pid but the ready file's and the answering daemon's, and
\* a daemon that ends keeps its pid.
LEMMA WdMoves ==
    ASSUME ProcInv, UNCHANGED ready, daemon' \in DaemonRecs, daemon'.pid = daemon.pid,
           wd' \in WdRecs, wd'.last \in {wd.last, daemon.pid, ready},
           wd'.target \in {wd.target, 0, ready, wd.last}, faults' = faults \/ Fault
    PROVE  ProcInv'
<1>1. faults' \in 0 .. MaxFaults
  BY ServiceAssumption DEF ServiceAssumption, ProcInv, Fault
<1>2. daemon.pid \in Nat /\ ready \in 0 .. daemon.pid
  BY DEF ProcInv, DaemonRecs
<1>3. wd.last <= daemon.pid /\ wd.target <= daemon.pid
  BY Zenon DEF ProcInv
<1>4. wd'.last <= daemon.pid /\ wd'.target <= daemon.pid
  BY <1>2, <1>3
<1> QED BY <1>1, <1>2, <1>4, Zenon DEF ProcInv

\* A ping is answered, and the watchdog's misses start anew.
LEMMA PingKeeps ==
    ASSUME Inv, NEW w \in Workers, HandlePing(w)
    PROVE  Good
<1>1. /\ ProcInv /\ ConnInv /\ HeldInv /\ Return(w) /\ worker[w] = Ping
      /\ UNCHANGED <<daemon, ready, backlog, queue, fate, log, files, faults>>
      /\ wd' = [wd EXCEPT !.pc = "idle", !.misses = 0, !.last = daemon.pid]
  BY Zenon DEF Inv, HandlePing
<1>b. KillThreshold \in Nat /\ wd \in WdRecs /\ daemon.pid \in Nat /\ daemon \in DaemonRecs
  BY <1>1, ServiceAssumption DEF ServiceAssumption, ProcInv, DaemonRecs
<1>c. wd' = [pc |-> "idle", misses |-> 0, last |-> daemon.pid, target |-> wd.target]
  BY <1>1, <1>b, Zenon DEF WdRecs
<1>a. wd' \in WdRecs /\ wd'.last = daemon.pid /\ wd'.target = wd.target
  BY <1>b, <1>c DEF WdRecs
<1>2. ProcInv'
  BY <1>1, <1>a, <1>b, WdMoves, Zenon
<1>3. ConnInv' /\ HeldInv'
  BY <1>1, Marks, Released, Zenon DEF HeldInv
<1> QED BY <1>1, <1>2, <1>3, ConnStep, SameIsLater, Zenon

\* A denial or a gap is reported: its row goes to the log writer, or is dropped.
LEMMA SendKeeps ==
    ASSUME Inv, NEW w \in Workers,
           HandleDenyNotify(w) \/ HandleExecBlocked(w) \/ HandlePersistenceWrite(w)
    PROVE  Good
<1> DEFINE n == worker[w]
           room == log.st \in {"run", "full"} /\ Len(log.q) < LogCapacity
<1>1. /\ ProcInv /\ ConnInv /\ HeldInv /\ LogInv /\ RowsInv
      /\ Return(w) /\ n \in Requests
      /\ UNCHANGED <<daemon, ready, backlog, queue, files, wd, faults>>
      /\ log' = IF room THEN [log EXCEPT !.q = Append(@, n)] ELSE log
      /\ fate' = [fate EXCEPT ![n] = IF room THEN "acked" ELSE "lost"]
  BY Zenon DEF Inv, HandleDenyNotify, HandleExecBlocked, HandlePersistenceWrite, Send
<1>2. ProcInv'
  BY <1>1, ProcKeeps, Zenon
<1>3. CASE ~room
  <2>1. UNCHANGED log /\ fate' = [fate EXCEPT ![n] = "lost"]
    BY <1>1, <1>3, Zenon
  <2>2. ConnInv' /\ HeldInv' /\ Decides(n, "lost") /\ fate[n] = "sent"
    BY <1>1, <2>1, Settles, Zenon
  <2> HIDE DEF n
  <2> QED BY <1>1, <1>2, <2>1, <2>2, ConnStep, Zenon DEF Decides
<1>4. CASE room
  <2>1. log' = [log EXCEPT !.q = Append(@, n)] /\ fate' = [fate EXCEPT ![n] = "acked"]
    BY <1>1, <1>4, Zenon
  <2>2. ConnInv' /\ HeldInv' /\ Decides(n, "acked") /\ fate[n] = "sent"
    BY <1>1, <2>1, Settles, Zenon
  <2>3. Len(log.q) < LogCapacity
    BY <1>4, Zenon
  <2> HIDE DEF n, room
  <2>4. n \notin Elements(log.q) /\ n \notin KeptRows
    BY <1>1, <2>2, Zenon DEF RowsInv
  <2>5. log.q \in Seq(Requests) /\ Once(log.q)
    BY <1>1 DEF LogInv, LogRecs, RowSeqs
  <2>6. PutTo(log.q, Append(log.q, n), n, Requests)
    BY <1>1, <2>4, <2>5, LastPut, Zenon
  <2>7. Append(log.q, n) \in RowSeqs
    BY <2>6, Zenon DEF PutTo, RowSeqs
  <2>8. log' \in LogRecs /\ log'.q = Append(log.q, n) /\ log'.active = log.active
    BY <1>1, <2>1, <2>7, Zenon DEF LogInv, LogRecs
  <2>9. Len(log'.q) <= LogCapacity
    <3>1. Len(log'.q) = Len(log.q) + 1 /\ Len(log.q) \in Nat
      BY <2>5, <2>6, <2>8 DEF PutTo
    <3> QED BY <3>1, <2>3, ServiceAssumption DEF ServiceAssumption
  <2>10. LogInv'
    BY <1>1, <2>6, <2>8, <2>9, Zenon DEF LogInv, PutTo
  <2>11. KeptRows' = KeptRows
    BY <1>1, <2>8, Zenon DEF KeptRows
  <2>12. \A m \in Requests : m \in Elements(log'.q) <=> m = n \/ m \in Elements(log.q)
    BY <2>6, <2>8, Zenon DEF PutTo
  <2>13. RowsInv'
    BY <1>1, <2>2, <2>4, <2>11, <2>12, Zenon DEF RowsInv, Decides
  <2> QED BY <1>2, <2>2, <2>10, <2>13, Zenon DEF Inv, Good, Decides
<1> QED BY <1>3, <1>4, Zenon

-----------------------------------------------------------------------------
(* The end of a daemon process                                              *)

\* A file whose state changes is a file with the same rows.
LEMMA FileRelabelled ==
    ASSUME NEW f \in FileRecs, NEW x \in FileStates
    PROVE  [f EXCEPT !.st = x] \in FileRecs /\ [f EXCEPT !.st = x].rows = f.rows
BY DEF FileRecs

\* The end of the process: requests it held and rows not yet written are lost, and
\* the rows in files stay.
LEMMA DieKeeps ==
    ASSUME Inv, Die
    PROVE  /\ ConnInv' /\ HeldInv' /\ LogInv' /\ RowsInv' /\ Forward
           /\ daemon' \in DaemonRecs /\ daemon'.pid = daemon.pid
<1>1. /\ ProcInv /\ ConnInv /\ HeldInv /\ LogInv /\ RowsInv
      /\ daemon' = [daemon EXCEPT !.st = "down", !.hung = "no"]
      /\ backlog' = << >> /\ queue' = << >>
      /\ worker' = [w \in Workers |-> NoConn]
      /\ fate' = [n \in Requests |->
                     IF n \in InDaemon \/ n \in Elements(log.q) THEN "lost" ELSE fate[n]]
  BY Zenon DEF Inv, Die
<1>2. daemon' \in DaemonRecs /\ daemon'.pid = daemon.pid
  BY <1>1, Zenon DEF ProcInv, DaemonRecs
<1>3. << >> \in ConnSeqs /\ << >> \in RowSeqs /\ Len(<< >>) = 0 /\ Once(<< >>)
  BY EmptyQueue, Zenon DEF ConnSeqs, RowSeqs
<1>4. \A n : n \notin Elements(<< >>)
  BY EmptyQueue, Zenon
<1>5. ConnInv'
  <2>1. worker' \in [Workers -> Conns \cup {NoConn}] /\ \A w \in Workers : worker'[w] = NoConn
    BY <1>1, Zenon
  <2>2. Len(backlog') <= ListenBacklog /\ Len(queue') <= QueueDepth
    BY <1>1, <1>3, ServiceAssumption DEF ServiceAssumption
  <2>3. OneHolder'
    BY <1>1, <1>3, <1>4, <2>1, Marks, Zenon DEF OneHolder
  <2> QED BY <1>1, <1>3, <2>1, <2>2, <2>3, Zenon DEF ConnInv
<1>6. \A n \in Requests : n \notin InDaemon'
  <2>1. \A w \in Workers : worker'[w] = NoConn
    BY <1>1, Zenon
  <2> QED BY <2>1, <1>1, <1>4, Marks, Zenon DEF InDaemon
<1>7. \A n \in Requests :
          fate'[n] = IF n \in InDaemon \/ n \in Elements(log.q) THEN "lost" ELSE fate[n]
  BY <1>1, Zenon
<1>8. fate' \in [Requests -> Fates]
  BY <1>1, Zenon DEF HeldInv, Fates
<1>9. HeldInv'
  BY <1>1, <1>6, <1>7, <1>8, Zenon DEF HeldInv
<1>10. Forward
  <2> SUFFICES ASSUME NEW n \in Requests PROVE fate'[n] \in Later(fate[n])
    BY Zenon DEF Forward
  <2>1. CASE n \in InDaemon
    BY <2>1, <1>1, <1>7, Outcomes, Zenon DEF HeldInv
  <2>2. CASE n \in Elements(log.q)
    BY <2>2, <1>1, <1>7, Outcomes, Zenon DEF RowsInv
  <2>3. CASE n \notin InDaemon /\ n \notin Elements(log.q)
    BY <2>3, <1>7, Zenon DEF Later
  <2> QED BY <2>1, <2>2, <2>3, Zenon
<1>11. log' \in LogRecs /\ log'.q = << >> /\ log'.active = log.active
  <2>1. PICK t \in {log.torn} \cup (IF log.q = << >> THEN {} ELSE {"yes"}) :
            log' = [log EXCEPT !.q = << >>, !.st = "off", !.torn = t]
    BY Zenon DEF Die
  <2>2. t \in {"no", "yes"} /\ log \in LogRecs
    BY <1>1, <2>1 DEF LogInv, LogRecs
  <2>3. log' = [q |-> << >>, active |-> log.active, torn |-> t, st |-> "off"]
    BY <2>1, <2>2, Zenon DEF LogRecs
  <2>4. log.active \in SUBSET Requests
    BY <2>2 DEF LogRecs
  <2> QED BY <1>3, <2>2, <2>3, <2>4 DEF LogRecs
<1>12. SameRows(files, files')
  <2>0. files \in FileSeqs
    BY <1>1, Zenon DEF LogInv
  <2>1. /\ Len(files) \in Nat /\ DOMAIN files = 1 .. Len(files)
        /\ \A i \in 1 .. Len(files) : files[i] \in FileRecs
    BY <2>0 DEF FileSeqs
  <2> DEFINE next(x) == IF x = "log" THEN "orphan" ELSE IF x = "zip" THEN "half" ELSE x
  <2>2. files' = [i \in 1 .. Len(files) |-> [files[i] EXCEPT !.st = next(files[i].st)]]
    BY <2>1, Zenon DEF Die
  <2>3. \A i \in 1 .. Len(files) : next(files[i].st) \in FileStates
    BY <2>1 DEF FileRecs, FileStates
  <2> HIDE DEF next
  <2>4. \A i \in 1 .. Len(files) : /\ files'[i] = [files[i] EXCEPT !.st = next(files[i].st)]
                                   /\ files'[i] \in FileRecs /\ files'[i].rows = files[i].rows
    <3> SUFFICES ASSUME NEW i \in 1 .. Len(files)
                 PROVE  /\ files'[i] = [files[i] EXCEPT !.st = next(files[i].st)]
                        /\ files'[i] \in FileRecs /\ files'[i].rows = files[i].rows
      OBVIOUS
    <3>1. files'[i] = [files[i] EXCEPT !.st = next(files[i].st)]
      BY <2>2, Zenon
    <3> QED BY <3>1, <2>1, <2>3, FileRelabelled, Zenon
  <2>5. files' \in [1 .. Len(files) -> FileRecs]
    <3>1. files' = [i \in 1 .. Len(files) |-> files'[i]]
      BY <2>2, Zenon
    <3> QED BY <3>1, <2>4, Zenon
  <2>6. files' \in FileSeqs /\ Len(files') = Len(files)
    BY <2>1, <2>5 DEF FileSeqs
  <2> QED BY <2>0, <2>4, <2>6, Relabelled, Zenon
<1>13. LogInv'
  <2>1. Len(log'.q) <= LogCapacity
    BY <1>3, <1>11, ServiceAssumption DEF ServiceAssumption
  <2> QED BY <2>1, <1>3, <1>11, <1>12, Zenon DEF LogInv, SameRows
<1>14. RowsInv'
  <2>1. \A n : n \in KeptRows' <=> n \in KeptRows
    BY <1>11, <1>12, Zenon DEF KeptRows, SameRows
  <2>2. \A n \in Requests : n \in KeptRows => n \notin InDaemon /\ n \notin Elements(log.q)
    BY <1>1, Zenon DEF RowsInv, HeldInv
  <2>3. \A n \in Requests : n \notin Elements(log'.q)
    BY <1>4, <1>11, Zenon
  <2>4. ASSUME NEW n \in Requests, fate'[n] = "acked"
        PROVE  n \in KeptRows
    BY <2>4, <1>1, <1>7, Zenon DEF RowsInv
  <2>5. ASSUME NEW n \in Requests, n \in KeptRows
        PROVE  fate'[n] \in {"acked", "lost"}
    BY <2>5, <2>2, <1>1, <1>7, Zenon DEF RowsInv
  <2> QED BY <2>1, <2>3, <2>4, <2>5, Zenon DEF RowsInv
<1> QED BY <1>2, <1>5, <1>9, <1>10, <1>13, <1>14, Zenon

\* The daemon crashes, its start fails, or a panic aborts it.
LEMMA EndsKeep ==
    ASSUME Inv, \/ DaemonCrashes \/ StartFails
                \/ \E w \in Workers : HandlerAborts(w)
    PROVE  Good
<1>1. Die /\ Fault /\ UNCHANGED <<ready, wd>> /\ ProcInv
  BY Zenon DEF Inv, DaemonCrashes, StartFails, HandlerAborts
<1>2. wd' \in WdRecs
  BY <1>1, Zenon DEF ProcInv
<1>3. ProcInv'
  BY <1>1, <1>2, DieKeeps, WdMoves, Zenon
<1> QED BY <1>1, <1>3, DieKeeps, Zenon DEF Inv, Good

-----------------------------------------------------------------------------
(* The log writer's thread                                                  *)

\* A step of the log alone keeps the invariant when it keeps what is known of the log
\* and changes no outcome of an open request.
LEMMA LogStepKeeps ==
    ASSUME Inv, UNCHANGED <<daemon, ready, backlog, queue, worker, wd>>,
           faults' = faults \/ Fault, fate' \in [Requests -> Fates],
           \A n \in Requests : fate'[n] = fate[n] \/ (fate[n] = "acked" /\ fate'[n] = "lost"),
           LogInv', RowsInv'
    PROVE  Good
<1>1. ProcInv' /\ ConnInv'
  BY ProcKeeps, ConnKeeps, Zenon DEF Inv
<1>2. HeldInv'
  <2>1. \A n \in Requests : fate'[n] = "sent" <=> fate[n] = "sent"
    OBVIOUS
  <2> QED BY <2>1, HeldKeeps, Zenon DEF Inv
<1>3. Forward
  <2>1. "lost" \in Later("acked") /\ \A f : f \in Later(f)
    BY Outcomes, Zenon DEF Later
  <2> QED BY <2>1, Zenon DEF Forward
<1> QED BY <1>1, <1>2, <1>3, Zenon DEF Inv, Good

\* The row at the head of the channel is lost, or stays as it is.
LEMMA HeadOutcome ==
    ASSUME HeldInv, RowsInv, NEW n \in Requests, n \in Elements(log.q),
           fate' = fate \/ fate' = [fate EXCEPT ![n] = "lost"]
    PROVE  /\ fate' \in [Requests -> Fates] /\ fate[n] = "acked"
           /\ fate'[n] \in {"acked", "lost"}
           /\ \A m \in Requests : m # n => fate'[m] = fate[m]
           /\ \A m \in Requests : fate'[m] = fate[m] \/ (fate[m] = "acked" /\ fate'[m] = "lost")
<1>1. fate \in [Requests -> Fates] /\ fate[n] = "acked" /\ "lost" \in Fates
  BY Zenon DEF HeldInv, RowsInv, Fates
<1>2. CASE fate' = fate
  BY <1>1, <1>2, Zenon
<1>3. CASE fate' = [fate EXCEPT ![n] = "lost"]
  BY <1>1, <1>3, Zenon
<1> QED BY <1>2, <1>3, Zenon

\* The head of the writer's channel.
LEMMA HeadRow ==
    ASSUME LogInv, log.q # << >>
    PROVE  /\ TakenFrom(log.q, Tail(log.q), Requests)
           /\ Head(log.q) \in Requests /\ Head(log.q) \in Elements(log.q)
           /\ Tail(log.q) \in RowSeqs /\ Len(Tail(log.q)) <= LogCapacity
<1>1. log.q \in Seq(Requests) /\ Once(log.q) /\ Len(log.q) \in Nat
  BY DEF LogInv, LogRecs, RowSeqs
<1>2. TakenFrom(log.q, Tail(log.q), Requests)
  BY <1>1, HeadTaken, Zenon
<1>3. /\ Head(log.q) \in Requests /\ Head(log.q) \in Elements(log.q)
      /\ Tail(log.q) \in RowSeqs /\ Len(Tail(log.q)) = Len(log.q) - 1
  BY <1>2, Zenon DEF TakenFrom, RowSeqs
<1>4. Len(log.q) <= LogCapacity /\ LogCapacity \in Nat
  BY ServiceAssumption, Zenon DEF LogInv, ServiceAssumption
<1>5. Len(Tail(log.q)) <= LogCapacity
  BY <1>1, <1>3, <1>4
<1> QED BY <1>2, <1>3, <1>5, Zenon

\* A row is appended to the active file; behind the remains of a broken one it is lost.
LEMMA AppendRowKeeps ==
    ASSUME Inv, AppendRow
    PROVE  Good
<1> DEFINE n == Head(log.q)
           x == IF Cardinality(log.active \cup {n}) >= RotateAt THEN "full" ELSE log.st
<1>1. /\ HeldInv /\ LogInv /\ RowsInv /\ log.st = "run" /\ log.q # << >>
      /\ UNCHANGED <<daemon, ready, backlog, queue, worker, files, wd, faults>>
      /\ log' = [log EXCEPT !.q = Tail(@), !.active = log.active \cup {n}, !.torn = "no",
                     !.st = IF Cardinality(log.active \cup {n}) >= RotateAt THEN "full" ELSE @]
      /\ fate' = IF log.torn = "yes" THEN [fate EXCEPT ![n] = "lost"] ELSE fate
  BY Zenon DEF Inv, AppendRow
<1>2. x \in {"full", "run"}
  BY <1>1, Zenon
<1>3. /\ TakenFrom(log.q, Tail(log.q), Requests)
      /\ n \in Requests /\ n \in Elements(log.q)
      /\ Tail(log.q) \in RowSeqs /\ Len(Tail(log.q)) <= LogCapacity
  BY <1>1, HeadRow, Zenon
<1>4. log' = [q |-> Tail(log.q), active |-> log.active \cup {n}, torn |-> "no", st |-> x]
  BY <1>1, Zenon DEF LogInv, LogRecs
<1>5. log.active \in SUBSET Requests
  BY <1>1 DEF LogInv, LogRecs
<1>6. /\ \A m \in Requests : m \in Elements(log.q) <=> m = n \/ m \in Elements(Tail(log.q))
      /\ \A m \in Requests : m \in Elements(Tail(log.q)) => m # n
      /\ Once(Tail(log.q))
  BY <1>3, Zenon DEF TakenFrom
<1> HIDE DEF n, x
<1>7. log' \in LogRecs /\ log'.q = Tail(log.q) /\ log'.active = log.active \cup {n}
  BY <1>2, <1>3, <1>4, <1>5 DEF LogRecs
<1>8. LogInv'
  BY <1>1, <1>3, <1>6, <1>7, Zenon DEF LogInv
<1>9. /\ fate' \in [Requests -> Fates] /\ fate[n] = "acked" /\ fate'[n] \in {"acked", "lost"}
      /\ \A m \in Requests : m # n => fate'[m] = fate[m]
      /\ \A m \in Requests : fate'[m] = fate[m] \/ (fate[m] = "acked" /\ fate'[m] = "lost")
  BY <1>1, <1>3, HeadOutcome, Zenon
<1>10. \A m : m \in KeptRows' <=> m = n \/ m \in KeptRows
  BY <1>1, <1>7, Zenon DEF KeptRows
<1>11. RowsInv'
  BY <1>1, <1>6, <1>7, <1>9, <1>10, Zenon DEF RowsInv
<1> QED BY <1>1, <1>8, <1>9, <1>11, LogStepKeeps, Zenon

\* A row that cannot be written is lost.
LEMMA AppendFailsKeeps ==
    ASSUME Inv, AppendFails
    PROVE  Good
<1> DEFINE n == Head(log.q)
           x == IF Cardinality(log.active) >= RotateAt THEN "full" ELSE log.st
<1>1. /\ HeldInv /\ LogInv /\ RowsInv /\ log.st = "run" /\ log.q # << >> /\ Fault
      /\ UNCHANGED <<daemon, ready, backlog, queue, worker, files, wd>>
      /\ fate' = [fate EXCEPT ![n] = "lost"]
  BY Zenon DEF Inv, AppendFails
<1>0. PICK t \in {log.torn, "yes"} :
          log' = [log EXCEPT !.q = Tail(@), !.torn = t,
                      !.st = IF Cardinality(log.active) >= RotateAt THEN "full" ELSE @]
  BY Zenon DEF AppendFails
<1>2. x \in {"full", "run"}
  BY <1>1, Zenon
<1>3. /\ TakenFrom(log.q, Tail(log.q), Requests)
      /\ n \in Requests /\ n \in Elements(log.q)
      /\ Tail(log.q) \in RowSeqs /\ Len(Tail(log.q)) <= LogCapacity
  BY <1>1, HeadRow, Zenon
<1>4. log' = [q |-> Tail(log.q), active |-> log.active, torn |-> t, st |-> x]
  BY <1>0, <1>1, Zenon DEF LogInv, LogRecs
<1>5. log.active \in SUBSET Requests /\ t \in {"no", "yes"}
  BY <1>0, <1>1 DEF LogInv, LogRecs
<1>6. /\ \A m \in Requests : m \in Elements(log.q) <=> m = n \/ m \in Elements(Tail(log.q))
      /\ \A m \in Requests : m \in Elements(Tail(log.q)) => m # n
      /\ Once(Tail(log.q))
  BY <1>3, Zenon DEF TakenFrom
<1> HIDE DEF n, x
<1>7. log' \in LogRecs /\ log'.q = Tail(log.q) /\ log'.active = log.active
  BY <1>2, <1>3, <1>4, <1>5 DEF LogRecs
<1>8. LogInv'
  BY <1>1, <1>3, <1>6, <1>7, Zenon DEF LogInv
<1>9. /\ fate' \in [Requests -> Fates] /\ fate[n] = "acked"
      /\ \A m \in Requests : m # n => fate'[m] = fate[m]
      /\ \A m \in Requests : fate'[m] = fate[m] \/ (fate[m] = "acked" /\ fate'[m] = "lost")
  BY <1>1, <1>3, HeadOutcome, Zenon
<1>10. KeptRows' = KeptRows
  BY <1>1, <1>7, Zenon DEF KeptRows
<1>11. fate'[n] = "lost"
  BY <1>1, <1>3, Zenon DEF HeldInv
<1>12. RowsInv'
  BY <1>1, <1>3, <1>6, <1>7, <1>9, <1>10, <1>11, Zenon DEF RowsInv
<1> QED BY <1>1, <1>8, <1>9, <1>12, LogStepKeeps, Zenon

\* The active file becomes a rotated one, or stays: no row goes.
LEMMA ActiveRotated ==
    ASSUME LogInv, files' = Append(files, [rows |-> log.active, st |-> "log"]),
           log'.active = {}
    PROVE  files' \in FileSeqs /\ \A n : n \in KeptRows' <=> n \in KeptRows
<1> DEFINE r == [rows |-> log.active, st |-> "log"]
<1>1. files \in FileSeqs /\ r \in FileRecs /\ r.rows = log.active
  BY DEF LogInv, LogRecs, FileRecs, FileStates
<1> HIDE DEF r
<1>2. /\ files' \in FileSeqs
      /\ \A n : n \in RowsOf(files') <=> n \in RowsOf(files) \/ n \in r.rows
  BY <1>1, FileAdded, Zenon DEF r
<1> QED BY <1>1, <1>2, Zenon DEF KeptRows

\* A rotation, and a rename that fails.
LEMMA RotateKeeps ==
    ASSUME Inv, Rotate \/ RotateFails
    PROVE  Good
<1>1. /\ HeldInv /\ LogInv /\ RowsInv
      /\ UNCHANGED <<daemon, ready, backlog, queue, worker, fate, wd>>
      /\ faults' = faults \/ Fault
  BY Zenon DEF Inv, Rotate, RotateFails
<1>2. /\ log \in LogRecs /\ log.q \in RowSeqs /\ log.active \in SUBSET Requests
      /\ log.torn \in {"no", "yes"}
  BY <1>1 DEF LogInv, LogRecs
<1>3. CASE Rotate
  <2>1. log' = [q |-> log.q, active |-> {}, torn |-> "no", st |-> "run"]
    BY <1>2, <1>3, Zenon DEF Rotate, LogRecs
  <2>2. log' \in LogRecs /\ log'.q = log.q /\ log'.active = {}
    BY <1>2, <2>1 DEF LogRecs
  <2>3. files' = Append(files, [rows |-> log.active, st |-> "log"])
    BY <1>3, Zenon DEF Rotate
  <2>4. files' \in FileSeqs /\ \A n : n \in KeptRows' <=> n \in KeptRows
    BY <1>1, <2>2, <2>3, ActiveRotated, Zenon
  <2> QED BY <1>1, <2>2, <2>4, LogStepKeeps, Zenon DEF LogInv, RowsInv, HeldInv
<1>4. CASE RotateFails
  <2>1. log' = [q |-> log.q, active |-> log.active, torn |-> log.torn, st |-> "run"]
    BY <1>2, <1>4 DEF RotateFails, LogRecs
  <2>2. log' \in LogRecs /\ log'.q = log.q /\ log'.active = log.active /\ UNCHANGED files
    BY <1>2, <1>4, <2>1 DEF LogRecs, RotateFails
  <2>3. RowsInv'
    BY <1>1, <2>2, SameRowsKeep, Zenon
  <2> QED BY <1>1, <2>2, <2>3, LogStepKeeps, Zenon DEF LogInv, HeldInv
<1> QED BY <1>3, <1>4, Zenon

\* The writer's thread ends: the rows of its channel are lost, the ones in files stay.
LEMMA ReopenFailsKeeps ==
    ASSUME Inv, ReopenFails
    PROVE  Good
<1>1. /\ HeldInv /\ LogInv /\ RowsInv /\ Fault
      /\ UNCHANGED <<daemon, ready, backlog, queue, worker, wd>>
      /\ fate' = [n \in Requests |-> IF n \in Elements(log.q) THEN "lost" ELSE fate[n]]
  BY Zenon DEF Inv, ReopenFails
<1>2. /\ log \in LogRecs /\ log.active \in SUBSET Requests /\ log.torn \in {"no", "yes"}
  BY <1>1 DEF LogInv, LogRecs
<1>3. << >> \in RowSeqs /\ Len(<< >>) = 0 /\ Once(<< >>) /\ \A n : n \notin Elements(<< >>)
  BY EmptyQueue, Zenon DEF RowSeqs
<1>4. /\ log' \in LogRecs /\ log'.q = << >> /\ files' \in FileSeqs
      /\ \A n : n \in KeptRows' <=> n \in KeptRows
  <2>1. CASE /\ files' = Append(files, [rows |-> log.active, st |-> "log"])
             /\ log' = [log EXCEPT !.active = {}, !.torn = "no", !.st = "stopped", !.q = << >>]
    <3>1. log' = [q |-> << >>, active |-> {}, torn |-> "no", st |-> "stopped"]
      BY <1>2, <2>1, Zenon DEF LogRecs
    <3>2. log' \in LogRecs /\ log'.q = << >> /\ log'.active = {}
      BY <1>3, <3>1 DEF LogRecs
    <3> QED BY <1>1, <2>1, <3>2, ActiveRotated, Zenon
  <2>2. CASE log' = [log EXCEPT !.st = "stopped", !.q = << >>] /\ UNCHANGED files
    <3>1. log' = [q |-> << >>, active |-> log.active, torn |-> log.torn, st |-> "stopped"]
      BY <1>2, <2>2, Zenon DEF LogRecs
    <3>2. log' \in LogRecs /\ log'.q = << >> /\ log'.active = log.active
      BY <1>2, <1>3, <3>1 DEF LogRecs
    <3> QED BY <1>1, <2>2, <3>2, Zenon DEF LogInv, KeptRows
  <2> QED BY <2>1, <2>2, Zenon DEF ReopenFails
<1>5. LogInv'
  <2>1. Len(log'.q) <= LogCapacity
    BY <1>3, <1>4, ServiceAssumption DEF ServiceAssumption
  <2> QED BY <2>1, <1>3, <1>4, Zenon DEF LogInv
<1>6. fate' \in [Requests -> Fates]
  BY <1>1, Zenon DEF HeldInv, Fates
<1>7. \A n \in Requests : fate'[n] = IF n \in Elements(log.q) THEN "lost" ELSE fate[n]
  BY <1>1, Zenon
<1>8. \A n \in Requests : fate'[n] = fate[n] \/ (fate[n] = "acked" /\ fate'[n] = "lost")
  BY <1>1, <1>7, Zenon DEF RowsInv
<1>9. RowsInv'
  <2>1. \A n \in Requests : n \notin Elements(log'.q)
    BY <1>3, <1>4, Zenon
  <2>2. ASSUME NEW n \in Requests, fate'[n] = "acked"
        PROVE  n \in KeptRows
    BY <2>2, <1>1, <1>7, Zenon DEF RowsInv
  <2>3. ASSUME NEW n \in Requests, n \in KeptRows
        PROVE  fate'[n] \in {"acked", "lost"}
    BY <2>3, <1>1, <1>7, Zenon DEF RowsInv
  <2> QED BY <1>4, <2>1, <2>2, <2>3, Zenon DEF RowsInv
<1> QED BY <1>1, <1>5, <1>6, <1>8, <1>9, LogStepKeeps, Zenon

-----------------------------------------------------------------------------
(* The rotation threads                                                     *)

\* A file is being compressed.
LEMMA GzipStartsKeeps ==
    ASSUME Inv, NEW i \in DOMAIN files, GzipStarts(i)
    PROVE  Good
<1>1. /\ HeldInv /\ LogInv /\ RowsInv
      /\ UNCHANGED <<daemon, ready, backlog, queue, worker, fate, log, wd, faults>>
      /\ files' = [files EXCEPT ![i].st = "zip"]
  BY Zenon DEF Inv, GzipStarts
<1>2. /\ files \in FileSeqs /\ Len(files) \in Nat /\ DOMAIN files = 1 .. Len(files)
      /\ files \in [1 .. Len(files) -> FileRecs]
  BY <1>1 DEF LogInv, FileSeqs
<1> DEFINE r == [files[i] EXCEPT !.st = "zip"]
<1>3. r \in FileRecs /\ r.rows = files[i].rows
  <2>1. "zip" \in FileStates
    BY DEF FileStates
  <2> QED BY <1>2, <2>1, FileRelabelled, Zenon
<1>4. files' = [files EXCEPT ![i] = r]
  BY <1>1, <1>2
<1> HIDE DEF r
<1>5. files' \in [1 .. Len(files) -> FileRecs]
  BY <1>2, <1>3, <1>4, Zenon
<1>6. \A k \in 1 .. Len(files) : files'[k].rows = files[k].rows
  <2> TAKE k \in 1 .. Len(files)
  <2>1. files'[k] = IF k = i THEN r ELSE files[k]
    BY <1>2, <1>4, Zenon
  <2> QED BY <2>1, <1>3, Zenon
<1>7. files' \in FileSeqs /\ Len(files') = Len(files)
  BY <1>2, <1>5 DEF FileSeqs
<1>8. SameRows(files, files')
  BY <1>2, <1>6, <1>7, Relabelled, Zenon
<1>9. \A n : n \in KeptRows' <=> n \in KeptRows
  BY <1>1, <1>8, Zenon DEF KeptRows, SameRows
<1> QED BY <1>1, <1>7, <1>9, LogStepKeeps, Zenon DEF LogInv, RowsInv, HeldInv

\* The retention is enforced on files with the rows there were: rows of pruned files
\* are lost, the others are kept.
LEMMA PruneKeeps ==
    ASSUME Inv, NEW fs, SameRows(files, fs), Prune(fs),
           UNCHANGED <<daemon, ready, backlog, queue, worker, log, wd>>,
           faults' = faults \/ Fault
    PROVE  Good
<1> DEFINE gs == EnforceRetention(fs)
<1>1. /\ HeldInv /\ LogInv /\ RowsInv /\ fs \in FileSeqs
      /\ files' = gs
      /\ fate' = [n \in Requests |-> IF n \in RowsOf(fs) \ RowsOf(gs) THEN "lost" ELSE fate[n]]
  BY Zenon DEF Inv, SameRows, Prune
<1>2. gs \in FileSeqs /\ \A n : n \in RowsOf(gs) => n \in RowsOf(fs)
  BY <1>1, FilesPruned, Zenon
<1> HIDE DEF gs
<1>3. fate' \in [Requests -> Fates]
  BY <1>1, Zenon DEF HeldInv, Fates
<1>4. \A n \in Requests : fate'[n] = IF n \in RowsOf(fs) /\ n \notin RowsOf(gs)
                                     THEN "lost" ELSE fate[n]
  BY <1>1, Zenon
<1>5. \A n : n \in RowsOf(fs) => n \in KeptRows
  BY Zenon DEF KeptRows, SameRows
<1>6. \A n \in Requests : fate'[n] = fate[n] \/ (fate[n] = "acked" /\ fate'[n] = "lost")
  <2> TAKE n \in Requests
  <2>1. n \in RowsOf(fs) => fate[n] = "acked" \/ fate[n] = "lost"
    BY <1>1, <1>5, Zenon DEF RowsInv
  <2> QED BY <2>1, <1>4, Zenon
<1>7. LogInv'
  BY <1>1, <1>2, Zenon DEF LogInv
<1>8. RowsInv'
  <2>1. \A n : n \in KeptRows' <=> n \in log.active \/ n \in RowsOf(gs)
    BY <1>1, Zenon DEF KeptRows
  <2>2. \A n : n \in KeptRows <=> n \in log.active \/ n \in RowsOf(fs)
    BY Zenon DEF KeptRows, SameRows
  <2> SUFFICES ASSUME NEW n \in Requests
               PROVE  /\ n \in Elements(log.q) => fate'[n] = "acked" /\ n \notin KeptRows'
                      /\ n \in KeptRows' => fate'[n] \in {"acked", "lost"}
                      /\ fate'[n] = "acked" => n \in Elements(log.q) \/ n \in KeptRows'
    BY Zenon DEF RowsInv
  <2>3. n \in Elements(log.q) => fate'[n] = "acked" /\ n \notin KeptRows'
    BY <1>1, <1>2, <1>4, <2>1, <2>2, Zenon DEF RowsInv
  <2>4. n \in KeptRows' => fate'[n] \in {"acked", "lost"}
    BY <1>1, <1>2, <1>4, <2>1, <2>2, Zenon DEF RowsInv
  <2>5. fate'[n] = "acked" => n \in Elements(log.q) \/ n \in KeptRows'
    BY <1>1, <1>4, <2>1, <2>2, Zenon DEF RowsInv
  <2> QED BY <2>3, <2>4, <2>5, Zenon
<1> QED BY <1>3, <1>6, <1>7, <1>8, LogStepKeeps, Zenon

\* A compression ends or fails.
LEMMA GzipKeeps ==
    ASSUME Inv, NEW i \in DOMAIN files, GzipEnds(i) \/ GzipFails(i)
    PROVE  Good
<1>1. files \in FileSeqs /\ files[i] \in FileRecs
  BY DEF Inv, LogInv, FileSeqs
<1>2. PICK x \in FileStates :
          Prune(Append(RemoveAt(files, i), [files[i] EXCEPT !.st = x]))
  <2>1. {"gz", "orphan", "half"} \subseteq FileStates
    BY DEF FileStates
  <2> QED BY <2>1, Zenon DEF GzipEnds, GzipFails
<1>3. SameRows(files, Append(RemoveAt(files, i), [files[i] EXCEPT !.st = x]))
  BY <1>1, FileRelabelled, FileMoved, Zenon
<1>4. /\ UNCHANGED <<daemon, ready, backlog, queue, worker, log, wd>>
      /\ faults' = faults \/ Fault
  BY Zenon DEF GzipEnds, GzipFails
<1> QED BY <1>2, <1>3, <1>4, PruneKeeps, Zenon

-----------------------------------------------------------------------------
(* The watchdog                                                             *)

\* A miss is counted no further than the first count above the threshold.
LEMMA MissCounts ==
    ASSUME ProcInv, Miss
    PROVE  wd' \in WdRecs /\ wd'.last = wd.last /\ wd'.target = wd.target
<1> DEFINE m == IF wd.misses > KillThreshold THEN wd.misses ELSE wd.misses + 1
           p == IF m = KillThreshold THEN "kill" ELSE "idle"
<1>1. KillThreshold \in Nat /\ wd \in WdRecs
  BY ServiceAssumption, Zenon DEF ServiceAssumption, ProcInv
<1>2. m \in 0 .. KillThreshold + 1
  BY <1>1 DEF WdRecs
<1>3. p \in {"kill", "idle"}
  BY Zenon
<1>4. wd' = [wd EXCEPT !.misses = m, !.pc = p]
  BY Zenon DEF Miss
<1> HIDE DEF m, p
<1>5. wd' = [pc |-> p, misses |-> m, last |-> wd.last, target |-> wd.target]
  BY <1>1, <1>4, Zenon DEF WdRecs
<1>6. wd.last \in Nat /\ wd.target \in Nat
  BY <1>1 DEF WdRecs
<1> QED BY <1>2, <1>3, <1>5, <1>6 DEF WdRecs

\* The watchdog closes its connection: no request is touched.
LEMMA PingDropped ==
    ASSUME Inv, DropPing, UNCHANGED fate
    PROVE  ConnInv' /\ HeldInv'
<1>1. ConnInv /\ HeldInv
  BY Zenon DEF Inv
<1>2. HungUp(backlog, backlog', Ping, Conns) /\ HungUp(queue, queue', Ping, Conns)
  BY <1>1, PeerGone, Zenon DEF DropPing, ConnInv, OneHolder
<1>3. \A n \in Requests : /\ n \in Elements(backlog') <=> n \in Elements(backlog)
                          /\ n \in Elements(queue') <=> n \in Elements(queue)
  BY <1>2, Marks, Zenon DEF HungUp
<1>4. \A w \in Workers : worker'[w] = IF worker[w] = Ping THEN Closed ELSE worker[w]
  BY Zenon DEF DropPing
<1>5. worker' \in [Workers -> Conns \cup {NoConn}]
  <2>1. Closed \in Conns
    BY Zenon DEF Conns
  <2> QED BY <1>1, <2>1, Zenon DEF DropPing, ConnInv
<1>6. \A n \in Requests, w \in Workers : worker'[w] = n <=> worker[w] = n
  BY <1>4, Marks, Zenon
<1>7. OneHolder'
  <2>1. Once(backlog') /\ Once(queue')
    BY <1>2, Zenon DEF HungUp
  <2> QED BY <1>1, <1>3, <1>6, <2>1, Zenon DEF ConnInv, OneHolder
<1>8. ConnInv'
  BY <1>1, <1>2, <1>5, <1>7, Zenon DEF ConnInv, ConnSeqs, HungUp
<1>9. \A n \in Requests : n \in InDaemon' <=> n \in InDaemon
  BY <1>3, <1>6, HeldWhere, Zenon DEF InDaemon
<1> QED BY <1>1, <1>8, <1>9, Zenon DEF HeldInv

\* The watchdog connects, or cannot.
LEMMA WdConnectKeeps ==
    ASSUME Inv, WdConnect
    PROVE  Good
<1>1. /\ ProcInv /\ ConnInv /\ HeldInv
      /\ UNCHANGED <<daemon, ready, queue, worker, fate, log, files, faults>>
      /\ daemon \in DaemonRecs
  BY Zenon DEF Inv, WdConnect, ProcInv
<1>2. CASE Bound /\ Len(backlog) < ListenBacklog
  <2>1. backlog' = Append(backlog, Ping) /\ wd' = [wd EXCEPT !.pc = "waiting"]
    BY <1>2, Zenon DEF WdConnect
  <2>2. wd' \in WdRecs /\ wd'.last = wd.last /\ wd'.target = wd.target
    BY <1>1, <2>1 DEF ProcInv, WdRecs
  <2>3. ProcInv'
    BY <1>1, <2>2, WdMoves, Zenon
  <2>4. backlog \in Seq(Conns) /\ Ping \in Conns /\ Once(backlog)
    BY <1>1, Zenon DEF ConnInv, ConnSeqs, OneHolder, Conns
  <2>5. PutTo(backlog, backlog', Ping, Conns)
    BY <2>1, <2>4, Marks, LastPut, Zenon
  <2>6. Len(backlog') <= ListenBacklog
    <3>1. Len(backlog') = Len(backlog) + 1 /\ Len(backlog) \in Nat
      BY <2>4, <2>5 DEF PutTo
    <3> QED BY <3>1, <1>2, ServiceAssumption DEF ServiceAssumption
  <2>7. \A n \in Requests : n \in Elements(backlog') <=> n \in Elements(backlog)
    BY <2>5, Marks, Zenon DEF PutTo
  <2>8. ConnInv'
    BY <1>1, <2>5, <2>6, <2>7, Zenon DEF ConnInv, ConnSeqs, OneHolder, PutTo
  <2>9. \A n \in Requests : n \in InDaemon' <=> n \in InDaemon
    BY <1>1, <2>7, HeldWhere, Zenon DEF InDaemon
  <2>10. HeldInv'
    BY <1>1, <2>9, Zenon DEF HeldInv
  <2> QED BY <1>1, <2>3, <2>8, <2>10, ConnStep, SameIsLater, Zenon
<1>3. CASE ~(Bound /\ Len(backlog) < ListenBacklog)
  <2>1. Miss /\ UNCHANGED backlog
    BY <1>3, Zenon DEF WdConnect
  <2>2. ProcInv'
    BY <1>1, <2>1, MissCounts, WdMoves, Zenon
  <2> QED BY <1>1, <2>1, <2>2, QuietStep, Zenon
<1> QED BY <1>2, <1>3, Zenon

\* A ping is not answered in time, or the watchdog is started again.
LEMMA WdGivesUpKeeps ==
    ASSUME Inv, WdTimeout \/ WdSlow \/ WdRestarts
    PROVE  Good
<1>1. /\ ProcInv /\ DropPing
      /\ UNCHANGED <<daemon, ready, fate, log, files>>
      /\ faults' = faults \/ Fault
      /\ daemon \in DaemonRecs
  BY Zenon DEF Inv, WdTimeout, WdSlow, WdRestarts, ProcInv
<1>2. /\ wd' \in WdRecs /\ wd'.last \in {wd.last, daemon.pid, ready}
      /\ wd'.target \in {wd.target, 0, ready, wd.last}
  <2>1. CASE WdTimeout \/ WdSlow
    BY <1>1, <2>1, MissCounts, Zenon DEF WdTimeout, WdSlow
  <2>2. CASE WdRestarts
    <3>1. wd' = [pc |-> "idle", misses |-> 0, last |-> ready, target |-> 0]
      BY <2>2, Zenon DEF WdRestarts
    <3>2. ready \in Nat /\ KillThreshold \in Nat
      BY <1>1, ServiceAssumption DEF ServiceAssumption, ProcInv, DaemonRecs
    <3> QED BY <3>1, <3>2 DEF WdRecs
  <2> QED BY <2>1, <2>2, Zenon
<1>3. ProcInv'
  BY <1>1, <1>2, WdMoves, Zenon
<1>4. ConnInv' /\ HeldInv'
  BY <1>1, PingDropped, Zenon
<1> QED BY <1>1, <1>3, <1>4, ConnStep, SameIsLater, Zenon

\* The watchdog kills a daemon it knows, which may survive the first signal.
LEMMA WdKillKeeps ==
    ASSUME Inv, WdTerm \/ WdKill
    PROVE  Good
<1>1. ProcInv /\ UNCHANGED <<ready, faults>> /\ daemon \in DaemonRecs /\ wd \in WdRecs
  BY Zenon DEF Inv, WdTerm, WdKill, ProcInv
<1>2. \/ Die
      \/ UNCHANGED <<daemon, backlog, queue, worker, fate, log, files>>
  BY Zenon DEF WdTerm, WdKill
<1>3. ready \in Nat /\ wd.last \in Nat
  BY <1>1 DEF ProcInv, DaemonRecs, WdRecs
<1>4. Target \in Nat /\ Target \in {ready, wd.last}
  BY <1>3, Zenon DEF Target
<1>5. /\ wd' \in WdRecs /\ wd'.last = wd.last
      /\ wd'.target \in {wd.target, 0, ready, wd.last}
  <2>1. CASE wd' = [wd EXCEPT !.pc = "idle"]
    BY <1>1, <2>1 DEF WdRecs
  <2>2. CASE wd' = [wd EXCEPT !.pc = "grace", !.target = Target]
    <3>1. wd' = [pc |-> "grace", misses |-> wd.misses, last |-> wd.last, target |-> Target]
      BY <1>1, <2>2, Zenon DEF WdRecs
    <3>2. wd.misses \in 0 .. KillThreshold + 1
      BY <1>1 DEF WdRecs
    <3>3. wd' \in WdRecs /\ wd'.last = wd.last /\ wd'.target = Target
      BY <1>3, <1>4, <3>1, <3>2, SMTT(30) DEF WdRecs
    <3> QED BY <1>4, <3>3, Zenon
  <2>3. CASE wd' = [wd EXCEPT !.pc = "idle", !.target = 0]
    <3>1. wd' = [pc |-> "idle", misses |-> wd.misses, last |-> wd.last, target |-> 0]
      BY <1>1, <2>3, Zenon DEF WdRecs
    <3>2. wd.misses \in 0 .. KillThreshold + 1
      BY <1>1 DEF WdRecs
    <3> QED BY <1>3, <3>1, <3>2 DEF WdRecs
  <2> QED BY <2>1, <2>2, <2>3, Zenon DEF WdTerm, WdKill
<1>6. CASE Die
  <2>1. ProcInv'
    BY <1>1, <1>5, <1>6, DieKeeps, WdMoves, Zenon
  <2> QED BY <1>6, <2>1, DieKeeps, Zenon DEF Inv, Good
<1>7. CASE UNCHANGED <<daemon, backlog, queue, worker, fate, log, files>>
  <2>1. ProcInv'
    BY <1>1, <1>5, <1>7, WdMoves, Zenon
  <2> QED BY <1>7, <2>1, QuietStep, Zenon
<1> QED BY <1>2, <1>6, <1>7, Zenon

-----------------------------------------------------------------------------
(* The invariant is inductive                                               *)

\* Before the first start nothing is held and nothing is written.
LEMMA InitInv == Init => Inv
<1> SUFFICES ASSUME Init PROVE Inv
  OBVIOUS
<1>1. ProcInv
  <2>1. PICK p \in {"absent", "idle"} :
            wd = [pc |-> p, misses |-> 0, last |-> 0, target |-> 0]
    BY Zenon DEF Init
  <2>2. daemon = [pid |-> 0, st |-> "down", hung |-> "no"] /\ ready = 0 /\ faults = 0
    BY Zenon DEF Init
  <2>3. KillThreshold \in Nat /\ MaxFaults \in Nat
    BY ServiceAssumption DEF ServiceAssumption
  <2> QED BY <2>1, <2>2, <2>3 DEF ProcInv, DaemonRecs, WdRecs
<1>2. /\ << >> \in ConnSeqs /\ << >> \in RowSeqs /\ << >> \in FileSeqs
      /\ Len(<< >>) = 0 /\ Once(<< >>)
  BY EmptyQueue, Zenon DEF ConnSeqs, RowSeqs, FileSeqs
<1>3. \A n : n \notin Elements(<< >>)
  BY EmptyQueue, Zenon
<1>4. /\ backlog = << >> /\ queue = << >> /\ files = << >>
      /\ \A w \in Workers : worker[w] = NoConn
      /\ worker \in [Workers -> Conns \cup {NoConn}]
      /\ fate \in [Requests -> Fates] /\ \A n \in Requests : fate[n] = "new"
  BY Zenon DEF Init, Fates
<1>5. ConnInv
  <2>1. Len(backlog) <= ListenBacklog /\ Len(queue) <= QueueDepth
    BY <1>2, <1>4, ServiceAssumption DEF ServiceAssumption
  <2> QED BY <1>2, <1>3, <1>4, <2>1, Marks, Zenon DEF ConnInv, OneHolder
<1>6. HeldInv
  BY <1>3, <1>4, Marks, Zenon DEF HeldInv, InDaemon
<1>7. log = [q |-> << >>, active |-> {}, torn |-> "no", st |-> "off"]
  BY Zenon DEF Init
<1>8. log \in LogRecs /\ log.q = << >> /\ log.active = {}
  BY <1>2, <1>7 DEF LogRecs
<1>9. LogInv
  <2>1. Len(log.q) <= LogCapacity
    BY <1>2, <1>8, ServiceAssumption DEF ServiceAssumption
  <2> QED BY <1>2, <1>4, <1>8, <2>1, Zenon DEF LogInv
<1>10. \A n : n \notin KeptRows
  <2>1. \A i \in 1 .. Len(<< >>) : FALSE
    BY <1>2
  <2>2. \A n : n \notin RowsOf(files)
    BY <1>2, <1>4, <2>1, RowAt, Zenon
  <2> QED BY <2>2, <1>8, Zenon DEF KeptRows
<1>11. RowsInv
  BY <1>3, <1>4, <1>8, <1>10, Zenon DEF RowsInv
<1> QED BY <1>1, <1>5, <1>6, <1>9, <1>11, Zenon DEF Inv

\* Every step of the daemon, its threads, its clients, launchd and the watchdog keeps
\* the invariant and gives a request only an outcome it can still have.
LEMMA StepInv == Inv /\ [Next]_vars => Good
<1> SUFFICES ASSUME Inv, [Next]_vars PROVE Good
  OBVIOUS
<1>1. CASE Startup \/ StartFails \/ DaemonCrashes \/ DaemonHangs
  BY <1>1, DaemonSteps, BindKeeps, EndsKeep, Zenon DEF Startup
<1>2. CASE \E n \in Requests : Connect(n) \/ GiveUp(n)
  BY <1>2, ConnectKeeps, GiveUpKeeps, Zenon
<1>3. CASE Accept
  BY <1>3, AcceptKeeps, Zenon
<1>4. CASE \E w \in Workers : WorkerStep(w) \/ HandlerUnwinds(w) \/ HandlerAborts(w)
  <2>1. PICK w \in Workers : WorkerStep(w) \/ HandlerUnwinds(w) \/ HandlerAborts(w)
    BY <1>4, Zenon
  <2>2. CASE Receive(w) \/ HandlePing(w)
    BY <2>2, ReceiveKeeps, PingKeeps, Zenon
  <2>3. CASE HandleDenyNotify(w) \/ HandleExecBlocked(w) \/ HandlePersistenceWrite(w)
    BY <2>3, SendKeeps, Zenon
  <2>4. CASE RefusePeer(w) \/ HandleResolve(w) \/ HandlerUnwinds(w)
    BY <2>4, HandlerReturns, Zenon
  <2>5. CASE HandlerAborts(w)
    BY <2>5, EndsKeep, Zenon
  <2> QED BY <2>1, <2>2, <2>3, <2>4, <2>5, Zenon DEF WorkerStep
<1>5. CASE LogStep \/ AppendFails \/ RotateFails \/ ReopenFails
  BY <1>5, AppendRowKeeps, AppendFailsKeeps, RotateKeeps, ReopenFailsKeeps, Zenon DEF LogStep
<1>6. CASE GzipStep \/ \E i \in DOMAIN files : GzipFails(i)
  BY <1>6, GzipStartsKeeps, GzipKeeps, Zenon DEF GzipStep
<1>7. CASE Watch \/ WdSlow \/ WdRestarts
  BY <1>7, WdConnectKeeps, WdGivesUpKeeps, WdKillKeeps, Zenon DEF Watch
<1>8. CASE UNCHANGED vars
  <2>1. UNCHANGED <<daemon, ready, backlog, queue, worker, fate, log, files, wd, faults>>
    BY <1>8, Zenon DEF vars
  <2>2. ProcInv'
    BY <2>1, ProcKeeps, Zenon DEF Inv
  <2> QED BY <2>1, <2>2, QuietStep, Zenon
<1> QED BY <1>1, <1>2, <1>3, <1>4, <1>5, <1>6, <1>7, <1>8, Zenon DEF Next

\* The daemon as a service always satisfies the invariant, whichever of its threads,
\* clients, launchd and the watchdog moves (run_forever, LogWriter::spawn).
THEOREM Inductive == Spec => []Inv
<1>1. Init => Inv
  BY InitInv, Zenon
<1>2. Inv /\ [Next]_vars => Inv'
  BY StepInv, Zenon DEF Good
<1> QED BY <1>1, <1>2, PTL DEF Spec

-----------------------------------------------------------------------------
(* What is proved                                                           *)

\* The state is well typed: the accept queue, the backlog and the writer's channel stay
\* within their depths, and no pid is known that was not started (run_forever,
\* LogWriter::send, read_daemon_pid).
THEOREM TypeCorrect == Spec => []TypeOK
<1>1. Inv => TypeOK
  <2> SUFFICES ASSUME Inv PROVE TypeOK
    OBVIOUS
  <2>1. /\ daemon \in DaemonRecs /\ ready \in 0 .. daemon.pid /\ faults \in 0 .. MaxFaults
        /\ backlog \in ConnSeqs /\ Len(backlog) <= ListenBacklog
        /\ queue \in ConnSeqs /\ Len(queue) <= QueueDepth
        /\ worker \in [Workers -> Conns \cup {NoConn}]
        /\ fate \in [Requests -> Fates]
        /\ Len(log.q) <= LogCapacity /\ files \in FileSeqs
    BY Zenon DEF Inv, ProcInv, ConnInv, HeldInv, LogInv
  <2>2. /\ log.q \in Seq(Requests) /\ log.active \in SUBSET Requests
        /\ log.torn \in {"no", "yes"} /\ log.st \in {"off", "run", "full", "stopped"}
    BY DEF Inv, LogInv, LogRecs, RowSeqs
  <2>3. /\ wd.pc \in {"absent", "idle", "waiting", "kill", "grace"}
        /\ wd.misses \in 0 .. KillThreshold + 1
        /\ {wd.last, wd.target} \subseteq 0 .. daemon.pid
    BY DEF Inv, ProcInv, WdRecs, DaemonRecs
  <2>4. Conns \cup {NoConn} = Requests \cup {Ping, Closed, NoConn}
    BY Zenon DEF Conns
  <2> QED BY <2>1, <2>2, <2>3, <2>4, Zenon
          DEF TypeOK, DaemonRecs, ConnSeqs, Conns, Fates, FileSeqs, FileRecs
<1> QED BY <1>1, Inductive, PTL

\* A request is decided once: what was answered or lost stays so, and what was
\* acknowledged can only be lost later.
DecidedOnce == [][Forward]_vars

\* No interleaving of the accept loop, the workers, a peer's time-out, a panic and the
\* end of the process gives a request two outcomes (run_forever, spawn_worker, handle,
\* LogWriter::send).
THEOREM RequestsDecidedOnce == Spec => DecidedOnce
<1>1. Inv /\ [Next]_vars => [Forward]_vars
  BY StepInv, Zenon DEF Good
<1> QED BY <1>1, Inductive, PTL DEF Spec, DecidedOnce

\* A row that was acknowledged, and not lost since for a cause the code knows, waits in
\* the writer's channel or is in a file.
AckedIsKept ==
    \A n \in Requests : fate[n] = "acked" => n \in Elements(log.q) \/ n \in KeptRows

\* No rotation, compression, pruning or restart makes an acknowledged row disappear
\* unnoticed (LogWriter::spawn, rotate, gzip_in_place, enforce_retention).
THEOREM AckedRowsKept == Spec => []AckedIsKept
<1>1. Inv => AckedIsKept
  BY Zenon DEF Inv, RowsInv, AckedIsKept
<1> QED BY <1>1, Inductive, PTL

\* An open request is held in exactly one place.
OpenInOnePlace ==
    \A n \in Requests : fate[n] = "sent" =>
        /\ n \in InDaemon
        /\ n \in Elements(backlog) => n \notin Elements(queue)
        /\ \A v, w \in Workers : worker[v] = n =>
               /\ n \notin Elements(backlog) /\ n \notin Elements(queue)
               /\ worker[w] = n => v = w

\* A connection is neither forgotten on its way from the kernel to a worker nor handled
\* by two (run_forever, spawn_worker).
THEOREM OpenRequestsHeldOnce == Spec => []OpenInOnePlace
<1>1. Inv => OpenInOnePlace
  BY Zenon DEF Inv, ConnInv, OneHolder, HeldInv, OpenInOnePlace
<1> QED BY <1>1, Inductive, PTL
=============================================================================
