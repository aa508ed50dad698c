---------------------------- MODULE InstallProofs ---------------------------
(***************************************************************************)
(* Proofs about Install for any number of attempts, failed steps, crashes  *)
(* and daemon exits.                                                       *)
(***************************************************************************)
EXTENDS Install, Integers, TLAPS

-----------------------------------------------------------------------------
(* The places of the script                                                *)

\* Where a path is recorded for the rollback, where it is certain to exist and
\* where its content is complete.
RecordAt(p) ==
    CASE p = "bin" -> 4 [] p = "daemon" -> 6 [] p = "hook" -> 9 [] p = "state" -> 15
      [] p = "log" -> 18 [] p = "signers" -> 22 [] p = "db" -> 27 [] p = "plist" -> 31

CreateAt(p) ==
    CASE p = "bin" -> 5 [] p = "daemon" -> 7 [] p = "hook" -> 10 [] p = "state" -> 16
      [] p = "log" -> 19 [] p = "signers" -> 24 [] p = "db" -> 28 [] p = "plist" -> 32

WriteAt(f) ==
    CASE f = "daemon" -> 8 [] f = "hook" -> 11 [] f = "signers" -> 25 [] f = "db" -> 29
      [] f = "plist" -> 33

StepRecs ==
    [op : {"create_user", "set_attributes", "record_user", "record_dir", "create_dir",
           "record_file", "truncate", "write", "own", "enroll", "unlink", "open_store",
           "register_key", "bootout", "bootstrap", "record_started", "failpoint"},
     path : Paths \cup {"none"}]

\* run_install is the steps of its functions in their order, 38 of them.
LEMMA ScriptIs ==
    /\ Script \in Seq(StepRecs) /\ Len(Script) = 38
    /\ Script[1] = Step("create_user", "none") /\ Script[2] = Step("set_attributes", "none")
    /\ Script[3] = Step("record_user", "none") /\ Script[4] = Step("record_dir", "bin")
    /\ Script[5] = Step("create_dir", "bin") /\ Script[6] = Step("record_file", "daemon")
    /\ Script[7] = Step("truncate", "daemon") /\ Script[8] = Step("write", "daemon")
    /\ Script[9] = Step("record_file", "hook") /\ Script[10] = Step("truncate", "hook")
    /\ Script[11] = Step("write", "hook") /\ Script[12] = Step("own", "bin")
    /\ Script[13] = Step("own", "daemon") /\ Script[14] = Step("own", "hook")
    /\ Script[15] = Step("record_dir", "state") /\ Script[16] = Step("create_dir", "state")
    /\ Script[17] = Step("own", "state") /\ Script[18] = Step("record_dir", "log")
    /\ Script[19] = Step("create_dir", "log") /\ Script[20] = Step("own", "log")
    /\ Script[21] = Step("enroll", "none") /\ Script[22] = Step("record_file", "signers")
    /\ Script[23] = Step("unlink", "signers") /\ Script[24] = Step("truncate", "signers")
    /\ Script[25] = Step("write", "signers") /\ Script[26] = Step("own", "signers")
    /\ Script[27] = Step("record_file", "db") /\ Script[28] = Step("open_store", "db")
    /\ Script[29] = Step("register_key", "db") /\ Script[30] = Step("own", "db")
    /\ Script[31] = Step("record_file", "plist") /\ Script[32] = Step("truncate", "plist")
    /\ Script[33] = Step("write", "plist") /\ Script[34] = Step("own", "plist")
    /\ Script[35] = Step("bootout", "none") /\ Script[36] = Step("bootstrap", "none")
    /\ Script[37] = Step("record_started", "none") /\ Script[38] = Step("failpoint", "none")
<1> USE DEF Script, RunInstall, CreateServiceUser, DeployBinaries, CreateDirectories,
            RegisterRuleSigner, WriteTrustedSignerManifest, InstallLaunchdaemon,
            StartDaemon, MakeDir, Replace, Step
<1>1. Script \in Seq(StepRecs) /\ Len(Script) = 38
  BY DEF StepRecs, Paths, Dirs, Files
<1>2. /\ Script[1] = Step("create_user", "none")
      /\ Script[2] = Step("set_attributes", "none")
      /\ Script[3] = Step("record_user", "none")
  OBVIOUS
<1>3. /\ Script[4] = Step("record_dir", "bin")
      /\ Script[5] = Step("create_dir", "bin")
      /\ Script[6] = Step("record_file", "daemon")
      /\ Script[7] = Step("truncate", "daemon")
      /\ Script[8] = Step("write", "daemon")
      /\ Script[9] = Step("record_file", "hook")
      /\ Script[10] = Step("truncate", "hook")
      /\ Script[11] = Step("write", "hook")
      /\ Script[12] = Step("own", "bin")
      /\ Script[13] = Step("own", "daemon")
      /\ Script[14] = Step("own", "hook")
  OBVIOUS
<1>4. /\ Script[15] = Step("record_dir", "state")
      /\ Script[16] = Step("create_dir", "state")
      /\ Script[17] = Step("own", "state")
      /\ Script[18] = Step("record_dir", "log")
      /\ Script[19] = Step("create_dir", "log")
      /\ Script[20] = Step("own", "log")
  OBVIOUS
<1>5. /\ Script[22] = Step("record_file", "signers")
      /\ Script[23] = Step("unlink", "signers")
      /\ Script[24] = Step("truncate", "signers")
      /\ Script[25] = Step("write", "signers")
      /\ Script[26] = Step("own", "signers")
      /\ Script[27] = Step("record_file", "db")
      /\ Script[28] = Step("open_store", "db")
      /\ Script[29] = Step("register_key", "db")
      /\ Script[30] = Step("own", "db")
  OBVIOUS
<1>6. /\ Script[31] = Step("record_file", "plist")
      /\ Script[32] = Step("truncate", "plist")
      /\ Script[33] = Step("write", "plist")
      /\ Script[34] = Step("own", "plist")
  OBVIOUS
<1>7. /\ Script[21] = Step("enroll", "none")
      /\ Script[35] = Step("bootout", "none")
      /\ Script[36] = Step("bootstrap", "none")
      /\ Script[37] = Step("record_started", "none")
      /\ Script[38] = Step("failpoint", "none")
  OBVIOUS
<1> QED BY ONLY <1>1, <1>2, <1>3, <1>4, <1>5, <1>6, <1>7

Creates == {"create_dir", "truncate", "open_store"}
Fills   == {"write", "register_key"}

\* What a step on a path says of its place.
PathStep(s, k) ==
    /\ s.op = "record_dir" => s.path \in Dirs /\ k = RecordAt(s.path)
    /\ s.op = "record_file" => s.path \in Files /\ k = RecordAt(s.path)
    /\ s.op \in WriteOps => s.path \in Paths /\ RecordAt(s.path) < k
    /\ s.op \in WriteOps /\ s.path \in Dirs => s.op \in {"create_dir", "own"}
    /\ s.op \in Creates => k = CreateAt(s.path)
    /\ s.op = "create_dir" => s.path \in Dirs
    /\ s.op \in Fills \cup {"own"} => CreateAt(s.path) < k
    /\ s.op \in Fills \cup {"truncate", "open_store"} => s.path \in Files
    /\ s.op \in Fills => k = WriteAt(s.path)
    /\ s.op \in {"truncate", "open_store"} => k < WriteAt(s.path)
    /\ s.op = "unlink" => s.path = "signers" /\ k = 23
    /\ s.op = "open_store" => s.path = "db"
    /\ s.op = "register_key" => s.path = "db"

\* What the place says of the step: nothing else records, creates or fills.
PlaceStep(s, k) ==
    /\ \A p \in Paths : RecordAt(p) = k => s.path = p /\ s.op \in {"record_dir", "record_file"}
    /\ \A p \in Paths : CreateAt(p) = k => s.path = p /\ s.op \in Creates
    /\ \A f \in Files : WriteAt(f) = k => s.path = f /\ s.op \in Fills
    /\ s.op = "create_user" <=> k = 1
    /\ s.op = "set_attributes" <=> k = 2
    /\ s.op = "record_user" <=> k = 3
    /\ s.op = "bootout" <=> k = 35
    /\ s.op = "bootstrap" <=> k = 36
    /\ s.op = "record_started" <=> k = 37
    /\ s.op \in {"enroll", "failpoint"} <=> k \in {21, 38}

Fits(s, k) == PathStep(s, k) /\ PlaceStep(s, k)

\* Every step of run_install stands where the tables of places say.
LEMMA Schedule ==
    ASSUME NEW k \in 1 .. Len(Script)
    PROVE  Fits(Script[k], k)
<1> USE DEF Fits, PathStep, PlaceStep, WriteOps, Creates, Fills, Paths, Dirs, Files,
            RecordAt, CreateAt, WriteAt, Step
<1>0. k \in {1, 2, 3, 4, 5, 6, 7, 8, 9, 10, 11, 12, 13, 14, 15, 16, 17, 18, 19,
            20, 21, 22, 23, 24, 25, 26, 27, 28, 29, 30, 31, 32, 33, 34, 35, 36, 37, 38}
  BY ScriptIs
<1>1. /\ Fits(Step("create_user", "none"), 1)
      /\ Fits(Step("set_attributes", "none"), 2)
      /\ Fits(Step("record_user", "none"), 3)
  OBVIOUS
<1>2. /\ Fits(Step("record_dir", "bin"), 4)
      /\ Fits(Step("create_dir", "bin"), 5)
  OBVIOUS
<1>3. /\ Fits(Step("record_file", "daemon"), 6)
      /\ Fits(Step("truncate", "daemon"), 7)
      /\ Fits(Step("write", "daemon"), 8)
  OBVIOUS
<1>4. /\ Fits(Step("record_file", "hook"), 9)
      /\ Fits(Step("truncate", "hook"), 10)
      /\ Fits(Step("write", "hook"), 11)
  OBVIOUS
<1>5. /\ Fits(Step("own", "bin"), 12)
      /\ Fits(Step("own", "daemon"), 13)
      /\ Fits(Step("own", "hook"), 14)
  OBVIOUS
<1>6. /\ Fits(Step("record_dir", "state"), 15)
      /\ Fits(Step("create_dir", "state"), 16)
      /\ Fits(Step("own", "state"), 17)
  OBVIOUS
<1>7. /\ Fits(Step("record_dir", "log"), 18)
      /\ Fits(Step("create_dir", "log"), 19)
      /\ Fits(Step("own", "log"), 20)
      /\ Fits(Step("enroll", "none"), 21)
  OBVIOUS
<1>8. /\ Fits(Step("record_file", "signers"), 22)
      /\ Fits(Step("unlink", "signers"), 23)
      /\ Fits(Step("truncate", "signers"), 24)
  OBVIOUS
<1>9. /\ Fits(Step("write", "signers"), 25)
      /\ Fits(Step("own", "signers"), 26)
  OBVIOUS
<1>10. /\ Fits(Step("record_file", "db"), 27)
       /\ Fits(Step("open_store", "db"), 28)
       /\ Fits(Step("register_key", "db"), 29)
       /\ Fits(Step("own", "db"), 30)
  OBVIOUS
<1>11. /\ Fits(Step("record_file", "plist"), 31)
       /\ Fits(Step("truncate", "plist"), 32)
       /\ Fits(Step("write", "plist"), 33)
       /\ Fits(Step("own", "plist"), 34)
  OBVIOUS
<1>12. /\ Fits(Step("bootout", "none"), 35)
       /\ Fits(Step("bootstrap", "none"), 36)
       /\ Fits(Step("record_started", "none"), 37)
       /\ Fits(Step("failpoint", "none"), 38)
  OBVIOUS
<1> HIDE DEF Fits, Step
<1>13. CASE k \in {1, 2, 3}
  BY ONLY <1>13, <1>1, ScriptIs, Zenon
<1>14. CASE k \in {4, 5}
  BY ONLY <1>14, <1>2, ScriptIs, Zenon
<1>15. CASE k \in {6, 7, 8}
  BY ONLY <1>15, <1>3, ScriptIs, Zenon
<1>16. CASE k \in {9, 10, 11}
  BY ONLY <1>16, <1>4, ScriptIs, Zenon
<1>17. CASE k \in {12, 13, 14}
  BY ONLY <1>17, <1>5, ScriptIs, Zenon
<1>18. CASE k \in {15, 16, 17}
  BY ONLY <1>18, <1>6, ScriptIs, Zenon
<1>19. CASE k \in {18, 19, 20, 21}
  BY ONLY <1>19, <1>7, ScriptIs, Zenon
<1>20. CASE k \in {22, 23, 24}
  BY ONLY <1>20, <1>8, ScriptIs, Zenon
<1>21. CASE k \in {25, 26}
  BY ONLY <1>21, <1>9, ScriptIs, Zenon
<1>22. CASE k \in {27, 28, 29, 30}
  BY ONLY <1>22, <1>10, ScriptIs, Zenon
<1>23. CASE k \in {31, 32, 33, 34}
  BY ONLY <1>23, <1>11, ScriptIs, Zenon
<1>24. CASE k \in {35, 36, 37, 38}
  BY ONLY <1>24, <1>12, ScriptIs, Zenon
<1> QED BY ONLY <1>0, <1>13, <1>14, <1>15, <1>16, <1>17, <1>18, <1>19, <1>20, <1>21, <1>22,
           <1>23, <1>24

-----------------------------------------------------------------------------
(* The inductive invariant                                                 *)

Entries == {e \in [ver : Versions, meta : Metas] : e.ver = "none" <=> e.meta = "none"}
Users   == {"none", "partial", "odd", "good"}
Flags   == {"no", "yes"}

Whole  == {"bootstrap", "bootout", "remove_user"}
OnPath == {"remove_dir", "remove_file", "restore_meta", "restore_file"}

\* The actions a transaction records.
UndoRecs ==
    {u \in [act : Whole \cup OnPath, path : Paths \cup {"none"}, file : Entries] :
        /\ u.act \in Whole => u.path = "none"
        /\ u.act \in {"remove_dir", "restore_meta"} => u.path \in Dirs
        /\ u.act \in {"remove_file", "restore_file"} => u.path \in Files
        /\ u.act \in {"restore_meta", "restore_file"} => u.file # Absent}

\* The place of the script that records an action; the service that was loaded
\* is recorded before the first one.
Rank(u) ==
    CASE u.act = "bootstrap" -> 0 [] u.act = "remove_user" -> 3 [] u.act = "bootout" -> 37
      [] OTHER -> RecordAt(u.path)

In(p, s)  == \E i \in 1 .. Len(s) : s[i].path = p
Has(a, s) == \E i \in 1 .. Len(s) : s[i].act = a

\* The recorded actions stand in the order of the script, and nothing before
\* the last of them has been left out.
Stack(s, k) ==
    /\ s \in Seq(UndoRecs) /\ Len(s) <= k
    /\ \A i \in 1 .. Len(s) : Rank(s[i]) < k
    /\ \A i, j \in 1 .. Len(s) : i < j => Rank(s[i]) < Rank(s[j])
    /\ \A i \in 1 .. Len(s) : \A p \in Paths : RecordAt(p) < Rank(s[i]) => In(p, s)

Undos == Seq(UndoRecs)

InstRecs ==
    [st : {"idle", "install", "rollback", "done", "rolledback", "dead"}, step : 1 .. 39,
     undo : Undos, pre : Flags, made : Flags, src : {"new"},
     attempts : 0 .. MaxInstalls, failures : {0, 1}]

Typing ==
    /\ fs \in [Paths -> Entries] /\ litter \subseteq {"state", "log"}
    /\ user \in Users /\ loaded \in Flags /\ running \in Versions \ {"torn"}
    /\ upd \in {"none", "selected", "good", "bad", "installing"}
    /\ inst \in InstRecs
    /\ before \in [fs : [Paths -> Entries], user : Users, loaded : Flags]
    /\ over \in {"no", "yes", "unheard"} /\ faults \in 0 .. MaxFaults

\* Every path the installer has passed is recorded and exists.
Steps ==
    /\ Stack(inst.undo, inst.step)
    /\ inst.st \notin {"install", "rollback"} => inst.undo = << >>
    /\ inst.st = "install" =>
          \A p \in Paths : /\ RecordAt(p) < inst.step => In(p, inst.undo)
                           /\ CreateAt(p) < inst.step => fs[p] # Absent

Clean == inst.failures = 0 /\ over # "unheard"
Tried == inst.st \in {"install", "rollback", "rolledback"}

\* A database that the daemon makes where there was none.
Excused(p) == p = "db" /\ before.fs[p] = Absent /\ before.loaded = "yes"

\* Action "u" brings back what was at "p" when the attempt began.
Restores(u, p) ==
    IF before.fs[p] = Absent THEN u.act \in {"remove_dir", "remove_file"}
    ELSE /\ u.act \in {"restore_meta", "restore_file"} /\ u.file = before.fs[p]
         /\ u.act = "restore_meta" => fs[p] # Absent /\ fs[p].ver = before.fs[p].ver

Kept(p) ==
    /\ ~In(p, inst.undo) => fs[p] = before.fs[p]
    /\ \A i \in 1 .. Len(inst.undo) : inst.undo[i].path = p => Restores(inst.undo[i], p)

FilesInv == Tried /\ Clean => \A p \in Paths : Excused(p) \/ Kept(p)

Started == inst.st = "install" /\ inst.step >= 37

\* Whether the service was loaded is on the stack until it is loaded again, and
\* a service the attempt has loaded is on the stack too.
LoadedInv ==
    /\ Tried /\ Clean =>
        /\ before.loaded = "no" => ~Has("bootstrap", inst.undo)
        /\ before.loaded = "yes" =>
               \/ Has("bootstrap", inst.undo)
               \/ inst.st # "install" /\ inst.undo = << >> /\ loaded = "yes"
        /\ before.loaded = "no" /\ loaded = "yes" =>
               (inst.st = "install" /\ inst.step = 37) \/ Has("bootout", inst.undo)
    /\ Started \/ inst.st = "done" => loaded = "yes"

Settled ==
    \/ Started
    \/ inst.st = "done"
    \/ inst.st \in {"rollback", "rolledback"} /\ Clean /\ inst.undo = << >>

RunInv ==
    /\ running # "none" => loaded = "yes"
    /\ Settled => running \in {"none", fs["daemon"].ver}

\* A user the attempt has made is on the stack until it is removed.
UserInv ==
    Tried /\ inst.failures = 0 /\ before.user = "none" =>
        /\ inst.st = "install" /\ inst.step = 1 => user = "none"
        /\ inst.st = "install" /\ inst.step \in {2, 3} => inst.made = "yes"
        /\ inst.pre = "no" /\ inst.step > 3 => Has("remove_user", inst.undo) \/ user = "none"

AllOf(v) == \A f \in Files : fs[f].ver = v

\* The plist, which the health check wants whole, is written after every other
\* file and removed before them.
HealthInv ==
    over = "no" =>
        /\ inst.st = "idle" => fs["plist"] = Absent \/ AllOf("old")
        /\ Tried => before.fs["plist"] = Absent
        /\ inst.st = "install" =>
              /\ inst.step <= 32 => fs["plist"] = Absent
              /\ inst.step = 33 => fs["plist"].ver = "torn"
              /\ \A f \in Files : WriteAt(f) < inst.step => fs[f].ver = "new"
        /\ inst.st # "idle" /\ inst.failures = 0 /\ fs["plist"].ver \notin {"none", "torn"} =>
              AllOf("new")

Inv ==
    Typing /\ Steps /\ FilesInv /\ LoadedInv /\ RunInv /\ UserInv /\ HealthInv

-----------------------------------------------------------------------------
(* The stack                                                               *)

\* The places of the paths and the ranks of the actions (run_install).
LEMMA Places ==
    /\ \A p \in Paths : RecordAt(p) \in 4 .. 31 /\ CreateAt(p) \in 5 .. 32
    /\ \A p \in Paths \ {"plist"} : RecordAt(p) < 31
    /\ \A p, q \in Paths : RecordAt(p) = RecordAt(q) => p = q
    /\ \A f \in Files : WriteAt(f) \in 8 .. 33
    /\ RecordAt("plist") = 31 /\ RecordAt("db") = 27
    /\ "plist" \in Files /\ "db" \in Files /\ "daemon" \in Files /\ "none" \notin Paths
    /\ Files \subseteq Paths /\ Dirs \subseteq Paths /\ Dirs \cap Files = {}
<1> USE DEF Paths, Dirs, Files, RecordAt, CreateAt, WriteAt
<1>1. \A p \in Paths : RecordAt(p) \in 4 .. 31 /\ CreateAt(p) \in 5 .. 32
  OBVIOUS
<1>2. \A p \in Paths \ {"plist"} : RecordAt(p) < 31
  OBVIOUS
<1>3. \A p, q \in Paths : RecordAt(p) = RecordAt(q) => p = q
  OBVIOUS
<1>4. \A f \in Files : WriteAt(f) \in 8 .. 33
  OBVIOUS
<1>5. /\ RecordAt("plist") = 31 /\ RecordAt("db") = 27
      /\ "plist" \in Files /\ "db" \in Files /\ "daemon" \in Files /\ "none" \notin Paths
  OBVIOUS
<1>6. Files \subseteq Paths /\ Dirs \subseteq Paths /\ Dirs \cap Files = {}
  OBVIOUS
<1> QED BY ONLY <1>1, <1>2, <1>3, <1>4, <1>5, <1>6

\* An action on a path has the rank of the path (InstallTransaction).
LEMMA Ranks ==
    ASSUME NEW u \in UndoRecs
    PROVE  /\ Rank(u) \in 0 .. 37
           /\ u.path \in Paths => u.act \in OnPath /\ Rank(u) = RecordAt(u.path)
           /\ u.path \notin Paths => u.path = "none" /\ u.act \in Whole
           /\ Rank(u) = 0 <=> u.act = "bootstrap"
           /\ u.act = "bootout" <=> Rank(u) = 37
           /\ u.act \in {"remove_dir", "restore_meta"} => u.path \in Dirs
           /\ u.act \in {"remove_file", "restore_file"} => u.path \in Files
           /\ u.file \in Entries
<1>1. /\ u.act \in Whole \cup OnPath /\ u.path \in Paths \cup {"none"} /\ u.file \in Entries
      /\ u.act \in Whole => u.path = "none"
      /\ u.act \in {"remove_dir", "restore_meta"} => u.path \in Dirs
      /\ u.act \in {"remove_file", "restore_file"} => u.path \in Files
  BY DEF UndoRecs
<1>2. u.act \in OnPath => u.path \in Paths
  BY <1>1, Places DEF OnPath
<1>3. u.act \in OnPath => Rank(u) = RecordAt(u.path)
  BY DEF Rank, OnPath
<1>4. u.act \in Whole => Rank(u) \in {0, 3, 37}
  BY DEF Rank, Whole
<1>5. /\ u.act = "bootstrap" <=> Rank(u) = 0
      /\ u.act = "bootout" <=> Rank(u) = 37
  BY <1>1, <1>2, <1>3, Places DEF Rank, Whole, OnPath
<1> QED BY <1>1, <1>2, <1>3, <1>4, <1>5, Places

Pushed(s, k, u) ==
    /\ Stack(s, k) /\ k \in Nat /\ u \in UndoRecs /\ Rank(u) = k
    /\ \A p \in Paths : RecordAt(p) < k => In(p, s)

PushedTo(s, k, u, t) ==
    /\ Stack(t, k + 1)
    /\ \A p : In(p, t) <=> In(p, s) \/ u.path = p
    /\ \A a : Has(a, t) <=> Has(a, s) \/ u.act = a
    /\ \A i \in 1 .. Len(t) : t[i] = u \/ \E j \in 1 .. Len(s) : t[i] = s[j]

\* What a recorded action adds to the stack (InstallTransaction::record_*).
LEMMA PushKeeps ==
    ASSUME NEW s, NEW k, NEW u, Pushed(s, k, u), NEW t, t = Append(s, u)
    PROVE  PushedTo(s, k, u, t)
<1> USE DEF Pushed
<1>1. s \in Seq(UndoRecs) /\ Len(s) \in Nat /\ Len(s) <= k
  BY DEF Stack
<1>2. /\ t \in Seq(UndoRecs) /\ Len(t) = Len(s) + 1 /\ t[Len(s) + 1] = u
      /\ \A i \in 1 .. Len(s) : t[i] = s[i]
  BY <1>1
<1> DEFINE n == Len(s)
<1> HIDE DEF n
<1>3. /\ n \in Nat /\ Len(s) = n /\ Len(t) = n + 1 /\ t[n + 1] = u
      /\ \A i \in 1 .. n : t[i] = s[i]
      /\ 1 .. n + 1 = (1 .. n) \cup {n + 1}
  BY <1>1, <1>2 DEF n
<1>4. \A i \in 1 .. n + 1 : t[i] = u \/ \E j \in 1 .. n : t[i] = s[j]
  BY <1>3
<1>5. \A p : In(p, t) <=> In(p, s) \/ u.path = p
  BY <1>3 DEF In
<1>6. \A a : Has(a, t) <=> Has(a, s) \/ u.act = a
  BY <1>3, Zenon DEF Has
<1>7. \A i \in 1 .. n : Rank(s[i]) \in 0 .. 37 /\ Rank(s[i]) < k
  BY <1>1, <1>3, Ranks DEF Stack
<1>8. \A i \in 1 .. n + 1 : Rank(t[i]) < k + 1
  <2> SUFFICES ASSUME NEW i \in 1 .. n + 1 PROVE Rank(t[i]) < k + 1
    OBVIOUS
  <2>1. CASE i = n + 1
    BY <2>1, <1>3
  <2>2. CASE i \in 1 .. n
    <3>1. t[i] = s[i] /\ Rank(s[i]) \in 0 .. 37 /\ Rank(s[i]) < k
      BY <2>2, <1>3, <1>7, Zenon
    <3> QED BY ONLY <3>1, k \in Nat
  <2> QED BY <2>1, <2>2, <1>3
<1>9. \A i, j \in 1 .. n + 1 : i < j => Rank(t[i]) < Rank(t[j])
  <2> SUFFICES ASSUME NEW i \in 1 .. n + 1, NEW j \in 1 .. n + 1, i < j
               PROVE  Rank(t[i]) < Rank(t[j])
    OBVIOUS
  <2>1. i \in 1 .. n
    BY <1>3
  <2>2. CASE j = n + 1
    BY <2>1, <2>2, <1>3, <1>7
  <2>3. CASE j \in 1 .. n
    BY <2>1, <2>3, <1>3 DEF Stack
  <2> QED BY <2>2, <2>3, <1>3
<1>10. \A i \in 1 .. n + 1 : \A p \in Paths : RecordAt(p) < Rank(t[i]) => In(p, t)
  <2> SUFFICES ASSUME NEW i \in 1 .. n + 1, NEW p \in Paths, RecordAt(p) < Rank(t[i])
               PROVE  In(p, s)
    BY <1>5, Zenon
  <2>1. CASE i = n + 1
    BY <2>1, <1>3
  <2>2. CASE i \in 1 .. n
    BY <2>2, <1>3 DEF Stack
  <2> QED BY <2>1, <2>2, <1>3
<1>11. Stack(t, k + 1)
  BY <1>1, <1>2, <1>3, <1>8, <1>9, <1>10 DEF Stack
<1> QED BY <1>3, <1>4, <1>5, <1>6, <1>11, Zenon DEF PushedTo

Popped(s, k, t, u) == Stack(s, k) /\ k \in Nat /\ s # << >> /\ t = Front(s) /\ u = Last(s)

PoppedTo(s, k, t, u) ==
    /\ u \in UndoRecs /\ Stack(t, k)
    /\ \A p : In(p, s) <=> In(p, t) \/ u.path = p
    /\ \A a : Has(a, s) <=> Has(a, t) \/ u.act = a
    /\ \A i \in 1 .. Len(t) : t[i] = s[i] /\ i \in 1 .. Len(s)
    /\ \E i \in 1 .. Len(s) : s[i] = u
    /\ u.path \in Paths => ~In(u.path, t)
    /\ \A p \in Paths : RecordAt(p) > Rank(u) => ~In(p, s)
    /\ u.act = "bootstrap" => t = << >>

\* What is left when the last action is taken (InstallTransaction::rollback):
\* an action on a path was the only one on it, everything recorded before it is
\* still there, and the service that was loaded comes last.
LEMMA PopKeeps ==
    ASSUME NEW s, NEW k, NEW t, NEW u, Popped(s, k, t, u)
    PROVE  PoppedTo(s, k, t, u)
<1> USE DEF Popped
<1>1. s \in Seq(UndoRecs) /\ Len(s) \in Nat /\ Len(s) # 0 /\ Len(s) <= k
  BY DEF Stack
<1>2. PICK n \in Nat : Len(s) = n + 1
  BY <1>1
<1>3. t = SubSeq(s, 1, n) /\ u = s[n + 1]
  <2>1. (n + 1) - 1 = n
    OBVIOUS
  <2> QED BY <1>2, <2>1 DEF Front, Last
<1>4. /\ t \in Seq(UndoRecs) /\ Len(t) = n /\ u \in UndoRecs
      /\ \A i \in 1 .. n : t[i] = s[i] /\ i \in 1 .. n + 1
      /\ 1 .. n + 1 = (1 .. n) \cup {n + 1}
  BY <1>1, <1>2, <1>3
<1>5. \A p : In(p, s) <=> In(p, t) \/ u.path = p
  BY <1>2, <1>3, <1>4, Zenon DEF In
<1>6. \A a : Has(a, s) <=> Has(a, t) \/ u.act = a
  BY <1>2, <1>3, <1>4, Zenon DEF Has
<1>7. \A i \in 1 .. n : /\ s[i] \in UndoRecs /\ Rank(s[i]) < Rank(u)
                        /\ Rank(s[i]) \in 0 .. 37 /\ Rank(s[i]) < k
  BY <1>1, <1>2, <1>3, <1>4, Ranks DEF Stack
<1>8. Rank(u) \in 0 .. 37
  BY <1>4, Ranks, Zenon
<1>9. \A i \in 1 .. n : \A p \in Paths : RecordAt(p) < Rank(t[i]) => In(p, t)
  <2> SUFFICES ASSUME NEW i \in 1 .. n, NEW p \in Paths, RecordAt(p) < Rank(t[i])
               PROVE  In(p, t)
    OBVIOUS
  <2>1. In(p, s)
    BY <1>2, <1>4 DEF Stack
  <2>2. u.path # p
    <3>1. t[i] = s[i] /\ Rank(s[i]) < Rank(u) /\ Rank(s[i]) \in 0 .. 37
      BY <1>4, <1>7, Zenon
    <3>2. RecordAt(p) < Rank(u)
      BY ONLY <3>1, <1>8, RecordAt(p) < Rank(t[i]), p \in Paths, Places
    <3>3. u.path = p => Rank(u) = RecordAt(p)
      BY <1>4, Ranks, Zenon
    <3> QED BY ONLY <3>2, <3>3, <1>8
  <2> QED BY <2>1, <2>2, <1>5
<1>10. \A i, j \in 1 .. n : i < j => Rank(t[i]) < Rank(t[j])
  BY <1>2, <1>4 DEF Stack
<1>11. Stack(t, k)
  BY <1>1, <1>2, <1>4, <1>7, <1>9, <1>10 DEF Stack
<1>12. u.path \in Paths => ~In(u.path, t)
  <2> SUFFICES ASSUME u.path \in Paths, NEW i \in 1 .. n, t[i].path = u.path
               PROVE  FALSE
    BY <1>4 DEF In
  <2>1. t[i] = s[i] /\ Rank(s[i]) < Rank(u) /\ Rank(s[i]) \in 0 .. 37
    BY <1>4, <1>7, Zenon
  <2>2. Rank(s[i]) = RecordAt(u.path) /\ Rank(u) = RecordAt(u.path)
    BY <1>4, <1>7, <2>1, Ranks, Zenon
  <2> QED BY ONLY <2>1, <2>2, <1>8
<1>13. \A p \in Paths : RecordAt(p) > Rank(u) => ~In(p, s)
  <2> SUFFICES ASSUME NEW p \in Paths, RecordAt(p) > Rank(u), NEW i \in 1 .. n + 1,
                      s[i].path = p
               PROVE  FALSE
    BY <1>2 DEF In
  <2>1. Rank(s[i]) <= Rank(u)
    <3>1. CASE i \in 1 .. n
      <4>1. Rank(s[i]) < Rank(u) /\ Rank(s[i]) \in 0 .. 37
        BY <3>1, <1>7, Zenon
      <4> QED BY ONLY <4>1, <1>8
    <3>2. CASE i = n + 1
      <4>1. Rank(s[i]) = Rank(u)
        BY <3>2, <1>3, Zenon
      <4> QED BY ONLY <4>1, <1>8
    <3> QED BY <3>1, <3>2, <1>4
  <2>2. s[i] \in UndoRecs
    BY <1>1, <1>2
  <2>3. Rank(s[i]) = RecordAt(p)
    BY <2>2, Ranks, Zenon
  <2> QED BY ONLY <2>1, <2>3, <1>8, Places, RecordAt(p) > Rank(u), p \in Paths
<1>14. u.act = "bootstrap" => t = << >>
  <2> SUFFICES ASSUME u.act = "bootstrap", n # 0 PROVE FALSE
    BY <1>4
  <2>1. 1 \in 1 .. n /\ Rank(u) = 0
    BY <1>4, Ranks
  <2>2. Rank(s[1]) < Rank(u) /\ Rank(s[1]) \in 0 .. 37
    BY <2>1, <1>7, Zenon
  <2> QED BY ONLY <2>1, <2>2
<1>15. \E i \in 1 .. Len(s) : s[i] = u
  BY <1>2, <1>3
<1> QED BY <1>2, <1>4, <1>5, <1>6, <1>11, <1>12, <1>13, <1>14, <1>15, Zenon DEF PoppedTo

\* A stack stands below every later place of the script (run_install).
LEMMA StackUp ==
    ASSUME NEW s, NEW k \in Nat, Stack(s, k)
    PROVE  Stack(s, k + 1)
<1>1. /\ s \in Seq(UndoRecs) /\ Len(s) \in Nat /\ Len(s) <= k
      /\ \A i \in 1 .. Len(s) : s[i] \in UndoRecs /\ Rank(s[i]) < k
  BY DEF Stack
<1>2. \A i \in 1 .. Len(s) : Rank(s[i]) < k + 1
  <2> SUFFICES ASSUME NEW i \in 1 .. Len(s) PROVE Rank(s[i]) < k + 1
    OBVIOUS
  <2>1. Rank(s[i]) \in 0 .. 37 /\ Rank(s[i]) < k
    BY <1>1, Ranks, Zenon
  <2>2. \A r \in 0 .. 37 : r < k => r < k + 1
    OBVIOUS
  <2> QED BY <2>1, <2>2, Zenon
<1>3. Len(s) <= k + 1
  BY <1>1
<1> QED BY <1>2, <1>3, Zenon DEF Stack

-----------------------------------------------------------------------------
(* The steps of the script                                                 *)

\* The installer at a step, and what the script says of it (run_install).
LEMMA AtStep ==
    ASSUME Inv, NEW op, At(op)
    PROVE  /\ inst.st = "install" /\ inst.step \in 1 .. 38 /\ inst.step \in Nat
           /\ Script[inst.step].op = op
           /\ PathStep(Script[inst.step], inst.step) /\ PlaceStep(Script[inst.step], inst.step)
<1>1. inst.step \in 1 .. 39
  BY DEF Inv, Typing, InstRecs
<1>2. inst.st = "install" /\ inst.step <= 38 /\ Script[inst.step].op = op
  BY ScriptIs, Zenon DEF At
<1>3. inst.step \in 1 .. 38 /\ inst.step \in Nat
  BY <1>1, <1>2
<1>4. Fits(Script[inst.step], inst.step)
  BY <1>3, ScriptIs, Schedule, Zenon
<1> QED BY <1>2, <1>3, <1>4, Zenon DEF Fits

\* inst' after a step that may record an action.
Moved ==
    /\ inst' \in InstRecs /\ inst'.st = inst.st /\ inst'.step = inst.step + 1
    /\ inst'.pre = inst.pre /\ inst'.src = inst.src
    /\ inst'.attempts = inst.attempts /\ inst'.failures = inst.failures

\* Advance is a move that leaves the transaction alone.
LEMMA Advanced ==
    ASSUME Inv, NEW op, At(op), Advance
    PROVE  Moved /\ inst'.undo = inst.undo /\ inst'.made = inst.made
<1>1. inst \in InstRecs /\ inst.step \in 1 .. 38
  BY AtStep DEF Inv, Typing
<1> QED BY <1>1 DEF Advance, Moved, InstRecs

\* Record is a move that adds to it.
LEMMA Recorded ==
    ASSUME Inv, NEW op, At(op), NEW u \in UndoRecs, Record(u)
    PROVE  Moved /\ inst'.undo = Append(inst.undo, u) /\ inst'.made = inst.made
<1>1. inst \in InstRecs /\ inst.step \in 1 .. 38
  BY AtStep DEF Inv, Typing
<1> DEFINE v == Append(inst.undo, u)
<1>2. v \in Undos
  <2>1. inst.undo \in Undos
    BY <1>1 DEF InstRecs
  <2> QED BY <2>1 DEF Undos
<1> DEFINE r == [inst EXCEPT !.step = inst.step + 1]
<1>3. inst' = [r EXCEPT !.undo = v]
  BY DEF Record
<1> HIDE DEF v
<1>4. /\ r \in InstRecs /\ r.st = inst.st /\ r.step = inst.step + 1 /\ r.pre = inst.pre
      /\ r.src = inst.src /\ r.attempts = inst.attempts /\ r.failures = inst.failures
      /\ r.made = inst.made
  BY <1>1 DEF InstRecs
<1> HIDE DEF r
<1>5. Moved /\ inst'.undo = v /\ inst'.made = inst.made
  BY <1>2, <1>3, <1>4 DEF Moved, InstRecs
<1> QED BY <1>5 DEF v

\* The actions on paths are those there were.
SamePaths ==
    /\ Stack(inst'.undo, inst.step + 1)
    /\ \A p \in Paths : In(p, inst.undo) => In(p, inst'.undo)
    /\ \A i \in 1 .. Len(inst'.undo) : inst'.undo[i].path \in Paths =>
          \E j \in 1 .. Len(inst.undo) : inst'.undo[i] = inst.undo[j]

\* A path neither the step nor the transaction has touched is still kept
\* (InstallTransaction).
LEMMA KeptSame ==
    ASSUME NEW p \in Paths, Excused(p) \/ Kept(p), fs'[p] = fs[p], before' = before,
           In(p, inst.undo) => In(p, inst'.undo),
           \A i \in 1 .. Len(inst'.undo) : inst'.undo[i].path = p =>
              \E j \in 1 .. Len(inst.undo) : inst'.undo[i] = inst.undo[j]
    PROVE  (Excused(p) \/ Kept(p))'
<1>1. CASE Excused(p)
  BY <1>1 DEF Excused
<1>2. CASE Kept(p)
  <2>1. ~In(p, inst'.undo) => fs'[p] = before'.fs[p]
    BY <1>2 DEF Kept
  <2>2. ASSUME NEW i \in 1 .. Len(inst'.undo), NEW u, u = inst'.undo[i], u.path = p
        PROVE  Restores(u, p)'
    <3>1. PICK j \in 1 .. Len(inst.undo) : u = inst.undo[j]
      BY <2>2
    <3>2. Restores(u, p)
      BY <1>2, <2>2, <3>1, Zenon DEF Kept
    <3> QED BY <3>2 DEF Restores
  <2> QED BY <2>1, <2>2, Zenon DEF Kept
<1> QED BY <1>1, <1>2

Quiet(op) ==
    /\ Inv /\ At(op) /\ op \notin WriteOps \cup {"record_dir", "record_file"}
    /\ Moved /\ SamePaths
    /\ fs' = fs /\ before' = before /\ over' = over

\* A step that touches no path keeps what is known of the paths.
LEMMA QuietSteps ==
    ASSUME NEW op, Quiet(op)
    PROVE  Steps' /\ FilesInv' /\ HealthInv'
<1> USE DEF Quiet
<1>1. /\ inst.st = "install" /\ inst.step \in 1 .. 38 /\ inst.step \in Nat
      /\ PlaceStep(Script[inst.step], inst.step) /\ Script[inst.step].op = op
  BY AtStep
<1>2. /\ inst'.st = "install" /\ inst'.step = inst.step + 1
      /\ inst'.failures = inst.failures
  BY <1>1 DEF Moved
<1>3. /\ \A p \in Paths : RecordAt(p) # inst.step /\ CreateAt(p) # inst.step
      /\ \A f \in Files : WriteAt(f) # inst.step
  BY <1>1, Zenon DEF PlaceStep, Creates, Fills, WriteOps
<1>4. /\ \A p \in Paths : /\ RecordAt(p) < inst'.step => RecordAt(p) < inst.step
                          /\ CreateAt(p) < inst'.step => CreateAt(p) < inst.step
      /\ \A f \in Files : WriteAt(f) < inst'.step => WriteAt(f) < inst.step
  BY <1>1, <1>2, <1>3, Places
<1>5. Steps'
  <2>1. \A p \in Paths : /\ RecordAt(p) < inst.step => In(p, inst.undo)
                         /\ CreateAt(p) < inst.step => fs[p] # Absent
    BY <1>1 DEF Inv, Steps
  <2>2. \A p \in Paths : /\ RecordAt(p) < inst'.step => In(p, inst'.undo)
                         /\ CreateAt(p) < inst'.step => fs'[p] # Absent
    BY <2>1, <1>4, Zenon DEF SamePaths
  <2> QED BY <2>2, <1>2, Zenon DEF Steps, SamePaths
<1>6. FilesInv'
  <2> SUFFICES ASSUME Clean', NEW p \in Paths PROVE (Excused(p) \/ Kept(p))'
    BY DEF FilesInv
  <2>1. Tried /\ Clean
    BY <1>1, <1>2 DEF Tried, Clean
  <2>2. Excused(p) \/ Kept(p)
    BY <2>1, Zenon DEF Inv, FilesInv
  <2> QED BY <2>2, KeptSame, Zenon DEF SamePaths
<1>7. HealthInv'
  <2> SUFFICES ASSUME over = "no" PROVE HealthInv'
    BY DEF HealthInv
  <2>1. /\ before.fs["plist"] = Absent
        /\ inst.step <= 32 => fs["plist"] = Absent
        /\ inst.step = 33 => fs["plist"].ver = "torn"
        /\ \A f \in Files : WriteAt(f) < inst.step => fs[f].ver = "new"
        /\ inst.failures = 0 /\ fs["plist"].ver \notin {"none", "torn"} => AllOf("new")
    BY <1>1 DEF Inv, HealthInv, Tried
  <2>2. inst.step # 32
    BY <1>3 DEF CreateAt, Paths, Files
  <2>3. /\ inst'.step <= 32 => inst.step <= 32
        /\ inst'.step # 33
    BY <1>1, <1>2, <2>2
  <2>4. \A f \in Files : WriteAt(f) < inst'.step => fs'[f].ver = "new"
    BY <2>1, <1>4
  <2>5. AllOf("new") => AllOf("new")'
    BY DEF AllOf
  <2> QED BY <1>2, <2>1, <2>3, <2>4, <2>5 DEF HealthInv, Tried
<1> QED BY <1>5, <1>6, <1>7

\* The variables no step of the script touches.
Apart == before' = before /\ over' = over /\ litter' = litter /\ upd' = upd

\* A step that records nothing has the same actions on paths.
LEMMA SameUndo ==
    ASSUME Inv, inst.step \in Nat, inst'.undo = inst.undo
    PROVE  SamePaths
<1>1. Stack(inst.undo, inst.step + 1)
  BY StackUp, Zenon DEF Inv, Steps
<1> QED BY <1>1, Zenon DEF SamePaths

\* A recorded action that is on no path leaves those on paths (record_service_user,
\* record_daemon_started).
LEMMA PushedWhole ==
    ASSUME Inv, inst.st = "install", inst.step \in Nat, NEW u \in UndoRecs,
           Rank(u) = inst.step, u.path = "none", inst'.undo = Append(inst.undo, u)
    PROVE  /\ SamePaths /\ Has(u.act, inst'.undo)
           /\ \A a : Has(a, inst.undo) => Has(a, inst'.undo)
           /\ \A a : a # u.act /\ Has(a, inst'.undo) => Has(a, inst.undo)
<1>1. Pushed(inst.undo, inst.step, u)
  BY Zenon DEF Inv, Steps, Pushed
<1> DEFINE t == inst'.undo
<1> HIDE DEF t
<1>2. PushedTo(inst.undo, inst.step, u, t)
  BY <1>1, PushKeeps, Zenon DEF t
<1>3. "none" \notin Paths
  BY Places
<1> QED BY <1>2, <1>3, Zenon DEF PushedTo, SamePaths, t

\* The first three steps make the user and note it (create_service_user).
LEMMA UserSteps ==
    ASSUME Inv, CreateUser \/ SetServiceUserAttributes \/ RecordServiceUser
    PROVE  Inv'
<1>1. /\ inst \in InstRecs /\ inst.step \in 1 .. 38 /\ inst.step \in Nat
      /\ inst.st = "install" /\ inst.step \in {1, 2, 3}
  <2>1. PICK op \in {"create_user", "set_attributes", "record_user"} : At(op)
    BY DEF CreateUser, SetServiceUserAttributes, RecordServiceUser
  <2>2. inst.step \in {1, 2, 3}
    BY <2>1, AtStep DEF PlaceStep
  <2> QED BY <2>1, <2>2, AtStep DEF Inv, Typing
<1>2. /\ fs' = fs /\ loaded' = loaded /\ running' = running /\ faults' = faults /\ Apart
  BY DEF CreateUser, SetServiceUserAttributes, RecordServiceUser, Apart
<1>3. /\ Moved /\ SamePaths /\ user' \in Users
      /\ \A a : a # "remove_user" => (Has(a, inst'.undo) <=> Has(a, inst.undo))
      /\ UserInv'
  <2>1. CASE CreateUser
    <3>1. inst.step = 1
      BY <2>1, AtStep DEF CreateUser, PlaceStep
    <3>2. Moved /\ inst'.undo = inst.undo /\ inst'.made = IF user = "none" THEN "yes" ELSE "no"
      <4> DEFINE m == IF user = "none" THEN "yes" ELSE "no"
                 r == [inst EXCEPT !.step = inst.step + 1]
      <4>1. inst' = [r EXCEPT !.made = m] /\ m \in Flags
        BY <2>1 DEF CreateUser, Flags
      <4>2. /\ r \in InstRecs /\ r.st = inst.st /\ r.step = inst.step + 1 /\ r.pre = inst.pre
            /\ r.src = inst.src /\ r.attempts = inst.attempts /\ r.failures = inst.failures
            /\ r.undo = inst.undo
        BY <1>1 DEF InstRecs
      <4> HIDE DEF r, m
      <4>3. Moved /\ inst'.undo = inst.undo /\ inst'.made = m
        BY <4>1, <4>2 DEF Moved, InstRecs
      <4> QED BY <4>3 DEF m
    <3>3. user' \in Users
      BY <2>1 DEF CreateUser, Inv, Typing, Users
    <3>4. UserInv'
      BY <1>1, <1>2, <3>1, <3>2 DEF UserInv, Inv, Tried, Moved, Apart
    <3> QED BY <1>1, <3>2, <3>3, <3>4, SameUndo
  <2>2. CASE SetServiceUserAttributes
    <3>1. inst.step = 2
      BY <2>2, AtStep DEF SetServiceUserAttributes, PlaceStep
    <3>2. Moved /\ inst'.undo = inst.undo /\ inst'.made = inst.made
      BY <2>2, Advanced DEF SetServiceUserAttributes
    <3>3. user' \in Users
      BY <2>2 DEF SetServiceUserAttributes, Users
    <3>4. UserInv'
      BY <1>1, <1>2, <3>1, <3>2 DEF UserInv, Inv, Tried, Moved, Apart
    <3> QED BY <1>1, <3>2, <3>3, <3>4, SameUndo
  <2>3. CASE RecordServiceUser
    <3>1. inst.step = 3 /\ At("record_user")
      BY <2>3, AtStep DEF RecordServiceUser, PlaceStep
    <3>2. user' = user /\ user \in Users
      BY <2>3 DEF RecordServiceUser, Inv, Typing
    <3>3. CASE inst.made = "yes" /\ inst.pre = "no"
      <4> DEFINE u == Undo("remove_user", "none", Absent)
      <4>1. /\ u \in UndoRecs /\ Rank(u) = 3 /\ u.path = "none" /\ u.act = "remove_user"
        BY DEF Undo, UndoRecs, Whole, OnPath, Absent, Entries, Versions, Metas, Rank, Paths,
               Dirs, Files
      <4>2. Record(u)
        BY <2>3, <3>3 DEF RecordServiceUser
      <4> HIDE DEF u
      <4>3. Moved /\ inst'.undo = Append(inst.undo, u)
        BY <4>1, <4>2, <3>1, Recorded
      <4>4. /\ SamePaths /\ Has("remove_user", inst'.undo)
            /\ \A a : Has(a, inst.undo) => Has(a, inst'.undo)
            /\ \A a : a # "remove_user" /\ Has(a, inst'.undo) => Has(a, inst.undo)
        BY <1>1, <3>1, <4>1, <4>3, PushedWhole, Zenon
      <4>5. UserInv'
        BY <1>1, <1>2, <3>1, <4>3, <4>4 DEF UserInv, Inv, Tried, Moved, Apart
      <4> QED BY <3>2, <4>3, <4>4, <4>5, Zenon
    <3>4. CASE ~(inst.made = "yes" /\ inst.pre = "no")
      <4>1. Moved /\ inst'.undo = inst.undo
        BY <2>3, <3>1, <3>4, Advanced, Zenon DEF RecordServiceUser
      <4>2. UserInv'
        BY <1>1, <1>2, <3>1, <3>4, <4>1 DEF UserInv, Inv, Tried, Moved, Apart
      <4> QED BY <1>1, <3>2, <4>1, <4>2, SameUndo
    <3> QED BY <3>3, <3>4
  <2> QED BY <2>1, <2>2, <2>3
<1>4. Steps' /\ FilesInv' /\ HealthInv'
  <2>1. PICK op \in {"create_user", "set_attributes", "record_user"} : At(op)
    BY DEF CreateUser, SetServiceUserAttributes, RecordServiceUser
  <2>2. Quiet(op)
    BY <2>1, <1>2, <1>3 DEF Quiet, Apart, WriteOps
  <2> QED BY <2>2, QuietSteps
<1>5. Typing'
  BY <1>2, <1>3 DEF Inv, Typing, Apart, Moved
<1>6. inst'.st = "install" /\ inst'.step \in {2, 3, 4} /\ inst'.failures = inst.failures
  BY <1>1, <1>3 DEF Moved
<1>7. LoadedInv'
  <2>1. ~Started'
    BY <1>6 DEF Started
  <2>2. Tried' /\ Clean' => Tried /\ Clean
    BY <1>1, <1>2, <1>6 DEF Tried, Clean, Apart
  <2> QED BY <1>1, <1>2, <1>3, <1>6, <2>1, <2>2 DEF Inv, LoadedInv, Apart
<1>8. RunInv'
  BY <1>2, <1>6 DEF Inv, RunInv, Settled, Started
<1> QED BY <1>3, <1>4, <1>5, <1>7, <1>8 DEF Inv

\* What a rollback could need of the user is on the stack already.
LEMMA UserLater ==
    ASSUME Inv, inst.st = "install", inst.step \in 4 .. 38, Moved, user' = user,
           before' = before, Has("remove_user", inst.undo) => Has("remove_user", inst'.undo)
    PROVE  UserInv'
BY DEF Inv, UserInv, Moved, Tried

\* The steps that touch no path after the user is made (the enrollment, start_daemon
\* and the last failpoint).
LEMMA ServiceSteps ==
    ASSUME Inv, ReadEnrollment \/ Bootout \/ Bootstrap \/ RecordStarted
    PROVE  Inv'
<1>1. PICK op \in {"enroll", "failpoint", "bootout", "bootstrap", "record_started"} : At(op)
  BY DEF ReadEnrollment, Bootout, Bootstrap, RecordStarted
<1>2. /\ inst.st = "install" /\ inst.step \in {21, 35, 36, 37, 38} /\ inst.step \in Nat
      /\ op \in {"enroll", "failpoint"} => inst.step \in {21, 38}
      /\ op = "bootout" => inst.step = 35
      /\ op = "bootstrap" => inst.step = 36
      /\ op = "record_started" => inst.step = 37
      /\ Script[inst.step].op = op
  BY <1>1, AtStep DEF PlaceStep
<1>3. fs' = fs /\ user' = user /\ Apart
  BY DEF ReadEnrollment, Bootout, Bootstrap, RecordStarted, Apart
<1>4. /\ loaded \in Flags /\ faults \in 0 .. MaxFaults /\ running \in Versions \ {"torn"}
      /\ running # "none" => loaded = "yes"
      /\ inst.step >= 37 => loaded = "yes" /\ running \in {"none", fs["daemon"].ver}
  BY <1>2 DEF Inv, Typing, RunInv, LoadedInv, Settled, Started
<1>5. CASE RecordStarted
  <2> DEFINE u == Undo("bootout", "none", Absent)
  <2>1. u \in UndoRecs /\ Rank(u) = 37 /\ u.path = "none" /\ u.act = "bootout"
    BY DEF Undo, UndoRecs, Whole, OnPath, Absent, Entries, Versions, Metas, Rank, Paths,
           Dirs, Files
  <2>2. Record(u) /\ At("record_started") /\ inst.step = 37
    BY <1>5, <1>1, <1>2 DEF RecordStarted, At
  <2>3. loaded' = loaded /\ running' = running /\ faults' = faults
    BY <1>5 DEF RecordStarted
  <2> HIDE DEF u
  <2>4. Moved /\ inst'.undo = Append(inst.undo, u)
    BY <2>1, <2>2, Recorded
  <2>5. /\ SamePaths /\ Has("bootout", inst'.undo)
        /\ \A a : Has(a, inst.undo) => Has(a, inst'.undo)
        /\ \A a : a # "bootout" /\ Has(a, inst'.undo) => Has(a, inst.undo)
    BY <1>2, <2>1, <2>2, <2>4, PushedWhole, Zenon
  <2>6. Steps' /\ FilesInv' /\ HealthInv'
    <3>1. Quiet("record_started")
      BY <1>3, <2>2, <2>4, <2>5 DEF Quiet, Apart, WriteOps
    <3> QED BY <3>1, QuietSteps
  <2>7. inst'.st = "install" /\ inst'.step = 38 /\ inst'.failures = inst.failures
    BY <1>2, <2>2, <2>4 DEF Moved
  <2>8. Typing'
    BY <1>3, <2>3, <2>4 DEF Inv, Typing, Apart, Moved
  <2>9. Tried' /\ Clean' => Tried /\ Clean
    BY <1>2, <1>3, <2>7 DEF Tried, Clean, Apart
  <2>10. LoadedInv'
    BY <1>2, <1>3, <1>4, <2>2, <2>3, <2>5, <2>7, <2>9 DEF Inv, LoadedInv, Apart
  <2>11. RunInv'
    BY <1>2, <1>3, <1>4, <2>2, <2>3 DEF RunInv
  <2>12. UserInv'
    BY <1>2, <1>3, <2>4, <2>5, UserLater DEF Apart
  <2> QED BY <2>6, <2>8, <2>10, <2>11, <2>12 DEF Inv
<1>6. CASE ~RecordStarted
  <2>1. Advance
    BY <1>6 DEF ReadEnrollment, Bootout, Bootstrap
  <2>2. Moved /\ inst'.undo = inst.undo
    BY <1>1, <2>1, Advanced
  <2>3. SamePaths
    BY <1>2, <2>2, SameUndo
  <2>4. Steps' /\ FilesInv' /\ HealthInv'
    <3>1. Quiet(op)
      BY <1>1, <1>3, <2>2, <2>3 DEF Quiet, Apart, WriteOps
    <3> QED BY <3>1, QuietSteps
  <2>5. UserInv'
    BY <1>2, <1>3, <2>2, UserLater DEF Apart
  <2>6. inst'.st = "install" /\ inst'.step = inst.step + 1 /\ inst'.failures = inst.failures
    BY <1>2, <2>2 DEF Moved
  <2>7. Tried' /\ Clean' => Tried /\ Clean
    BY <1>2, <1>3, <2>6 DEF Tried, Clean, Apart
  <2>8. /\ loaded' \in Flags /\ running' \in Versions \ {"torn"} /\ faults' \in 0 .. MaxFaults
        /\ running' # "none" => loaded' = "yes"
        /\ inst.step = 36 => loaded' = "yes" /\ running' = "none"
        /\ inst.step >= 37 => loaded' = loaded /\ running' = running
        /\ inst.step # 36 => loaded' = "no" \/ loaded' = loaded
        /\ inst.step # 37
    <3>1. CASE ReadEnrollment
      <4>1. inst.step \in {21, 38} /\ loaded' = loaded /\ running' = running /\ faults' = faults
        <5>1. At("enroll") \/ At("failpoint")
          BY <3>1 DEF ReadEnrollment
        <5>2. inst.step \in {21, 38}
          BY <5>1, AtStep DEF PlaceStep
        <5> QED BY <3>1, <5>2 DEF ReadEnrollment
      <4> QED BY <4>1, <1>4
    <3>2. CASE Bootout
      <4>1. inst.step = 35
        BY <3>2, AtStep DEF PlaceStep, Bootout
      <4> QED BY <3>2, <4>1, <1>4, InstallAssumption DEF Bootout, Flags, Versions
    <3>3. CASE Bootstrap
      <4>1. inst.step = 36
        BY <3>3, AtStep DEF PlaceStep, Bootstrap
      <4> QED BY <3>3, <4>1, <1>4 DEF Bootstrap, Flags
    <3> QED BY <1>6, <3>1, <3>2, <3>3
  <2>9. Typing'
    BY <1>3, <2>2, <2>8 DEF Inv, Typing, Apart, Moved
  <2>11. LoadedInv'
    BY <1>2, <1>3, <1>4, <2>2, <2>6, <2>7, <2>8 DEF Inv, LoadedInv, Apart, Started, Flags
  <2>12. RunInv'
    BY <1>2, <1>3, <1>4, <2>6, <2>8 DEF RunInv, Settled, Started
  <2> QED BY <2>4, <2>5, <2>9, <2>11, <2>12 DEF Inv
<1> QED BY <1>5, <1>6

\* The action recorded for a path that has not been touched yet brings back what
\* is there (record_directory_created, record_path_metadata, record_file_replacement).
LEMMA PathRecorded ==
    ASSUME Inv, RecordDirectory \/ RecordFileReplacement
    PROVE  Inv'
<1> DEFINE p == Script[inst.step].path
<1>1. PICK op \in {"record_dir", "record_file"} : At(op)
  BY DEF RecordDirectory, RecordFileReplacement
<1>2. /\ inst.st = "install" /\ inst.step \in 1 .. 38 /\ inst.step \in Nat
      /\ p \in Paths /\ inst.step = RecordAt(p) /\ inst.step \in 4 .. 31
      /\ PlaceStep(Script[inst.step], inst.step) /\ Script[inst.step].op = op
  BY <1>1, AtStep, Places DEF PathStep
<1>3. /\ fs' = fs /\ user' = user /\ loaded' = loaded /\ running' = running
      /\ faults' = faults /\ Apart
  BY DEF RecordDirectory, RecordFileReplacement, Apart
<1>4. fs[p] \in Entries /\ fs[p].ver \in Versions /\ Absent \in Entries
  BY <1>2 DEF Inv, Typing, Entries, Absent, Versions, Metas
<1>5. PICK v \in UndoRecs : /\ Record(v) /\ v.path = p
                            /\ IF fs[p] = Absent THEN v.act \in {"remove_dir", "remove_file"}
                               ELSE /\ v.act \in {"restore_meta", "restore_file"}
                                    /\ v.file = fs[p]
  <2>1. CASE RecordDirectory
    <3> DEFINE v == IF Exists(p) THEN Undo("restore_meta", p, fs[p])
                                 ELSE Undo("remove_dir", p, Absent)
    <3>1. Record(v)
      BY <2>1 DEF RecordDirectory, Target
    <3>2. p \in Dirs
      <4>1. At("record_dir")
        BY <2>1 DEF RecordDirectory
      <4> QED BY <4>1, AtStep DEF PathStep
    <3>3. v \in UndoRecs
      BY <1>2, <1>4, <3>2 DEF Undo, UndoRecs, Whole, OnPath, Exists
    <3>4. v.path = p /\ IF fs[p] = Absent THEN v.act = "remove_dir"
                        ELSE v.act = "restore_meta" /\ v.file = fs[p]
      BY SMTT(30) DEF Undo, Exists
    <3> QED BY <3>1, <3>3, <3>4
  <2>2. CASE RecordFileReplacement
    <3> DEFINE v == IF Exists(p) THEN Undo("restore_file", p, fs[p])
                                 ELSE Undo("remove_file", p, Absent)
    <3>1. Record(v)
      BY <2>2 DEF RecordFileReplacement, Target
    <3>2. p \in Files
      <4>1. At("record_file")
        BY <2>2 DEF RecordFileReplacement
      <4> QED BY <4>1, AtStep DEF PathStep
    <3>3. v \in UndoRecs
      BY <1>2, <1>4, <3>2 DEF Undo, UndoRecs, Whole, OnPath, Exists
    <3>4. v.path = p /\ IF fs[p] = Absent THEN v.act = "remove_file"
                        ELSE v.act = "restore_file" /\ v.file = fs[p]
      BY DEF Undo, Exists
    <3> QED BY <3>1, <3>3, <3>4
  <2> QED BY <2>1, <2>2, SMTT(30)
<1> HIDE DEF p
<1>6. Moved /\ inst'.undo = Append(inst.undo, v)
  BY <1>1, <1>5, Recorded
<1>7. v.act \in OnPath /\ Rank(v) = inst.step
  BY <1>2, <1>5, Ranks
<1>8. Pushed(inst.undo, inst.step, v)
  BY <1>2, <1>7, Zenon DEF Inv, Steps, Pushed
<1> DEFINE t == inst'.undo
<1>9. PushedTo(inst.undo, inst.step, v, t)
  BY <1>6, <1>8, PushKeeps, Zenon
<1>10. ~In(p, inst.undo)
  <2> SUFFICES ASSUME NEW i \in 1 .. Len(inst.undo), inst.undo[i].path = p PROVE FALSE
    BY DEF In
  <2>1. inst.undo[i] \in UndoRecs /\ Rank(inst.undo[i]) < inst.step
    BY DEF Inv, Steps, Stack
  <2>2. Rank(inst.undo[i]) = inst.step
    BY <2>1, <1>2, Ranks, Zenon
  <2> QED BY ONLY <2>1, <2>2, <1>2
<1>11. inst'.st = "install" /\ inst'.step = inst.step + 1 /\ inst'.failures = inst.failures
  BY <1>2, <1>6 DEF Moved
<1>12. Tried' /\ Clean' => Tried /\ Clean
  BY <1>2, <1>3, <1>11 DEF Tried, Clean, Apart
<1>13. /\ \A q \in Paths : CreateAt(q) # inst.step
       /\ \A q \in Paths : RecordAt(q) = inst.step => q = p
       /\ \A f \in Files : WriteAt(f) # inst.step
  BY <1>1, <1>2, Places, Zenon DEF PlaceStep, Creates, Fills
<1>14. /\ \A q \in Paths : /\ RecordAt(q) < inst'.step => RecordAt(q) < inst.step \/ q = p
                           /\ CreateAt(q) < inst'.step => CreateAt(q) < inst.step
       /\ \A f \in Files : WriteAt(f) < inst'.step => WriteAt(f) < inst.step
  BY <1>2, <1>11, <1>13, Places
<1>15. Typing'
  BY <1>3, <1>6 DEF Inv, Typing, Apart, Moved
<1>16. Steps'
  <2>1. \A q \in Paths : /\ RecordAt(q) < inst'.step => In(q, t)
                         /\ CreateAt(q) < inst'.step => fs'[q] # Absent
    BY <1>2, <1>3, <1>5, <1>9, <1>14, Zenon DEF Inv, Steps, PushedTo
  <2> QED BY <2>1, <1>9, <1>11, Zenon DEF Steps, PushedTo
<1>17. FilesInv'
  <2> SUFFICES ASSUME Clean', NEW q \in Paths PROVE (Excused(q) \/ Kept(q))'
    BY DEF FilesInv
  <2>1. Excused(q) \/ Kept(q)
    BY <1>11, <1>12, Zenon DEF Inv, FilesInv, Tried
  <2>2. CASE q # p
    <3>1. \A i \in 1 .. Len(inst'.undo) : inst'.undo[i].path = q =>
              \E j \in 1 .. Len(inst.undo) : inst'.undo[i] = inst.undo[j]
      BY <1>5, <1>9, <2>2, Zenon DEF PushedTo
    <3>2. In(q, inst.undo) => In(q, inst'.undo)
      BY <1>9, Zenon DEF PushedTo
    <3> QED BY <1>3, <2>1, <3>1, <3>2, KeptSame, Zenon DEF Apart
  <2>3. CASE q = p /\ Excused(q)
    BY <2>3, <1>3 DEF Excused, Apart
  <2>4. CASE q = p /\ Kept(q)
    <3>1. fs[p] = before.fs[p]
      BY <1>10, <2>4 DEF Kept
    <3>2. In(p, inst'.undo)
      BY <1>5, <1>9, Zenon DEF PushedTo
    <3>3. ASSUME NEW i \in 1 .. Len(inst'.undo), inst'.undo[i].path = q
          PROVE  inst'.undo[i] = v
      <4>1. \A j \in 1 .. Len(inst.undo) : inst.undo[j].path # q
        BY <1>10, <2>4, Zenon DEF In
      <4>2. inst'.undo[i] = v \/ \E j \in 1 .. Len(inst.undo) : inst'.undo[i] = inst.undo[j]
        BY <1>9, Zenon DEF PushedTo
      <4> QED BY <3>3, <4>1, <4>2, Zenon
    <3>4. Restores(v, q)'
      BY <1>3, <1>5, <2>4, <3>1 DEF Restores, Apart
    <3> QED BY <2>4, <3>2, <3>3, <3>4, Zenon DEF Kept
  <2> QED BY <2>1, <2>2, <2>3, <2>4
<1>18. HealthInv'
  <2> SUFFICES ASSUME over = "no" PROVE HealthInv'
    BY <1>3 DEF HealthInv, Apart
  <2>1. /\ before.fs["plist"] = Absent
        /\ inst.step <= 32 => fs["plist"] = Absent
        /\ \A f \in Files : WriteAt(f) < inst.step => fs[f].ver = "new"
        /\ inst.failures = 0 /\ fs["plist"].ver \notin {"none", "torn"} => AllOf("new")
    BY <1>2 DEF Inv, HealthInv, Tried
  <2>2. inst'.step # 33 /\ fs["plist"] = Absent
    BY <1>2, <1>11, <2>1
  <2>3. \A f \in Files : WriteAt(f) < inst'.step => fs'[f].ver = "new"
    BY <1>3, <2>1, <1>14
  <2>4. AllOf("new") => AllOf("new")'
    BY <1>3 DEF AllOf
  <2> QED BY <1>3, <1>11, <2>1, <2>2, <2>3, <2>4 DEF HealthInv, Tried, Apart
<1>19. \A a \in Whole : Has(a, inst'.undo) <=> Has(a, inst.undo)
  BY <1>7, <1>9, Zenon DEF PushedTo, Whole, OnPath
<1>20. LoadedInv'
  <2>1. ~Started' /\ inst.step # 37
    BY <1>2, <1>11 DEF Started
  <2>2. /\ Has("bootstrap", inst'.undo) <=> Has("bootstrap", inst.undo)
        /\ Has("bootout", inst'.undo) <=> Has("bootout", inst.undo)
    BY <1>19, Zenon DEF Whole
  <2> QED BY <1>2, <1>3, <1>11, <1>12, <2>1, <2>2 DEF Inv, LoadedInv, Apart
<1>21. RunInv'
  <2>1. ~Started'
    BY <1>2, <1>11 DEF Started
  <2> QED BY <1>3, <1>11, <2>1 DEF Inv, RunInv, Settled
<1>22. UserInv'
  <2>1. Has("remove_user", inst.undo) => Has("remove_user", inst'.undo)
    BY <1>19, Zenon DEF Whole
  <2> QED BY <1>2, <1>3, <1>6, <2>1, UserLater DEF Apart
<1> QED BY <1>15, <1>16, <1>17, <1>18, <1>20, <1>21, <1>22 DEF Inv

\* What a step on a path leaves is an entry; a directory keeps its content
\* (create_dir_all, fs::copy, chown, chmod, remove_file, RuleStore::open).
LEMMA WrittenIs ==
    ASSUME Inv, NEW op \in WriteOps, NEW e \in Entries, inst.src = "new",
           op \in Fills \cup {"own"} => e # Absent
    PROVE  /\ Written(op, e) \in Entries
           /\ op # "unlink" => Written(op, e) # Absent
           /\ op \in Fills => Written(op, e).ver = "new"
           /\ op = "own" => Written(op, e).ver = e.ver
           /\ op = "create_dir" => Written(op, e) = e \/ e = Absent
           /\ op = "truncate" => Written(op, e).ver = "torn"
<1>1. e \in [ver : Versions, meta : Metas] /\ (e.ver = "none" <=> e.meta = "none")
  BY DEF Entries
<1>2. e # Absent => e.ver # "none" /\ e.meta # "none"
  BY <1>1 DEF Absent
<1>3. CASE op = "create_dir"
  BY <1>1, <1>3 DEF Written, Entry, Entries, Absent, Versions, Metas, Fills
<1>4. CASE op = "truncate"
  BY <1>1, <1>2, <1>4 DEF Written, Entry, Entries, Absent, Versions, Metas, Fills
<1>5. CASE op = "write"
  BY <1>1, <1>2, <1>5 DEF Written, Entry, Entries, Absent, Versions, Metas, Fills
<1>6. CASE op = "own"
  BY <1>1, <1>2, <1>6 DEF Written, Entry, Entries, Absent, Versions, Metas, Fills
<1>7. CASE op = "unlink"
  BY <1>1, <1>2, <1>7 DEF Written, Entry, Entries, Absent, Versions, Metas, Fills
<1>8. CASE op = "open_store"
  BY <1>1, <1>2, <1>8 DEF Written, Entry, Entries, Absent, Versions, Metas, Fills
<1>9. CASE op = "register_key"
  BY <1>1, <1>2, <1>9 DEF Written, Entry, Entries, Absent, Versions, Metas, Fills
<1> QED BY <1>3, <1>4, <1>5, <1>6, <1>7, <1>8, <1>9 DEF WriteOps

\* A step writes only what is recorded, and what it leaves there is what its
\* place in the script promises (deploy_binaries to install_launchdaemon).
LEMMA PathWritten ==
    ASSUME Inv, NEW op \in WriteOps, WriteStep(op)
    PROVE  Inv'
<1> DEFINE p == Script[inst.step].path
           e == Written(op, fs[p])
<1>1. /\ inst.st = "install" /\ inst.step \in 1 .. 38 /\ inst.step \in Nat
      /\ p \in Paths /\ RecordAt(p) < inst.step /\ Script[inst.step].op = op
      /\ PathStep(Script[inst.step], inst.step) /\ PlaceStep(Script[inst.step], inst.step)
  BY AtStep DEF PathStep, WriteStep
<1>2. /\ At(op) /\ fs' = [fs EXCEPT ![p] = e] /\ Advance
      /\ user' = user /\ loaded' = loaded /\ running' = running
      /\ faults' = faults /\ Apart
  BY DEF WriteStep, Target, Apart
<1>3. /\ fs[p] \in Entries /\ inst.src = "new" /\ fs \in [Paths -> Entries]
  BY <1>1 DEF Inv, Typing, InstRecs
<1>4. op \in Fills \cup {"own"} => fs[p] # Absent
  <2>1. op \in Fills \cup {"own"} => CreateAt(p) < inst.step
    BY <1>1 DEF PathStep
  <2> QED BY <1>1, <2>1 DEF Inv, Steps
<1>5. /\ e \in Entries
      /\ op # "unlink" => e # Absent
      /\ op \in Fills => e.ver = "new"
      /\ op = "own" => e.ver = fs[p].ver
      /\ op = "create_dir" => e = fs[p] \/ fs[p] = Absent
      /\ op = "truncate" => e.ver = "torn"
  BY <1>3, <1>4, WrittenIs
<1>6. /\ p \in Dirs => op \in {"create_dir", "own"}
      /\ op \in Creates => inst.step = CreateAt(p)
      /\ op = "create_dir" => p \in Dirs
      /\ op \in Fills => inst.step = WriteAt(p)
      /\ op \in {"truncate", "open_store"} => inst.step < WriteAt(p)
      /\ op = "unlink" => p = "signers" /\ inst.step = 23
      /\ op = "open_store" => p = "db"
      /\ \A q \in Paths : RecordAt(q) # inst.step
      /\ \A q \in Paths : CreateAt(q) = inst.step => p = q /\ op \in Creates
      /\ \A f \in Files : WriteAt(f) = inst.step => p = f /\ op \in Fills
      /\ inst.step \notin {1, 2, 3, 36, 37, 38}
  BY <1>1, Zenon DEF PathStep, PlaceStep, WriteOps
<1> HIDE DEF p, e
<1>7. fs' \in [Paths -> Entries] /\ fs'[p] = e /\ \A q \in Paths : q # p => fs'[q] = fs[q]
  BY <1>1, <1>2, <1>3, <1>5
<1>8. Moved /\ inst'.undo = inst.undo
  BY <1>2, Advanced
<1>9. inst'.st = "install" /\ inst'.step = inst.step + 1 /\ inst'.failures = inst.failures
  BY <1>1, <1>8 DEF Moved
<1>10. Tried' /\ Clean' => Tried /\ Clean
  BY <1>1, <1>2, <1>9 DEF Tried, Clean, Apart
<1>11. In(p, inst.undo)
  BY <1>1 DEF Inv, Steps
<1>12. Typing'
  BY <1>2, <1>7, <1>8 DEF Inv, Typing, Apart, Moved
<1>13. Steps'
  <2>1. \A q \in Paths : /\ RecordAt(q) < inst'.step => RecordAt(q) < inst.step
                         /\ CreateAt(q) < inst'.step =>
                                CreateAt(q) < inst.step \/ CreateAt(q) = inst.step
    BY <1>1, <1>6, <1>9, Places
  <2>2. op = "unlink" => ~(CreateAt(p) < inst'.step)
    BY <1>1, <1>6, <1>9 DEF CreateAt
  <2>3. \A q \in Paths : CreateAt(q) < inst'.step => fs'[q] # Absent
    <3> SUFFICES ASSUME NEW q \in Paths, CreateAt(q) < inst'.step PROVE fs'[q] # Absent
      OBVIOUS
    <3>1. CASE q = p
      BY <3>1, <2>2, <1>5, <1>7
    <3>2. CASE q # p
      BY <3>2, <2>1, <1>1, <1>6, <1>7, Zenon DEF Inv, Steps
    <3> QED BY <3>1, <3>2
  <2>4. Stack(inst'.undo, inst'.step)
    BY <1>1, <1>8, <1>9, StackUp, Zenon DEF Inv, Steps
  <2> QED BY <1>1, <1>8, <1>9, <2>1, <2>3, <2>4, Zenon DEF Inv, Steps
<1>14. FilesInv'
  <2> SUFFICES ASSUME Clean', NEW q \in Paths PROVE (Excused(q) \/ Kept(q))'
    BY DEF FilesInv
  <2>1. Excused(q) \/ Kept(q)
    BY <1>9, <1>10, Zenon DEF Inv, FilesInv, Tried
  <2>2. CASE q # p
    BY <1>2, <1>7, <1>8, <2>1, <2>2, KeptSame, Zenon DEF Apart
  <2>3. CASE q = p /\ Excused(q)
    BY <2>3, <1>2 DEF Excused, Apart
  <2>4. CASE q = p /\ Kept(q)
    <3>1. ASSUME NEW u, NEW i \in 1 .. Len(inst.undo), u = inst.undo[i], u.path = q
          PROVE  Restores(u, q)'
      <4>1. Restores(u, q) /\ u \in UndoRecs
        BY <2>4, <3>1 DEF Kept, Inv, Steps, Stack
      <4>2. u.act = "restore_meta" => op \in {"create_dir", "own"}
        BY <1>6, <2>4, <3>1, <4>1, Ranks
      <4>3. u.act = "restore_meta" /\ before.fs[q] # Absent =>
                fs'[q] # Absent /\ fs'[q].ver = fs[q].ver
        BY <1>5, <1>7, <2>4, <4>1, <4>2 DEF Restores
      <4> QED BY <4>1, <4>3, <1>2 DEF Restores, Apart
    <3> QED BY <2>4, <3>1, <1>8, <1>11, Zenon DEF Kept
  <2> QED BY <2>1, <2>2, <2>3, <2>4
<1>15. HealthInv'
  <2> SUFFICES ASSUME over = "no" PROVE HealthInv'
    BY <1>2, SMTT(30) DEF HealthInv, Apart
  <2>1. /\ before.fs["plist"] = Absent
        /\ inst.step <= 32 => fs["plist"] = Absent
        /\ inst.step = 33 => fs["plist"].ver = "torn"
        /\ \A f \in Files : WriteAt(f) < inst.step => fs[f].ver = "new"
    BY <1>1 DEF Inv, HealthInv, Tried
  <2>2. \A f \in Files : WriteAt(f) < inst'.step => fs'[f].ver = "new"
    <3> SUFFICES ASSUME NEW f \in Files, WriteAt(f) < inst'.step PROVE fs'[f].ver = "new"
      OBVIOUS
    <3>1. WriteAt(f) < inst.step \/ (p = f /\ op \in Fills)
      BY <1>1, <1>6, <1>9, Places
    <3>2. CASE p = f /\ op \in Fills
      BY <3>2, <1>5, <1>7
    <3>3. CASE p # f /\ WriteAt(f) < inst.step
      BY <3>3, <2>1, <1>7, Places
    <3>4. CASE p = f /\ WriteAt(f) < inst.step
      <4>1. op \notin {"truncate", "open_store"} \cup Fills
        BY <3>4, <1>1, <1>6, Places
      <4>2. op # "unlink"
        BY <3>4, <1>6 DEF WriteAt
      <4>3. op # "create_dir"
        BY <3>4, <1>6, Places
      <4>4. op = "own"
        BY <4>1, <4>2, <4>3 DEF WriteOps, Fills
      <4> QED BY <3>4, <4>4, <2>1, <1>5, <1>7
    <3> QED BY <3>1, <3>2, <3>3, <3>4
  <2>3. inst'.step <= 32 => fs'["plist"] = Absent
    <3>1. inst'.step <= 32 => p # "plist" /\ inst.step <= 32
      BY <1>1, <1>9, Places
    <3> QED BY <3>1, <2>1, <1>7, Places
  <2>4. inst'.step = 33 => fs'["plist"].ver = "torn"
    <3> SUFFICES ASSUME inst'.step = 33 PROVE fs'["plist"].ver = "torn"
      OBVIOUS
    <3>1. inst.step = CreateAt("plist") /\ "plist" \in Paths
      BY <1>1, <1>9, Places DEF CreateAt
    <3>2. p = "plist" /\ op \in Creates
      BY <3>1, <1>6
    <3>3. op = "truncate"
      BY <3>2, <1>6 DEF Creates, Dirs
    <3> QED BY <3>2, <3>3, <1>5, <1>7
  <2>5. fs'["plist"].ver \notin {"none", "torn"} => AllOf("new")'
    <3>1. CASE inst'.step <= 33
      BY <3>1, <1>1, <1>9, <2>3, <2>4 DEF Absent
    <3>2. CASE ~(inst'.step <= 33)
      BY <3>2, <1>1, <1>9, <2>2, Places DEF AllOf
    <3> QED BY <3>1, <3>2
  <2> QED BY <1>2, <1>9, <2>1, <2>2, <2>3, <2>4, <2>5, SMTT(30) DEF HealthInv, Tried, Apart
<1>16. LoadedInv'
  <2>1. ~Started' /\ inst.step # 37
    BY <1>1, <1>6, <1>9 DEF Started
  <2> QED BY <1>1, <1>2, <1>8, <1>9, <1>10, <2>1 DEF Inv, LoadedInv, Apart
<1>17. RunInv'
  <2>1. ~Started'
    BY <1>1, <1>6, <1>9 DEF Started
  <2> QED BY <1>2, <1>9, <2>1 DEF Inv, RunInv, Settled
<1>18. UserInv'
  <2>1. inst.step \in 4 .. 38
    BY <1>1, <1>6
  <2> QED BY <1>1, <1>2, <1>8, <2>1, UserLater DEF Apart
<1> QED BY <1>12, <1>13, <1>14, <1>15, <1>16, <1>17, <1>18, SMTT(30) DEF Inv

-----------------------------------------------------------------------------
(* The beginning and the end of an attempt                                 *)

Untouched == fs' = fs /\ user' = user /\ loaded' = loaded /\ running' = running

\* A transaction begins with the service that is loaded, if any
\* (InstallTransaction::new).
LEMMA Begins ==
    ASSUME Inv, BeginInstall("new"), Untouched, litter' = litter,
           upd' \in {"none", "selected", "good", "bad", "installing"}, faults' = faults
    PROVE  Inv'
<1> DEFINE first == IF loaded = "yes" THEN <<Undo("bootstrap", "none", Absent)>> ELSE << >>
           prior == IF \E p \in Existing : Exists(p) THEN "yes" ELSE "no"
           u == Undo("bootstrap", "none", Absent)
<1>1. /\ inst \in InstRecs /\ inst.attempts \in 0 .. MaxInstalls
      /\ inst.attempts < MaxInstalls /\ inst.attempts + 1 \in 0 .. MaxInstalls
  <2>1. inst \in InstRecs
    BY DEF Inv, Typing
  <2>2. inst.attempts \in 0 .. MaxInstalls
    BY <2>1 DEF InstRecs
  <2> QED BY <2>1, <2>2, InstallAssumption DEF BeginInstall
<1>2. u \in UndoRecs /\ Rank(u) = 0 /\ u.path = "none" /\ u.act = "bootstrap"
  BY DEF Undo, UndoRecs, Whole, OnPath, Absent, Entries, Versions, Metas, Rank, Paths,
         Dirs, Files
<1>3. inst' = [st |-> "install", step |-> 1, undo |-> first, pre |-> prior, made |-> "no",
               src |-> "new", attempts |-> inst.attempts + 1, failures |-> 0]
  BY Zenon DEF BeginInstall, Idle
<1>4. first \in Undos /\ prior \in Flags
  <2>1. <<u>> \in Undos /\ << >> \in Undos
    BY <1>2 DEF Undos
  <2> QED BY <2>1 DEF Flags
<1>5. /\ loaded = "yes" => first = <<u>>
      /\ loaded = "no" => first = << >>
      /\ loaded \in Flags /\ user \in Users /\ fs \in [Paths -> Entries]
  BY DEF Inv, Typing
<1> HIDE DEF first, prior, u
<1>6. /\ inst' \in InstRecs /\ inst'.st = "install" /\ inst'.step = 1 /\ inst'.undo = first
      /\ inst'.failures = 0
  BY <1>1, <1>3, <1>4 DEF InstRecs, Flags
<1>7. /\ before' = [fs |-> fs, user |-> user, loaded |-> loaded]
      /\ over' = IF Exists("plist") THEN "yes" ELSE over
  BY DEF BeginInstall
<1>8. /\ before'.fs = fs /\ before'.user = user /\ before'.loaded = loaded
      /\ before' \in [fs : [Paths -> Entries], user : Users, loaded : Flags]
  BY <1>5, <1>7
<1>9. Typing'
  <2>1. over' \in {"no", "yes", "unheard"}
    BY <1>7 DEF Inv, Typing
  <2> QED BY <1>6, <1>8, <2>1 DEF Inv, Typing, Untouched
<1>10. /\ Len(first) \in {0, 1}
       /\ \A i \in 1 .. Len(first) : first[i] = u
       /\ Has("bootstrap", first) <=> loaded = "yes"
  <2>1. CASE loaded = "yes"
    <3>1. first = <<u>> /\ Len(first) = 1 /\ first[1] = u
      BY <1>5, <2>1
    <3>2. \A i \in 1 .. Len(first) : i = 1
      BY <3>1
    <3> QED BY <1>2, <2>1, <3>1, <3>2 DEF Has
  <2>2. CASE loaded = "no"
    <3>1. first = << >> /\ Len(first) = 0
      BY <1>5, <2>2
    <3> QED BY <2>2, <3>1 DEF Has
  <2> QED BY <1>5, <2>1, <2>2 DEF Flags
<1>11. Stack(first, 1)
  <2>1. \A i \in 1 .. Len(first) : i = 1
    BY <1>10
  <2>2. Len(first) <= 1
    BY <1>10
  <2>3. \A i, j \in 1 .. Len(first) : ~(i < j)
    BY <2>1
  <2>4. \A i \in 1 .. Len(first) : Rank(first[i]) < 1
    BY <1>2, <1>10
  <2>5. \A i \in 1 .. Len(first) : \A p \in Paths : ~(RecordAt(p) < Rank(first[i]))
    <3>1. \A p \in Paths : ~(RecordAt(p) < 0)
      BY Places
    <3>2. \A i \in 1 .. Len(first) : Rank(first[i]) = 0
      BY <1>2, <1>10, Zenon
    <3> QED BY <3>1, <3>2, Zenon
  <2> QED BY <1>4, <2>2, <2>3, <2>4, <2>5 DEF Stack, Undos
<1>12. Steps'
  <2>1. \A p \in Paths : ~(RecordAt(p) < 1) /\ ~(CreateAt(p) < 1)
    BY Places
  <2> QED BY <1>6, <1>11, <2>1 DEF Steps
<1>13. \A p \in Paths : ~In(p, first) /\ \A i \in 1 .. Len(first) : first[i].path # p
  BY <1>2, <1>10, Places DEF In
<1>14. FilesInv'
  BY <1>6, <1>8, <1>13, Zenon DEF FilesInv, Kept, Untouched
<1>15. LoadedInv'
  BY <1>5, <1>6, <1>8, <1>10 DEF LoadedInv, Started, Untouched, Flags
<1>16. RunInv'
  BY <1>6 DEF Inv, RunInv, Settled, Started, Untouched
<1>17. UserInv'
  BY <1>6, <1>8 DEF UserInv, Untouched
<1>18. HealthInv'
  <2>1. over' = "no" => fs'["plist"] = Absent /\ before'.fs["plist"] = Absent
    BY <1>7, <1>8 DEF Untouched, Exists
  <2>2. \A f \in Files : ~(WriteAt(f) < 1)
    BY Places
  <2> QED BY <1>6, <2>1, <2>2 DEF HealthInv, Absent
<1> QED BY <1>9, <1>12, <1>14, <1>15, <1>16, <1>17, <1>18 DEF Inv

\* A failed step begins the rollback of everything recorded so far (install_system).
LEMMA FailsWell ==
    ASSUME Inv, StepFails
    PROVE  Inv'
<1>1. /\ inst \in InstRecs /\ inst.st = "install" /\ inst.step \in 1 .. 38
      /\ inst' = [inst EXCEPT !.st = "rollback"]
  <2>1. inst \in InstRecs
    BY DEF Inv, Typing
  <2>2. inst.step \in 1 .. 39 /\ inst.step <= 38
    BY <2>1, ScriptIs DEF InstRecs, StepFails
  <2> QED BY <2>1, <2>2 DEF StepFails
<1>2. inst.step # 37
  <2>1. Script[37].op = "record_started"
    BY ScriptIs DEF Step
  <2>2. Script[inst.step].op \notin Infallible
    BY DEF StepFails
  <2> QED BY <2>1, <2>2, Zenon DEF Infallible
<1>3. Untouched /\ Apart /\ faults' \in 0 .. MaxFaults
  BY InstallAssumption DEF StepFails, Untouched, Apart, Inv, Typing
<1>4. /\ inst' \in InstRecs /\ inst'.st = "rollback" /\ inst'.step = inst.step
      /\ inst'.undo = inst.undo /\ inst'.failures = inst.failures /\ inst'.pre = inst.pre
  BY <1>1 DEF InstRecs
<1>5. Clean' <=> Clean
  BY <1>3, <1>4 DEF Clean, Apart
<1>6. Typing'
  BY <1>3, <1>4 DEF Inv, Typing, Untouched, Apart
<1>7. Steps'
  BY <1>4, Zenon DEF Inv, Steps
<1>8. FilesInv'
  <2> SUFFICES ASSUME Clean', NEW p \in Paths PROVE (Excused(p) \/ Kept(p))'
    BY DEF FilesInv
  <2>1. Excused(p) \/ Kept(p)
    BY <1>1, <1>5, Zenon DEF Inv, FilesInv, Tried
  <2> QED BY <1>3, <1>4, <2>1, KeptSame, Zenon DEF Untouched, Apart
<1>9. LoadedInv'
  BY <1>1, <1>2, <1>3, <1>4, <1>5 DEF Inv, LoadedInv, Started, Tried, Untouched, Apart
<1>10. RunInv'
  <2>1. Clean /\ inst.undo = << >> => running = "none"
    <3> SUFFICES ASSUME Clean, inst.undo = << >> PROVE running = "none"
      OBVIOUS
    <3>1. \A a : ~Has(a, inst.undo)
      <4>1. Len(inst.undo) = 0
        OBVIOUS
      <4> QED BY <4>1 DEF Has
    <3>2. before.loaded \in Flags /\ loaded \in Flags
      BY DEF Inv, Typing
    <3>3. loaded = "no"
      BY <1>1, <1>2, <3>1, <3>2 DEF Inv, LoadedInv, Tried, Flags
    <3> QED BY <3>3 DEF Inv, RunInv
  <2> QED BY <1>3, <1>4, <1>5, <2>1 DEF Inv, RunInv, Settled, Started, Untouched
<1>11. UserInv'
  BY <1>1, <1>3, <1>4 DEF Inv, UserInv, Tried, Untouched, Apart
<1>12. HealthInv'
  <2>1. AllOf("new") => AllOf("new")'
    BY <1>3 DEF AllOf, Untouched
  <2> QED BY <1>1, <1>3, <1>4, <2>1 DEF Inv, HealthInv, Tried, Untouched, Apart
<1> QED BY <1>6, <1>7, <1>8, <1>9, <1>10, <1>11, <1>12 DEF Inv

\* An attempt that ends, well or in a crash, forgets its transaction (commit,
\* install_system).
LEMMA EndsWell ==
    ASSUME Inv, Commit \/ RollbackReported \/ InstallerDies
    PROVE  Inv'
<1>1. inst \in InstRecs /\ << >> \in Undos
  BY DEF Inv, Typing, Undos
<1>0. inst.step \in 1 .. 39
  BY <1>1 DEF InstRecs
<1>2. Untouched /\ Apart /\ faults' \in 0 .. MaxFaults
  BY InstallAssumption
  DEF Commit, RollbackReported, InstallerDies, Fault, Untouched, Apart, Inv, Typing
<1>3. PICK st \in {"done", "rolledback", "dead"} :
         /\ inst' = [inst EXCEPT !.st = st, !.undo = << >>]
         /\ st = "done" => inst.st = "install" /\ inst.step > 38
         /\ st = "rolledback" => inst.st = "rollback" /\ inst.undo = << >>
         /\ st = "dead" => inst.st \in {"install", "rollback"}
  <2>1. CASE Commit
    BY <2>1, ScriptIs DEF Commit
  <2>2. CASE RollbackReported
    <3>1. inst.undo = << >> /\ inst.st = "rollback"
      BY <2>2 DEF RollbackReported
    <3>2. inst' = [inst EXCEPT !.st = "rolledback", !.undo = << >>]
      BY <1>1, <2>2, <3>1, Zenon DEF RollbackReported, InstRecs
    <3> QED BY <3>1, <3>2
  <2>3. CASE InstallerDies
    BY <2>3 DEF InstallerDies
  <2> QED BY <2>1, <2>2, <2>3
<1>4. /\ inst' \in InstRecs /\ inst'.st = st /\ inst'.step = inst.step
      /\ inst'.undo = << >> /\ inst'.failures = inst.failures /\ inst'.pre = inst.pre
  <2> DEFINE r == [inst EXCEPT !.st = st]
  <2>1. /\ r \in InstRecs /\ r.st = st /\ r.step = inst.step /\ r.failures = inst.failures
        /\ r.pre = inst.pre
    BY <1>1, Zenon DEF InstRecs
  <2>2. inst' = [r EXCEPT !.undo = << >>]
    BY <1>3
  <2> HIDE DEF r
  <2> QED BY <1>1, <2>1, <2>2, Zenon DEF InstRecs
<1>5. Clean' <=> Clean
  BY <1>2, <1>4 DEF Clean, Apart
<1>6. Typing'
  BY <1>2, <1>4 DEF Inv, Typing, Untouched, Apart
<1>7. Steps'
  <2>1. inst.step \in Nat
    BY <1>0
  <2>2. Stack(<< >>, inst.step)
    BY <1>1, <2>1 DEF Stack, Undos
  <2> QED BY <1>3, <1>4, <2>2, Zenon DEF Steps
<1>8. FilesInv'
  <2> SUFFICES ASSUME Tried', Clean', NEW p \in Paths PROVE (Excused(p) \/ Kept(p))'
    BY DEF FilesInv
  <2>1. st = "rolledback"
    BY <1>3, <1>4 DEF Tried
  <2>2. Excused(p) \/ Kept(p)
    BY <1>3, <1>5, <2>1, Zenon DEF Inv, FilesInv, Tried
  <2>3. inst'.undo = inst.undo
    BY <1>3, <1>4, <2>1
  <2> QED BY <1>2, <2>2, <2>3, KeptSame, Zenon DEF Untouched, Apart
<1>9. LoadedInv'
  <2>1. CASE st = "rolledback"
    BY <2>1, <1>2, <1>3, <1>4, <1>5 DEF Inv, LoadedInv, Started, Tried, Untouched, Apart
  <2>2. CASE st = "done"
    <3>1. inst.step >= 37
      BY <1>0, <1>3, <2>2
    <3> QED BY <2>2, <3>1, <1>2, <1>3, <1>4 DEF Inv, LoadedInv, Started, Tried, Untouched
  <2>3. CASE st = "dead"
    BY <2>3, <1>4 DEF LoadedInv, Started, Tried
  <2> QED BY <2>1, <2>2, <2>3
<1>10. RunInv'
  <2>1. Settled' => Settled
    <3>1. st = "done" => inst.step >= 37
      BY <1>0, <1>3
    <3> QED BY <3>1, <1>3, <1>4, <1>5 DEF Settled, Started
  <2> QED BY <1>2, <2>1 DEF Inv, RunInv, Untouched
<1>11. UserInv'
  BY <1>2, <1>3, <1>4 DEF Inv, UserInv, Tried, Untouched, Apart
<1>12. HealthInv'
  <2>1. AllOf("new") => AllOf("new")'
    BY <1>2 DEF AllOf, Untouched
  <2> QED BY <1>2, <1>3, <1>4, <2>1 DEF Inv, HealthInv, Tried, Untouched, Apart
<1> QED BY <1>6, <1>7, <1>8, <1>9, <1>10, <1>11, <1>12 DEF Inv

-----------------------------------------------------------------------------
(* launchd, the daemon and the update                                      *)

\* The daemon may make the database where there was none, but never touches what
\* a rollback needs (KeepAlive; RuleStore::open in the daemon).
LEMMA DaemonStarts ==
    ASSUME Inv, LaunchdStarts
    PROVE  Inv'
<1> DEFINE e == IF fs["db"] = Absent THEN Entry("torn", "good") ELSE fs["db"]
<1>1. /\ loaded = "yes" /\ fs["daemon"].ver \notin {"none", "torn"}
      /\ running' = fs["daemon"].ver /\ litter' = {"state", "log"}
      /\ fs' = [fs EXCEPT !["db"] = e]
      /\ user' = user /\ loaded' = loaded /\ upd' = upd /\ inst' = inst /\ before' = before
      /\ over' = over /\ faults' = faults
  BY DEF LaunchdStarts
<1>2. fs \in [Paths -> Entries] /\ fs["db"] \in Entries /\ fs["daemon"] \in Entries
  BY Places DEF Inv, Typing
<1>3. e \in Entries /\ e # Absent /\ (e = fs["db"] \/ fs["db"] = Absent)
  BY <1>2 DEF Entry, Entries, Absent, Versions, Metas
<1> HIDE DEF e
<1>4. /\ fs' \in [Paths -> Entries] /\ fs'["db"] = e
      /\ \A p \in Paths : p # "db" => fs'[p] = fs[p]
  BY <1>1, <1>2, <1>3, Places
<1>5. /\ Clean' <=> Clean
      /\ Tried' <=> Tried
      /\ Started' <=> Started
      /\ Settled' <=> Settled
  BY <1>1, Zenon DEF Clean, Tried, Started, Settled
<1>6. Typing'
  <2>1. running' \in Versions \ {"torn"}
    BY <1>1, <1>2 DEF Entries
  <2> QED BY <1>1, <1>4, <2>1 DEF Inv, Typing
<1>7. Steps'
  <2>1. \A p \in Paths : fs[p] # Absent => fs'[p] # Absent
    BY <1>3, <1>4
  <2> QED BY <1>1, <2>1, Zenon DEF Inv, Steps
<1>8. FilesInv'
  <2> SUFFICES ASSUME Tried, Clean, NEW p \in Paths PROVE (Excused(p) \/ Kept(p))'
    BY <1>5 DEF FilesInv
  <2>1. Excused(p) \/ Kept(p)
    BY Zenon DEF Inv, FilesInv
  <2>2. CASE fs'[p] = fs[p]
    BY <1>1, <2>1, <2>2, KeptSame, Zenon
  <2>3. CASE fs'[p] # fs[p] /\ ~Excused(p)
    <3>1. p = "db" /\ fs[p] = Absent /\ Kept(p)
      BY <1>3, <1>4, <2>1, <2>3
    <3>2. In(p, inst.undo)
      <4>1. CASE before.fs[p] # Absent
        BY <4>1, <3>1 DEF Kept
      <4>2. CASE before.fs[p] = Absent
        <5>1. before.loaded = "no"
          <6>1. before.loaded \in Flags
            BY DEF Inv, Typing
          <6> QED BY <6>1, <4>2, <3>1, <2>3 DEF Excused, Flags
        <5>2. (inst.st = "install" /\ inst.step = 37) \/ Has("bootout", inst.undo)
          BY <1>1, <5>1 DEF Inv, LoadedInv
        <5>3. CASE inst.st = "install" /\ inst.step = 37
          BY <5>3, <3>1, Places DEF Inv, Steps
        <5>4. CASE Has("bootout", inst.undo)
          <6>1. PICK i \in 1 .. Len(inst.undo) : inst.undo[i].act = "bootout"
            BY <5>4 DEF Has
          <6>2. inst.undo[i] \in UndoRecs
            BY DEF Inv, Steps, Stack
          <6>3. Rank(inst.undo[i]) = 37
            BY <6>1, <6>2, Ranks
          <6>4. RecordAt(p) < Rank(inst.undo[i])
            BY <6>3, <3>1, Places
          <6> QED BY <6>4, Zenon DEF Inv, Steps, Stack
        <5> QED BY <5>2, <5>3, <5>4
      <4> QED BY <4>1, <4>2
    <3>3. ASSUME NEW u, NEW i \in 1 .. Len(inst.undo), u = inst.undo[i], u.path = p
          PROVE  Restores(u, p)'
      <4>1. Restores(u, p) /\ u \in UndoRecs
        BY <3>1, <3>3 DEF Kept, Inv, Steps, Stack
      <4>2. u.act # "restore_meta"
        BY <3>1, <3>3, <4>1, Ranks DEF Dirs
      <4> QED BY <4>1, <4>2, <1>1 DEF Restores
    <3> QED BY <3>2, <3>3, <1>1, Zenon DEF Kept
  <2>4. CASE Excused(p)
    BY <2>4, <1>1 DEF Excused
  <2> QED BY <2>2, <2>3, <2>4
<1>9. LoadedInv'
  BY <1>1, <1>5, Zenon DEF Inv, LoadedInv
<1>10. RunInv'
  BY <1>1, <1>4, Places DEF RunInv
<1>11. UserInv'
  BY <1>1, <1>5, Zenon DEF Inv, UserInv
<1>12. HealthInv'
  <2> SUFFICES ASSUME over = "no" PROVE HealthInv'
    BY <1>1 DEF HealthInv
  <2>1. \A v \in {"old", "new"} : AllOf(v) => AllOf(v)'
    <3> SUFFICES ASSUME NEW v \in {"old", "new"}, AllOf(v), NEW f \in Files
                 PROVE  fs'[f].ver = v
      BY DEF AllOf
    <3>1. fs["db"].ver # "none" /\ fs[f].ver = v
      BY Places DEF AllOf
    <3>2. e = fs["db"]
      BY <3>1, <1>3 DEF Absent
    <3> QED BY <3>1, <3>2, <1>4, Places
  <2>2. fs'["plist"] = fs["plist"]
    BY <1>4, Places
  <2>3. \A f \in Files : fs[f].ver = "new" => fs'[f].ver = "new"
    BY <1>3, <1>4, Places DEF Absent
  <2> QED BY <1>1, <1>5, <2>1, <2>2, <2>3 DEF Inv, HealthInv
<1> QED BY <1>6, <1>7, <1>8, <1>9, <1>10, <1>11, <1>12 DEF Inv

\* The exit of the daemon and the steps of the update touch nothing the installer
\* has made (install/update.rs).
LEMMA OthersKeep ==
    ASSUME Inv, fs' = fs, user' = user, loaded' = loaded, inst' = inst, before' = before,
           over' = over, litter' = litter, running' \in {running, "none"},
           upd' \in {"none", "selected", "good", "bad", "installing"},
           faults' \in 0 .. MaxFaults
    PROVE  Inv'
<1>1. /\ Clean' <=> Clean
      /\ Tried' <=> Tried
      /\ Started' <=> Started
      /\ Settled' <=> Settled
  BY Zenon DEF Clean, Tried, Started, Settled
<1>2. Typing'
  BY DEF Inv, Typing, Versions
<1>3. Steps'
  BY Zenon DEF Inv, Steps
<1>4. FilesInv'
  <2> SUFFICES ASSUME Tried, Clean, NEW p \in Paths PROVE (Excused(p) \/ Kept(p))'
    BY <1>1 DEF FilesInv
  <2>1. Excused(p) \/ Kept(p)
    BY Zenon DEF Inv, FilesInv
  <2> QED BY <2>1, KeptSame, Zenon
<1>5. LoadedInv'
  BY <1>1, Zenon DEF Inv, LoadedInv
<1>6. RunInv'
  BY <1>1 DEF Inv, RunInv
<1>7. UserInv'
  BY <1>1, Zenon DEF Inv, UserInv
<1>8. HealthInv'
  BY <1>1, Zenon DEF Inv, HealthInv, AllOf
<1> QED BY <1>2, <1>3, <1>4, <1>5, <1>6, <1>7, <1>8 DEF Inv

-----------------------------------------------------------------------------
(* The rollback                                                            *)

\* inst' after an action has been taken from the stack.
Taken ==
    /\ inst.st = "rollback" /\ inst' \in InstRecs /\ inst'.st = "rollback"
    /\ inst'.step = inst.step /\ inst'.pre = inst.pre /\ inst.step \in Nat
    /\ PoppedTo(inst.undo, inst.step, inst'.undo, Saved)

\* Both outcomes of an action take it from the stack (InstallTransaction::rollback).
LEMMA Takes ==
    ASSUME Inv, NEW act, Undoing(act), Undone \/ NotUndone
    PROVE  /\ Taken /\ Saved.act = act
           /\ Undone => inst'.failures = inst.failures
           /\ NotUndone => inst'.failures = 1
<1>1. /\ inst \in InstRecs /\ inst.st = "rollback" /\ inst.undo # << >> /\ Saved.act = act
      /\ Stack(inst.undo, inst.step)
  BY DEF Inv, Typing, Steps, Undoing, Saved
<1>2. inst.step \in 1 .. 39
  BY <1>1 DEF InstRecs
<1> DEFINE t == Front(inst.undo)
<1>3. PoppedTo(inst.undo, inst.step, t, Saved)
  <2>1. inst.step \in Nat
    BY <1>2
  <2>2. Popped(inst.undo, inst.step, t, Saved)
    BY <1>1, <2>1, Zenon DEF Popped, Saved
  <2> QED BY <2>2, PopKeeps, Zenon
<1>4. t \in Undos
  BY <1>3, Zenon DEF PoppedTo, Stack, Undos
<1>5. /\ Undone => inst' = [inst EXCEPT !.undo = t]
      /\ NotUndone => inst' = [[inst EXCEPT !.undo = t] EXCEPT !.failures = 1]
  BY DEF Undone, NotUndone
<1> DEFINE r == [inst EXCEPT !.undo = t]
<1> HIDE DEF t
<1>6. /\ r \in InstRecs /\ r.st = "rollback" /\ r.step = inst.step /\ r.pre = inst.pre
      /\ r.failures = inst.failures /\ r.undo = t
  BY <1>1, <1>4 DEF InstRecs
<1>7. /\ Undone => inst' = r
      /\ NotUndone => inst' = [r EXCEPT !.failures = 1]
  BY <1>5
<1> HIDE DEF r
<1>8. /\ inst' \in InstRecs /\ inst'.st = "rollback" /\ inst'.step = inst.step
      /\ inst'.pre = inst.pre /\ inst'.undo = t
      /\ Undone => inst'.failures = inst.failures
      /\ NotUndone => inst'.failures = 1
  <2>1. CASE Undone
    <3>1. inst' = r
      BY <2>1, <1>7
    <3>2. NotUndone => inst'.failures = 1
      BY <1>6, <1>7 DEF InstRecs
    <3> QED BY <3>1, <3>2, <1>6
  <2>2. CASE NotUndone
    <3>1. inst' = [r EXCEPT !.failures = 1]
      BY <2>2, <1>7
    <3>2. Undone => inst'.failures = inst.failures
      BY <1>6, <1>7
    <3> QED BY <3>1, <3>2, <2>2, <1>6 DEF InstRecs
  <2> QED BY <2>1, <2>2
<1>9. inst.step \in Nat
  BY <1>2
<1> QED BY <1>1, <1>3, <1>8, <1>9, Zenon DEF Taken

\* What every action leaves alone.
LEMMA TakenKeeps ==
    ASSUME Inv, Taken, Apart, fs' \in [Paths -> Entries], user' \in Users, loaded' \in Flags,
           running' \in {running, "none"}, running' # "none" => loaded' = "yes",
           faults' \in 0 .. MaxFaults
    PROVE  /\ Typing' /\ Steps'
           /\ ~Clean' => FilesInv' /\ LoadedInv' /\ RunInv'
<1>1. Typing'
  BY DEF Inv, Typing, Apart, Taken, Versions
<1>2. Steps'
  BY Zenon DEF Steps, Taken, PoppedTo
<1>3. ASSUME ~Clean' PROVE FilesInv' /\ LoadedInv' /\ RunInv'
  BY <1>3 DEF FilesInv, LoadedInv, RunInv, Settled, Started, Taken
<1> QED BY <1>1, <1>2, <1>3

\* An action that fails is noted, and nothing is promised any more
\* (InstallTransaction::rollback, "rollback incomplete").
LEMMA FailureNoted ==
    ASSUME Inv, NEW act, Undoing(act), NotUndone, fs' \in [Paths -> Entries], Apart,
           user' = user, loaded' = loaded, running' = running, faults' \in 0 .. MaxFaults
    PROVE  Inv'
<1>1. Taken /\ inst'.failures = 1
  BY Takes
<1>2. ~Clean'
  BY <1>1 DEF Clean
<1>3. /\ user \in Users /\ loaded \in Flags
      /\ running # "none" => loaded = "yes"
  BY DEF Inv, Typing, RunInv
<1>4. Typing' /\ Steps' /\ FilesInv' /\ LoadedInv' /\ RunInv'
  BY <1>1, <1>2, <1>3, TakenKeeps
<1>5. UserInv'
  BY <1>1 DEF UserInv
<1>6. HealthInv'
  BY <1>1 DEF Inv, HealthInv, Taken, Tried, Apart
<1> QED BY <1>4, <1>5, <1>6 DEF Inv

\* The other actions stay on the stack, and the user with them.
LEMMA OtherActs ==
    ASSUME Inv, Taken, Apart, inst'.failures = inst.failures
    PROVE  /\ \A a : a # Saved.act => (Has(a, inst'.undo) <=> Has(a, inst.undo))
           /\ Clean' <=> Clean
           /\ Tried /\ Tried'
           /\ Saved.act # "remove_user" /\ user' = user => UserInv'
           /\ \A a : ~Has(a, << >>)
<1>1. \A a : a # Saved.act => (Has(a, inst'.undo) <=> Has(a, inst.undo))
  BY Zenon DEF Taken, PoppedTo
<1>2. (Clean' <=> Clean) /\ Tried /\ Tried'
  BY DEF Clean, Tried, Taken, Apart
<1>3. ASSUME Saved.act # "remove_user", user' = user PROVE UserInv'
  BY <1>1, <1>2, <1>3 DEF Inv, UserInv, Taken, Apart
<1>4. \A a : ~Has(a, << >>)
  <2>1. Len(<< >>) = 0
    BY SMTT(30)
  <2> QED BY <2>1 DEF Has
<1> QED BY <1>1, <1>2, <1>3, <1>4

\* A path whose action is done is as it was, and the others are as they were
\* (restore_file_from_backup, remove_file_if_present, remove_directory_if_empty,
\* restore_metadata).
LEMMA PathRestored ==
    ASSUME Inv, NEW act \in OnPath, Undoing(act), Undone, NEW p \in Paths, Saved.path = p,
           NEW e \in Entries, fs' = [fs EXCEPT ![p] = e], Apart,
           Tried /\ Clean => Excused(p) \/ e = before.fs[p],
           user' = user, loaded' = loaded, running' = running, faults' = faults
    PROVE  Inv'
<1>1. Taken /\ inst'.failures = inst.failures /\ Saved.act = act
  BY Takes
<1>2. /\ fs \in [Paths -> Entries] /\ user \in Users /\ loaded \in Flags
      /\ faults \in 0 .. MaxFaults /\ before.loaded \in Flags
      /\ running # "none" => loaded = "yes"
  BY DEF Inv, Typing, RunInv
<1>3. /\ fs' \in [Paths -> Entries] /\ fs'[p] = e
      /\ \A q \in Paths : q # p => fs'[q] = fs[q]
  BY <1>2
<1>4. /\ Typing' /\ Steps'
      /\ ~Clean' => FilesInv' /\ LoadedInv' /\ RunInv'
  BY <1>1, <1>2, <1>3, TakenKeeps
<1>5. /\ \A a : a # act => (Has(a, inst'.undo) <=> Has(a, inst.undo))
      /\ Clean' <=> Clean
      /\ Tried /\ Tried' /\ UserInv'
      /\ \A a : ~Has(a, << >>)
  <2>1. act # "remove_user"
    BY DEF OnPath
  <2> QED BY <1>1, <2>1, OtherActs, Zenon
<1>6. act \notin {"bootstrap", "bootout"}
  BY DEF OnPath
<1>7. ASSUME Clean PROVE FilesInv'
  <2> SUFFICES ASSUME NEW q \in Paths PROVE (Excused(q) \/ Kept(q))'
    BY DEF FilesInv
  <2>1. Excused(q) \/ Kept(q)
    BY <1>5, <1>7, Zenon DEF Inv, FilesInv
  <2>2. CASE q # p
    <3>1. In(q, inst.undo) => In(q, inst'.undo)
      BY <1>1, <2>2, Zenon DEF Taken, PoppedTo
    <3>2. \A i \in 1 .. Len(inst'.undo) : inst'.undo[i].path = q =>
              \E j \in 1 .. Len(inst.undo) : inst'.undo[i] = inst.undo[j]
      BY <1>1, Zenon DEF Taken, PoppedTo
    <3> QED BY <1>3, <2>1, <2>2, <3>1, <3>2, KeptSame, Zenon DEF Apart
  <2>3. CASE q = p /\ Excused(p)
    BY <2>3 DEF Excused, Apart
  <2>4. CASE q = p /\ ~Excused(p)
    <3>1. fs'[q] = before'.fs[q]
      BY <1>3, <1>5, <1>7, <2>4 DEF Apart
    <3>2. ~In(p, inst'.undo)
      BY <1>1, Zenon DEF Taken, PoppedTo
    <3>3. \A i \in 1 .. Len(inst'.undo) : inst'.undo[i].path # q
      BY <2>4, <3>2, Zenon DEF In
    <3> QED BY <3>1, <3>3, Zenon DEF Kept
  <2> QED BY <2>2, <2>3, <2>4
<1>8. ASSUME Clean PROVE LoadedInv'
  <2>1. inst.undo # << >>
    BY DEF Undoing
  <2>2. /\ Has("bootstrap", inst'.undo) <=> Has("bootstrap", inst.undo)
        /\ Has("bootout", inst'.undo) <=> Has("bootout", inst.undo)
    BY <1>5, <1>6, Zenon
  <2> QED BY <1>1, <1>5, <1>8, <2>1, <2>2 DEF Inv, LoadedInv, Taken, Started, Apart
<1>9. ASSUME Clean PROVE RunInv'
  <2> SUFFICES ASSUME inst'.undo = << >> PROVE running = "none"
    BY <1>1, <1>2 DEF RunInv, Settled, Started, Taken
  <2>1. ~Has("bootstrap", inst.undo) /\ ~Has("bootout", inst.undo) /\ inst.undo # << >>
    BY <1>5, <1>6, ZenonT(60) DEF Undoing
  <2>2. loaded = "no"
    BY <1>1, <1>2, <1>5, <1>9, <2>1, Zenon DEF Inv, LoadedInv, Taken, Flags
  <2> QED BY <1>2, <2>2, SMTT(30)
<1>10. HealthInv'
  <2> SUFFICES ASSUME over = "no", inst.failures = 0,
                      fs'["plist"].ver \notin {"none", "torn"}
               PROVE  FALSE
    BY <1>1, <1>5, Zenon DEF Inv, HealthInv, Taken, Apart
  <2>1. Clean /\ before.fs["plist"] = Absent /\ "plist" \in Paths
    BY <1>5, Places, Zenon DEF Inv, HealthInv, Clean
  <2>2. CASE p = "plist"
    <3>1. ~Excused(p)
      BY <2>2 DEF Excused
    <3>2. fs'["plist"] = Absent
      BY <1>3, <1>5, <2>1, <2>2, <3>1, Zenon
    <3> QED BY ONLY <3>2, fs'["plist"].ver \notin {"none", "torn"} DEF Absent
  <2>3. CASE p # "plist"
    <3>1. Saved \in UndoRecs
      BY <1>1, Zenon DEF Taken, PoppedTo
    <3>2. Rank(Saved) = RecordAt(p)
      BY <3>1, Ranks
    <3>3. RecordAt("plist") > Rank(Saved)
      BY <2>3, <3>2, Places
    <3>4. ~In("plist", inst.undo)
      BY <1>1, <2>1, <3>3, Zenon DEF Taken, PoppedTo
    <3>5. Kept("plist")
      BY <1>5, <2>1 DEF Inv, FilesInv, Excused
    <3>6. fs["plist"] = Absent
      BY <2>1, <3>4, <3>5 DEF Kept
    <3> QED BY <2>1, <2>3, <3>6, <1>3 DEF Absent
  <2> QED BY <2>2, <2>3
<1> QED BY <1>4, <1>5, <1>7, <1>8, <1>9, <1>10 DEF Inv

\* What the action on a path is, when everything went well so far.
LEMMA SavedIs ==
    ASSUME Inv, NEW act \in OnPath, Undoing(act)
    PROVE  /\ Saved \in UndoRecs /\ Saved.act = act /\ Saved.path \in Paths
           /\ Saved.file \in Entries /\ fs[Saved.path] \in Entries /\ Absent \in Entries
           /\ Tried /\ Clean /\ ~Excused(Saved.path) => Restores(Saved, Saved.path)
<1>1. /\ inst.undo # << >> /\ Saved.act = act /\ Stack(inst.undo, inst.step)
      /\ Saved = inst.undo[Len(inst.undo)]
  BY DEF Inv, Steps, Undoing, Saved, Last
<1>2. inst.undo \in Seq(UndoRecs) /\ Len(inst.undo) \in 1 .. Len(inst.undo)
  BY <1>1 DEF Stack
<1>3. Saved \in UndoRecs
  BY <1>1, <1>2
<1>4. Saved.path \in Paths
  <2>1. Saved.act \notin Whole
    BY <1>1 DEF OnPath, Whole
  <2> QED BY <1>3, <2>1, Ranks
<1>5. fs[Saved.path] \in Entries /\ Saved.file \in Entries /\ Absent \in Entries
  BY <1>3, <1>4, Ranks DEF Inv, Typing, Entries, Absent, Versions, Metas
<1>6. ASSUME Tried, Clean, ~Excused(Saved.path) PROVE Restores(Saved, Saved.path)
  <2>1. Kept(Saved.path)
    BY <1>4, <1>6, Zenon DEF Inv, FilesInv
  <2> QED BY <1>1, <1>2, <2>1, Zenon DEF Kept
<1> QED BY <1>1, <1>3, <1>4, <1>5, <1>6

\* Each action on a path, done or failed.
LEMMA PathActions ==
    ASSUME Inv, RestoreFile \/ RemoveFileIfPresent \/ RemoveDirectoryIfEmpty \/ RestoreMetadata
    PROVE  Inv'
<1>1. PICK act \in OnPath : Undoing(act)
  BY DEF RestoreFile, RemoveFileIfPresent, RemoveDirectoryIfEmpty, RestoreMetadata, OnPath
<1>2. /\ Saved \in UndoRecs /\ Saved.act = act /\ Saved.path \in Paths
      /\ Saved.file \in Entries /\ fs[Saved.path] \in Entries /\ Absent \in Entries
      /\ Tried /\ Clean /\ ~Excused(Saved.path) => Restores(Saved, Saved.path)
  BY <1>1, SavedIs
<1>3. Apart /\ user' = user /\ loaded' = loaded /\ running' = running
  BY DEF RestoreFile, RemoveFileIfPresent, RemoveDirectoryIfEmpty, RestoreMetadata, Apart
<1>4. fs \in [Paths -> Entries] /\ faults \in 0 .. MaxFaults
  BY DEF Inv, Typing
<1>5. Fault => faults' \in 0 .. MaxFaults
  BY <1>4, InstallAssumption DEF Fault
<1> DEFINE p == Saved.path
<1>6. CASE NotUndone /\ faults' \in 0 .. MaxFaults /\ fs' \in [Paths -> Entries]
  BY <1>1, <1>3, <1>6, FailureNoted
<1>7. ASSUME NEW e \in Entries, Undone, fs' = [fs EXCEPT ![p] = e], faults' = faults,
             Tried /\ Clean => Excused(p) \/ e = before.fs[p]
      PROVE  Inv'
  <2>1. PICK q \in Paths : q = p
    BY <1>2
  <2> QED BY <1>1, <1>3, <1>7, <2>1, PathRestored, Zenon
<1>8. Tried /\ Clean /\ ~Excused(p) =>
        /\ act \in {"remove_dir", "remove_file"} => before.fs[p] = Absent
        /\ act \in {"restore_meta", "restore_file"} =>
              before.fs[p] = Saved.file /\ before.fs[p] # Absent
        /\ act = "restore_meta" => fs[p] # Absent /\ fs[p].ver = before.fs[p].ver
  BY <1>2 DEF Restores
<1>9. CASE RestoreFile
  <2>1. act = "restore_file"
    BY <1>1, <1>2, <1>9 DEF RestoreFile, Undoing, Saved
  <2>2. CASE fs' = [fs EXCEPT ![p] = Saved.file] /\ Undone /\ UNCHANGED faults
    BY <2>1, <2>2, <1>2, <1>7, <1>8, Zenon
  <2>3. CASE /\ Fault /\ NotUndone
             /\ \E e \in {fs[p], Absent, Entry(Saved.file.ver, "raw")} : fs' = [fs EXCEPT ![p] = e]
    <3>1. PICK e \in {fs[p], Absent, Entry(Saved.file.ver, "raw")} : fs' = [fs EXCEPT ![p] = e]
      BY <2>3, Zenon
    <3>2. Saved.file # Absent
      BY <1>2, <2>1, SMTT(30) DEF UndoRecs
    <3>3. Entry(Saved.file.ver, "raw") \in Entries
      BY <1>2, <3>2 DEF Entry, Entries, Absent, Versions, Metas
    <3>4. e \in Entries
      BY <1>2, <3>1, <3>3
    <3>5. fs' \in [Paths -> Entries]
      BY <1>4, <3>1, <3>4, Zenon
    <3> QED BY <1>5, <1>6, <2>3, <3>5
  <2> QED BY <1>9, <2>2, <2>3 DEF RestoreFile
<1>10. CASE RemoveFileIfPresent
  <2>1. act = "remove_file"
    BY <1>1, <1>2, <1>10 DEF RemoveFileIfPresent, Undoing, Saved
  <2>2. CASE fs' = [fs EXCEPT ![p] = Absent] /\ Undone /\ UNCHANGED faults
    BY <2>1, <2>2, <1>2, <1>7, <1>8, Zenon
  <2>3. CASE Fault /\ NotUndone /\ UNCHANGED fs
    BY <2>3, <1>4, <1>5, <1>6, SMTT(30)
  <2> QED BY <1>10, <2>2, <2>3 DEF RemoveFileIfPresent
<1>11. CASE RemoveDirectoryIfEmpty
  <2>1. act = "remove_dir"
    BY <1>1, <1>2, <1>11 DEF RemoveDirectoryIfEmpty, Undoing, Saved
  <2>2. CASE fs' = [fs EXCEPT ![p] = Absent] /\ Undone /\ UNCHANGED faults
    BY <2>1, <2>2, <1>2, <1>7, <1>8, Zenon
  <2>3. CASE NotUndone /\ UNCHANGED <<fs, faults>>
    BY <2>3, <1>4, <1>6
  <2>4. CASE Fault /\ NotUndone /\ UNCHANGED fs
    BY <2>4, <1>4, <1>5, <1>6
  <2> QED BY <1>11, <2>2, <2>3, <2>4, SMTT(30) DEF RemoveDirectoryIfEmpty
<1>12. CASE RestoreMetadata
  <2>1. act = "restore_meta"
    BY <1>1, <1>2, <1>12 DEF RestoreMetadata, Undoing, Saved
  <2>2. CASE /\ fs' = IF Exists(p) THEN [fs EXCEPT ![p].meta = Saved.file.meta] ELSE fs
             /\ Undone /\ UNCHANGED faults
    <3> DEFINE e == IF Exists(p) THEN [fs[p] EXCEPT !.meta = Saved.file.meta] ELSE fs[p]
    <3>1. fs' = [fs EXCEPT ![p] = e]
      BY <1>2, <1>4, <2>2, Zenon
    <3>2. Saved.file # Absent
      BY <1>2, <2>1 DEF UndoRecs
    <3>3. e \in Entries
      BY <1>2, <3>2 DEF Entries, Exists, Absent, Versions, Metas
    <3>4. Tried /\ Clean => Excused(p) \/ e = before.fs[p]
      BY <1>2, <1>8, <2>1 DEF Entries, Exists
    <3> QED BY <1>7, <2>2, <3>1, <3>3, <3>4, Zenon
  <2>3. CASE Fault /\ NotUndone /\ UNCHANGED fs
    BY <2>3, <1>4, <1>5, <1>6
  <2> QED BY <1>12, <2>2, <2>3 DEF RestoreMetadata
<1> QED BY <1>9, <1>10, <1>11, <1>12

\* The actions on the service and on the user, done or failed
\* (bootout_launch_daemon, bootstrap_launch_daemon, remove_service_user).
LEMMA WholeActions ==
    ASSUME Inv, BootoutLaunchDaemon \/ BootstrapLaunchDaemon \/ RemoveServiceUser
    PROVE  Inv'
<1>1. PICK act \in Whole : Undoing(act)
  BY DEF BootoutLaunchDaemon, BootstrapLaunchDaemon, RemoveServiceUser, Whole
<1>2. Undone \/ NotUndone
  BY DEF BootoutLaunchDaemon, BootstrapLaunchDaemon, RemoveServiceUser
<1>3. /\ Taken /\ Saved.act = act
      /\ Undone => inst'.failures = inst.failures
      /\ NotUndone => inst'.failures = 1
  BY <1>1, <1>2, Takes
<1>4. /\ fs' = fs /\ litter' = litter /\ upd' = upd /\ before' = before
  BY DEF BootoutLaunchDaemon, BootstrapLaunchDaemon, RemoveServiceUser
<1>5. /\ fs \in [Paths -> Entries] /\ faults \in 0 .. MaxFaults /\ user \in Users
      /\ loaded \in Flags /\ before.loaded \in Flags
      /\ running # "none" => loaded = "yes"
  BY DEF Inv, Typing, RunInv
<1>6. Fault => faults' \in 0 .. MaxFaults
  BY <1>5, InstallAssumption DEF Fault
<1>7. Saved.path = "none" /\ "none" \notin Paths
  <2>1. Saved \in UndoRecs
    BY <1>3, Zenon DEF Taken, PoppedTo
  <2>2. Saved.act \notin OnPath
    BY <1>3 DEF OnPath, Whole
  <2> QED BY <2>1, <2>2, Ranks, Places
<1>8. CASE NotUndone /\ over' = over /\ UNCHANGED <<user, loaded, running>>
                     /\ faults' \in 0 .. MaxFaults
  BY <1>1, <1>4, <1>5, <1>8, FailureNoted DEF Apart
<1>9. ASSUME Apart, Undone PROVE FilesInv' /\ HealthInv'
  <2>1. (Clean' <=> Clean) /\ Tried /\ Tried'
    BY <1>3, <1>9, OtherActs
  <2>2. FilesInv'
    <3> SUFFICES ASSUME Clean, NEW q \in Paths PROVE (Excused(q) \/ Kept(q))'
      BY <2>1 DEF FilesInv
    <3>1. Excused(q) \/ Kept(q)
      BY <2>1, Zenon DEF Inv, FilesInv
    <3>2. In(q, inst.undo) => In(q, inst'.undo)
      BY <1>3, <1>7, Zenon DEF Taken, PoppedTo
    <3>3. \A i \in 1 .. Len(inst'.undo) : inst'.undo[i].path = q =>
              \E j \in 1 .. Len(inst.undo) : inst'.undo[i] = inst.undo[j]
      BY <1>3, Zenon DEF Taken, PoppedTo
    <3> QED BY <1>4, <3>1, <3>2, <3>3, KeptSame, Zenon
  <2>3. AllOf("new") => AllOf("new")'
    BY <1>4 DEF AllOf
  <2>4. HealthInv'
    BY <1>3, <1>4, <1>9, <2>1, <2>3 DEF Inv, HealthInv, Taken, Apart
  <2> QED BY <2>2, <2>4, SMTT(30)
<1>10. CASE BootoutLaunchDaemon
  <2>1. act = "bootout" /\ Undone /\ user' = user
    BY <1>1, <1>2, <1>3, <1>10 DEF BootoutLaunchDaemon, Undoing, Saved
  <2>2. CASE loaded' = "no" /\ running' = "none" /\ UNCHANGED <<over, faults>>
    <3>1. Apart
      BY <1>4, <2>2 DEF Apart
    <3>2. FilesInv' /\ HealthInv'
      BY <1>9, <2>1, <3>1
    <3>3. /\ \A a : a # "bootout" => (Has(a, inst'.undo) <=> Has(a, inst.undo))
          /\ Clean' <=> Clean
          /\ Tried /\ Tried' /\ UserInv'
      BY <1>3, <2>1, <3>1, OtherActs, Zenon
    <3>4. Typing' /\ Steps'
      BY <1>3, <1>4, <1>5, <2>1, <2>2, <3>1, TakenKeeps DEF Flags
    <3>5. RunInv'
      BY <2>2, SMTT(30) DEF RunInv
    <3>6. LoadedInv'
      <4>1. Has("bootstrap", inst'.undo) <=> Has("bootstrap", inst.undo)
        BY <3>3
      <4>2. inst.undo # << >>
        BY <1>1 DEF Undoing
      <4> QED BY <1>3, <1>4, <2>2, <3>3, <4>1, <4>2
          DEF Inv, LoadedInv, Taken, Started
    <3> QED BY <3>2, <3>3, <3>4, <3>5, <3>6 DEF Inv
  <2>3. CASE Fault /\ over' = "unheard" /\ UNCHANGED <<loaded, running>>
    <3>1. ~Clean' /\ faults' \in 0 .. MaxFaults
      BY <2>3, <1>6 DEF Clean
    <3>2. Typing'
      BY <1>3, <1>4, <2>1, <2>3, <3>1 DEF Inv, Typing, Taken
    <3>3. Steps'
      BY <1>3, Zenon DEF Steps, Taken, PoppedTo
    <3>4. FilesInv' /\ LoadedInv' /\ RunInv' /\ HealthInv'
      BY <1>3, <1>5, <2>3, <3>1, SMTT(30)
      DEF FilesInv, LoadedInv, RunInv, HealthInv, Settled, Started, Taken
    <3>5. UserInv'
      <4>1. Has("remove_user", inst'.undo) <=> Has("remove_user", inst.undo)
        BY <1>3, <2>1, Zenon DEF Taken, PoppedTo
      <4> QED BY <1>3, <1>4, <2>1, <4>1 DEF Inv, UserInv, Tried, Taken
    <3> QED BY <3>2, <3>3, <3>4, <3>5 DEF Inv
  <2> QED BY <1>10, <2>2, <2>3 DEF BootoutLaunchDaemon
<1>11. CASE BootstrapLaunchDaemon
  <2>1. act = "bootstrap" /\ user' = user /\ running' = running /\ over' = over
    BY <1>1, <1>3, <1>11 DEF BootstrapLaunchDaemon, Undoing, Saved
  <2>2. CASE loaded = "no" /\ loaded' = "yes" /\ Undone /\ UNCHANGED faults
    <3>1. Apart
      BY <1>4, <2>1 DEF Apart
    <3>2. FilesInv' /\ HealthInv'
      BY <1>9, <2>2, <3>1
    <3>3. /\ Clean' <=> Clean
          /\ Tried /\ Tried' /\ UserInv'
      BY <1>3, <2>1, <2>2, <3>1, OtherActs
    <3>4. running = "none"
      BY <1>5, <2>2
    <3>5. Typing' /\ Steps'
      BY <1>3, <1>4, <1>5, <2>1, <2>2, <3>1, <3>4, TakenKeeps DEF Flags
    <3>6. RunInv'
      BY <2>1, <2>2, <3>4 DEF RunInv
    <3>7. inst'.undo = << >> /\ Has("bootstrap", inst.undo)
      BY <1>3, <2>1, Zenon DEF Taken, PoppedTo
    <3>8. Clean => before.loaded = "yes"
      BY <1>5, <3>3, <3>7 DEF Inv, LoadedInv, Flags
    <3>9. LoadedInv'
      BY <1>3, <1>4, <2>2, <3>3, <3>7, <3>8 DEF LoadedInv, Taken, Started
    <3> QED BY <3>2, <3>3, <3>5, <3>6, <3>9 DEF Inv
  <2>3. CASE NotUndone /\ UNCHANGED <<loaded, faults>>
    BY <2>1, <2>3, <1>5, <1>8
  <2>4. CASE Fault /\ NotUndone /\ UNCHANGED loaded
    BY <2>1, <2>4, <1>6, <1>8
  <2> QED BY <1>11, <2>2, <2>3, <2>4 DEF BootstrapLaunchDaemon
<1>12. CASE RemoveServiceUser
  <2>1. act = "remove_user" /\ loaded' = loaded /\ running' = running /\ over' = over
    BY <1>1, <1>3, <1>12 DEF RemoveServiceUser, Undoing, Saved
  <2>2. CASE user' = "none" /\ Undone /\ UNCHANGED faults
    <3>1. Apart
      BY <1>4, <2>1 DEF Apart
    <3>2. FilesInv' /\ HealthInv'
      BY <1>9, <2>2, <3>1
    <3>3. /\ \A a : a # "remove_user" => (Has(a, inst'.undo) <=> Has(a, inst.undo))
          /\ Clean' <=> Clean
          /\ Tried /\ Tried'
          /\ \A a : ~Has(a, << >>)
      BY <1>3, <2>1, <2>2, <3>1, OtherActs, Zenon
    <3>4. Typing' /\ Steps'
      BY <1>3, <1>4, <1>5, <2>1, <2>2, <3>1, TakenKeeps DEF Users
    <3>5. UserInv'
      BY <1>3, <2>2 DEF UserInv, Taken
    <3>6. /\ Has("bootstrap", inst'.undo) <=> Has("bootstrap", inst.undo)
          /\ Has("bootout", inst'.undo) <=> Has("bootout", inst.undo)
          /\ inst.undo # << >>
      BY <1>1, <3>3, Zenon DEF Undoing
    <3>7. LoadedInv'
      BY <1>3, <1>4, <2>1, <3>3, <3>6 DEF Inv, LoadedInv, Taken, Started
    <3>8. RunInv'
      <4>1. ASSUME Clean, inst'.undo = << >> PROVE running = "none"
        <5>1. ~Has("bootstrap", inst.undo) /\ ~Has("bootout", inst.undo)
          BY <3>3, <3>6, <4>1, Zenon
        <5>2. loaded = "no"
          BY <1>3, <1>5, <3>3, <3>6, <4>1, <5>1 DEF Inv, LoadedInv, Taken, Flags
        <5> QED BY <1>5, <5>2
      <4> QED BY <1>3, <1>5, <2>1, <3>3, <4>1 DEF RunInv, Settled, Started, Taken
    <3> QED BY <3>2, <3>4, <3>5, <3>7, <3>8 DEF Inv
  <2>3. CASE Fault /\ NotUndone /\ UNCHANGED user
    BY <2>1, <2>3, <1>6, <1>8
  <2> QED BY <1>12, <2>2, <2>3 DEF RemoveServiceUser
<1> QED BY <1>10, <1>11, <1>12

-----------------------------------------------------------------------------
(* The theorems                                                            *)

\* Every machine the installer may start on is one no attempt has touched.
LEMMA InitInv ==
    ASSUME Init
    PROVE  Inv
<1>1. /\ fs \in [Paths -> Entries] /\ user \in Users /\ loaded \in Flags
      /\ litter \subseteq {"state", "log"}
      /\ fs["plist"] = Absent \/ AllOf("old")
  <2>1. /\ Absent \in Entries /\ Entry("old", "good") \in Entries
        /\ Entry("old", "odd") \in Entries /\ Entry("old", "good").ver = "old"
        /\ Entry("old", "odd").ver = "old"
    BY DEF Entries, Absent, Entry, Versions, Metas
  <2>2. CASE /\ fs = [p \in Paths |-> Absent]
             /\ user = "none" /\ loaded = "no" /\ litter = {}
    BY <2>1, <2>2, Places DEF Users, Flags
  <2>3. CASE /\ \E odd \in {{}, {"hook"}, {"state"}} :
                   fs = Installed("old", [p \in Paths |-> IF p \in odd THEN "odd" ELSE "good"])
             /\ user \in {"good", "odd"} /\ loaded \in {"no", "yes"} /\ litter = {"state", "log"}
    <3>1. PICK odd : fs = Installed("old", [p \in Paths |-> IF p \in odd THEN "odd" ELSE "good"])
      BY <2>3
    <3>2. fs = [p \in Paths |-> IF p \in odd THEN Entry("old", "odd") ELSE Entry("old", "good")]
      BY <3>1 DEF Installed
    <3>3. fs \in [Paths -> Entries] /\ AllOf("old")
      BY <2>1, <3>2, Places DEF AllOf
    <3> QED BY <2>3, <3>3 DEF Users, Flags
  <2>4. CASE /\ fs = [p \in Paths |-> IF p \in {"state", "log", "db"}
                                      THEN Entry("old", "good") ELSE Absent]
             /\ user \in {"none", "good"} /\ loaded = "no" /\ litter = {"state", "log"}
    BY <2>1, <2>4, Places DEF Users, Flags
  <2> QED BY <2>2, <2>3, <2>4 DEF Init
<1>2. /\ inst = Idle /\ before = [fs |-> fs, user |-> user, loaded |-> loaded]
      /\ over = "no" /\ faults = 0 /\ upd = "none"
      /\ running = IF loaded = "yes" THEN "old" ELSE "none"
  BY DEF Init
<1>3. inst \in InstRecs /\ inst.st = "idle" /\ inst.undo = << >> /\ inst.step = 1
  <2>1. << >> \in Undos
    BY SMTT(30) DEF Undos
  <2> QED BY <1>2, <2>1, InstallAssumption DEF Idle, InstRecs, Flags
<1>4. Typing
  BY <1>1, <1>2, <1>3, InstallAssumption DEF Typing, Versions
<1>5. Steps
  BY <1>3 DEF Steps, Stack
<1>6. ~Tried /\ ~Settled /\ ~Started
  BY <1>3 DEF Tried, Settled, Started
<1>7. FilesInv /\ LoadedInv /\ UserInv
  BY <1>3, <1>6 DEF FilesInv, LoadedInv, UserInv
<1>8. RunInv
  BY <1>2, <1>6 DEF RunInv
<1>9. HealthInv
  BY <1>1, <1>3, <1>6 DEF HealthInv
<1> QED BY <1>4, <1>5, <1>7, <1>8, <1>9 DEF Inv

\* Every step of the installer, its rollback, launchd, the daemon and the update
\* keeps the invariant.
LEMMA StepInv ==
    ASSUME Inv, [Next]_vars
    PROVE  Inv'
<1>0. /\ running \in Versions /\ faults \in 0 .. MaxFaults
      /\ upd \in {"none", "selected", "good", "bad", "installing"}
  BY DEF Inv, Typing
<1>1. CASE InstallSystem
  BY <1>0, <1>1, Begins DEF InstallSystem, Untouched
<1>2. CASE CreateUser \/ SetServiceUserAttributes \/ RecordServiceUser
  BY <1>2, UserSteps
<1>3. CASE RecordDirectory \/ RecordFileReplacement
  BY <1>3, PathRecorded
<1>4. CASE \E op \in WriteOps : WriteStep(op)
  BY <1>4, PathWritten
<1>5. CASE ReadEnrollment \/ Bootout \/ Bootstrap \/ RecordStarted
  BY <1>5, ServiceSteps
<1>6. CASE StepFails
  BY <1>6, FailsWell
<1>7. CASE Commit \/ RollbackReported \/ InstallerDies
  BY <1>7, EndsWell
<1>8. CASE RestoreFile \/ RemoveFileIfPresent \/ RemoveDirectoryIfEmpty \/ RestoreMetadata
  BY <1>8, PathActions
<1>9. CASE BootoutLaunchDaemon \/ BootstrapLaunchDaemon \/ RemoveServiceUser
  BY <1>9, WholeActions
<1>10. CASE LaunchdStarts
  BY <1>10, DaemonStarts
<1>11. CASE DaemonExits
  <2>1. faults' \in 0 .. MaxFaults
    BY <1>0, <1>11, InstallAssumption DEF DaemonExits, Fault
  <2> QED BY <1>0, <1>11, <2>1, OthersKeep DEF DaemonExits
<1>12. CASE RunUpdate
  BY <1>0, <1>12, OthersKeep DEF RunUpdate
<1>13. CASE Download
  <2>1. faults' \in 0 .. MaxFaults
    BY <1>0, <1>13, InstallAssumption DEF Download, Fault
  <2>2. upd' \in {"none", "selected", "good", "bad", "installing"}
    BY <1>13 DEF Download
  <2> QED BY <1>13, <2>1, <2>2, OthersKeep DEF Download
<1>14. CASE RunDownloadedSystemInstaller
  <2>1. CASE upd = "good" /\ BeginInstall("new") /\ upd' = "installing" /\ UNCHANGED faults
    BY <1>14, <2>1, Begins DEF RunDownloadedSystemInstaller, Untouched
  <2>2. CASE upd = "bad" /\ upd' = "none" /\ UNCHANGED <<inst, before, over, faults>>
    BY <1>0, <1>14, <2>2, OthersKeep DEF RunDownloadedSystemInstaller
  <2>3. CASE upd = "good" /\ Fault /\ upd' = "none" /\ UNCHANGED <<inst, before, over>>
    <3>1. faults' \in 0 .. MaxFaults
      BY <1>0, <2>3, InstallAssumption DEF Fault
    <3> QED BY <1>14, <2>3, <3>1, OthersKeep DEF RunDownloadedSystemInstaller
  <2> QED BY <1>14, <2>1, <2>2, <2>3 DEF RunDownloadedSystemInstaller
<1>15. CASE UpdateEnds
  BY <1>0, <1>15, OthersKeep DEF UpdateEnds
<1>16. CASE UNCHANGED vars
  BY <1>0, <1>16, OthersKeep DEF vars
<1> QED
  BY <1>1, <1>2, <1>3, <1>4, <1>5, <1>6, <1>7, <1>8, <1>9, <1>10, <1>11, <1>12, <1>13,
     <1>14, <1>15, <1>16, Zenon
  DEF Next

\* For any number of attempts and faults: the stack of a transaction follows the
\* script, and together with the files on disk it determines the system before the
\* attempt (InstallTransaction).
THEOREM Inductive == Spec => []Inv
<1>1. Init => Inv
  BY InitInv
<1>2. Inv /\ [Next]_vars => Inv'
  BY StepInv
<1> QED BY <1>1, <1>2, PTL DEF Spec

\* The types, and the bound of one recorded action per step (InstallTransaction).
THEOREM TypeCorrect == Spec => []TypeOK
<1>1. Inv => TypeOK
  <2> SUFFICES ASSUME Inv PROVE TypeOK
    OBVIOUS
  <2>1. inst \in InstRecs /\ fs \in [Paths -> Entries] /\ Stack(inst.undo, inst.step)
    BY DEF Inv, Typing, Steps
  <2>2. inst.st \in {"idle", "install", "rollback", "done", "rolledback", "dead"}
    BY <2>1 DEF InstRecs
  <2>3. inst.step \in 1 .. 39 /\ Len(Script) + 1 = 39
    BY <2>1, ScriptIs DEF InstRecs
  <2>4. \A i \in DOMAIN inst.undo : inst.undo[i] \in UndoType
    <3>1. inst.undo \in Seq(UndoRecs)
      BY <2>1, Zenon DEF Stack
    <3>2. UndoRecs \subseteq UndoType
      BY DEF UndoRecs, UndoType, Whole, OnPath, Entries
    <3>3. \A i \in DOMAIN inst.undo : inst.undo[i] \in UndoRecs
      BY <3>1
    <3> QED BY <3>2, <3>3, Zenon
  <2>5. Len(inst.undo) <= inst.step
    BY <2>1, Zenon DEF Stack
  <2>6. /\ fs \in [Paths -> [ver : Versions, meta : Metas]]
        /\ \A p \in Paths : fs[p].ver = "none" <=> fs[p].meta = "none"
    BY <2>1 DEF Entries
  <2> QED BY <2>2, <2>3, <2>4, <2>5, <2>6, Zenon DEF TypeOK, Inv, Typing, Users, Flags
<1> QED BY <1>1, Inductive, PTL

\* A rollback that reports completion has restored every file, directory, the
\* service and the user, however far the attempt came and whatever the daemon did
\* meanwhile (InstallTransaction::rollback).
THEOREM RollbacksRestore == Spec => []RollbackRestores
<1>1. Inv => RollbackRestores
  <2> SUFFICES ASSUME Inv, Completed PROVE RollbackRestores
    BY DEF RollbackRestores
  <2>1. /\ inst.st = "rolledback" /\ inst.failures = 0 /\ Tried /\ Clean /\ inst.undo = << >>
    BY DEF Completed, Tried, Clean, Inv, Steps
  <2>2. /\ \A a : ~Has(a, inst.undo)
        /\ \A p : ~In(p, inst.undo)
    <3>1. Len(inst.undo) = 0
      BY <2>1
    <3> QED BY <3>1 DEF Has, In
  <2>3. loaded \in Flags /\ before.loaded \in Flags
    BY DEF Inv, Typing
  <2>4. loaded = before.loaded
    BY <2>1, <2>2, <2>3 DEF Inv, LoadedInv, Flags
  <2>5. \A p \in Paths : \/ fs[p] = before.fs[p]
                         \/ p = "db" /\ before.fs[p] = Absent /\ loaded = "yes"
    BY <2>1, <2>2, <2>4, Zenon DEF Inv, FilesInv, Kept, Excused
  <2>6. Len(CreateServiceUser) = 3
    BY DEF CreateServiceUser
  <2>7. before.user = "none" /\ inst.pre = "no" /\ inst.step > 3 => user = "none"
    BY <2>1, <2>2 DEF Inv, UserInv
  <2> QED BY <2>4, <2>5, <2>6, <2>7 DEF RollbackRestores
<1> QED BY <1>1, Inductive, PTL

\* After an attempt that reports success or a completed rollback the running daemon
\* is the binary on disk (start_daemon, bootstrap_launch_daemon).
THEOREM ReportedDaemonsMatch == Spec => []ReportedDaemonMatchesDisk
<1>1. Inv => ReportedDaemonMatchesDisk
  <2> SUFFICES ASSUME Inv, Completed \/ inst.st = "done" PROVE ReportedDaemonMatchesDisk
    BY DEF ReportedDaemonMatchesDisk
  <2>1. Settled
    BY DEF Completed, Settled, Clean, Inv, Steps
  <2> QED BY <2>1 DEF Inv, RunInv, LoadedInv, ReportedDaemonMatchesDisk
<1> QED BY <1>1, Inductive, PTL

\* The health check accepts only complete layouts of one version, unless an attempt
\* was made over a full layout or a step of a rollback has failed (check_installation).
THEOREM HealthyAreComplete == Spec => []HealthyMeansComplete
<1>1. Inv => HealthyMeansComplete
  <2> SUFFICES ASSUME Inv, over = "no", inst.failures = 0, CheckInstallation PROVE Complete
    BY DEF HealthyMeansComplete
  <2>1. fs["plist"].ver \notin {"none", "torn"} /\ fs["plist"] # Absent
    BY DEF CheckInstallation, CheckPlistContent, Absent
  <2>2. AllOf("old") \/ AllOf("new")
    BY <2>1 DEF Inv, HealthInv
  <2> QED BY <2>2 DEF AllOf, Complete
<1> QED BY <1>1, Inductive, PTL
=============================================================================
