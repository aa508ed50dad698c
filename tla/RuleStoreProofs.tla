-------------------------- MODULE RuleStoreProofs --------------------------
(***************************************************************************)
(* Proofs about RuleStore for any number of workers, requests, keys,       *)
(* faults and edits: every invariant that the run rule_store checks.       *)
(***************************************************************************)
EXTENDS RuleStore, FiniteSetTheorems, WellFoundedInduction, TLAPS

-----------------------------------------------------------------------------
(* Types                                                                    *)

Ops == Manage \cup {"prepare", "list", "status"}

Asking  == {"trust_db", "trust_manifest", "write"}
Reading == {"unsigned", "orphan", "count", "select", "verify"}
Holding == {"trust_manifest", "orphan", "count", "select", "verify"}
Pcs == Asking \cup Reading
       \cup {"idle", "overrides", "list", "status", "status_db", "reply"}

Replies == {"none", "ok", "err", "untrusted", "refused", "inputs", "rows",
            "configured", "invalid", "not-configured"}

Causes == {"edited", "legacy", "signer", "raced", "enabled", "installer"}

NoReq == [op |-> "none"]
Sigs  == {r.sig : r \in Requests}

\* Tables with values in S.
TableOf(S) == UNION {[D -> S] : D \in SUBSET Nat}

WorkerRecs ==
    [pc : Pcs, req : Requests \cup {NoReq}, disabled : SUBSET Curated, total : Nat,
     rows : TableOf([payload : Payloads, sig : Sigs]), known : SUBSET Keys,
     out : SUBSET [id : Nat, payload : Payloads, key : Keys], reply : Replies,
     must : TableOf(Payloads), mustOff : SUBSET Curated, keys : SUBSET Keys,
     excuse : SUBSET Causes]

Types ==
    /\ worker \in [Workers -> WorkerRecs]
    /\ rules \in TableOf(Payloads) /\ sigs \in TableOf(Sigs)
    /\ DOMAIN rules \cup DOMAIN sigs \subseteq 1 .. MaxRequests + 1
    /\ \A i \in DOMAIN sigs : sigs[i].key \in Keys
    /\ signers \subseteq Keys /\ overrides \subseteq Curated
    /\ manifest \in [file : {"regular", "missing"}, keys : SUBSET Keys]
    /\ reader \in Workers \cup {"free"}
    /\ installer \in [step : {"done", "removed", "created", "written"}, key : Keys]
    /\ spent \in [requests : 0 .. MaxRequests, faults : 0 .. MaxFaults, edited : {"no", "yes"}]
    /\ acked \in TableOf(Payloads)
    /\ off \subseteq Curated /\ vouched \subseteq Keys

\* What a worker knows of its request where it is.
Handles(w) ==
    LET me == worker[w]
    IN  /\ me.pc = "idle" => me.req = NoReq
        /\ me.pc # "idle" => me.req \in Requests /\ me.req.op \in Ops
        /\ me.pc \in Asking => me.req.op \in Manage
        /\ me.pc \in Reading => me.req.op = "prepare"
        /\ me.pc = "overrides" => me.req.op \in {"prepare", "list"}
        /\ me.pc = "list" => me.req.op = "list"
        /\ me.pc \in {"status", "status_db"} => me.req.op = "status"
        /\ me.req.op = "insert" => VerifyRuleSignature(me.req.payload, me.req.sig)
        /\ me.req.op = "disable" => me.req.payload.pattern \in Curated
        /\ me.pc \in {"trust_manifest", "write"} => me.req.sig.key \in Keys
        /\ me.reply # "none" <=> me.pc = "reply"
        /\ me.reply \in {"inputs", "refused"} => me.req.op = "prepare"
        /\ me.reply = "rows" => me.req.op = "list"
        /\ me.reply \in {"ok", "untrusted"} => me.req.op \in Manage
        /\ me.reply = "configured" => me.req.op = "status"
        /\ me.pc \in {"list", "overrides", "unsigned", "orphan", "count", "select"} => me.out = {}

\* The reading connection is held by the worker inside a critical section.
OneReader == \A w \in Workers : (reader = w) <=> worker[w].pc \in Holding

Inserting == {w \in Workers : worker[w].req.op = "insert" /\ worker[w].pc \in Asking}

\* Every id stands for the first installation or a request that was sent.
IdBound ==
    \A i \in DOMAIN rules \cup DOMAIN sigs \cup {0} :
        i + Cardinality(Inserting) <= spent.requests + 1

-----------------------------------------------------------------------------
(* Acknowledged rules                                                       *)

\* The store has a row of rule i, and a signature of i is one over payload p.
Traced(i, p) ==
    /\ i \in DOMAIN rules \cup DOMAIN sigs
    /\ i \in DOMAIN sigs => sigs[i].over = p

AckedTraced == \A i \in DOMAIN acked : Traced(i, acked[i])

PendingTraced(w) ==
    LET me == worker[w]
    IN  me.req.op = "insert" /\ me.reply = "ok" /\ me.total # 0 => Traced(me.total, me.req.payload)

HandedOut(w, i) == \E o \in worker[w].out : o.id = i /\ o.payload = worker[w].must[i]

MustKept(w) ==
    LET me == worker[w]
    IN  /\ me.pc \in {"list", "overrides", "unsigned", "orphan", "count", "select"} =>
              \A i \in DOMAIN me.must : Traced(i, me.must[i])
        /\ me.pc \in {"orphan", "count", "select"} => DOMAIN me.must \subseteq DOMAIN sigs
        /\ me.pc \in {"count", "select"} => DOMAIN me.must \subseteq DOMAIN rules
        /\ me.pc = "verify" =>
              \A i \in DOMAIN me.must :
                  \/ i \in DOMAIN me.rows /\ me.rows[i].sig.over = me.must[i]
                  \/ HandedOut(w, i)
        /\ me.reply = "inputs" => \A i \in DOMAIN me.must : HandedOut(w, i)

\* The keys listed since a preparation began, and those of what it hands out.
KeysKept(w) ==
    worker[w].req.op = "prepare" =>
        /\ manifest.keys \subseteq worker[w].keys
        /\ \A o \in worker[w].out : o.key \in worker[w].keys

-----------------------------------------------------------------------------
(* Disabled curated rules                                                   *)

\* An enabling on its way is known to whoever relies on a disabling.
EnablingKnown(w) ==
    worker[w].req.op = "enable" /\ worker[w].pc \in Asking =>
        LET pattern == worker[w].req.payload.pattern
        IN  /\ pattern \notin off
            /\ \A v \in Workers :
                  /\ pattern \notin worker[v].mustOff
                  /\ worker[v].req.op = "disable" /\ worker[v].req.payload.pattern = pattern
                     => "enabled" \in worker[v].excuse

OffKept(w) ==
    LET me == worker[w]
    IN  /\ me.pc \in {"overrides", "list"} => me.mustOff \subseteq overrides
        /\ me.pc \in Reading \/ me.reply \in {"inputs", "rows"} => me.mustOff \subseteq me.disabled
        /\ me.req.op = "disable" /\ me.reply = "ok" /\ "enabled" \notin me.excuse
              => me.req.payload.pattern \in overrides

-----------------------------------------------------------------------------
(* Causes of a refusal                                                      *)

CausesKept(w) == worker[w].req.op = "prepare" => Excuses \subseteq worker[w].excuse

\* What holds of the tables until another program edits them.
OwnWrites ==
    spent.edited = "no" =>
        /\ DOMAIN sigs \subseteq DOMAIN rules
        /\ \A i \in DOMAIN rules \ DOMAIN sigs : rules[i] \in UNION Legacy
        /\ \A i \in DOMAIN sigs : VerifyRuleSignature(rules[i], sigs[i])

Counted(w) ==
    LET me == worker[w]
    IN  /\ me.pc = "select" /\ me.excuse = {} => me.total = Cardinality(DOMAIN rules)
        /\ me.pc = "verify" =>
              /\ IsFiniteSet(DOMAIN me.rows) /\ IsFiniteSet(me.out)
              /\ \A o \in me.out : o.id \notin DOMAIN me.rows
              /\ me.excuse = {} => Cardinality(me.out) + Cardinality(DOMAIN me.rows) = me.total

RowsKept(w) ==
    LET me == worker[w]
    IN  /\ me.pc = "verify" /\ me.excuse = {} =>
              \A i \in DOMAIN me.rows :
                  /\ me.rows[i].sig.key \in me.known
                  /\ i \in DOMAIN sigs /\ sigs[i] = me.rows[i].sig
                  /\ VerifyRuleSignature(me.rows[i].payload, me.rows[i].sig)
        /\ me.reply = "refused" => me.excuse # {}

-----------------------------------------------------------------------------
(* Keys that status vouched for                                             *)

InUse(K) == K \subseteq signers \cap manifest.keys /\ (K # {} => manifest.file = "regular")

VouchKept(w) ==
    LET me == worker[w]
    IN  me.excuse = {} =>
            /\ me.req.op \in Manage => InUse(me.keys)
            /\ me.pc = "status_db" => manifest.file = "regular" /\ me.known = manifest.keys
            /\ me.reply = "configured" => InUse(me.known)
            /\ me.reply = "untrusted" => me.req.sig.key \notin me.keys

-----------------------------------------------------------------------------
Shape  == Types /\ (\A w \in Workers : Handles(w)) /\ OneReader
Acks   == AckedTraced /\ \A w \in Workers : PendingTraced(w) /\ MustKept(w)
Listed == \A w \in Workers : KeysKept(w)
Offs   == off \subseteq overrides /\ \A w \in Workers : EnablingKnown(w) /\ OffKept(w)
Caused == OwnWrites /\ \A w \in Workers : CausesKept(w) /\ Counted(w) /\ RowsKept(w)
Vouches == InUse(vouched) /\ \A w \in Workers : VouchKept(w)

IndInv == Shape /\ IdBound /\ Acks /\ Listed /\ Offs /\ Caused /\ Vouches

USE DEF vars, db

-----------------------------------------------------------------------------
(* Numbers and tables                                                       *)

Less == {ss \in Nat \X Nat : ss[1] < ss[2]}

\* The order of the ids is well founded.
LEMMA LessWF == IsWellFoundedOn(Less, Nat)
BY NatLessThanWellFounded, Zenon DEF OpToRel, Less

\* A set of ids that is not empty has a least one: "ORDER BY id" starts with it.
LEMMA MinInSet == ASSUME NEW S \in SUBSET Nat, S # {} PROVE Min(S) \in S
<1>1. PICK x \in S : \A y \in S : ~ (<<y, x>> \in Less)
  BY LessWF, WFMin, Zenon
<1>2. \A y \in S : ~ (y < x)
  BY <1>1, Zenon DEF Less
<1>3. \A y \in S : x <= y
  BY <1>2
<1> QED BY <1>3, Zenon DEF Min

\* A bounded set of ids that is not empty has a greatest one, which the next
\* rowid follows.
LEMMA MaxInSet ==
    ASSUME NEW S \in SUBSET Nat, S # {}, NEW b \in Nat, \A y \in S : y <= b
    PROVE  Max(S) \in S /\ \A y \in S : y <= Max(S)
<1> DEFINE Above == {n \in Nat : \A y \in S : y <= n}
<1>1. Above \in SUBSET Nat /\ Above # {}
  OBVIOUS
<1>2. PICK x \in Above : \A y \in Above : ~ (<<y, x>> \in Less)
  <2> HIDE DEF Above
  <2> QED BY <1>1, LessWF, WFMin, Zenon
<1>3. x \in Nat /\ \A y \in S : y <= x
  OBVIOUS
<1>4. \A n \in Nat : (\A y \in S : y <= n) => ~ (n < x)
  BY <1>2, <1>3, Zenon DEF Less
<1>5. x \in S
  <2> SUFFICES ASSUME x \notin S PROVE FALSE
    OBVIOUS
  <2>1. \A y \in S : y < x
    BY <1>3
  <2>2. PICK z \in Nat : z < x
    BY <2>1, Zenon
  <2>3. \A y \in S : y <= x - 1
    BY <2>1, <1>3
  <2>4. x - 1 \in Nat /\ x - 1 < x
    BY <2>2, <1>3
  <2> QED BY <2>3, <2>4, <1>4, Zenon
<1>6. \A y \in S : x >= y
  BY <1>3, Zenon
<1>7. Max(S) \in S /\ \A y \in S : Max(S) >= y
  BY <1>5, <1>6, Zenon DEF Max
<1> QED BY <1>7, Zenon

\* What being a table says.
LEMMA TableIs ==
    ASSUME NEW S, NEW f \in TableOf(S)
    PROVE  DOMAIN f \subseteq Nat /\ f \in [DOMAIN f -> S]
BY Zenon DEF TableOf

\* A function from ids to S is a table.
LEMMA IsTable ==
    ASSUME NEW S, NEW D \in SUBSET Nat, NEW f \in [D -> S]
    PROVE  f \in TableOf(S) /\ DOMAIN f = D
BY Zenon DEF TableOf

\* The table without rows.
LEMMA EmptyTable == ASSUME NEW S PROVE Empty \in TableOf(S) /\ DOMAIN Empty = {}
BY Zenon DEF Empty, TableOf

\* An inserted row is there and the others stay.
LEMMA PutTable ==
    ASSUME NEW S, NEW f \in TableOf(S), NEW i \in Nat, NEW r \in S
    PROVE  /\ Put(f, i, r) \in TableOf(S) /\ DOMAIN Put(f, i, r) = DOMAIN f \cup {i}
           /\ Put(f, i, r)[i] = r /\ \A j \in DOMAIN f : j # i => Put(f, i, r)[j] = f[j]
<1>1. Put(f, i, r) \in [DOMAIN f \cup {i} -> S] /\ DOMAIN f \cup {i} \in SUBSET Nat
  BY TableIs, Zenon DEF Put
<1>2. Put(f, i, r) \in TableOf(S) /\ DOMAIN Put(f, i, r) = DOMAIN f \cup {i}
  BY <1>1, IsTable, Zenon
<1> QED BY <1>2, Zenon DEF Put

\* Deleted rows are gone and the others stay.
LEMMA RestrictTable ==
    ASSUME NEW S, NEW f \in TableOf(S), NEW D \in SUBSET DOMAIN f
    PROVE  /\ Restrict(f, D) \in TableOf(S) /\ DOMAIN Restrict(f, D) = D
           /\ \A j \in D : Restrict(f, D)[j] = f[j]
<1>1. Restrict(f, D) \in [D -> S] /\ D \in SUBSET Nat
  BY TableIs, Zenon DEF Restrict
<1>2. Restrict(f, D) \in TableOf(S) /\ DOMAIN Restrict(f, D) = D
  BY <1>1, IsTable, Zenon
<1> QED BY <1>2, Zenon DEF Restrict

\* The id that SQLite gives a new row is that of no other.
LEMMA NewId ==
    ASSUME Types
    PROVE  /\ NextId \in Nat \ {0} /\ NextId \notin DOMAIN rules
           /\ \E i \in DOMAIN rules \cup {0} : NextId = i + 1
<1>1. /\ DOMAIN rules \cup {0} \in SUBSET Nat /\ MaxRequests + 1 \in Nat
      /\ \A y \in DOMAIN rules \cup {0} : y <= MaxRequests + 1
  BY RuleStoreAssumption DEF Types
<1>2. /\ Max(DOMAIN rules \cup {0}) \in DOMAIN rules \cup {0}
      /\ \A y \in DOMAIN rules \cup {0} : y <= Max(DOMAIN rules \cup {0})
  BY <1>1, MaxInSet, Zenon
<1>3. PICK m \in DOMAIN rules \cup {0} : m = Max(DOMAIN rules \cup {0})
  BY <1>2, Zenon
<1>4. m \in Nat /\ (\A y \in DOMAIN rules : y <= m) /\ NextId = m + 1
  BY <1>1, <1>2, <1>3, Zenon DEF NextId
<1>5. m + 1 \in Nat /\ m + 1 # 0 /\ ~ (m + 1 <= m)
  BY <1>4
<1>6. NextId \notin DOMAIN rules
  BY <1>4, <1>5, Zenon
<1> QED BY <1>4, <1>5, <1>6, Zenon

-----------------------------------------------------------------------------
(* What a step does to the fields of the workers                            *)

\* What a worker has read and where it is, apart from a count or an id.
SameWork(a, b) ==
    /\ a.pc = b.pc /\ a.req = b.req /\ a.disabled = b.disabled /\ a.rows = b.rows
    /\ a.known = b.known /\ a.out = b.out /\ a.reply = b.reply

\* Worker w takes a step that is nobody else's business.
Own(w) ==
    /\ worker' \in [Workers -> WorkerRecs]
    /\ \A v \in Workers \ {w} : worker'[v] = worker[v]
    /\ worker'[w].req = worker[w].req /\ worker'[w].must = worker[w].must
    /\ worker'[w].keys = worker[w].keys /\ worker'[w].excuse = worker[w].excuse

Moves(w, pc, reply) ==
    /\ Own(w)
    /\ worker'[w].pc = pc /\ worker'[w].reply = reply
    /\ worker'[w].total = worker[w].total /\ worker'[w].rows = worker[w].rows
    /\ worker'[w].out = worker[w].out /\ worker'[w].known = worker[w].known
    /\ worker'[w].disabled = worker[w].disabled /\ worker'[w].mustOff = worker[w].mustOff

Answers(w, reply) == Moves(w, "reply", reply)

\* A worker between requests is a worker.
LEMMA IdleIs == Idle \in WorkerRecs /\ Idle.pc = "idle" /\ Idle.req = NoReq
BY EmptyTable, Zenon DEF Idle, WorkerRecs, NoReq, Pcs, Replies, Causes

\* What other programs and the store itself may excuse are causes.
LEMMA ExcusesIs == Excuses \subseteq Causes /\ Excuses' \subseteq Causes
BY Zenon DEF Excuses, Causes

\* An answer changes the place and the reply of its worker.
LEMMA AnswerMoves ==
    ASSUME Types, NEW w \in Workers, NEW reply \in Replies, worker' = Answer(w, reply)
    PROVE  Answers(w, reply)
<1>1. worker \in [Workers -> WorkerRecs] /\ "reply" \in Pcs
  BY Zenon DEF Types, Pcs
<1>2. worker' \in [Workers -> WorkerRecs]
  BY <1>1, ZenonT(60) DEF Answer, WorkerRecs
<1> QED BY <1>1, <1>2, Zenon DEF Answer, Answers, Moves, Own, WorkerRecs

\* A step to the next statement changes the place of its worker.
LEMMA PcMoves ==
    ASSUME Types, NEW w \in Workers, NEW pc \in Pcs, worker' = [worker EXCEPT ![w].pc = pc]
    PROVE  Moves(w, pc, worker[w].reply)
<1>1. worker \in [Workers -> WorkerRecs]
  BY Zenon DEF Types
<1>2. worker' \in [Workers -> WorkerRecs]
  BY <1>1, ZenonT(60) DEF WorkerRecs
<1> QED BY <1>1, <1>2, Zenon DEF Moves, Own, WorkerRecs

\* Handlers that manage rules: is_trusted_rule_signer, and the writes to the
\* overrides.
ManageEffect(w) ==
    LET me == worker[w]
    IN  \/ /\ me.pc = "trust_db" /\ reader = "free" /\ overrides' = overrides
           /\ \/ me.req.sig.key \in signers /\ Moves(w, "trust_manifest", me.reply) /\ reader' = w
              \/ me.req.sig.key \notin signers /\ Answers(w, "untrusted") /\ reader' = reader
        \/ /\ me.pc = "trust_manifest" /\ reader' = "free" /\ overrides' = overrides
           /\ \/ Moves(w, "write", me.reply)
              \/ /\ manifest.file # "regular" \/ me.req.sig.key \notin manifest.keys
                 /\ Answers(w, "untrusted")
        \/ /\ me.pc = "write" /\ Answers(w, "ok") /\ reader' = reader
           /\ \/ me.req.op = "disable" /\ overrides' = overrides \cup {me.req.payload.pattern}
              \/ me.req.op = "enable" /\ overrides' = overrides \ {me.req.payload.pattern}

\* Listing and status, and the overrides of a snapshot.
QueryEffect(w) ==
    LET me == worker[w]
        you == worker'[w]
        reads == you.total = me.total /\ you.rows = me.rows /\ you.out = me.out
    IN  /\ reader' = reader /\ overrides' = overrides
        /\ \/ /\ me.pc = "overrides" /\ Own(w) /\ reads
              /\ you.disabled = overrides /\ you.mustOff = me.mustOff /\ you.known = me.known
              /\ \/ Preparing(w) /\ you.pc = "unsigned" /\ you.reply = "none"
                 \/ ~ Preparing(w) /\ you.pc = "reply" /\ you.reply = "rows"
           \/ /\ me.pc = "overrides" /\ Preparing(w) /\ Own(w) /\ reads
              /\ you.pc = "unsigned" /\ you.reply = me.reply /\ you.mustOff = {}
           \/ me.pc = "overrides" /\ ~ Preparing(w) /\ Answers(w, "err")
           \/ me.pc = "list" /\ Moves(w, "overrides", me.reply)
           \/ /\ me.pc = "list" /\ Own(w) /\ reads
              /\ you.pc = "reply" /\ you.reply = "rows" /\ you.mustOff = {}
           \/ /\ me.pc = "status" /\ manifest.file = "regular" /\ Own(w) /\ reads
              /\ you.pc = "status_db" /\ you.reply = me.reply /\ you.known = manifest.keys
              /\ you.mustOff = me.mustOff
           \/ me.pc = "status" /\ Answers(w, "not-configured")
           \/ me.pc = "status_db" /\ me.known \subseteq signers /\ Answers(w, "configured")
           \/ me.pc = "status_db" /\ Answers(w, "invalid")

\* The reading of the rules for a snapshot.
ReadEffect(w) ==
    LET me == worker[w]
        you == worker'[w]
        keeps == you.mustOff = me.mustOff /\ you.disabled = me.disabled /\ you.reply = me.reply
    IN  /\ overrides' = overrides
        /\ \/ /\ me.pc = "unsigned" /\ reader = "free"
              /\ \/ DOMAIN rules \subseteq DOMAIN sigs /\ Moves(w, "orphan", me.reply) /\ reader' = w
                 \/ /\ ~ (DOMAIN rules \subseteq DOMAIN sigs)
                    /\ Answers(w, "refused") /\ reader' = "free"
           \/ /\ me.pc = "orphan"
              /\ \/ DOMAIN sigs \subseteq DOMAIN rules /\ Moves(w, "count", me.reply) /\ reader' = w
                 \/ /\ ~ (DOMAIN sigs \subseteq DOMAIN rules)
                    /\ Answers(w, "refused") /\ reader' = "free"
           \/ /\ me.pc = "count" /\ reader' = reader /\ Own(w) /\ keeps
              /\ you.pc = "select" /\ you.total = Cardinality(DOMAIN rules)
              /\ you.rows = me.rows /\ you.out = me.out /\ you.known = me.known
           \/ /\ me.pc = "select" /\ reader' = reader /\ Own(w) /\ keeps
              /\ you.pc = "verify" /\ you.total = me.total /\ you.out = me.out
              /\ you.known = signers
              /\ you.rows = [i \in DOMAIN rules \cap DOMAIN sigs |->
                                [payload |-> rules[i], sig |-> sigs[i]]]
           \/ /\ me.pc = "verify" /\ DOMAIN me.rows # {} /\ FirstRow(w) \in DOMAIN me.rows
              /\ RowVerifies(w, me.rows[FirstRow(w)])
              /\ reader' = reader /\ Own(w) /\ keeps /\ you.pc = "verify"
              /\ you.total = me.total /\ you.known = me.known
              /\ DOMAIN you.rows = DOMAIN me.rows \ {FirstRow(w)}
              /\ \A i \in DOMAIN you.rows : you.rows[i] = me.rows[i]
              /\ you.out = me.out \cup {[id |-> FirstRow(w), payload |-> me.rows[FirstRow(w)].payload,
                                         key |-> me.rows[FirstRow(w)].sig.key]}
           \/ /\ me.pc = "verify" /\ DOMAIN me.rows # {} /\ FirstRow(w) \in DOMAIN me.rows
              /\ ~ RowVerifies(w, me.rows[FirstRow(w)])
              /\ Answers(w, "refused") /\ reader' = "free"
           \/ /\ me.pc = "verify" /\ DOMAIN me.rows = {} /\ reader' = "free"
              /\ \/ Answers(w, "inputs")
                 \/ Cardinality(me.out) # me.total /\ Answers(w, "refused")

OwnEffect(w) ==
    /\ UNCHANGED <<rules, sigs, signers, manifest, installer, spent, acked, off, vouched>>
    /\ ManageEffect(w) \/ QueryEffect(w) \/ ReadEffect(w)

\* The steps of a handler but the insertion and the reply.
LEMMA ManageEffects ==
    ASSUME Types, NEW w \in Workers,
           TrustedInDb(w) \/ TrustedInManifest(w) \/ DisableCuratedRule(w) \/ EnableCuratedRule(w)
    PROVE  OwnEffect(w)
<1>1. CASE TrustedInDb(w)
  BY <1>1, AnswerMoves, PcMoves, Zenon
     DEF OwnEffect, ManageEffect, TrustedInDb, Pcs, Asking, Replies
<1>2. CASE TrustedInManifest(w)
  BY <1>2, AnswerMoves, PcMoves, Zenon
     DEF OwnEffect, ManageEffect, TrustedInManifest, TrustedManifestContains, Pcs, Asking, Replies
<1>3. CASE DisableCuratedRule(w)
  BY <1>3, AnswerMoves, Zenon DEF OwnEffect, ManageEffect, DisableCuratedRule, Replies
<1>4. CASE EnableCuratedRule(w)
  BY <1>4, AnswerMoves, Zenon DEF OwnEffect, ManageEffect, EnableCuratedRule, Replies
<1> QED BY <1>1, <1>2, <1>3, <1>4, Zenon

\* Worker w sets its fields, and no other worker changes.
LEMMA OwnSets ==
    ASSUME Types, NEW w \in Workers, NEW you \in WorkerRecs, worker' = [worker EXCEPT ![w] = you],
           you.req = worker[w].req, you.must = worker[w].must,
           you.keys = worker[w].keys, you.excuse = worker[w].excuse
    PROVE  Own(w) /\ worker'[w] = you
<1>1. worker \in [Workers -> WorkerRecs]
  BY Zenon DEF Types
<1> QED BY <1>1, Zenon DEF Own

\* The queries of the list and status commands and the read of the disabled
\* patterns do what QueryEffect says; status goes on with the keys it read.
LEMMA QueryEffects ==
    ASSUME Types, NEW w \in Workers,
           DisabledCuratedPatterns(w) \/ AllRulesWithSource(w) \/ RuleSigningStatus(w)
             \/ TrustedSignerDbMatches(w)
    PROVE  OwnEffect(w)
<1> DEFINE me == worker[w]
<1>0. me \in WorkerRecs /\ worker \in [Workers -> WorkerRecs] /\ overrides \in SUBSET Curated
      /\ {} \in SUBSET Curated /\ manifest.keys \in SUBSET Keys
  BY Zenon DEF Types
<1>1. CASE DisabledCuratedPatterns(w)
  <2>1. CASE Preparing(w) /\ worker' = [worker EXCEPT ![w].disabled = overrides,
                      ![w].pc = IF Preparing(w) THEN "unsigned" ELSE "reply",
                      ![w].reply = IF Preparing(w) THEN "none" ELSE "rows"]
    <3> DEFINE you == [me EXCEPT !.disabled = overrides, !.pc = "unsigned", !.reply = "none"]
    <3>1. worker' = [worker EXCEPT ![w] = you]
      BY <2>1, <1>0, Zenon
    <3>2. you \in WorkerRecs
      BY <1>0, Zenon DEF WorkerRecs, Pcs, Replies, Reading
    <3>3. Own(w) /\ worker'[w] = you
      BY <1>0, <3>1, <3>2, OwnSets, Zenon DEF WorkerRecs
    <3> QED BY <1>0, <1>1, <2>1, <3>3, Zenon
               DEF OwnEffect, QueryEffect, DisabledCuratedPatterns, WorkerRecs
  <2>2. CASE ~Preparing(w) /\ worker' = [worker EXCEPT ![w].disabled = overrides,
                      ![w].pc = IF Preparing(w) THEN "unsigned" ELSE "reply",
                      ![w].reply = IF Preparing(w) THEN "none" ELSE "rows"]
    <3> DEFINE you == [me EXCEPT !.disabled = overrides, !.pc = "reply", !.reply = "rows"]
    <3>1. worker' = [worker EXCEPT ![w] = you]
      BY <2>2, <1>0, Zenon
    <3>2. you \in WorkerRecs
      BY <1>0, Zenon DEF WorkerRecs, Pcs, Replies, Reading
    <3>3. Own(w) /\ worker'[w] = you
      BY <1>0, <3>1, <3>2, OwnSets, Zenon DEF WorkerRecs
    <3> QED BY <1>0, <1>1, <2>2, <3>3, Zenon
               DEF OwnEffect, QueryEffect, DisabledCuratedPatterns, WorkerRecs
  <2>3. CASE Preparing(w) /\ worker' = [worker EXCEPT ![w].pc = "unsigned", ![w].mustOff = {}]
    <3> DEFINE you == [me EXCEPT !.pc = "unsigned", !.mustOff = {}]
    <3>1. worker' = [worker EXCEPT ![w] = you]
      BY <2>3, <1>0, Zenon
    <3>2. you \in WorkerRecs
      BY <1>0, Zenon DEF WorkerRecs, Pcs, Reading
    <3>3. Own(w) /\ worker'[w] = you
      BY <1>0, <3>1, <3>2, OwnSets, Zenon DEF WorkerRecs
    <3> QED BY <1>0, <1>1, <2>3, <3>3, Zenon
               DEF OwnEffect, QueryEffect, DisabledCuratedPatterns, WorkerRecs
  <2>4. CASE ~Preparing(w) /\ worker' = Answer(w, "err")
    BY <1>1, <2>4, AnswerMoves, Zenon DEF OwnEffect, QueryEffect, DisabledCuratedPatterns, Replies
  <2> QED BY <1>1, <2>1, <2>2, <2>3, <2>4, Zenon DEF DisabledCuratedPatterns
<1>2. CASE AllRulesWithSource(w)
  <2>1. CASE worker[w].req.builtins = "yes"
    BY <1>2, <2>1, PcMoves, Zenon DEF OwnEffect, QueryEffect, AllRulesWithSource, Pcs
  <2>2. CASE worker[w].req.builtins # "yes"
    <3> DEFINE you == [me EXCEPT !.pc = "reply", !.reply = "rows", !.mustOff = {}]
    <3>1. worker' = [worker EXCEPT ![w] = you]
      BY <1>2, <2>2, <1>0, Zenon DEF AllRulesWithSource
    <3>2. you \in WorkerRecs
      BY <1>0, Zenon DEF WorkerRecs, Pcs, Replies
    <3>3. Own(w) /\ worker'[w] = you
      BY <1>0, <3>1, <3>2, OwnSets, Zenon DEF WorkerRecs
    <3> QED BY <1>0, <1>2, <2>2, <3>3, Zenon
               DEF OwnEffect, QueryEffect, AllRulesWithSource, WorkerRecs
  <2> QED BY <2>1, <2>2, Zenon
<1>3. CASE RuleSigningStatus(w)
  <2>1. CASE manifest.file = "regular" /\ manifest.keys # {}
    <3> DEFINE you == [me EXCEPT !.pc = "status_db", !.known = manifest.keys]
    <3>1. worker' = [worker EXCEPT ![w] = you]
      BY <1>3, <2>1, <1>0, Zenon DEF RuleSigningStatus
    <3>2. you \in WorkerRecs
      BY <1>0, Zenon DEF WorkerRecs, Pcs
    <3>3. Own(w) /\ worker'[w] = you
      BY <1>0, <3>1, <3>2, OwnSets, Zenon DEF WorkerRecs
    <3> QED BY <1>0, <1>3, <2>1, <3>3, Zenon
               DEF OwnEffect, QueryEffect, RuleSigningStatus, WorkerRecs
  <2>2. CASE ~ (manifest.file = "regular" /\ manifest.keys # {})
    BY <1>3, <2>2, AnswerMoves, Zenon DEF OwnEffect, QueryEffect, RuleSigningStatus, Replies
  <2> QED BY <2>1, <2>2, Zenon
<1>4. CASE TrustedSignerDbMatches(w)
  BY <1>4, AnswerMoves, Zenon DEF OwnEffect, QueryEffect, TrustedSignerDbMatches, Replies
<1> QED BY <1>1, <1>2, <1>3, <1>4

\* A table without ids is the empty one.
LEMMA NoRows == ASSUME NEW S, NEW f \in TableOf(S) PROVE f = Empty <=> DOMAIN f = {}
<1>1. f = [i \in DOMAIN f |-> f[i]]
  BY TableIs, Zenon
<1> QED BY <1>1, Zenon DEF Empty

\* The statements of all_verified_user_rules, from the search for unsigned
\* rows to the verification of each row read, do what ReadEffect says.
LEMMA ReadEffects ==
    ASSUME Types, NEW w \in Workers,
           \/ FindUnsigned(w) \/ FindOrphan(w) \/ CountRules(w) \/ SelectRows(w)
           \/ VerifyUserRuleRow(w) \/ AllVerified(w)
    PROVE  OwnEffect(w)
<1> DEFINE me == worker[w]
           Rows == [payload : Payloads, sig : Sigs]
<1>0. me \in WorkerRecs /\ worker \in [Workers -> WorkerRecs]
  BY Zenon DEF Types
<1>1. CASE FindUnsigned(w)
  BY <1>1, AnswerMoves, PcMoves, Zenon
     DEF OwnEffect, ReadEffect, FindUnsigned, GoOn, Refuse, Pcs, Reading, Replies
<1>2. CASE FindOrphan(w)
  BY <1>2, AnswerMoves, PcMoves, Zenon
     DEF OwnEffect, ReadEffect, FindOrphan, GoOn, Refuse, Pcs, Reading, Replies
<1>3. CASE CountRules(w)
  <2> DEFINE you == [me EXCEPT !.pc = "select", !.total = Cardinality(DOMAIN rules)]
  <2>1. worker' = [worker EXCEPT ![w] = you]
    BY <1>3, <1>0, Zenon DEF CountRules
  <2>2. Cardinality(DOMAIN rules) \in Nat
    <3>1. DOMAIN rules \in SUBSET Nat /\ MaxRequests + 1 \in Nat /\ \A i \in DOMAIN rules : i <= MaxRequests + 1
      BY RuleStoreAssumption DEF Types
    <3>2. IsFiniteSet(DOMAIN rules)
      BY <3>1, FS_BoundedSetOfNaturals, Zenon
    <3> QED BY <3>2, FS_CardinalityType, Zenon
  <2>3. you \in WorkerRecs
    BY <1>0, <2>2, Zenon DEF WorkerRecs, Pcs, Reading
  <2>4. Own(w) /\ worker'[w] = you
    BY <1>0, <2>1, <2>3, OwnSets, Zenon DEF WorkerRecs
  <2> QED BY <1>0, <1>3, <2>4, Zenon DEF OwnEffect, ReadEffect, CountRules, WorkerRecs
<1>4. CASE SelectRows(w)
  <2> DEFINE rows == [i \in DOMAIN rules \cap DOMAIN sigs |-> [payload |-> rules[i], sig |-> sigs[i]]]
             you == [me EXCEPT !.pc = "verify", !.known = signers, !.rows = rows]
  <2>1. worker' = [worker EXCEPT ![w] = you]
    BY <1>4, <1>0, Zenon DEF SelectRows
  <2>2. rows \in TableOf(Rows)
    <3>1. rules \in [DOMAIN rules -> Payloads] /\ sigs \in [DOMAIN sigs -> Sigs] /\ DOMAIN rules \subseteq Nat
      BY TableIs, Zenon DEF Types
    <3>2. rows \in [DOMAIN rules \cap DOMAIN sigs -> Rows] /\ DOMAIN rules \cap DOMAIN sigs \in SUBSET Nat
      BY <3>1, Zenon
    <3> QED BY <3>2, IsTable, Zenon
  <2>3. you \in WorkerRecs
    <3> HIDE DEF rows
    <3>1. signers \in SUBSET Keys
      BY Zenon DEF Types
    <3> QED BY <1>0, <2>2, <3>1, Zenon DEF WorkerRecs, Pcs, Reading
  <2> HIDE DEF rows
  <2>4. Own(w) /\ worker'[w] = you
    BY <1>0, <2>1, <2>3, OwnSets, Zenon DEF WorkerRecs
  <2>5. you.rows = rows
    BY <1>0, Zenon DEF WorkerRecs
  <2> QED BY <1>0, <1>4, <2>4, <2>5, Zenon DEF OwnEffect, ReadEffect, SelectRows, WorkerRecs, rows
<1>5. CASE VerifyUserRuleRow(w)
  <2> DEFINE i == FirstRow(w)
             row == me.rows[i]
             new == [id |-> i, payload |-> row.payload, key |-> row.sig.key]
             you == [me EXCEPT !.rows = RestOf(w), !.out = @ \cup {new}]
  <2>1. me.rows \in TableOf(Rows) /\ DOMAIN me.rows # {} /\ DOMAIN me.rows \subseteq Nat
    BY <1>0, <1>5, NoRows, TableIs, Zenon DEF VerifyUserRuleRow, WorkerRecs
  <2>2. i \in DOMAIN me.rows
    BY <2>1, MinInSet, Zenon DEF FirstRow
  <2>3. CASE RowVerifies(w, row)
    <3>1. worker' = [worker EXCEPT ![w] = you]
      BY <1>5, <2>3, <1>0, Zenon DEF VerifyUserRuleRow, VerifiedRow
    <3>2. /\ RestOf(w) \in TableOf(Rows) /\ DOMAIN RestOf(w) = DOMAIN me.rows \ {i}
          /\ \A j \in DOMAIN me.rows \ {i} : RestOf(w)[j] = me.rows[j]
      BY <2>1, RestrictTable DEF RestOf
    <3>3. new \in [id : Nat, payload : Payloads, key : Keys]
      <4>1. row \in Rows
        BY <2>1, <2>2, TableIs, Zenon
      <4>2. row.sig.key \in Keys
        BY <2>3, <1>0, Zenon DEF RowVerifies, WorkerRecs
      <4> HIDE DEF i, row
      <4> QED BY <4>1, <4>2, <2>1, <2>2, Zenon
    <3> HIDE DEF new, i
    <3>4. you \in WorkerRecs
      <4>1. me.out \cup {new} \in SUBSET [id : Nat, payload : Payloads, key : Keys]
        BY <3>3, <1>0, Zenon DEF WorkerRecs
      <4> QED BY <1>0, <3>2, <4>1, Zenon DEF WorkerRecs
    <3>5. Own(w) /\ worker'[w] = you
      BY <1>0, <3>1, <3>4, OwnSets, Zenon DEF WorkerRecs
    <3>6. /\ you.rows = RestOf(w) /\ you.out = me.out \cup {new}
          /\ you.mustOff = me.mustOff /\ you.disabled = me.disabled /\ you.reply = me.reply
          /\ you.pc = me.pc /\ you.total = me.total /\ you.known = me.known
      BY <1>0, Zenon DEF WorkerRecs
    <3> HIDE DEF you, row
    <3> QED BY <1>5, <2>1, <2>2, <2>3, <3>2, <3>5, <3>6, Zenon
               DEF OwnEffect, ReadEffect, VerifyUserRuleRow, new, i, row
  <2>4. CASE ~ RowVerifies(w, row)
    BY <1>5, <2>1, <2>2, <2>4, AnswerMoves, Zenon
       DEF OwnEffect, ReadEffect, VerifyUserRuleRow, Refuse, Replies
  <2> QED BY <2>3, <2>4, Zenon
<1>6. CASE AllVerified(w)
  <2>1. DOMAIN me.rows = {}
    BY <1>0, <1>6, NoRows, Zenon DEF AllVerified, WorkerRecs
  <2>2. CASE Cardinality(me.out) = me.total
    BY <1>6, <2>1, <2>2, AnswerMoves, Zenon DEF OwnEffect, ReadEffect, AllVerified, Replies
  <2>3. CASE Cardinality(me.out) # me.total
    BY <1>6, <2>1, <2>3, AnswerMoves, Zenon DEF OwnEffect, ReadEffect, AllVerified, Replies
  <2> QED BY <2>2, <2>3, Zenon
<1> QED BY <1>1, <1>2, <1>3, <1>4, <1>5, <1>6, Zenon

\* A valid request r arrives at worker w.
Starts(w, r) ==
    LET you == worker'[w]
    IN  /\ you.req = r /\ r \in Requests
        /\ \/ r.op = "insert" /\ you.pc = "trust_db" /\ VerifyRuleSignature(r.payload, r.sig)
           \/ r.op = "disable" /\ you.pc = "trust_db" /\ r.payload.pattern \in Curated
           \/ r.op = "enable" /\ you.pc = "trust_db"
           \/ r.op = "prepare" /\ you.pc = "overrides"
           \/ r.op = "list" /\ you.pc = "list"
           \/ r.op = "status" /\ you.pc = "status"
        /\ you.reply = "none" /\ you.out = {}
        /\ you.must = IF r.op = "prepare" THEN acked ELSE Empty
        /\ you.mustOff = IF r.op \in {"prepare", "list"} THEN off ELSE {}
        /\ you.keys = IF r.op = "prepare" THEN manifest.keys
                      ELSE IF r.op \in Manage THEN vouched ELSE {}
        /\ you.excuse = IF r.op = "prepare" THEN Excuses
                        ELSE IF r.op = "disable" /\ \E v \in Workers :
                                   /\ worker[v].req.op = "enable"
                                   /\ worker[v].req.payload.pattern = r.payload.pattern
                        THEN {"enabled"} ELSE {}

\* The other workers, when the patterns in "enabled" are on their way to be
\* enabled.
Undoes(w, enabled) ==
    \A v \in Workers \ {w} :
        /\ SameWork(worker'[v], worker[v]) /\ worker'[v].total = worker[v].total
        /\ worker'[v].must = worker[v].must /\ worker'[v].keys = worker[v].keys
        /\ worker'[v].mustOff = worker[v].mustOff \ enabled
        /\ worker'[v].excuse =
              worker[v].excuse \cup
              IF worker[v].req.op = "disable" /\ worker[v].req.payload.pattern \in enabled
              THEN {"enabled"} ELSE {}

ReceiveEffect(w) ==
    /\ UNCHANGED <<rules, sigs, signers, overrides, manifest, reader, installer, acked, vouched>>
    /\ worker[w].pc = "idle" /\ worker' \in [Workers -> WorkerRecs]
    /\ spent' \in [requests : 0 .. MaxRequests, faults : 0 .. MaxFaults, edited : {"no", "yes"}]
    /\ spent'.requests = spent.requests + 1 /\ spent'.edited = spent.edited
    /\ \/ worker'[w] = Idle /\ Undoes(w, {}) /\ off' = off
       \/ \E r \in Requests :
             /\ Starts(w, r)
             /\ \/ /\ r.op = "enable" /\ Undoes(w, {r.payload.pattern})
                   /\ off' = off \ {r.payload.pattern}
                \/ r.op # "enable" /\ Undoes(w, {}) /\ off' = off

\* A worker that accepts a request starts it afresh (Starts), and a request to
\* enable a pattern takes the promises about it back (Undoes).
LEMMA TakeEffects ==
    ASSUME Types, NEW w \in Workers, NEW r \in Requests, NEW valid \in BOOLEAN, NEW first \in Pcs,
           Take(w, r, valid, first),
           \/ r.op = "insert" /\ first = "trust_db" /\ (valid => VerifyRuleSignature(r.payload, r.sig))
           \/ r.op = "disable" /\ first = "trust_db" /\ (valid => r.payload.pattern \in Curated)
           \/ r.op = "enable" /\ first = "trust_db"
           \/ r.op = "prepare" /\ first = "overrides"
           \/ r.op = "list" /\ first = "list"
           \/ r.op = "status" /\ first = "status"
    PROVE  ReceiveEffect(w)
<1> DEFINE enabled == IF r.op = "enable" /\ valid THEN {r.payload.pattern} ELSE {}
           undone(q) == IF q.op = "disable" /\ q.payload.pattern \in enabled THEN {"enabled"} ELSE {}
           crossed == r.op = "disable" /\ \E v \in Workers :
                      worker[v].req.op = "enable" /\ worker[v].req.payload.pattern = r.payload.pattern
           must == IF r.op = "prepare" THEN acked ELSE Empty
           mustOff == IF r.op \in {"prepare", "list"} THEN off ELSE {}
           keys == IF r.op = "prepare" THEN manifest.keys
                   ELSE IF r.op \in Manage THEN vouched ELSE {}
           excuse == IF r.op = "prepare" THEN Excuses ELSE IF crossed THEN {"enabled"} ELSE {}
           taken == [Idle EXCEPT !.pc = first, !.req = r,
                     !.must = must, !.mustOff = mustOff, !.keys = keys, !.excuse = excuse]
           other(v) == [worker[v] EXCEPT !.mustOff = @ \ enabled,
                                         !.excuse = @ \cup undone(worker[v].req)]
<1>1. /\ must \in TableOf(Payloads) /\ mustOff \in SUBSET Curated /\ keys \in SUBSET Keys
      /\ excuse \in SUBSET Causes
  BY EmptyTable, ExcusesIs, Zenon DEF Types, Causes
<1>2. /\ taken \in WorkerRecs /\ taken.pc = first /\ taken.req = r /\ taken.reply = "none"
      /\ taken.out = {} /\ taken.must = must /\ taken.mustOff = mustOff
      /\ taken.keys = keys /\ taken.excuse = excuse
  <2> HIDE DEF must, mustOff, keys, excuse
  <2>1. taken \in WorkerRecs
    BY <1>1, IdleIs, Zenon DEF WorkerRecs
  <2> QED BY <2>1, Zenon DEF Idle
<1>3. ASSUME NEW v \in Workers
      PROVE  /\ other(v) \in WorkerRecs /\ SameWork(other(v), worker[v])
             /\ other(v).total = worker[v].total /\ other(v).must = worker[v].must
             /\ other(v).keys = worker[v].keys
             /\ other(v).mustOff = worker[v].mustOff \ enabled
             /\ other(v).excuse = worker[v].excuse \cup undone(worker[v].req)
  <2>1. worker[v] \in WorkerRecs
    BY Zenon DEF Types
  <2>2. /\ worker[v].mustOff \ enabled \in SUBSET Curated
        /\ worker[v].excuse \cup undone(worker[v].req) \in SUBSET Causes
    BY <2>1, Zenon DEF WorkerRecs, Causes
  <2> HIDE DEF enabled, undone
  <2>3. other(v) \in WorkerRecs
    BY <2>1, <2>2, Zenon DEF WorkerRecs
  <2> QED BY <2>1, <2>3, Zenon DEF WorkerRecs, SameWork
<1>4. /\ worker' = [v \in Workers |-> IF v = w THEN IF valid THEN taken ELSE Idle ELSE other(v)]
      /\ worker[w].pc = "idle" /\ spent.requests < MaxRequests
      /\ spent' = [spent EXCEPT !.requests = @ + 1] /\ off' = off \ enabled
      /\ UNCHANGED <<rules, sigs, signers, overrides, manifest, reader, installer, acked, vouched>>
  BY Zenon DEF Take
<1>5. /\ worker' \in [Workers -> WorkerRecs]
      /\ worker'[w] = IF valid THEN taken ELSE Idle
      /\ \A v \in Workers \ {w} : worker'[v] = other(v)
  <2> HIDE DEF taken, other
  <2> QED BY <1>2, <1>3, <1>4, IdleIs, Zenon
<1>6. Undoes(w, enabled)
  <2> HIDE DEF other, enabled
  <2> QED BY <1>3, <1>5, Zenon DEF Undoes
<1>7. /\ spent' \in [requests : 0 .. MaxRequests, faults : 0 .. MaxFaults, edited : {"no", "yes"}]
      /\ spent'.requests = spent.requests + 1 /\ spent'.edited = spent.edited
  <2>0. spent.requests \in 0 .. MaxRequests /\ spent.requests < MaxRequests
    BY <1>4, Zenon DEF Types
  <2>1. spent.requests + 1 \in 0 .. MaxRequests
    BY <2>0, RuleStoreAssumption
  <2> QED BY <1>4, <2>1, Zenon DEF Types
<1>8. CASE valid
  <2>1. Starts(w, r)
    <3> HIDE DEF taken
    <3> QED BY <1>2, <1>5, <1>8, Zenon DEF Starts
  <2> HIDE DEF taken, other
  <2> QED BY <1>4, <1>5, <1>6, <1>7, <1>8, <2>1, Zenon DEF ReceiveEffect
<1>9. CASE ~ valid
  <2> HIDE DEF taken, other
  <2> QED BY <1>4, <1>5, <1>6, <1>7, <1>9, Zenon DEF ReceiveEffect
<1> QED BY <1>8, <1>9, Zenon

\* Whatever frame arrives, receiving it has the effect of ReceiveEffect.
LEMMA ReceiveEffects ==
    ASSUME Types, NEW w \in Workers, Receive(w) PROVE ReceiveEffect(w)
<1> PICK r \in Requests :
        \/ HandleInsertUserRule(w, r)  \/ HandleDisableCuratedRule(w, r)
        \/ HandleEnableCuratedRule(w, r) \/ HandlePrepareSnapshot(w, r)
        \/ HandleListRules(w, r)       \/ HandleStatus(w, r)
  BY Zenon DEF Receive
<1>0. "trust_db" \in Pcs /\ "overrides" \in Pcs /\ "list" \in Pcs /\ "status" \in Pcs
  BY Zenon DEF Pcs, Asking
<1>1. CASE HandleInsertUserRule(w, r)
  BY <1>0, <1>1, TakeEffects, Zenon DEF HandleInsertUserRule, InsertValid
<1>2. CASE HandleDisableCuratedRule(w, r)
  BY <1>0, <1>2, TakeEffects, Zenon DEF HandleDisableCuratedRule, DisableValid
<1>3. CASE HandleEnableCuratedRule(w, r)
  BY <1>0, <1>3, TakeEffects, Zenon DEF HandleEnableCuratedRule
<1>4. CASE HandlePrepareSnapshot(w, r)
  BY <1>0, <1>4, TakeEffects, Zenon DEF HandlePrepareSnapshot
<1>5. CASE HandleListRules(w, r)
  BY <1>0, <1>5, TakeEffects, Zenon DEF HandleListRules
<1>6. CASE HandleStatus(w, r)
  BY <1>0, <1>6, TakeEffects, Zenon DEF HandleStatus
<1> QED BY <1>1, <1>2, <1>3, <1>4, <1>5, <1>6, Zenon

\* What an excused preparation learns of a step that changed the store or the
\* manifest; the fields other than the excuse and the keys stay.
LEMMA TouchIs ==
    ASSUME NEW f \in [Workers -> WorkerRecs], manifest'.keys \subseteq Keys
    PROVE  /\ Touch(f) \in [Workers -> WorkerRecs]
           /\ \A v \in Workers :
                 /\ SameWork(Touch(f)[v], f[v]) /\ Touch(f)[v].total = f[v].total
                 /\ Touch(f)[v].must = f[v].must /\ Touch(f)[v].mustOff = f[v].mustOff
                 /\ Touch(f)[v].keys =
                       f[v].keys \cup IF f[v].req.op = "prepare" THEN manifest'.keys ELSE {}
                 /\ Touch(f)[v].excuse =
                       f[v].excuse \cup IF f[v].req.op = "prepare" THEN Excuses' ELSE {}
<1> DEFINE new(v) == [f[v] EXCEPT !.excuse = @ \cup Excuses', !.keys = @ \cup manifest'.keys]
<1>1. ASSUME NEW v \in Workers
      PROVE  /\ new(v) \in WorkerRecs
             /\ SameWork(new(v), f[v]) /\ new(v).total = f[v].total
             /\ new(v).must = f[v].must /\ new(v).mustOff = f[v].mustOff
             /\ new(v).keys = f[v].keys \cup manifest'.keys
             /\ new(v).excuse = f[v].excuse \cup Excuses'
  <2>1. /\ f[v] \in WorkerRecs /\ f[v].keys \cup manifest'.keys \in SUBSET Keys
        /\ f[v].excuse \cup Excuses' \in SUBSET Causes
    BY ExcusesIs, Zenon DEF WorkerRecs
  <2>2. new(v) \in WorkerRecs
    BY <2>1, Zenon DEF WorkerRecs
  <2> QED BY <2>1, <2>2, Zenon DEF WorkerRecs, SameWork
<1>2. Touch(f) = [v \in Workers |-> IF f[v].req.op = "prepare" THEN new(v) ELSE f[v]]
  BY Zenon DEF Touch
<1> HIDE DEF new
<1>3. Touch(f) \in [Workers -> WorkerRecs]
  BY <1>1, <1>2, Zenon
<1>4. ASSUME NEW v \in Workers, f[v].req.op = "prepare" PROVE Touch(f)[v] = new(v)
  BY <1>2, <1>4, Zenon
<1>5. ASSUME NEW v \in Workers, f[v].req.op # "prepare" PROVE Touch(f)[v] = f[v]
  BY <1>2, <1>5, Zenon
<1> QED BY <1>1, <1>3, <1>4, <1>5 DEF SameWork

\* The other fields of a worker after a step that changed the store.
Learns(v, raced) ==
    /\ worker'[v].mustOff = worker[v].mustOff
    /\ worker'[v].keys =
          worker[v].keys \cup IF worker[v].req.op = "prepare" THEN manifest'.keys ELSE {}
    /\ worker'[v].excuse =
          worker[v].excuse \cup raced \cup IF worker[v].req.op = "prepare" THEN Excuses' ELSE {}

InsertEffect(w) ==
    LET me == worker[w]
        you == worker'[w]
    IN  /\ UNCHANGED <<signers, overrides, manifest, reader, installer, spent, acked, off, vouched>>
        /\ me.pc = "write" /\ me.req.op = "insert"
        /\ \/ Answers(w, "err") /\ UNCHANGED <<rules, sigs>>
           \/ /\ NextId \notin DOMAIN sigs
              /\ rules' = Put(rules, NextId, me.req.payload)
              /\ sigs' = Put(sigs, NextId, me.req.sig)
              /\ worker' \in [Workers -> WorkerRecs]
              /\ you.pc = "reply" /\ you.reply = "ok" /\ you.total = NextId
              /\ you.req = me.req /\ you.out = me.out
              /\ \A v \in Workers \ {w} :
                    SameWork(worker'[v], worker[v]) /\ worker'[v].total = worker[v].total
              /\ \A v \in Workers :
                    /\ worker'[v].must = worker[v].must
                    /\ Learns(v, IF worker[v].pc = "select" THEN {"raced"} ELSE {})

\* insert_signed_user_rule, which writes a row and its signature or nothing, does
\* what InsertEffect says to the tables and to the readers under way.
LEMMA InsertEffects ==
    ASSUME Types, NEW w \in Workers, InsertSignedUserRule(w) PROVE InsertEffect(w)
<1>0. worker \in [Workers -> WorkerRecs] /\ worker[w] \in WorkerRecs
  BY Zenon DEF Types
<1>1. CASE NextId \in DOMAIN sigs
  BY <1>1, AnswerMoves, Zenon DEF InsertSignedUserRule, InsertEffect, Replies
<1>2. CASE NextId \notin DOMAIN sigs
  <2> DEFINE ans == [worker[w] EXCEPT !.pc = "reply", !.reply = "ok", !.total = NextId]
             f == [worker EXCEPT ![w] = ans]
             raced(v) == [f[v] EXCEPT !.excuse = @ \cup {"raced"}]
  <2>1. /\ rules' = Put(rules, NextId, worker[w].req.payload)
        /\ sigs' = Put(sigs, NextId, worker[w].req.sig)
        /\ worker[w].pc = "write" /\ worker[w].req.op = "insert"
        /\ UNCHANGED <<signers, overrides, manifest, reader, installer, spent, acked, off, vouched>>
        /\ worker' = Touch(Racing([Answer(w, "ok") EXCEPT ![w].total = NextId]))
    BY <1>2, Zenon DEF InsertSignedUserRule
  <2>2. [Answer(w, "ok") EXCEPT ![w].total = NextId] = f
    BY <1>0, Zenon DEF Answer
  <2>3. /\ ans \in WorkerRecs /\ ans.pc = "reply" /\ ans.reply = "ok" /\ ans.total = NextId
        /\ ans.req = worker[w].req /\ ans.out = worker[w].out /\ ans.must = worker[w].must
        /\ ans.mustOff = worker[w].mustOff /\ ans.keys = worker[w].keys
        /\ ans.excuse = worker[w].excuse
    <3>1. NextId \in Nat /\ "reply" \in Pcs /\ "ok" \in Replies
      BY NewId, Zenon DEF Pcs, Replies
    <3>2. ans \in WorkerRecs
      BY <1>0, <3>1, Zenon DEF WorkerRecs
    <3> QED BY <1>0, <3>2, Zenon DEF WorkerRecs
  <2>4. f \in [Workers -> WorkerRecs] /\ f[w] = ans /\ \A v \in Workers \ {w} : f[v] = worker[v]
    <3> HIDE DEF ans
    <3> QED BY <1>0, <2>3, Zenon
  <2> HIDE DEF ans, f
  <2>5. ASSUME NEW v \in Workers
        PROVE  /\ raced(v) \in WorkerRecs /\ SameWork(raced(v), f[v])
               /\ raced(v).total = f[v].total /\ raced(v).must = f[v].must
               /\ raced(v).mustOff = f[v].mustOff /\ raced(v).keys = f[v].keys
               /\ raced(v).excuse = f[v].excuse \cup {"raced"}
    <3>1. f[v] \in WorkerRecs /\ f[v].excuse \cup {"raced"} \in SUBSET Causes
      BY <2>4, Zenon DEF WorkerRecs, Causes
    <3>2. raced(v) \in WorkerRecs
      BY <3>1, Zenon DEF WorkerRecs
    <3> QED BY <3>1, <3>2, Zenon DEF WorkerRecs, SameWork
  <2>6. Racing(f) = [v \in Workers |-> IF f[v].pc = "select" THEN raced(v) ELSE f[v]]
    BY Zenon DEF Racing
  <2> HIDE DEF raced
  <2> DEFINE g == Racing(f)
  <2>7. /\ g \in [Workers -> WorkerRecs]
        /\ \A v \in Workers : g[v] = IF f[v].pc = "select" THEN raced(v) ELSE f[v]
    BY <2>4, <2>5, <2>6, Zenon
  <2> HIDE DEF g
  <2>8. ASSUME NEW v \in Workers
        PROVE  /\ SameWork(g[v], f[v]) /\ g[v].total = f[v].total /\ g[v].must = f[v].must
               /\ g[v].mustOff = f[v].mustOff /\ g[v].keys = f[v].keys
               /\ g[v].excuse = f[v].excuse \cup IF f[v].pc = "select" THEN {"raced"} ELSE {}
    BY <2>5, <2>7, Zenon DEF SameWork
  <2>9. worker' = Touch(g) /\ manifest'.keys \subseteq Keys
    BY <2>1, <2>2, Zenon DEF g, Types
  <2>10. /\ worker' \in [Workers -> WorkerRecs]
         /\ \A v \in Workers :
                 /\ SameWork(worker'[v], g[v]) /\ worker'[v].total = g[v].total
                 /\ worker'[v].must = g[v].must /\ worker'[v].mustOff = g[v].mustOff
                 /\ worker'[v].keys =
                       g[v].keys \cup IF g[v].req.op = "prepare" THEN manifest'.keys ELSE {}
                 /\ worker'[v].excuse =
                       g[v].excuse \cup IF g[v].req.op = "prepare" THEN Excuses' ELSE {}
    BY <2>7, <2>9, TouchIs, Zenon
  <2>11. ASSUME NEW v \in Workers
         PROVE  /\ worker'[v].must = worker[v].must
                /\ Learns(v, IF worker[v].pc = "select" THEN {"raced"} ELSE {})
    <3>1. /\ f[v].must = worker[v].must /\ f[v].mustOff = worker[v].mustOff
          /\ f[v].keys = worker[v].keys /\ f[v].excuse = worker[v].excuse
          /\ f[v].req = worker[v].req /\ (f[v].pc = "select" <=> worker[v].pc = "select")
      BY <2>1, <2>3, <2>4, Zenon
    <3> QED BY <2>8, <2>10, <3>1 DEF SameWork, Learns
  <2>12. ASSUME NEW v \in Workers \ {w}
         PROVE  SameWork(worker'[v], worker[v]) /\ worker'[v].total = worker[v].total
    BY <2>4, <2>8, <2>10 DEF SameWork
  <2>13. /\ worker'[w].pc = "reply" /\ worker'[w].reply = "ok" /\ worker'[w].total = NextId
         /\ worker'[w].req = worker[w].req /\ worker'[w].out = worker[w].out
    BY <2>3, <2>4, <2>8, <2>10 DEF SameWork
  <2> QED BY <1>2, <2>1, <2>10, <2>11, <2>12, <2>13, Zenon DEF InsertEffect
<1> QED BY <1>1, <1>2, Zenon

InstallerEffect ==
    /\ UNCHANGED <<rules, sigs, overrides, reader, acked, off>>
    /\ worker' \in [Workers -> WorkerRecs] /\ vouched' = {}
    /\ spent' \in [requests : 0 .. MaxRequests, faults : 0 .. MaxFaults, edited : {"no", "yes"}]
    /\ spent'.requests = spent.requests /\ spent'.edited = spent.edited
    /\ manifest' \in [file : {"regular", "missing"}, keys : SUBSET Keys] /\ signers' \subseteq Keys
    /\ installer' \in [step : {"done", "removed", "created", "written"}, key : Keys]
    /\ \A v \in Workers :
          /\ SameWork(worker'[v], worker[v]) /\ worker'[v].total = worker[v].total
          /\ worker'[v].must = worker[v].must
          /\ Learns(v, IF worker[v].req.op \in Manage \cup {"status"} THEN {"installer"} ELSE {})

\* A step of the installer.
LEMMA MovedIs ==
    ASSUME Types, worker' = Moved, manifest'.keys \subseteq Keys
    PROVE  /\ worker' \in [Workers -> WorkerRecs]
           /\ \A v \in Workers :
                 /\ SameWork(worker'[v], worker[v]) /\ worker'[v].total = worker[v].total
                 /\ worker'[v].must = worker[v].must
                 /\ Learns(v, IF worker[v].req.op \in Manage \cup {"status"}
                              THEN {"installer"} ELSE {})
<1> DEFINE new(v) == [worker[v] EXCEPT !.excuse = @ \cup {"installer"}]
           f == [v \in Workers |-> IF worker[v].req.op \in Manage \cup {"status"}
                                   THEN new(v) ELSE worker[v]]
<1>1. ASSUME NEW v \in Workers
      PROVE  /\ worker[v] \in WorkerRecs
             /\ new(v) \in WorkerRecs /\ SameWork(new(v), worker[v])
             /\ new(v).total = worker[v].total /\ new(v).must = worker[v].must
             /\ new(v).mustOff = worker[v].mustOff /\ new(v).keys = worker[v].keys
             /\ new(v).excuse = worker[v].excuse \cup {"installer"}
  <2>1. worker[v] \in WorkerRecs /\ worker[v].excuse \cup {"installer"} \in SUBSET Causes
    BY Zenon DEF Types, WorkerRecs, Causes
  <2>2. new(v) \in WorkerRecs
    BY <2>1, Zenon DEF WorkerRecs
  <2> QED BY <2>1, <2>2, Zenon DEF WorkerRecs, SameWork
<1>2. worker' = Touch(f)
  BY Zenon DEF Moved
<1> HIDE DEF new
<1>3. /\ f \in [Workers -> WorkerRecs]
      /\ \A v \in Workers : f[v] = IF worker[v].req.op \in Manage \cup {"status"}
                                   THEN new(v) ELSE worker[v]
  BY <1>1, Zenon
<1> HIDE DEF f
<1>4. /\ worker' \in [Workers -> WorkerRecs]
      /\ \A v \in Workers :
            /\ SameWork(worker'[v], f[v]) /\ worker'[v].total = f[v].total
            /\ worker'[v].must = f[v].must /\ worker'[v].mustOff = f[v].mustOff
            /\ worker'[v].keys =
                  f[v].keys \cup IF f[v].req.op = "prepare" THEN manifest'.keys ELSE {}
            /\ worker'[v].excuse =
                  f[v].excuse \cup IF f[v].req.op = "prepare" THEN Excuses' ELSE {}
  BY <1>2, <1>3, TouchIs
<1>5. ASSUME NEW v \in Workers
      PROVE  /\ SameWork(worker'[v], worker[v]) /\ worker'[v].total = worker[v].total
             /\ worker'[v].must = worker[v].must
             /\ Learns(v, IF worker[v].req.op \in Manage \cup {"status"}
                          THEN {"installer"} ELSE {})
  BY <1>1, <1>3, <1>4 DEF SameWork, Learns
<1> QED BY <1>4, <1>5, Zenon

\* Each step of the installer changes the signers' table or the manifest, leaves
\* the rules alone and ends what status vouched for.
LEMMA InstallerEffects == ASSUME Types, Installer PROVE InstallerEffect
<1>0. /\ manifest \in [file : {"regular", "missing"}, keys : SUBSET Keys] /\ signers \subseteq Keys
      /\ installer \in [step : {"done", "removed", "created", "written"}, key : Keys]
      /\ spent \in [requests : 0 .. MaxRequests, faults : 0 .. MaxFaults, edited : {"no", "yes"}]
      /\ installer.key \in Keys
  BY Zenon DEF Types
<1>1. ASSUME NEW k \in Keys, RemoveManifest(k) PROVE InstallerEffect
  <2>1. spent.faults + 1 \in 0 .. MaxFaults
    <3>1. spent.faults \in 0 .. MaxFaults /\ spent.faults < MaxFaults
      BY <1>0, <1>1, Zenon DEF RemoveManifest
    <3> QED BY <3>1, RuleStoreAssumption
  <2>2. /\ spent' \in [requests : 0 .. MaxRequests, faults : 0 .. MaxFaults, edited : {"no", "yes"}]
        /\ spent'.requests = spent.requests /\ spent'.edited = spent.edited
    BY <1>0, <1>1, <2>1, Zenon DEF RemoveManifest
  <2>3. /\ manifest' \in [file : {"regular", "missing"}, keys : SUBSET Keys]
        /\ manifest'.keys \subseteq Keys
        /\ installer' \in [step : {"done", "removed", "created", "written"}, key : Keys]
        /\ UNCHANGED <<rules, sigs, signers, overrides, reader, acked, off>> /\ vouched' = {}
        /\ worker' = Moved
    BY <1>1, Zenon DEF RemoveManifest
  <2> QED BY <1>0, <2>2, <2>3, MovedIs, Zenon DEF InstallerEffect
<1>2. CASE CreateManifest \/ WriteManifest \/ RegisterTrustedRuleSigner
  <2>1. installer' \in [step : {"done", "removed", "created", "written"}, key : Keys]
    BY <1>0, <1>2, Zenon
    DEF CreateManifest, WriteManifest, RegisterTrustedRuleSigner, InstallerStep
  <2>2. /\ manifest' \in [file : {"regular", "missing"}, keys : SUBSET Keys]
        /\ manifest'.keys \subseteq Keys /\ signers' \subseteq Keys
        /\ UNCHANGED <<rules, sigs, overrides, reader, acked, off, spent>> /\ vouched' = {}
        /\ worker' = Moved
    BY <1>0, <1>2 DEF CreateManifest, WriteManifest, RegisterTrustedRuleSigner, InstallerStep
  <2> QED BY <1>0, <2>1, <2>2, MovedIs, Zenon DEF InstallerEffect
<1> QED BY <1>1, <1>2, Zenon DEF Installer

EditEffect(i) ==
    LET traced == DOMAIN rules' \cup DOMAIN sigs'
    IN  /\ UNCHANGED <<signers, overrides, manifest, reader, installer, off, vouched>>
        /\ i \in Nat \ {0}
        /\ worker' \in [Workers -> WorkerRecs]
        /\ spent' \in [requests : 0 .. MaxRequests, faults : 0 .. MaxFaults, edited : {"no", "yes"}]
        /\ spent'.requests = spent.requests /\ spent'.edited = "yes"
        /\ rules' \in TableOf(Payloads) /\ sigs' \in TableOf(Sigs) /\ acked' \in TableOf(Payloads)
        /\ DOMAIN rules \ {i} \subseteq DOMAIN rules' /\ DOMAIN rules' \subseteq DOMAIN rules
        /\ DOMAIN sigs \ {i} \subseteq DOMAIN sigs' /\ DOMAIN sigs' \subseteq DOMAIN sigs
        /\ \A j \in DOMAIN sigs' : sigs'[j] = sigs[j]
        /\ DOMAIN acked' = {j \in DOMAIN acked : j = i => i \in traced}
        /\ \A j \in DOMAIN acked' : acked'[j] = acked[j]
        /\ \A v \in Workers :
              /\ SameWork(worker'[v], worker[v]) /\ Learns(v, {})
              /\ worker'[v].total = IF worker[v].req.op = "insert" /\ worker[v].total = i /\ i \notin traced
                                    THEN 0 ELSE worker[v].total
              /\ DOMAIN worker'[v].must = DOMAIN worker[v].must \ {i}
              /\ \A j \in DOMAIN worker'[v].must : worker'[v].must[j] = worker[v].must[j]

\* An edit of the store from outside the daemon touches one row, and takes every
\* promise about that row back.
LEMMA EditEffects ==
    ASSUME Types, NEW i \in DOMAIN rules \cup DOMAIN sigs,
           (\E p \in Payloads : ChangeRule(i, p)) \/ DeleteRule(i) \/ DeleteSignature(i)
    PROVE  EditEffect(i)
<1> DEFINE traced == DOMAIN rules' \cup DOMAIN sigs'
           total(v) == IF worker[v].req.op = "insert" /\ worker[v].total = i /\ i \notin traced
                       THEN 0 ELSE worker[v].total
           must(v) == Restrict(worker[v].must, DOMAIN worker[v].must \ {i})
           new(v) == [worker[v] EXCEPT !.must = must(v), !.total = total(v)]
           f == [v \in Workers |-> new(v)]
<1>0. /\ rules \in TableOf(Payloads) /\ sigs \in TableOf(Sigs) /\ acked \in TableOf(Payloads)
      /\ spent \in [requests : 0 .. MaxRequests, faults : 0 .. MaxFaults, edited : {"no", "yes"}]
      /\ manifest.keys \subseteq Keys /\ i \in Nat \ {0}
  BY DEF Types
<1>1. Edit(i)
  BY Zenon DEF ChangeRule, DeleteRule, DeleteSignature
<1>2. /\ rules' \in TableOf(Payloads) /\ sigs' \in TableOf(Sigs)
      /\ DOMAIN rules \ {i} \subseteq DOMAIN rules' /\ DOMAIN rules' \subseteq DOMAIN rules
      /\ DOMAIN sigs \ {i} \subseteq DOMAIN sigs' /\ DOMAIN sigs' \subseteq DOMAIN sigs
      /\ \A j \in DOMAIN sigs' : sigs'[j] = sigs[j]
  <2>1. CASE \E p \in Payloads : ChangeRule(i, p)
    <3>1. rules \in [DOMAIN rules -> Payloads] /\ DOMAIN rules \in SUBSET Nat
      BY <1>0, TableIs, Zenon
    <3>2. rules' \in [DOMAIN rules -> Payloads] /\ sigs' = sigs
      BY <2>1, <3>1, Zenon DEF ChangeRule
    <3>3. rules' \in TableOf(Payloads) /\ DOMAIN rules' = DOMAIN rules
      BY <3>1, <3>2, IsTable, Zenon
    <3> QED BY <1>0, <3>2, <3>3, Zenon
  <2>2. CASE DeleteRule(i)
    <3>1. rules' = Restrict(rules, DOMAIN rules \ {i}) /\ sigs' = sigs
      BY <2>2, Zenon DEF DeleteRule
    <3>2. rules' \in TableOf(Payloads) /\ DOMAIN rules' = DOMAIN rules \ {i}
      BY <1>0, <3>1, RestrictTable
    <3> QED BY <1>0, <3>1, <3>2, Zenon
  <2>3. CASE DeleteSignature(i)
    <3>1. sigs' = Restrict(sigs, DOMAIN sigs \ {i}) /\ rules' = rules
      BY <2>3, Zenon DEF DeleteSignature
    <3>2. /\ sigs' \in TableOf(Sigs) /\ DOMAIN sigs' = DOMAIN sigs \ {i}
          /\ \A j \in DOMAIN sigs \ {i} : sigs'[j] = sigs[j]
      BY <1>0, <3>1, RestrictTable
    <3> QED BY <1>0, <3>1, <3>2, Zenon
  <2> QED BY <2>1, <2>2, <2>3, Zenon
<1>3. /\ spent.faults < MaxFaults /\ spent' = [spent EXCEPT !.faults = @ + 1, !.edited = "yes"]
      /\ acked' = Restrict(acked, {j \in DOMAIN acked : j = i => i \in traced})
      /\ UNCHANGED <<signers, overrides, manifest, reader, installer, off, vouched>>
      /\ worker' = Touch(f)
  BY <1>1, Zenon DEF Edit
<1>4. /\ spent' \in [requests : 0 .. MaxRequests, faults : 0 .. MaxFaults, edited : {"no", "yes"}]
      /\ spent'.requests = spent.requests /\ spent'.edited = "yes"
  <2>1. spent.faults + 1 \in 0 .. MaxFaults
    <3>1. spent.faults \in 0 .. MaxFaults /\ spent.faults < MaxFaults
      BY <1>0, <1>3, Zenon
    <3> QED BY <3>1, RuleStoreAssumption
  <2> QED BY <1>0, <1>3, <2>1, Zenon
<1>5. /\ acked' \in TableOf(Payloads)
      /\ DOMAIN acked' = {j \in DOMAIN acked : j = i => i \in traced}
      /\ \A j \in DOMAIN acked' : acked'[j] = acked[j]
  <2> HIDE DEF traced
  <2> DEFINE D == {j \in DOMAIN acked : j = i => i \in traced}
  <2>1. D \in SUBSET DOMAIN acked
    OBVIOUS
  <2>2. acked' = Restrict(acked, D)
    BY <1>3, Zenon
  <2> HIDE DEF D
  <2>3. acked' \in TableOf(Payloads) /\ DOMAIN acked' = D /\ \A j \in D : acked'[j] = acked[j]
    BY <1>0, <2>1, <2>2, RestrictTable
  <2> QED BY <2>3, Zenon DEF D
<1>6. ASSUME NEW v \in Workers
      PROVE  /\ worker[v] \in WorkerRecs /\ new(v) \in WorkerRecs /\ SameWork(new(v), worker[v])
             /\ new(v).total = total(v) /\ new(v).must = must(v)
             /\ new(v).mustOff = worker[v].mustOff /\ new(v).keys = worker[v].keys
             /\ new(v).excuse = worker[v].excuse
             /\ DOMAIN must(v) = DOMAIN worker[v].must \ {i}
             /\ \A j \in DOMAIN must(v) : must(v)[j] = worker[v].must[j]
  <2>1. worker[v] \in WorkerRecs /\ worker[v].must \in TableOf(Payloads) /\ total(v) \in Nat
    BY Zenon DEF Types, WorkerRecs
  <2>2. /\ must(v) \in TableOf(Payloads) /\ DOMAIN must(v) = DOMAIN worker[v].must \ {i}
        /\ \A j \in DOMAIN must(v) : must(v)[j] = worker[v].must[j]
    BY <2>1, RestrictTable
  <2> HIDE DEF must, total
  <2>3. new(v) \in WorkerRecs
    BY <2>1, <2>2, Zenon DEF WorkerRecs
  <2> QED BY <2>1, <2>2, <2>3, Zenon DEF WorkerRecs, SameWork
<1>7. f \in [Workers -> WorkerRecs] /\ \A v \in Workers : f[v] = new(v)
  <2> HIDE DEF new
  <2> QED BY <1>6, Zenon
<1> HIDE DEF f, new, must
<1>8. /\ worker' \in [Workers -> WorkerRecs]
      /\ \A v \in Workers :
            /\ SameWork(worker'[v], f[v]) /\ worker'[v].total = f[v].total
            /\ worker'[v].must = f[v].must /\ worker'[v].mustOff = f[v].mustOff
            /\ worker'[v].keys =
                  f[v].keys \cup IF f[v].req.op = "prepare" THEN manifest'.keys ELSE {}
            /\ worker'[v].excuse =
                  f[v].excuse \cup IF f[v].req.op = "prepare" THEN Excuses' ELSE {}
  <2>1. manifest'.keys \subseteq Keys
    BY <1>0, <1>3, Zenon
  <2> QED BY <1>3, <1>7, <2>1, TouchIs, Zenon
<1>9. ASSUME NEW v \in Workers
      PROVE  /\ SameWork(worker'[v], worker[v]) /\ Learns(v, {})
             /\ worker'[v].total = total(v)
             /\ DOMAIN worker'[v].must = DOMAIN worker[v].must \ {i}
             /\ \A j \in DOMAIN worker'[v].must : worker'[v].must[j] = worker[v].must[j]
  <2> HIDE DEF total
  <2>1. f[v] = new(v)
    BY <1>7, Zenon
  <2>2. /\ SameWork(new(v), worker[v]) /\ new(v).total = total(v) /\ new(v).must = must(v)
        /\ new(v).mustOff = worker[v].mustOff /\ new(v).keys = worker[v].keys
        /\ new(v).excuse = worker[v].excuse
    BY <1>6, Zenon
  <2>3. /\ SameWork(worker'[v], new(v)) /\ worker'[v].must = new(v).must
        /\ worker'[v].total = new(v).total
    BY <1>8, <2>1, Zenon
  <2>4. SameWork(worker'[v], worker[v])
    BY <2>2, <2>3, Zenon DEF SameWork
  <2>5. worker'[v].must = must(v) /\ worker'[v].total = total(v)
    BY <2>2, <2>3, Zenon
  <2>6. Learns(v, {})
    <3>1. f[v].req = worker[v].req
      BY <2>1, <2>2, Zenon DEF SameWork
    <3>2. /\ f[v].mustOff = worker[v].mustOff /\ f[v].keys = worker[v].keys
          /\ f[v].excuse = worker[v].excuse
      BY <2>1, <2>2, Zenon
    <3> QED BY <1>8, <3>1, <3>2, Zenon DEF Learns
  <2> QED BY <1>6, <2>4, <2>5, <2>6, Zenon
<1> QED BY <1>0, <1>2, <1>3, <1>4, <1>5, <1>8, <1>9, Zenon DEF EditEffect

ReplyEffect(w) ==
    LET me == worker[w]
    IN  /\ UNCHANGED <<rules, sigs, signers, overrides, manifest, reader, installer, spent>>
        /\ me.pc = "reply" /\ worker' \in [Workers -> WorkerRecs]
        /\ worker'[w] = Idle /\ \A v \in Workers \ {w} : worker'[v] = worker[v]
        /\ acked' = IF me.req.op = "insert" /\ me.reply = "ok" /\ me.total # 0
                    THEN Put(acked, me.total, me.req.payload) ELSE acked
        /\ off' = IF me.req.op = "disable" /\ me.reply = "ok" /\ "enabled" \notin me.excuse
                  THEN off \cup {me.req.payload.pattern} ELSE off
        /\ vouched' = IF me.reply = "configured" /\ me.excuse = {}
                      THEN vouched \cup me.known ELSE vouched

CrashEffect ==
    /\ UNCHANGED <<rules, sigs, signers, overrides, manifest, installer, acked, off, vouched>>
    /\ spent' \in [requests : 0 .. MaxRequests, faults : 0 .. MaxFaults, edited : {"no", "yes"}]
    /\ spent'.requests = spent.requests /\ spent'.edited = spent.edited
    /\ worker' \in [Workers -> WorkerRecs]
    /\ reader' = "free" /\ \A v \in Workers : worker'[v] = Idle

WorkerEffect(w) == ReceiveEffect(w) \/ OwnEffect(w) \/ InsertEffect(w) \/ ReplyEffect(w)

Effect ==
    \/ \E w \in Workers : WorkerEffect(w)
    \/ InstallerEffect \/ CrashEffect
    \/ \E i \in DOMAIN rules \cup DOMAIN sigs : EditEffect(i)

\* A step does nothing else to the workers.
LEMMA Effects == ASSUME Types, Next PROVE Effect
<1>1. ASSUME NEW w \in Workers, Receive(w) PROVE Effect
  BY <1>1, ReceiveEffects, Zenon DEF Effect, WorkerEffect
<1>2. ASSUME NEW w \in Workers, Work(w) PROVE Effect
  <2>1. CASE Reply(w)
    <3>1. worker \in [Workers -> WorkerRecs]
      BY Zenon DEF Types
    <3>2. worker' = [worker EXCEPT ![w] = Idle]
      BY <2>1, Zenon DEF Reply
    <3>3. /\ worker' \in [Workers -> WorkerRecs]
          /\ worker'[w] = Idle /\ \A v \in Workers \ {w} : worker'[v] = worker[v]
      BY <3>1, <3>2, IdleIs, Zenon
    <3>4. ReplyEffect(w)
      BY <2>1, <3>3, Zenon DEF Reply, ReplyEffect
    <3> QED BY <3>4, Zenon DEF Effect, WorkerEffect
  <2>2. CASE InsertSignedUserRule(w)
    BY <2>2, InsertEffects, Zenon DEF Effect, WorkerEffect
  <2>3. CASE ~ Reply(w) /\ ~ InsertSignedUserRule(w)
    BY <1>2, <2>3, ManageEffects, QueryEffects, ReadEffects, Zenon DEF Work, Effect, WorkerEffect
  <2> QED BY <2>1, <2>2, <2>3, Zenon
<1>3. CASE Installer
  BY <1>3, InstallerEffects, Zenon DEF Effect
<1>4. CASE ForeignEdit
  BY <1>4, EditEffects, Zenon DEF ForeignEdit, Effect
<1>5. CASE Crash
  <2>1. spent.faults \in 0 .. MaxFaults /\ spent.faults < MaxFaults
    BY <1>5, Zenon DEF Types, Crash
  <2>2. spent.faults + 1 \in 0 .. MaxFaults
    BY <2>1, RuleStoreAssumption
  <2>3. /\ spent' \in [requests : 0 .. MaxRequests, faults : 0 .. MaxFaults, edited : {"no", "yes"}]
        /\ spent'.requests = spent.requests /\ spent'.edited = spent.edited
    BY <1>5, <2>2, Zenon DEF Types, Crash
  <2>4. worker' \in [Workers -> WorkerRecs] /\ \A v \in Workers : worker'[v] = Idle
    BY <1>5, IdleIs, Zenon DEF Crash
  <2> QED BY <1>5, <2>3, <2>4, Zenon DEF Crash, CrashEffect, Effect
<1> QED BY <1>1, <1>2, <1>3, <1>4, <1>5, Zenon DEF Next

-----------------------------------------------------------------------------
(* Types, places and ids                                                    *)

\* The workers that are about to insert are finitely many.
LEMMA InsertingIs ==
    /\ IsFiniteSet(Inserting) /\ Cardinality(Inserting) \in Nat
    /\ IsFiniteSet(Inserting') /\ Cardinality(Inserting') \in Nat
<1>1. IsFiniteSet(Workers) /\ Inserting \subseteq Workers /\ Inserting' \subseteq Workers
  BY RuleStoreAssumption, Zenon DEF Inserting
<1>2. IsFiniteSet(Inserting) /\ IsFiniteSet(Inserting')
  BY <1>1, FS_Subset, Zenon
<1> QED BY <1>2, FS_CardinalityType, Zenon

\* The id of an insertion is within the requests sent.
LEMMA NewIdBound ==
    ASSUME Types, IdBound, NEW w \in Inserting
    PROVE  /\ NextId + (Cardinality(Inserting) - 1) <= spent.requests + 1
           /\ NextId \in 1 .. MaxRequests + 1
           /\ Cardinality(Inserting \ {w}) = Cardinality(Inserting) - 1
           /\ Cardinality(Inserting) - 1 \in Nat
<1>1. Cardinality(Inserting \ {w}) = Cardinality(Inserting) - 1
  BY InsertingIs, FS_RemoveElement, Zenon
<1>2. Cardinality(Inserting \ {w}) \in Nat
  <2>1. IsFiniteSet(Inserting \ {w})
    BY InsertingIs, FS_RemoveElement, Zenon
  <2> QED BY <2>1, FS_CardinalityType, Zenon
<1>3. PICK i \in DOMAIN rules \cup {0} : NextId = i + 1
  BY NewId, Zenon
<1>4. i \in Nat /\ i + Cardinality(Inserting) <= spent.requests + 1
  <2>1. i \in Nat
    BY DEF Types
  <2> QED BY <2>1, Zenon DEF IdBound
<1>5. spent.requests \in 0 .. MaxRequests
  BY Zenon DEF Types
<1> QED BY <1>1, <1>2, <1>3, <1>4, <1>5, InsertingIs, RuleStoreAssumption

\* The tables after the insertion of the rule of worker w.
Inserted(w) ==
    LET q == worker[w].req
    IN  /\ q \in Requests /\ q.payload \in Payloads /\ q.sig.key \in Keys
        /\ VerifyRuleSignature(q.payload, q.sig)
        /\ NextId \in Nat \ {0} /\ NextId \notin DOMAIN rules /\ NextId \notin DOMAIN sigs
        /\ rules' \in TableOf(Payloads) /\ DOMAIN rules' = DOMAIN rules \cup {NextId}
        /\ rules'[NextId] = q.payload /\ \A j \in DOMAIN rules : rules'[j] = rules[j]
        /\ sigs' \in TableOf(Sigs) /\ DOMAIN sigs' = DOMAIN sigs \cup {NextId}
        /\ sigs'[NextId] = q.sig /\ \A j \in DOMAIN sigs : sigs'[j] = sigs[j]

\* The transaction of an insertion adds one row to both tables or none.
LEMMA InsertTables ==
    ASSUME Types, NEW w \in Workers, Handles(w), InsertEffect(w)
    PROVE  Inserted(w) \/ UNCHANGED <<rules, sigs>>
<1> SUFFICES ASSUME ~ UNCHANGED <<rules, sigs>> PROVE Inserted(w)
  OBVIOUS
<1>1. /\ NextId \notin DOMAIN sigs
      /\ rules' = Put(rules, NextId, worker[w].req.payload)
      /\ sigs' = Put(sigs, NextId, worker[w].req.sig)
  BY Zenon DEF InsertEffect
<1>2. /\ worker[w].req \in Requests /\ worker[w].req.op = "insert" /\ worker[w].req.sig.key \in Keys
      /\ VerifyRuleSignature(worker[w].req.payload, worker[w].req.sig)
  BY Zenon DEF InsertEffect, Handles
<1>3. worker[w].req.payload \in Payloads /\ worker[w].req.sig \in Sigs
  BY <1>2, Zenon DEF Payloads, Sigs
<1>4. NextId \in Nat \ {0} /\ NextId \in Nat /\ NextId \notin DOMAIN rules
  BY NewId, Zenon
<1>5. rules \in TableOf(Payloads) /\ sigs \in TableOf(Sigs)
  BY Zenon DEF Types
<1>6. /\ rules' \in TableOf(Payloads) /\ DOMAIN rules' = DOMAIN rules \cup {NextId}
      /\ rules'[NextId] = worker[w].req.payload
      /\ \A j \in DOMAIN rules : j # NextId => rules'[j] = rules[j]
  <2>1. rules' \in TableOf(Payloads)
    BY <1>1, <1>3, <1>4, <1>5, PutTable, Zenon
  <2> QED BY <1>1, <2>1, Zenon DEF Put
<1>7. /\ sigs' \in TableOf(Sigs) /\ DOMAIN sigs' = DOMAIN sigs \cup {NextId}
      /\ sigs'[NextId] = worker[w].req.sig
      /\ \A j \in DOMAIN sigs : j # NextId => sigs'[j] = sigs[j]
  <2>1. sigs' \in TableOf(Sigs)
    BY <1>1, <1>3, <1>4, <1>5, PutTable, Zenon
  <2> QED BY <1>1, <2>1, Zenon DEF Put
<1> QED BY <1>1, <1>2, <1>3, <1>4, <1>6, <1>7, Zenon DEF Inserted

\* Every step keeps the variables in their types.
LEMMA TypesStep ==
    ASSUME Types, \A w \in Workers : Handles(w), IdBound, Effect
    PROVE  Types'
<1>1. ASSUME NEW w \in Workers, ReceiveEffect(w) PROVE Types'
  BY <1>1, Zenon DEF ReceiveEffect, Types
<1>2. ASSUME NEW w \in Workers, OwnEffect(w) PROVE Types'
  <2>1. worker' \in [Workers -> WorkerRecs]
    BY <1>2, Zenon DEF OwnEffect, ManageEffect, QueryEffect, ReadEffect, Answers, Moves, Own
  <2>2. reader' \in Workers \cup {"free"}
    BY <1>2, Zenon DEF OwnEffect, ManageEffect, QueryEffect, ReadEffect, Types
  <2>3. overrides' \subseteq Curated
    BY <1>2, ZenonT(60) DEF OwnEffect, ManageEffect, QueryEffect, ReadEffect, Handles, Types
  <2> QED BY <1>2, <2>1, <2>2, <2>3, Zenon DEF OwnEffect, Types
<1>3. ASSUME NEW w \in Workers, InsertEffect(w) PROVE Types'
  <2>1. worker' \in [Workers -> WorkerRecs]
    BY <1>3, Zenon DEF InsertEffect, Answers, Moves, Own
  <2>2. CASE UNCHANGED <<rules, sigs>>
    BY <1>3, <2>1, <2>2, Zenon DEF InsertEffect, Types
  <2>3. CASE Inserted(w)
    <3>1. w \in Inserting
      BY <1>3, Zenon DEF InsertEffect, Inserting, Asking
    <3>2. NextId \in 1 .. MaxRequests + 1
      BY <3>1, NewIdBound, Zenon
    <3>3. DOMAIN rules' \cup DOMAIN sigs' \subseteq 1 .. MaxRequests + 1
      BY <2>3, <3>2, Zenon DEF Inserted, Types
    <3>4. \A j \in DOMAIN sigs' : sigs'[j].key \in Keys
      BY <2>3, Zenon DEF Inserted, Types
    <3> QED BY <1>3, <2>1, <2>3, <3>3, <3>4, Zenon DEF InsertEffect, Inserted, Types
  <2> QED BY <1>3, <2>2, <2>3, InsertTables, Zenon
<1>4. ASSUME NEW w \in Workers, ReplyEffect(w) PROVE Types'
  <2>1. worker[w] \in WorkerRecs /\ Handles(w) /\ worker[w].pc # "idle"
    BY <1>4, Zenon DEF Types, ReplyEffect
  <2>2. acked' \in TableOf(Payloads)
    <3>1. CASE worker[w].req.op = "insert" /\ worker[w].reply = "ok" /\ worker[w].total # 0
      <4>1. worker[w].req.payload \in Payloads /\ worker[w].total \in Nat
        BY <2>1, <3>1, Zenon DEF Payloads, Handles, WorkerRecs
      <4>2. acked \in TableOf(Payloads) /\ acked' = Put(acked, worker[w].total, worker[w].req.payload)
        BY <1>4, <3>1, Zenon DEF Types, ReplyEffect
      <4> QED BY <4>1, <4>2, PutTable, Zenon
    <3>2. CASE ~ (worker[w].req.op = "insert" /\ worker[w].reply = "ok" /\ worker[w].total # 0)
      BY <1>4, <3>2, Zenon DEF ReplyEffect, Types
    <3> QED BY <3>1, <3>2, Zenon
  <2>3. off' \subseteq Curated /\ vouched' \subseteq Keys
    BY <1>4, <2>1, Zenon DEF ReplyEffect, Handles, Types, WorkerRecs
  <2> QED BY <1>4, <2>2, <2>3, Zenon DEF ReplyEffect, Types
<1>5. CASE InstallerEffect
  BY <1>5, Zenon DEF InstallerEffect, Types
<1>6. CASE CrashEffect
  BY <1>6, Zenon DEF CrashEffect, Types
<1>7. ASSUME NEW i \in DOMAIN rules \cup DOMAIN sigs, EditEffect(i) PROVE Types'
  BY <1>7, Zenon DEF EditEffect, Types
<1> QED BY <1>1, <1>2, <1>3, <1>4, <1>5, <1>6, <1>7, Zenon DEF Effect, WorkerEffect

\* Every step leaves a worker where its request can be.
LEMMA HandlesStep ==
    ASSUME Types, \A w \in Workers : Handles(w), Effect
    PROVE  \A v \in Workers : Handles(v)'
<1> SUFFICES ASSUME NEW v \in Workers PROVE Handles(v)'
  OBVIOUS
<1>0. Handles(v) /\ worker[v] \in WorkerRecs /\ signers \subseteq Keys
  BY Zenon DEF Types
<1>1. ASSUME worker'[v] = Idle PROVE Handles(v)'
  BY <1>1 DEF Handles, Idle, NoReq, Manage, Asking, Reading
<1>2. ASSUME worker'[v] = worker[v] PROVE Handles(v)'
  BY <1>0, <1>2, Zenon DEF Handles
<1>3. ASSUME SameWork(worker'[v], worker[v]) PROVE Handles(v)'
  BY <1>0, <1>3, Zenon DEF Handles, SameWork
<1>4. ASSUME NEW w \in Workers, ReceiveEffect(w) PROVE Handles(v)'
  <2>1. CASE v = w
    BY <1>1, <1>4, <2>1, Zenon DEF ReceiveEffect, Starts, Handles, Ops, Manage, Asking, Reading
  <2>2. CASE v # w
    BY <1>3, <1>4, <2>2, Zenon DEF ReceiveEffect, Undoes
  <2> QED BY <2>1, <2>2, Zenon
<1>5. ASSUME NEW w \in Workers, OwnEffect(w) PROVE Handles(v)'
  <2>1. CASE v = w
    <3>1. CASE ManageEffect(w)
      BY <1>0, <2>1, <3>1, Zenon
      DEF ManageEffect, Answers, Moves, Own, Handles, Manage, Asking, Reading
    <3>2. CASE QueryEffect(w)
      BY <1>0, <2>1, <3>2, Zenon
      DEF QueryEffect, Answers, Moves, Own, Handles, Manage, Asking, Reading, Preparing
    <3>3. CASE ReadEffect(w)
      BY <1>0, <2>1, <3>3, Zenon
      DEF ReadEffect, Answers, Moves, Own, Handles, Manage, Asking, Reading
    <3> QED BY <1>5, <3>1, <3>2, <3>3, Zenon DEF OwnEffect
  <2>2. CASE v # w
    BY <1>2, <1>5, <2>2, Zenon
    DEF OwnEffect, ManageEffect, QueryEffect, ReadEffect, Answers, Moves, Own
  <2> QED BY <2>1, <2>2
<1>6. ASSUME NEW w \in Workers, InsertEffect(w) PROVE Handles(v)'
  <2>1. CASE v = w
    BY <1>0, <1>6, <2>1, Zenon
       DEF InsertEffect, Answers, Moves, Own, Handles, Manage, Asking, Reading
  <2>2. CASE v # w
    BY <1>2, <1>3, <1>6, <2>2, Zenon DEF InsertEffect, Answers, Moves, Own
  <2> QED BY <2>1, <2>2
<1>7. ASSUME NEW w \in Workers, ReplyEffect(w) PROVE Handles(v)'
  BY <1>1, <1>2, <1>7, Zenon DEF ReplyEffect
<1>8. CASE InstallerEffect
  BY <1>3, <1>8, Zenon DEF InstallerEffect
<1>9. CASE CrashEffect
  BY <1>1, <1>9, Zenon DEF CrashEffect
<1>10. ASSUME NEW i \in DOMAIN rules \cup DOMAIN sigs, EditEffect(i) PROVE Handles(v)'
  BY <1>3, <1>10, Zenon DEF EditEffect
<1> QED BY <1>4, <1>5, <1>6, <1>7, <1>8, <1>9, <1>10, Zenon DEF Effect, WorkerEffect

\* The reading connection stays with the worker that holds it.
LEMMA OneReaderStep ==
    ASSUME Types, OneReader, Effect PROVE OneReader'
<1> USE DEF Holding
<1>0. "free" \notin Workers
  BY RuleStoreAssumption, Zenon
<1>1. ASSUME reader' = reader, \A v \in Workers : worker'[v].pc = worker[v].pc PROVE OneReader'
  BY <1>1, Zenon DEF OneReader
<1>4. ASSUME NEW w \in Workers, ReceiveEffect(w) PROVE OneReader'
  <2>1. worker'[w].pc \notin Holding /\ worker[w].pc \notin Holding /\ reader' = reader
    <3>1. worker[w].pc = "idle" /\ reader' = reader
      BY <1>4, Zenon DEF ReceiveEffect
    <3>2. worker'[w] = Idle \/ \E r \in Requests : Starts(w, r)
      BY <1>4, Zenon DEF ReceiveEffect
    <3>3. worker'[w].pc \in {"idle", "trust_db", "overrides", "list", "status"}
      BY <3>2, IdleIs, Zenon DEF Starts
    <3> QED BY <3>1, <3>3, Zenon
  <2>2. \A v \in Workers \ {w} : worker'[v].pc = worker[v].pc
    BY <1>4, Zenon DEF ReceiveEffect, Undoes, SameWork
  <2> QED BY <2>1, <2>2, Zenon DEF OneReader
<1>5. ASSUME NEW w \in Workers, OwnEffect(w) PROVE OneReader'
  <2>1. \A v \in Workers \ {w} : worker'[v].pc = worker[v].pc
    BY <1>5, Zenon DEF OwnEffect, ManageEffect, QueryEffect, ReadEffect, Answers, Moves, Own
  <2>2. CASE ManageEffect(w)
    BY <1>0, <2>1, <2>2 DEF ManageEffect, Answers, Moves, OneReader
  <2>3. CASE QueryEffect(w)
    BY <1>0, <2>1, <2>3, Zenon DEF QueryEffect, Answers, Moves, OneReader
  <2>4. CASE ReadEffect(w)
    BY <1>0, <2>1, <2>4, Zenon DEF ReadEffect, Answers, Moves, OneReader
  <2> QED BY <1>5, <2>2, <2>3, <2>4, Zenon DEF OwnEffect
<1>6. ASSUME NEW w \in Workers, InsertEffect(w) PROVE OneReader'
  <2>1. worker'[w].pc \notin Holding /\ worker[w].pc \notin Holding /\ reader' = reader
    BY <1>6, Zenon DEF InsertEffect, Answers, Moves
  <2>2. \A v \in Workers \ {w} : worker'[v].pc = worker[v].pc
    BY <1>6, Zenon DEF InsertEffect, Answers, Moves, Own, SameWork
  <2> QED BY <2>1, <2>2 DEF OneReader
<1>7. ASSUME NEW w \in Workers, ReplyEffect(w) PROVE OneReader'
  <2>1. worker'[w].pc \notin Holding /\ worker[w].pc \notin Holding /\ reader' = reader
    BY <1>7 DEF ReplyEffect, Idle
  <2>2. \A v \in Workers \ {w} : worker'[v].pc = worker[v].pc
    BY <1>7, Zenon DEF ReplyEffect
  <2> QED BY <2>1, <2>2 DEF OneReader
<1>8. CASE InstallerEffect
  BY <1>1, <1>8, Zenon DEF InstallerEffect, SameWork
<1>9. CASE CrashEffect
  BY <1>0, <1>9 DEF CrashEffect, Idle, OneReader
<1>10. ASSUME NEW i \in DOMAIN rules \cup DOMAIN sigs, EditEffect(i) PROVE OneReader'
  BY <1>1, <1>10, Zenon DEF EditEffect, SameWork
<1> QED BY <1>4, <1>5, <1>6, <1>7, <1>8, <1>9, <1>10, Zenon DEF Effect, WorkerEffect

\* A request that is sent may take one more id.
LEMMA IdBoundStep ==
    ASSUME Types, \A w \in Workers : Handles(w), IdBound, Effect PROVE IdBound'
<1> DEFINE Ids == DOMAIN rules \cup DOMAIN sigs \cup {0}
<1>0. /\ Ids \subseteq Nat /\ Cardinality(Inserting) \in Nat /\ Cardinality(Inserting') \in Nat
      /\ spent.requests \in Nat
      /\ \A i \in Ids : i + Cardinality(Inserting) <= spent.requests + 1
  BY InsertingIs DEF Types, IdBound
<1>1. ASSUME NEW S \in SUBSET Inserting
      PROVE  Cardinality(S) <= Cardinality(Inserting)
  BY InsertingIs, FS_Subset, Zenon
<1>2. ASSUME DOMAIN rules' \cup DOMAIN sigs' \subseteq DOMAIN rules \cup DOMAIN sigs,
             spent'.requests = spent.requests, Inserting' \subseteq Inserting
      PROVE  IdBound'
  <2>1. Cardinality(Inserting') <= Cardinality(Inserting)
    BY <1>1, <1>2, Zenon
  <2>2. ASSUME NEW i \in (DOMAIN rules' \cup DOMAIN sigs' \cup {0})
        PROVE  i + Cardinality(Inserting') <= spent'.requests + 1
    <3>1. i \in Ids
      BY <1>2, Zenon
    <3>2. i \in Nat /\ i + Cardinality(Inserting) <= spent.requests + 1
      BY <3>1, <1>0, Zenon
    <3> QED BY <1>0, <1>2, <2>1, <3>2
  <2> QED BY <2>2, Zenon DEF IdBound
<1>3. ASSUME \A v \in Workers : worker'[v].req = worker[v].req /\ worker'[v].pc = worker[v].pc
      PROVE  Inserting' \subseteq Inserting
  BY <1>3, Zenon DEF Inserting
<1>4. ASSUME NEW w \in Workers, ReceiveEffect(w) PROVE IdBound'
  <2>1. Inserting' \subseteq Inserting \cup {w}
    BY <1>4, Zenon DEF ReceiveEffect, Undoes, SameWork, Inserting
  <2>2. /\ IsFiniteSet(Inserting \cup {w})
        /\ Cardinality(Inserting \cup {w}) <= Cardinality(Inserting) + 1
        /\ Cardinality(Inserting \cup {w}) \in Nat
    <3>1. /\ IsFiniteSet(Inserting \cup {w})
          /\ Cardinality(Inserting \cup {w}) =
                IF w \in Inserting THEN Cardinality(Inserting) ELSE Cardinality(Inserting) + 1
      BY InsertingIs, FS_AddElement, Zenon
    <3> QED BY <1>0, <3>1
  <2>3. Cardinality(Inserting') <= Cardinality(Inserting \cup {w})
    BY <2>1, <2>2, FS_Subset, Zenon
  <2>4. ASSUME NEW i \in (DOMAIN rules' \cup DOMAIN sigs' \cup {0})
        PROVE  i + Cardinality(Inserting') <= spent'.requests + 1
    <3>1. i \in Ids /\ spent'.requests = spent.requests + 1
      BY <1>4, Zenon DEF ReceiveEffect
    <3>2. i \in Nat /\ i + Cardinality(Inserting) <= spent.requests + 1
      BY <3>1, <1>0, Zenon
    <3> QED BY <1>0, <2>2, <2>3, <3>1, <3>2
  <2> QED BY <2>4, Zenon DEF IdBound
<1>5. ASSUME NEW w \in Workers, OwnEffect(w) PROVE IdBound'
  <2>1. Inserting' \subseteq Inserting
    <3>1. /\ \A v \in Workers \ {w} : worker'[v] = worker[v]
          /\ worker'[w].req = worker[w].req
          /\ worker'[w].pc \in Asking => worker[w].pc \in Asking
      BY <1>5, Zenon
         DEF OwnEffect, ManageEffect, QueryEffect, ReadEffect, Answers, Moves, Own, Asking
    <3> QED BY <3>1, Zenon DEF Inserting
  <2> QED BY <1>2, <1>5, <2>1, Zenon DEF OwnEffect
<1>6. ASSUME NEW w \in Workers, InsertEffect(w) PROVE IdBound'
  <2>1. Inserting' \subseteq Inserting \ {w} /\ w \in Inserting /\ spent' = spent
    <3>1. /\ \A v \in Workers \ {w} : worker'[v].pc = worker[v].pc /\ worker'[v].req = worker[v].req
          /\ worker'[w].pc = "reply"
      BY <1>6, Zenon DEF InsertEffect, Answers, Moves, Own, SameWork
    <3> QED BY <1>6, <3>1, Zenon DEF InsertEffect, Inserting, Asking
  <2>2. CASE UNCHANGED <<rules, sigs>>
    BY <1>2, <2>1, <2>2, Zenon
  <2>3. CASE Inserted(w)
    <3>1. /\ NextId + (Cardinality(Inserting) - 1) <= spent.requests + 1
          /\ Cardinality(Inserting \ {w}) = Cardinality(Inserting) - 1
          /\ Cardinality(Inserting) - 1 \in Nat
      BY <2>1, NewIdBound, Zenon
    <3>2. Cardinality(Inserting') <= Cardinality(Inserting) - 1
      <4>1. IsFiniteSet(Inserting \ {w})
        BY InsertingIs, FS_RemoveElement, Zenon
      <4> QED BY <2>1, <3>1, <4>1, FS_Subset
    <3>3. ASSUME NEW i \in (DOMAIN rules' \cup DOMAIN sigs' \cup {0})
          PROVE  i + Cardinality(Inserting') <= spent'.requests + 1
      <4>1. i \in Ids \/ i = NextId
        BY <2>3, Zenon DEF Inserted
      <4>2. i \in Nat /\ i + (Cardinality(Inserting) - 1) <= spent.requests + 1
        <5>1. NextId \in Nat
          BY NewId, Zenon
        <5> QED BY <1>0, <3>1, <4>1, <5>1
      <4> QED BY <1>0, <2>1, <3>1, <3>2, <4>2
    <3> QED BY <3>3 DEF IdBound
  <2> QED BY <1>6, <2>2, <2>3, InsertTables, Zenon
<1>7. ASSUME NEW w \in Workers, ReplyEffect(w) PROVE IdBound'
  <2>1. Inserting' \subseteq Inserting
    BY <1>7 DEF ReplyEffect, Inserting, Idle, Asking
  <2> QED BY <1>2, <1>7, <2>1, Zenon DEF ReplyEffect
<1>8. CASE InstallerEffect
  BY <1>2, <1>3, <1>8, Zenon DEF InstallerEffect, SameWork
<1>9. CASE CrashEffect
  <2>1. Inserting' \subseteq Inserting
    BY <1>9 DEF CrashEffect, Inserting, Idle, Asking
  <2> QED BY <1>2, <1>9, <2>1, Zenon DEF CrashEffect
<1>10. ASSUME NEW i \in DOMAIN rules \cup DOMAIN sigs, EditEffect(i) PROVE IdBound'
  BY <1>2, <1>3, <1>10, Zenon DEF EditEffect, SameWork
<1> QED BY <1>4, <1>5, <1>6, <1>7, <1>8, <1>9, <1>10, Zenon DEF Effect, WorkerEffect

-----------------------------------------------------------------------------
(* Acknowledged rules                                                       *)

\* The same after the step.
TracedNext(i, p) ==
    /\ i \in DOMAIN rules' \cup DOMAIN sigs'
    /\ i \in DOMAIN sigs' => sigs'[i].over = p

\* A trace survives every step but an edit of the rule.
LEMMA TraceKept ==
    ASSUME Types, \A w \in Workers : Handles(w), NEW j, NEW p, Traced(j, p), Effect,
           ~ EditEffect(j)
    PROVE  TracedNext(j, p)
<1>1. ASSUME UNCHANGED <<rules, sigs>> PROVE TracedNext(j, p)
  BY <1>1, Zenon DEF Traced, TracedNext
<1>2. ASSUME NEW w \in Workers, InsertEffect(w) PROVE TracedNext(j, p)
  <2>1. CASE Inserted(w)
    BY <2>1, Zenon DEF Inserted, Traced, TracedNext
  <2> QED BY <1>1, <1>2, <2>1, InsertTables, Zenon
<1>3. ASSUME NEW i \in DOMAIN rules \cup DOMAIN sigs, EditEffect(i) PROVE TracedNext(j, p)
  <2>1. i # j
    BY <1>3, Zenon
  <2> QED BY <1>3, <2>1, Zenon DEF EditEffect, Traced, TracedNext
<1>4. ASSUME NEW w \in Workers, ReceiveEffect(w) \/ OwnEffect(w) \/ ReplyEffect(w)
      PROVE UNCHANGED <<rules, sigs>>
  BY <1>4, Zenon DEF ReceiveEffect, OwnEffect, ReplyEffect
<1>5. ASSUME InstallerEffect \/ CrashEffect PROVE UNCHANGED <<rules, sigs>>
  BY <1>5, Zenon DEF InstallerEffect, CrashEffect
<1> QED BY <1>1, <1>2, <1>3, <1>4, <1>5, Zenon DEF Effect, WorkerEffect

\* What was acknowledged leaves a trace.
LEMMA AckedStep ==
    ASSUME Types, \A w \in Workers : Handles(w), Acks, Effect PROVE AckedTraced'
<1>1. ASSUME acked' = acked, \A j \in DOMAIN acked : ~ EditEffect(j) PROVE AckedTraced'
  BY <1>1, TraceKept, Zenon DEF Acks, AckedTraced, Traced, TracedNext
<1>2. ASSUME NEW w \in Workers, ReplyEffect(w) PROVE AckedTraced'
  <2>1. UNCHANGED <<rules, sigs>>
    BY <1>2, Zenon DEF ReplyEffect
  <2>2. \A j, p : Traced(j, p) => Traced(j, p)'
    BY <2>1, Zenon DEF Traced
  <2>3. CASE worker[w].req.op = "insert" /\ worker[w].reply = "ok" /\ worker[w].total # 0
    <3>1. Traced(worker[w].total, worker[w].req.payload)
      BY <2>3, Zenon DEF Acks, PendingTraced
    <3>2. acked' = Put(acked, worker[w].total, worker[w].req.payload)
      BY <1>2, <2>3, Zenon DEF ReplyEffect
    <3>3. \A j \in DOMAIN acked' : \/ j = worker[w].total /\ acked'[j] = worker[w].req.payload
                                   \/ j \in DOMAIN acked /\ acked'[j] = acked[j]
      BY <3>2, Zenon DEF Put
    <3> QED BY <2>2, <3>1, <3>3, Zenon DEF Acks, AckedTraced
  <2>4. CASE ~ (worker[w].req.op = "insert" /\ worker[w].reply = "ok" /\ worker[w].total # 0)
    BY <1>2, <2>2, <2>4, Zenon DEF Acks, AckedTraced, ReplyEffect
  <2> QED BY <2>3, <2>4, Zenon
<1>3. ASSUME NEW i \in DOMAIN rules \cup DOMAIN sigs, EditEffect(i) PROVE AckedTraced'
  BY <1>3, Zenon DEF EditEffect, Acks, AckedTraced, Traced
<1>4. CASE \A i \in DOMAIN rules \cup DOMAIN sigs : ~ EditEffect(i)
  <2>1. \A j \in DOMAIN acked : ~ EditEffect(j)
    BY <1>4, Zenon DEF Acks, AckedTraced, Traced
  <2>2. ASSUME NEW w \in Workers, ReceiveEffect(w) \/ OwnEffect(w) \/ InsertEffect(w)
        PROVE  acked' = acked
    BY <2>2, Zenon DEF ReceiveEffect, OwnEffect, InsertEffect
  <2>3. ASSUME InstallerEffect \/ CrashEffect PROVE acked' = acked
    BY <2>3, Zenon DEF InstallerEffect, CrashEffect
  <2> QED BY <1>1, <1>2, <1>4, <2>1, <2>2, <2>3, Zenon DEF Effect, WorkerEffect
<1> QED BY <1>3, <1>4, Zenon

\* What is about to be acknowledged leaves a trace.
LEMMA PendingStep ==
    ASSUME Types, \A w \in Workers : Handles(w), Acks, Effect
    PROVE  \A v \in Workers : PendingTraced(v)'
<1> SUFFICES ASSUME NEW v \in Workers,
                    worker'[v].req.op = "insert", worker'[v].reply = "ok", worker'[v].total # 0
             PROVE  TracedNext(worker'[v].total, worker'[v].req.payload)
  BY Zenon DEF PendingTraced, Traced, TracedNext
<1>0. PendingTraced(v) /\ Handles(v)
  BY Zenon DEF Acks
<1>1. ASSUME worker'[v].req = worker[v].req, worker'[v].reply = worker[v].reply,
             worker'[v].total = worker[v].total, ~ EditEffect(worker[v].total)
      PROVE  TracedNext(worker'[v].total, worker'[v].req.payload)
  <2>1. Traced(worker[v].total, worker[v].req.payload)
    BY <1>0, <1>1, Zenon DEF PendingTraced
  <2>2. TracedNext(worker[v].total, worker[v].req.payload)
    BY <1>1, <2>1, TraceKept, Zenon
  <2> QED BY <1>1, <2>2, Zenon
<1>2. ASSUME NEW w \in Workers, InsertEffect(w), v = w
      PROVE  TracedNext(worker'[v].total, worker'[v].req.payload)
  <2>1. ~ Answers(w, "err")
    BY <1>2, Zenon DEF Answers, Moves
  <2>2. rules' = Put(rules, NextId, worker[w].req.payload) /\ worker'[w].total = NextId
        /\ worker'[w].req = worker[w].req
    BY <1>2, <2>1, Zenon DEF InsertEffect
  <2>3. NextId \in DOMAIN rules' /\ NextId \notin DOMAIN rules
    BY <2>2, NewId, Zenon DEF Put
  <2>4. Inserted(w)
    BY <1>2, <2>3, InsertTables, Zenon
  <2> QED BY <1>2, <2>2, <2>4, Zenon DEF Inserted, TracedNext, VerifyRuleSignature
<1>3. ASSUME NEW i \in DOMAIN rules \cup DOMAIN sigs, EditEffect(i)
      PROVE  TracedNext(worker'[v].total, worker'[v].req.payload)
  <2>1. /\ worker'[v].req = worker[v].req /\ worker'[v].reply = worker[v].reply
        /\ worker'[v].total = worker[v].total
        /\ worker[v].total = i => i \in DOMAIN rules' \cup DOMAIN sigs'
    BY <1>3, Zenon DEF EditEffect, SameWork
  <2>2. Traced(worker[v].total, worker[v].req.payload)
    BY <1>0, <2>1, Zenon DEF PendingTraced
  <2> QED BY <1>3, <2>1, <2>2 DEF EditEffect, Traced, TracedNext
<1>4. CASE \A i \in DOMAIN rules \cup DOMAIN sigs : ~ EditEffect(i)
  <2>1. worker[v].req.op = "insert" /\ worker[v].reply = "ok" /\ worker[v].total # 0
          => ~ EditEffect(worker[v].total)
    BY <1>0, <1>4, Zenon DEF PendingTraced, Traced
  <2>2. ASSUME NEW w \in Workers, WorkerEffect(w), v # w
        PROVE  /\ worker'[v].req = worker[v].req /\ worker'[v].reply = worker[v].reply
               /\ worker'[v].total = worker[v].total
    <3>1. CASE OwnEffect(w)
      BY <2>2, <3>1, Zenon DEF OwnEffect, ManageEffect, QueryEffect, ReadEffect, Answers, Moves, Own
    <3>2. CASE ReceiveEffect(w)
      BY <2>2, <3>2, Zenon DEF ReceiveEffect, Undoes, SameWork
    <3>3. CASE InsertEffect(w)
      BY <2>2, <3>3, Zenon DEF InsertEffect, SameWork, Answers, Moves, Own
    <3>4. CASE ReplyEffect(w)
      BY <2>2, <3>4, Zenon DEF ReplyEffect
    <3> QED BY <2>2, <3>1, <3>2, <3>3, <3>4, Zenon DEF WorkerEffect
  <2>3. ASSUME NEW w \in Workers, ReceiveEffect(w) \/ OwnEffect(w) \/ ReplyEffect(w), v = w PROVE FALSE
    <3>1. CASE OwnEffect(w)
      <4>1. worker'[w].req = worker[w].req
        BY <3>1, Zenon DEF OwnEffect, ManageEffect, QueryEffect, ReadEffect, Answers, Moves, Own
      <4>2. CASE ManageEffect(w)
        BY <1>0, <2>3, <4>1, <4>2, ZenonT(60) DEF ManageEffect, Answers, Moves, Handles
      <4>3. CASE QueryEffect(w)
        BY <1>0, <2>3, <4>1, <4>3 DEF QueryEffect, Answers, Moves, Handles
      <4>4. CASE ReadEffect(w)
        BY <1>0, <2>3, <4>1, <4>4, Zenon DEF ReadEffect, Answers, Moves, Handles, Reading
      <4> QED BY <3>1, <4>2, <4>3, <4>4, Zenon DEF OwnEffect
    <3>2. CASE ReceiveEffect(w)
      <4>1. worker'[w] = Idle \/ \E r \in Requests : Starts(w, r)
        BY <3>2, Zenon DEF ReceiveEffect
      <4>2. worker'[w].reply = "none"
        BY <4>1 DEF Starts, Idle
      <4> QED BY <2>3, <4>2, Zenon
    <3>3. CASE ReplyEffect(w)
      BY <2>3, <3>3 DEF ReplyEffect, Idle
    <3> QED BY <2>3, <3>1, <3>2, <3>3, Zenon
  <2>4. ASSUME InstallerEffect
        PROVE  /\ worker'[v].req = worker[v].req /\ worker'[v].reply = worker[v].reply
               /\ worker'[v].total = worker[v].total
    BY <2>4, Zenon DEF InstallerEffect, SameWork
  <2>5. ~ CrashEffect
    BY DEF CrashEffect, Idle
  <2> QED BY <1>1, <1>2, <1>4, <2>1, <2>2, <2>3, <2>4, <2>5, Zenon DEF Effect, WorkerEffect
<1> QED BY <1>3, <1>4, Zenon

\* A preparation keeps what it has to hand out.
LEMMA MustStep ==
    ASSUME Types, \A w \in Workers : Handles(w), Acks, Effect
    PROVE  \A v \in Workers : MustKept(v)'
<1> SUFFICES ASSUME NEW v \in Workers PROVE MustKept(v)'
  OBVIOUS
<1> DEFINE me == worker[v]
           you == worker'[v]
<1>0. MustKept(v) /\ Handles(v)
  BY Zenon DEF Acks
<1>1. ASSUME SameWork(you, me), DOMAIN you.must \subseteq DOMAIN me.must,
             \A j \in DOMAIN you.must :
                 /\ you.must[j] = me.must[j]
                 /\ Traced(j, me.must[j]) => TracedNext(j, me.must[j])
                 /\ j \in DOMAIN sigs => j \in DOMAIN sigs'
                 /\ j \in DOMAIN rules => j \in DOMAIN rules'
      PROVE  MustKept(v)'
  <2>1. you.pc \in {"list", "overrides", "unsigned", "orphan", "count", "select"} =>
              \A i \in DOMAIN you.must : TracedNext(i, you.must[i])
    BY <1>0, <1>1, Zenon DEF MustKept, SameWork
  <2>2. /\ you.pc \in {"orphan", "count", "select"} => DOMAIN you.must \subseteq DOMAIN sigs'
        /\ you.pc \in {"count", "select"} => DOMAIN you.must \subseteq DOMAIN rules'
    BY <1>0, <1>1, Zenon DEF MustKept, SameWork
  <2>3. \A j \in DOMAIN you.must :
            HandedOut(v, j) => \E o \in you.out : o.id = j /\ o.payload = you.must[j]
    BY <1>1, Zenon DEF HandedOut, SameWork
  <2>4. /\ you.pc = "verify" =>
              \A i \in DOMAIN you.must :
                  \/ i \in DOMAIN you.rows /\ you.rows[i].sig.over = you.must[i]
                  \/ \E o \in you.out : o.id = i /\ o.payload = you.must[i]
        /\ you.reply = "inputs" =>
              \A i \in DOMAIN you.must : \E o \in you.out : o.id = i /\ o.payload = you.must[i]
    BY <1>0, <1>1, <2>3, Zenon DEF MustKept, SameWork
  <2> QED BY <2>1, <2>2, <2>4, Zenon DEF MustKept, HandedOut, Traced, TracedNext
<1>2. ASSUME UNCHANGED <<rules, sigs>>, SameWork(you, me), you.must = me.must PROVE MustKept(v)'
  <2>1. \A j, p : Traced(j, p) => TracedNext(j, p)
    BY <1>2, Zenon DEF Traced, TracedNext
  <2> HIDE DEF me, you
  <2> QED BY <1>1, <1>2, <2>1, Zenon
<1>3. ASSUME you.pc \notin {"list", "overrides", "unsigned", "orphan", "count", "select", "verify"},
             you.reply # "inputs"
      PROVE  MustKept(v)'
  BY <1>3, Zenon DEF MustKept
<1>4. ASSUME NEW w \in Workers, ReceiveEffect(w) PROVE MustKept(v)'
  <2>1. CASE v = w
    <3>1. CASE you = Idle
      <4>1. you.pc = "idle" /\ you.reply = "none"
        BY <3>1 DEF Idle
      <4> QED BY <1>3, <4>1, Zenon
    <3>2. CASE \E r \in Requests : Starts(w, r)
      <4>1. /\ you.reply = "none"
            /\ you.pc \notin {"unsigned", "orphan", "count", "select", "verify"}
            /\ you.must \in {acked, Empty}
        BY <2>1, <3>2, Zenon DEF Starts
      <4>2. UNCHANGED <<rules, sigs>>
        BY <1>4, Zenon DEF ReceiveEffect
      <4>3. \A i \in DOMAIN you.must : TracedNext(i, you.must[i])
        BY <4>1, <4>2, EmptyTable, Zenon DEF Acks, AckedTraced, Traced, TracedNext
      <4> QED BY <4>1, <4>3, Zenon DEF MustKept, Traced, TracedNext
    <3> QED BY <1>4, <2>1, <3>1, <3>2, Zenon DEF ReceiveEffect
  <2>2. CASE v # w
    BY <1>2, <1>4, <2>2, Zenon DEF ReceiveEffect, Undoes
  <2> QED BY <2>1, <2>2, Zenon
<1>5. ASSUME NEW w \in Workers, OwnEffect(w) PROVE MustKept(v)'
  <2>0. UNCHANGED <<rules, sigs>>
    BY <1>5, Zenon DEF OwnEffect
  <2>1. CASE v = w
    <3>0. you.must = me.must
      BY <1>5, <2>1, Zenon
      DEF OwnEffect, ManageEffect, QueryEffect, ReadEffect, Answers, Moves, Own
    <3>4. \A j, p : Traced(j, p) => TracedNext(j, p)
      BY <2>0, Zenon DEF Traced, TracedNext
    <3>1. CASE ManageEffect(w)
      BY <1>0, <1>3, <2>1, <3>1, Zenon DEF ManageEffect, Answers, Moves, Handles
    <3>2. CASE QueryEffect(w)
      <4>1. CASE you.pc \in {"overrides", "unsigned"} /\ me.pc \in {"overrides", "list"} /\ you.reply # "inputs"
        <5>1. \A i \in DOMAIN you.must : TracedNext(i, you.must[i])
          BY <1>0, <3>0, <3>4, <4>1 DEF MustKept
        <5> QED BY <4>1, <5>1, Zenon DEF MustKept, Traced, TracedNext
      <4>2. \/ you.pc \in {"overrides", "unsigned"} /\ me.pc \in {"overrides", "list"} /\ you.reply # "inputs"
            \/ you.pc \in {"reply", "status_db"} /\ you.reply # "inputs"
        BY <1>0, <2>1, <3>2, Zenon DEF QueryEffect, Answers, Moves, Handles
      <4> QED BY <1>3, <4>1, <4>2, Zenon
    <3>3. CASE ReadEffect(w)
      <4>1. CASE you.pc = "reply" /\ you.reply = "refused"
        BY <1>3, <4>1, Zenon
      <4>2. CASE me.pc = "unsigned" /\ you.pc = "orphan"
        <5>1. DOMAIN rules \subseteq DOMAIN sigs /\ you.reply # "inputs"
          BY <1>0, <2>1, <3>3, <4>2, Zenon DEF ReadEffect, Answers, Moves, Handles
        <5>2. \A i \in DOMAIN you.must : TracedNext(i, you.must[i]) /\ i \in DOMAIN sigs'
          BY <1>0, <2>0, <3>0, <3>4, <4>2, <5>1 DEF MustKept, Traced
        <5> QED BY <4>2, <5>1, <5>2, Zenon DEF MustKept, Traced, TracedNext
      <4>3. CASE me.pc = "orphan" /\ you.pc = "count"
        <5>1. DOMAIN sigs \subseteq DOMAIN rules /\ you.reply # "inputs"
          BY <1>0, <2>1, <3>3, <4>3, Zenon DEF ReadEffect, Answers, Moves, Handles
        <5>2. \A i \in DOMAIN you.must :
                  TracedNext(i, you.must[i]) /\ i \in DOMAIN sigs' /\ i \in DOMAIN rules'
          BY <1>0, <2>0, <3>0, <3>4, <4>3, <5>1 DEF MustKept
        <5> QED BY <4>3, <5>1, <5>2, Zenon DEF MustKept, Traced, TracedNext
      <4>4. CASE me.pc = "count" /\ you.pc = "select"
        <5>1. you.reply # "inputs"
          BY <1>0, <2>1, <3>3, <4>4, Zenon DEF ReadEffect, Answers, Moves, Handles
        <5>2. \A i \in DOMAIN you.must :
                  TracedNext(i, you.must[i]) /\ i \in DOMAIN sigs' /\ i \in DOMAIN rules'
          BY <1>0, <2>0, <3>0, <3>4, <4>4 DEF MustKept
        <5> QED BY <4>4, <5>1, <5>2, Zenon DEF MustKept, Traced, TracedNext
      <4>5. CASE me.pc = "select" /\ you.pc = "verify"
        <5>1. /\ you.rows = [i \in DOMAIN rules \cap DOMAIN sigs |->
                                [payload |-> rules[i], sig |-> sigs[i]]]
              /\ you.reply # "inputs"
          BY <1>0, <2>1, <3>3, <4>5, Zenon DEF ReadEffect, Answers, Moves, Handles
        <5>2. \A i \in DOMAIN you.must :
                  i \in DOMAIN sigs /\ i \in DOMAIN rules /\ sigs[i].over = you.must[i]
          BY <1>0, <3>0, <4>5, Zenon DEF MustKept, Traced
        <5>3. \A i \in DOMAIN you.must : i \in DOMAIN you.rows /\ you.rows[i].sig.over = you.must[i]
          BY <5>1, <5>2
        <5> QED BY <4>5, <5>1, <5>3, Zenon DEF MustKept
      <4>6. CASE me.pc = "verify" /\ you.pc = "verify"
        <5> DEFINE k == FirstRow(w)
                   new == [id |-> k, payload |-> me.rows[k].payload, key |-> me.rows[k].sig.key]
        <5>1. /\ RowVerifies(w, me.rows[k]) /\ you.reply # "inputs"
              /\ DOMAIN you.rows = DOMAIN me.rows \ {k}
              /\ \A i \in DOMAIN you.rows : you.rows[i] = me.rows[i]
              /\ you.out = me.out \cup {new}
          BY <1>0, <2>1, <3>3, <4>6, Zenon DEF ReadEffect, Answers, Moves, Handles
        <5>2. me.rows[k].sig.over = me.rows[k].payload
          BY <5>1, Zenon DEF RowVerifies, VerifyRuleSignature
        <5>3. new.id = k /\ new.payload = me.rows[k].payload
          OBVIOUS
        <5> HIDE DEF new, k
        <5>4. \A i \in DOMAIN you.must :
                  \/ i \in DOMAIN you.rows /\ you.rows[i].sig.over = you.must[i]
                  \/ \E o \in you.out : o.id = i /\ o.payload = you.must[i]
          BY <1>0, <3>0, <4>6, <5>1, <5>2, <5>3 DEF MustKept, HandedOut
        <5> QED BY <4>6, <5>1, <5>4, Zenon DEF MustKept, HandedOut
      <4>7. CASE me.pc = "verify" /\ you.pc = "reply" /\ you.reply = "inputs"
        <5>1. DOMAIN me.rows = {} /\ you.out = me.out
          BY <1>0, <2>1, <3>3, <4>7, Zenon DEF ReadEffect, Answers, Moves, Handles
        <5>2. \A i \in DOMAIN you.must : \E o \in you.out : o.id = i /\ o.payload = you.must[i]
          BY <1>0, <3>0, <4>7, <5>1 DEF MustKept, HandedOut
        <5> QED BY <4>7, <5>2, Zenon DEF MustKept, HandedOut
      <4> QED BY <2>1, <3>3, <4>1, <4>2, <4>3, <4>4, <4>5, <4>6, <4>7, Zenon
                 DEF ReadEffect, Answers, Moves
    <3> QED BY <1>5, <3>1, <3>2, <3>3, Zenon DEF OwnEffect
  <2>2. CASE v # w
    <3>1. you = me
      BY <1>5, <2>2, Zenon
      DEF OwnEffect, ManageEffect, QueryEffect, ReadEffect, Answers, Moves, Own
    <3> QED BY <1>2, <2>0, <3>1, Zenon DEF SameWork
  <2> QED BY <2>1, <2>2
<1>6. ASSUME NEW w \in Workers, InsertEffect(w) PROVE MustKept(v)'
  <2>1. CASE v = w
    BY <1>3, <1>6, <2>1, Zenon DEF InsertEffect, Answers, Moves
  <2>2. CASE v # w
    <3>1. SameWork(you, me) /\ you.must = me.must
      BY <1>6, <2>2, Zenon DEF InsertEffect, Answers, Moves, Own, SameWork
    <3>2. /\ \A j, p : Traced(j, p) => TracedNext(j, p)
          /\ DOMAIN rules \subseteq DOMAIN rules' /\ DOMAIN sigs \subseteq DOMAIN sigs'
      <4>1. CASE Inserted(w)
        BY <4>1, Zenon DEF Inserted, Traced, TracedNext
      <4>2. CASE UNCHANGED <<rules, sigs>>
        BY <4>2, Zenon DEF Traced, TracedNext
      <4> QED BY <1>6, <4>1, <4>2, InsertTables, Zenon
    <3> HIDE DEF me, you
    <3> QED BY <1>1, <3>1, <3>2, Zenon
  <2> QED BY <2>1, <2>2
<1>7. ASSUME NEW w \in Workers, ReplyEffect(w) PROVE MustKept(v)'
  <2>1. CASE v = w
    <3>1. you.pc = "idle" /\ you.reply = "none"
      BY <1>7, <2>1 DEF ReplyEffect, Idle
    <3> QED BY <1>3, <3>1
  <2>2. CASE v # w
    BY <1>2, <1>7, <2>2, Zenon DEF ReplyEffect, SameWork
  <2> QED BY <2>1, <2>2
<1>8. CASE InstallerEffect
  BY <1>2, <1>8, Zenon DEF InstallerEffect
<1>9. CASE CrashEffect
  <2>1. you.pc = "idle" /\ you.reply = "none"
    BY <1>9 DEF CrashEffect, Idle
  <2> QED BY <1>3, <2>1, Zenon
<1>10. ASSUME NEW i \in DOMAIN rules \cup DOMAIN sigs, EditEffect(i) PROVE MustKept(v)'
  <2>1. SameWork(you, me) /\ DOMAIN you.must = DOMAIN me.must \ {i}
        /\ \A j \in DOMAIN you.must : you.must[j] = me.must[j]
    BY <1>10, Zenon DEF EditEffect
  <2>2. \A j, p : j # i /\ Traced(j, p) => TracedNext(j, p)
    BY <1>10, Zenon DEF EditEffect, Traced, TracedNext
  <2>3. \A j : j # i => (j \in DOMAIN sigs => j \in DOMAIN sigs') /\ (j \in DOMAIN rules => j \in DOMAIN rules')
    BY <1>10, Zenon DEF EditEffect
  <2> HIDE DEF me, you
  <2> QED BY <1>1, <2>1, <2>2, <2>3, Zenon
<1> QED BY <1>4, <1>5, <1>6, <1>7, <1>8, <1>9, <1>10, Zenon DEF Effect, WorkerEffect

-----------------------------------------------------------------------------
(* Listed keys                                                              *)

\* The other workers do not notice a step of one worker that changes only
\* itself and the overrides.
LEMMA OthersKept ==
    ASSUME NEW w \in Workers, OwnEffect(w), NEW v \in Workers, v # w
    PROVE  worker'[v] = worker[v]
BY Zenon DEF OwnEffect, ManageEffect, QueryEffect, ReadEffect, Answers, Moves, Own

\* A worker that is idle, or begins, has nothing to hand out yet.
LEMMA Begins ==
    ASSUME NEW w \in Workers, ReceiveEffect(w)
    PROVE  worker'[w] = Idle \/ \E r \in Requests : Starts(w, r)
BY Zenon DEF ReceiveEffect

\* What is handed out is of keys that were listed during the preparation.
LEMMA ListedStep ==
    ASSUME Types, \A w \in Workers : Handles(w), Listed, Effect PROVE Listed'
<1> SUFFICES ASSUME NEW v \in Workers PROVE KeysKept(v)'
  BY Zenon DEF Listed
<1> DEFINE me == worker[v]
           you == worker'[v]
<1>0. KeysKept(v) /\ Handles(v)
  BY Zenon DEF Listed
<1>1. ASSUME you = Idle PROVE KeysKept(v)'
  BY <1>1 DEF KeysKept, Idle
<1>2. ASSUME manifest' = manifest, you.req = me.req, you.out = me.out, me.keys \subseteq you.keys
      PROVE  KeysKept(v)'
  BY <1>0, <1>2, Zenon DEF KeysKept
<1>3. ASSUME you.req = me.req, you.out = me.out, \E raced : Learns(v, raced) PROVE KeysKept(v)'
  BY <1>0, <1>3, Zenon DEF KeysKept, Learns
<1>4. ASSUME NEW w \in Workers, ReceiveEffect(w) PROVE KeysKept(v)'
  <2>0. manifest' = manifest
    BY <1>4, Zenon DEF ReceiveEffect
  <2>1. CASE v = w
    <3>1. ASSUME NEW r \in Requests, Starts(w, r) PROVE KeysKept(v)'
      BY <2>0, <2>1, <3>1, Zenon DEF Starts, KeysKept
    <3> QED BY <1>1, <1>4, <2>1, <3>1, Begins, Zenon
  <2>2. CASE v # w
    BY <1>2, <1>4, <2>0, <2>2, Zenon DEF ReceiveEffect, Undoes, SameWork
  <2> QED BY <2>1, <2>2
<1>5. ASSUME NEW w \in Workers, OwnEffect(w) PROVE KeysKept(v)'
  <2>0. manifest' = manifest
    BY <1>5, Zenon DEF OwnEffect
  <2>1. CASE v = w
    <3>1. you.req = me.req /\ you.keys = me.keys
      BY <1>5, <2>1, Zenon
      DEF OwnEffect, ManageEffect, QueryEffect, ReadEffect, Answers, Moves, Own
    <3>2. CASE you.out = me.out
      BY <1>2, <2>0, <3>1, <3>2, Zenon
    <3>3. ASSUME NEW o, you.out = me.out \cup {o}, o.key \in manifest.keys PROVE KeysKept(v)'
      BY <1>0, <2>0, <3>1, <3>3, Zenon DEF KeysKept
    <3> DEFINE new == [id |-> FirstRow(w), payload |-> me.rows[FirstRow(w)].payload,
                       key |-> me.rows[FirstRow(w)].sig.key]
    <3>4. \/ you.out = me.out
          \/ RowVerifies(w, me.rows[FirstRow(w)]) /\ you.out = me.out \cup {new}
      BY <1>5, <2>1, Zenon
      DEF OwnEffect, ManageEffect, QueryEffect, ReadEffect, Answers, Moves, Own
    <3>5. RowVerifies(w, me.rows[FirstRow(w)]) => new.key \in manifest.keys
      BY Zenon DEF RowVerifies, TrustedManifestContains
    <3> HIDE DEF new
    <3> QED BY <3>2, <3>3, <3>4, <3>5
  <2>2. CASE v # w
    BY <1>2, <1>5, <2>0, <2>2, OthersKept, Zenon
  <2> QED BY <2>1, <2>2
<1>6. ASSUME NEW w \in Workers, InsertEffect(w) PROVE KeysKept(v)'
  <2>1. manifest' = manifest
    BY <1>6, Zenon DEF InsertEffect
  <2>2. you.req = me.req /\ you.out = me.out /\ me.keys \subseteq you.keys
    BY <1>6, Zenon DEF InsertEffect, Answers, Moves, Own, SameWork, Learns
  <2> QED BY <1>2, <2>1, <2>2, Zenon
<1>7. ASSUME NEW w \in Workers, ReplyEffect(w) PROVE KeysKept(v)'
  BY <1>1, <1>2, <1>7, Zenon DEF ReplyEffect
<1>8. CASE InstallerEffect
  BY <1>3, <1>8, Zenon DEF InstallerEffect, SameWork
<1>9. CASE CrashEffect
  BY <1>1, <1>9, Zenon DEF CrashEffect
<1>10. ASSUME NEW i \in DOMAIN rules \cup DOMAIN sigs, EditEffect(i) PROVE KeysKept(v)'
  BY <1>3, <1>10, Zenon DEF EditEffect, SameWork
<1> QED BY <1>4, <1>5, <1>6, <1>7, <1>8, <1>9, <1>10, Zenon DEF Effect, WorkerEffect

-----------------------------------------------------------------------------
(* Disabled curated rules                                                   *)

\* What was disabled stays disabled until somebody asks to enable it.
LEMMA OffsStep ==
    ASSUME Types, \A w \in Workers : Handles(w), Offs, Effect PROVE Offs'
<1>0. /\ off \subseteq overrides
      /\ \A w \in Workers : EnablingKnown(w) /\ OffKept(w) /\ Handles(w)
  BY Zenon DEF Offs
<1>1. ASSUME off' = off, overrides' = overrides,
             \A v \in Workers : /\ SameWork(worker'[v], worker[v])
                                /\ worker'[v].mustOff = worker[v].mustOff
                                /\ worker[v].excuse \subseteq worker'[v].excuse
      PROVE  Offs'
  <2>1. ASSUME NEW v \in Workers PROVE OffKept(v)'
    BY <1>0, <1>1, Zenon DEF OffKept, SameWork
  <2>2. ASSUME NEW v \in Workers PROVE EnablingKnown(v)'
    BY <1>0, <1>1 DEF EnablingKnown, SameWork
  <2> QED BY <1>0, <1>1, <2>1, <2>2, Zenon DEF Offs
<1>4. ASSUME NEW w \in Workers, ReceiveEffect(w) PROVE Offs'
  <2>0. overrides' = overrides
    BY <1>4, Zenon DEF ReceiveEffect
  <2>1. CASE worker'[w] = Idle /\ Undoes(w, {}) /\ off' = off
    <3>1. ASSUME NEW v \in Workers PROVE OffKept(v)' /\ EnablingKnown(v)'
      BY <1>0, <2>0, <2>1 DEF OffKept, EnablingKnown, Undoes, SameWork, Idle, Asking, Reading
    <3> QED BY <1>0, <2>0, <2>1, <3>1, Zenon DEF Offs
  <2>2. ASSUME NEW r \in Requests, Starts(w, r), r.op = "enable", Undoes(w, {r.payload.pattern}),
               off' = off \ {r.payload.pattern}
        PROVE  Offs'
    <3> DEFINE p == r.payload.pattern
    <3>1. /\ worker'[w].req = r /\ worker'[w].mustOff = {} /\ worker'[w].pc = "trust_db"
          /\ worker'[w].reply = "none"
      BY <2>2, Zenon DEF Starts
    <3>2. ASSUME NEW v \in Workers, v # w
          PROVE  /\ SameWork(worker'[v], worker[v]) /\ worker'[v].mustOff = worker[v].mustOff \ {p}
                 /\ worker[v].excuse \subseteq worker'[v].excuse
                 /\ worker[v].req.op = "disable" /\ worker[v].req.payload.pattern = p
                    => "enabled" \in worker'[v].excuse
      BY <2>2, <3>2, Zenon DEF Undoes
    <3>3. ASSUME NEW v \in Workers PROVE OffKept(v)'
      <4>1. CASE v = w
        BY <2>2, <3>1, <4>1, Zenon DEF OffKept, Reading
      <4>2. CASE v # w
        BY <1>0, <2>0, <3>2, <4>2, Zenon DEF OffKept, SameWork
      <4> QED BY <4>1, <4>2, Zenon
    <3>4. ASSUME NEW v \in Workers PROVE EnablingKnown(v)'
      <4>1. CASE v = w
        BY <2>2, <3>1, <3>2, <4>1, SMTT(30) DEF EnablingKnown, SameWork
      <4>2. CASE v # w
        <5>1. EnablingKnown(v) /\ SameWork(worker'[v], worker[v])
          BY <1>0, <3>2, <4>2, Zenon
        <5> QED BY <2>2, <3>1, <3>2, <5>1 DEF EnablingKnown, SameWork
      <4> QED BY <4>1, <4>2
    <3> QED BY <1>0, <2>0, <2>2, <3>3, <3>4, Zenon DEF Offs
  <2>3. ASSUME NEW r \in Requests, Starts(w, r), r.op # "enable", Undoes(w, {}), off' = off
        PROVE  Offs'
    <3>1. /\ worker'[w].req = r /\ worker'[w].mustOff \subseteq off /\ worker'[w].reply = "none"
          /\ worker'[w].pc \in {"trust_db", "overrides", "list", "status"}
      BY <2>3, Zenon DEF Starts
    <3>2. ASSUME NEW v \in Workers, v # w
          PROVE  /\ SameWork(worker'[v], worker[v]) /\ worker'[v].mustOff = worker[v].mustOff
                 /\ worker[v].excuse \subseteq worker'[v].excuse
      BY <2>3, <3>2, Zenon DEF Undoes
    <3>3. ASSUME NEW v \in Workers PROVE OffKept(v)'
      <4>1. CASE v = w
        BY <1>0, <2>0, <2>3, <3>1, <4>1, Zenon DEF OffKept, Reading
      <4>2. CASE v # w
        BY <1>0, <2>0, <3>2, <4>2, Zenon DEF OffKept, SameWork
      <4> QED BY <4>1, <4>2
    <3>4. ASSUME NEW v \in Workers, worker[v].req.op = "enable", r.op = "disable",
                 worker[v].req.payload.pattern = r.payload.pattern
          PROVE  "enabled" \in worker'[w].excuse
      BY <2>3, <3>4, Zenon DEF Starts
    <3>5. ASSUME NEW v \in Workers PROVE EnablingKnown(v)'
      <4>1. CASE v = w
        BY <2>3, <3>1, <4>1 DEF EnablingKnown
      <4>2. CASE v # w
        <5>1. EnablingKnown(v) /\ SameWork(worker'[v], worker[v])
          BY <1>0, <3>2, <4>2, Zenon
        <5> QED BY <2>3, <3>1, <3>2, <3>4, <5>1 DEF EnablingKnown, SameWork
      <4> QED BY <4>1, <4>2
    <3> QED BY <1>0, <2>0, <2>3, <3>3, <3>5, Zenon DEF Offs
  <2> QED BY <1>4, <2>1, <2>2, <2>3, Zenon DEF ReceiveEffect
<1>5. ASSUME NEW w \in Workers, OwnEffect(w) PROVE Offs'
  <2>1. /\ off' = off /\ worker'[w].req = worker[w].req
        /\ worker'[w].excuse = worker[w].excuse
        /\ worker'[w].mustOff \subseteq worker[w].mustOff
        /\ worker'[w].pc \in Asking => worker[w].pc \in Asking
    BY <1>5, Zenon
    DEF OwnEffect, ManageEffect, QueryEffect, ReadEffect, Answers, Moves, Own, Asking
  <2>2. \A v \in Workers \ {w} : worker'[v] = worker[v]
    BY <1>5, OthersKept, Zenon
  <2>3. ASSUME NEW v \in Workers PROVE EnablingKnown(v)'
    <3>1. /\ \A u \in Workers : /\ worker'[u].req = worker[u].req
                                /\ worker'[u].excuse = worker[u].excuse
                                /\ worker'[u].mustOff \subseteq worker[u].mustOff
          /\ worker'[v].pc \in Asking => worker[v].pc \in Asking
      BY <2>1, <2>2, Zenon
    <3> QED BY <1>0, <2>1, <3>1 DEF EnablingKnown
  <2>4. CASE overrides \subseteq overrides'
    <3>1. off' \subseteq overrides'
      BY <1>0, <2>1, <2>4, Zenon
    <3>2. ASSUME NEW v \in Workers, v # w PROVE OffKept(v)'
      BY <1>0, <2>2, <2>4, <3>2, Zenon DEF OffKept
    <3>3. OffKept(w)'
      <4>1. CASE ManageEffect(w)
        BY <1>0, <2>1, <2>4, <4>1, Zenon DEF ManageEffect, Answers, Moves, OffKept, Reading, Handles
      <4>2. CASE QueryEffect(w)
        BY <1>0, <2>1, <2>4, <4>2, Zenon DEF QueryEffect, Answers, Moves, OffKept, Reading, Handles
      <4>3. CASE ReadEffect(w)
        BY <1>0, <2>1, <2>4, <4>3, Zenon DEF ReadEffect, Answers, Moves, OffKept, Reading, Handles
      <4> QED BY <1>5, <4>1, <4>2, <4>3, Zenon DEF OwnEffect
    <3> QED BY <2>3, <3>1, <3>2, <3>3, Zenon DEF Offs
  <2>5. CASE ~ (overrides \subseteq overrides')
    <3>1. /\ worker[w].pc = "write" /\ worker[w].req.op = "enable"
          /\ overrides' = overrides \ {worker[w].req.payload.pattern}
          /\ worker'[w].pc = "reply" /\ worker'[w].reply = "ok"
      BY <1>5, <2>5, Zenon DEF OwnEffect, ManageEffect, QueryEffect, ReadEffect, Answers, Moves
    <3>2. /\ worker[w].req.payload.pattern \notin off
          /\ \A v \in Workers :
                /\ worker[w].req.payload.pattern \notin worker[v].mustOff
                /\ worker[v].req.op = "disable"
                   /\ worker[v].req.payload.pattern = worker[w].req.payload.pattern
                   => "enabled" \in worker[v].excuse
      BY <1>0, <3>1, Zenon DEF EnablingKnown, Asking
    <3>3. off' \subseteq overrides'
      BY <1>0, <2>1, <3>1, <3>2, Zenon
    <3>4. ASSUME NEW v \in Workers, v # w PROVE OffKept(v)'
      BY <1>0, <2>2, <3>1, <3>2, <3>4, Zenon DEF OffKept
    <3>5. OffKept(w)'
      BY <2>1, <3>1, Zenon DEF OffKept, Reading
    <3> QED BY <2>3, <3>3, <3>4, <3>5 DEF Offs
  <2> QED BY <2>4, <2>5, Zenon
<1>6. ASSUME NEW w \in Workers, InsertEffect(w) PROVE Offs'
  <2>1. /\ off' = off /\ overrides' = overrides
        /\ \A v \in Workers : /\ worker'[v].mustOff = worker[v].mustOff
                              /\ worker[v].excuse \subseteq worker'[v].excuse
                              /\ worker'[v].req = worker[v].req
        /\ \A v \in Workers \ {w} : SameWork(worker'[v], worker[v])
        /\ worker[w].req.op = "insert" /\ worker'[w].pc = "reply"
        /\ worker'[w].reply \in {"ok", "err"}
    BY <1>6, Zenon DEF InsertEffect, Answers, Moves, Own, SameWork, Learns
  <2>2. ASSUME NEW v \in Workers PROVE OffKept(v)'
    BY <1>0, <2>1, Zenon DEF OffKept, SameWork, Reading
  <2>3. ASSUME NEW v \in Workers PROVE EnablingKnown(v)'
    BY <1>0, <2>1 DEF EnablingKnown, SameWork
  <2> QED BY <1>0, <2>1, <2>2, <2>3, Zenon DEF Offs
<1>7. ASSUME NEW w \in Workers, ReplyEffect(w) PROVE Offs'
  <2>1. /\ overrides' = overrides /\ \A v \in Workers \ {w} : worker'[v] = worker[v]
        /\ worker'[w].pc = "idle" /\ worker'[w].req.op = "none" /\ worker'[w].mustOff = {}
        /\ worker'[w].reply = "none" /\ worker[w].pc = "reply"
    BY <1>7 DEF ReplyEffect, Idle
  <2>2. ASSUME NEW v \in Workers PROVE OffKept(v)'
    BY <1>0, <2>1, Zenon DEF OffKept, Reading
  <2>3. \/ off' = off
        \/ /\ worker[w].req.op = "disable" /\ worker[w].reply = "ok"
           /\ "enabled" \notin worker[w].excuse /\ off' = off \cup {worker[w].req.payload.pattern}
    BY <1>7, Zenon DEF ReplyEffect
  <2>4. ASSUME NEW v \in Workers PROVE EnablingKnown(v)'
    BY <1>0, <2>1, <2>3, Zenon DEF EnablingKnown, Asking
  <2>5. off' \subseteq overrides'
    BY <1>0, <2>1, <2>3, Zenon DEF OffKept
  <2> QED BY <2>2, <2>4, <2>5, Zenon DEF Offs
<1>8. CASE InstallerEffect
  BY <1>1, <1>8, Zenon DEF InstallerEffect, Learns
<1>9. CASE CrashEffect
  <2>1. \A v \in Workers : worker'[v].pc = "idle" /\ worker'[v].req.op = "none"
                           /\ worker'[v].reply = "none"
    BY <1>9 DEF CrashEffect, Idle
  <2>2. \A v \in Workers : OffKept(v)' /\ EnablingKnown(v)'
    BY <2>1, Zenon DEF OffKept, EnablingKnown, Reading, Asking
  <2> QED BY <1>0, <1>9, <2>2, Zenon DEF Offs, CrashEffect
<1>10. ASSUME NEW i \in DOMAIN rules \cup DOMAIN sigs, EditEffect(i) PROVE Offs'
  BY <1>1, <1>10, Zenon DEF EditEffect, Learns
<1> QED BY <1>4, <1>5, <1>6, <1>7, <1>8, <1>9, <1>10, Zenon DEF Effect, WorkerEffect

-----------------------------------------------------------------------------
(* Causes of a refusal                                                      *)

\* The causes are a matter of the store, the manifest and the edits.
LEMMA SameExcuses ==
    ASSUME UNCHANGED <<rules, sigs, signers, manifest>>, spent'.edited = spent.edited
    PROVE  Excuses' = Excuses
BY Zenon DEF Excuses

\* An edit is a cause.
LEMMA EditExcuses == ASSUME spent'.edited = "yes" PROVE "edited" \in Excuses'
BY Zenon DEF Excuses

\* A store without a cause for refusing has complete rows, all of them by
\* signers that are listed and enrolled.
LEMMA NoExcuse ==
    ASSUME Types, OwnWrites, Excuses = {}
    PROVE  /\ DOMAIN rules = DOMAIN sigs /\ manifest.file = "regular"
           /\ \A i \in DOMAIN sigs : /\ sigs[i].key \in manifest.keys /\ sigs[i].key \in signers
                                     /\ VerifyRuleSignature(rules[i], sigs[i])
<1>1. spent.edited = "no"
  <2>1. spent.edited \in {"no", "yes"}
    BY Zenon DEF Types
  <2> QED BY <2>1, Zenon DEF Excuses
<1>2. \A i \in DOMAIN rules \ DOMAIN sigs : rules[i] \notin UNION Legacy
  BY Zenon DEF Excuses
<1>3. manifest.file = "regular" /\ \A i \in DOMAIN sigs : sigs[i].key \in manifest.keys \cap signers
  BY Zenon DEF Excuses
<1>4. /\ DOMAIN sigs \subseteq DOMAIN rules
      /\ \A i \in DOMAIN rules \ DOMAIN sigs : rules[i] \in UNION Legacy
      /\ \A i \in DOMAIN sigs : VerifyRuleSignature(rules[i], sigs[i])
  BY <1>1, Zenon DEF OwnWrites
<1> QED BY <1>2, <1>3, <1>4, Zenon

\* The daemon alone leaves complete and verifiable rows.
LEMMA OwnWritesStep ==
    ASSUME Types, \A w \in Workers : Handles(w), OwnWrites, Effect PROVE OwnWrites'
<1>1. ASSUME UNCHANGED <<rules, sigs>>, spent'.edited = spent.edited PROVE OwnWrites'
  BY <1>1, Zenon DEF OwnWrites
<1>2. ASSUME spent'.edited = "yes" PROVE OwnWrites'
  BY <1>2, Zenon DEF OwnWrites
<1>3. ASSUME NEW w \in Workers, InsertEffect(w) PROVE OwnWrites'
  <2>1. CASE Inserted(w)
    <3>1. spent' = spent
      BY <1>3, Zenon DEF InsertEffect
    <3> QED BY <2>1, <3>1, Zenon DEF OwnWrites, Inserted
  <2> QED BY <1>1, <1>3, <2>1, InsertTables, Zenon DEF InsertEffect
<1>4. ASSUME NEW w \in Workers, WorkerEffect(w) PROVE OwnWrites'
  BY <1>1, <1>3, <1>4, Zenon DEF WorkerEffect, ReceiveEffect, OwnEffect, ReplyEffect
<1>5. CASE InstallerEffect
  BY <1>1, <1>5, Zenon DEF InstallerEffect
<1>6. CASE CrashEffect
  BY <1>1, <1>6 DEF CrashEffect
<1>7. ASSUME NEW i \in DOMAIN rules \cup DOMAIN sigs, EditEffect(i) PROVE OwnWrites'
  BY <1>2, <1>7, Zenon DEF EditEffect
<1> QED BY <1>4, <1>5, <1>6, <1>7, Zenon DEF Effect

\* A preparation knows of every cause there was since it began.
LEMMA CausesStep ==
    ASSUME Types, \A w \in Workers : Handles(w) /\ CausesKept(w), Effect, NEW v \in Workers
    PROVE  CausesKept(v)'
<1> DEFINE me == worker[v]
           you == worker'[v]
<1>1. ASSUME you = Idle PROVE CausesKept(v)'
  BY <1>1 DEF CausesKept, Idle
<1>2. ASSUME Excuses' = Excuses, you.req = me.req, me.excuse \subseteq you.excuse PROVE CausesKept(v)'
  BY <1>2, Zenon DEF CausesKept
<1>3. ASSUME you.req = me.req, NEW raced, Learns(v, raced) PROVE CausesKept(v)'
  BY <1>3, Zenon DEF CausesKept, Learns
<1>4. ASSUME NEW w \in Workers, ReceiveEffect(w) PROVE CausesKept(v)'
  <2>0. Excuses' = Excuses
    BY <1>4, SameExcuses, Zenon DEF ReceiveEffect
  <2>1. CASE v = w
    <3>1. ASSUME NEW r \in Requests, Starts(w, r) PROVE CausesKept(v)'
      BY <2>0, <2>1, <3>1, Zenon DEF Starts, CausesKept
    <3> QED BY <1>1, <1>4, <2>1, <3>1, Begins
  <2>2. CASE v # w
    BY <1>2, <1>4, <2>0, <2>2, Zenon DEF ReceiveEffect, Undoes, SameWork
  <2> QED BY <2>1, <2>2, Zenon
<1>5. ASSUME NEW w \in Workers, OwnEffect(w) PROVE CausesKept(v)'
  <2>0. Excuses' = Excuses
    BY <1>5, SameExcuses, Zenon DEF OwnEffect
  <2>1. CASE v = w
    <3>1. you.req = me.req /\ you.excuse = me.excuse
      BY <1>5, <2>1, Zenon
      DEF OwnEffect, ManageEffect, QueryEffect, ReadEffect, Answers, Moves, Own
    <3> QED BY <1>2, <2>0, <3>1, Zenon
  <2>2. CASE v # w
    BY <1>2, <1>5, <2>0, <2>2, OthersKept, Zenon
  <2> QED BY <2>1, <2>2
<1>6. ASSUME NEW w \in Workers, InsertEffect(w) PROVE CausesKept(v)'
  <2>1. CASE Answers(w, "err") /\ UNCHANGED <<rules, sigs>>
    <3>1. Excuses' = Excuses
      BY <1>6, <2>1, SameExcuses, Zenon DEF InsertEffect
    <3> QED BY <1>2, <2>1, <3>1, Zenon DEF Answers, Moves, Own
  <2>2. CASE ~ (Answers(w, "err") /\ UNCHANGED <<rules, sigs>>)
    <3>1. you.req = me.req /\ \E raced : Learns(v, raced)
      BY <1>6, <2>2, Zenon DEF InsertEffect, SameWork
    <3> QED BY <1>3, <3>1, Zenon
  <2> QED BY <2>1, <2>2, Zenon
<1>7. ASSUME NEW w \in Workers, ReplyEffect(w) PROVE CausesKept(v)'
  <2>0. Excuses' = Excuses
    BY <1>7, SameExcuses, Zenon DEF ReplyEffect
  <2> QED BY <1>1, <1>2, <1>7, <2>0, Zenon DEF ReplyEffect
<1>8. CASE InstallerEffect
  BY <1>3, <1>8, Zenon DEF InstallerEffect, SameWork
<1>9. CASE CrashEffect
  BY <1>1, <1>9, Zenon DEF CrashEffect
<1>10. ASSUME NEW i \in DOMAIN rules \cup DOMAIN sigs, EditEffect(i) PROVE CausesKept(v)'
  BY <1>3, <1>10, Zenon DEF EditEffect, SameWork
<1> QED BY <1>4, <1>5, <1>6, <1>7, <1>8, <1>9, <1>10, ZenonT(60) DEF Effect, WorkerEffect

\* The rows of the store are finitely many.
LEMMA FiniteRows == ASSUME Types PROVE IsFiniteSet(DOMAIN rules) /\ IsFiniteSet(DOMAIN rules \cap DOMAIN sigs)
<1>1. IsFiniteSet(1 .. MaxRequests + 1)
  BY RuleStoreAssumption, FS_Interval
<1>2. DOMAIN rules \subseteq 1 .. MaxRequests + 1 /\ DOMAIN rules \cap DOMAIN sigs \subseteq 1 .. MaxRequests + 1
  BY Zenon DEF Types
<1> QED BY <1>1, <1>2, FS_Subset, Zenon

\* A row that verifies moves from the rows to read to the rules handed out, and
\* so the number of both together stays.
LEMMA RowMoves ==
    ASSUME NEW R, NEW out, NEW i \in R, NEW o, o.id = i, IsFiniteSet(R), IsFiniteSet(out),
           \A q \in out : q.id \notin R
    PROVE  /\ IsFiniteSet(R \ {i}) /\ IsFiniteSet(out \cup {o})
           /\ \A q \in out \cup {o} : q.id \notin R \ {i}
           /\ Cardinality(out \cup {o}) + Cardinality(R \ {i}) = Cardinality(out) + Cardinality(R)
<1>1. IsFiniteSet(R \ {i}) /\ Cardinality(R \ {i}) = Cardinality(R) - 1
  BY FS_RemoveElement, Zenon
<1>2. o \notin out
  OBVIOUS
<1>3. IsFiniteSet(out \cup {o}) /\ Cardinality(out \cup {o}) = Cardinality(out) + 1
  BY <1>2, FS_AddElement, Zenon
<1>4. Cardinality(R) \in Nat /\ Cardinality(out) \in Nat
  BY FS_CardinalityType, Zenon
<1>5. Cardinality(out \cup {o}) + Cardinality(R \ {i}) = Cardinality(out) + Cardinality(R)
  BY <1>1, <1>3, <1>4
<1>6. \A q \in out \cup {o} : q.id \notin R \ {i}
  OBVIOUS
<1> QED BY <1>1, <1>3, <1>5, <1>6, Zenon

\* A step of the preparation itself.
LEMMA ReadCounts ==
    ASSUME Types, NEW v \in Workers, Handles(v), OwnWrites, CausesKept(v), Counted(v), RowsKept(v),
           UNCHANGED <<rules, sigs, signers, manifest, spent>>, ReadEffect(v)
    PROVE  Counted(v)' /\ RowsKept(v)'
<1> DEFINE me == worker[v]
           you == worker'[v]
<1>0. /\ me.pc \in Reading => Excuses \subseteq me.excuse
      /\ me.pc # "reply" => me.reply = "none"
      /\ me.pc = "select" => me.out = {}
  BY Zenon DEF Handles, CausesKept
<1>1. ASSUME Answers(v, "refused"), me.excuse # {} PROVE Counted(v)' /\ RowsKept(v)'
  BY <1>1, Zenon DEF Answers, Moves, Own, Counted, RowsKept
<1>2. CASE me.pc = "unsigned"
  <2>1. CASE DOMAIN rules \subseteq DOMAIN sigs
    BY <1>0, <1>2, <2>1, Zenon DEF ReadEffect, Moves, Counted, RowsKept
  <2>2. CASE ~ (DOMAIN rules \subseteq DOMAIN sigs)
    <3>1. me.excuse # {}
      BY <1>0, <1>2, <2>2, NoExcuse, Zenon DEF Reading
    <3> QED BY <1>1, <1>2, <2>2, <3>1, Zenon DEF ReadEffect
  <2> QED BY <2>1, <2>2, Zenon
<1>3. CASE me.pc = "orphan"
  <2>1. CASE DOMAIN sigs \subseteq DOMAIN rules
    BY <1>0, <1>3, <2>1, Zenon DEF ReadEffect, Moves, Counted, RowsKept
  <2>2. CASE ~ (DOMAIN sigs \subseteq DOMAIN rules)
    <3>1. me.excuse # {}
      BY <1>0, <1>3, <2>2, NoExcuse, Zenon DEF Reading
    <3> QED BY <1>1, <1>3, <2>2, <3>1, Zenon DEF ReadEffect
  <2> QED BY <2>1, <2>2, Zenon
<1>4. CASE me.pc = "count"
  <2>1. you.pc = "select" /\ you.reply = "none" /\ you.total = Cardinality(DOMAIN rules)
    BY <1>0, <1>4, Zenon DEF ReadEffect
  <2> QED BY <2>1, Zenon DEF Counted, RowsKept
<1>5. CASE me.pc = "select"
  <2>1. /\ you.pc = "verify" /\ you.reply = "none" /\ you.out = {} /\ you.total = me.total
        /\ you.excuse = me.excuse /\ you.known = signers
        /\ you.rows = [i \in DOMAIN rules \cap DOMAIN sigs |-> [payload |-> rules[i], sig |-> sigs[i]]]
    BY <1>0, <1>5, Zenon DEF ReadEffect, Own
  <2>2. DOMAIN you.rows = DOMAIN rules \cap DOMAIN sigs
    BY <2>1, Zenon
  <2>3. \A i \in DOMAIN you.rows : you.rows[i].payload = rules[i] /\ you.rows[i].sig = sigs[i]
    <3> DEFINE R == you.rows
    <3>1. R = [i \in DOMAIN rules \cap DOMAIN sigs |-> [payload |-> rules[i], sig |-> sigs[i]]]
      BY <2>1, Zenon
    <3> HIDE DEF R
    <3>2. \A i \in DOMAIN R : R[i].payload = rules[i] /\ R[i].sig = sigs[i]
      BY ONLY <3>1
    <3> QED BY <3>2, Zenon DEF R
  <2>4. IsFiniteSet(DOMAIN you.rows) /\ IsFiniteSet(you.out) /\ Cardinality(you.out) = 0
    BY <2>1, <2>2, FiniteRows, FS_EmptySet, Zenon
  <2>5. ASSUME you.excuse = {} PROVE Cardinality(DOMAIN you.rows) = you.total /\ Excuses = {}
    <3>1. Excuses = {}
      BY <1>0, <1>5, <2>1, <2>5, Zenon DEF Reading
    <3>2. DOMAIN you.rows = DOMAIN rules
      BY <2>2, <3>1, NoExcuse, Zenon
    <3> QED BY <1>5, <2>1, <2>5, <3>1, <3>2, Zenon DEF Counted
  <2>6. Counted(v)'
    <3>1. Cardinality(DOMAIN you.rows) \in Nat
      BY <2>4, FS_CardinalityType, Zenon
    <3> QED BY <2>1, <2>4, <2>5, <3>1 DEF Counted
  <2>7. RowsKept(v)'
    <3>1. CASE you.excuse = {}
      <4>1. \A i \in DOMAIN sigs : sigs[i].key \in signers /\ VerifyRuleSignature(rules[i], sigs[i])
        BY <2>5, <3>1, NoExcuse, Zenon
      <4> QED BY <2>1, <2>2, <2>3, <4>1, Zenon DEF RowsKept
    <3>2. CASE you.excuse # {}
      BY <2>1, <3>2, Zenon DEF RowsKept
    <3> QED BY <3>1, <3>2, Zenon
  <2> QED BY <2>6, <2>7, Zenon
<1>6. CASE me.pc = "verify" /\ DOMAIN me.rows # {}
  <2> DEFINE first == FirstRow(v)
             row == me.rows[first]
             new == [id |-> first, payload |-> row.payload, key |-> row.sig.key]
  <2>1. CASE RowVerifies(v, row)
    <3>1. /\ you.pc = "verify" /\ you.reply = "none" /\ you.excuse = me.excuse
          /\ you.total = me.total /\ you.known = me.known /\ first \in DOMAIN me.rows
          /\ DOMAIN you.rows = DOMAIN me.rows \ {first}
          /\ \A i \in DOMAIN you.rows : you.rows[i] = me.rows[i]
          /\ you.out = me.out \cup {new}
      BY <1>0, <1>6, <2>1, Zenon DEF ReadEffect, Own
    <3>2. new.id = first
      OBVIOUS
    <3> HIDE DEF new, first
    <3>3. /\ IsFiniteSet(DOMAIN me.rows) /\ IsFiniteSet(me.out)
          /\ \A o \in me.out : o.id \notin DOMAIN me.rows
          /\ me.excuse = {} => Cardinality(me.out) + Cardinality(DOMAIN me.rows) = me.total
      BY <1>6, Zenon DEF Counted
    <3>4. /\ IsFiniteSet(DOMAIN you.rows) /\ IsFiniteSet(you.out)
          /\ \A o \in you.out : o.id \notin DOMAIN you.rows
          /\ Cardinality(you.out) + Cardinality(DOMAIN you.rows)
               = Cardinality(me.out) + Cardinality(DOMAIN me.rows)
      <4>1. /\ IsFiniteSet(DOMAIN me.rows \ {first}) /\ IsFiniteSet(me.out \cup {new})
            /\ \A q \in me.out \cup {new} : q.id \notin DOMAIN me.rows \ {first}
            /\ Cardinality(me.out \cup {new}) + Cardinality(DOMAIN me.rows \ {first})
                 = Cardinality(me.out) + Cardinality(DOMAIN me.rows)
        <5> DEFINE R == DOMAIN me.rows
                   O == me.out
        <5>1. /\ first \in R /\ IsFiniteSet(R) /\ IsFiniteSet(O)
              /\ \A q \in O : q.id \notin R
          BY <3>1, <3>3, Zenon
        <5> HIDE DEF R, O
        <5>2. /\ IsFiniteSet(R \ {first}) /\ IsFiniteSet(O \cup {new})
              /\ \A q \in O \cup {new} : q.id \notin R \ {first}
              /\ Cardinality(O \cup {new}) + Cardinality(R \ {first}) = Cardinality(O) + Cardinality(R)
          BY ONLY <3>2, <5>1, RowMoves, Zenon
        <5> QED BY <5>2, Zenon DEF R, O
      <4> QED BY <3>1, <4>1, Zenon
    <3>5. Counted(v)'
      BY <3>1, <3>3, <3>4, Zenon DEF Counted
    <3>6. RowsKept(v)'
      BY <1>6, <3>1, Zenon DEF RowsKept
    <3> QED BY <3>5, <3>6
  <2>2. CASE ~ RowVerifies(v, row)
    <3>1. first \in DOMAIN me.rows /\ Answers(v, "refused")
      BY <1>6, <2>2, Zenon DEF ReadEffect
    <3>2. ASSUME me.excuse = {} PROVE FALSE
      <4>1. /\ row.sig.key \in me.known /\ first \in DOMAIN sigs /\ sigs[first] = row.sig
            /\ VerifyRuleSignature(row.payload, row.sig)
        BY <1>6, <3>1, <3>2, Zenon DEF RowsKept
      <4>2. Excuses = {}
        BY <1>0, <1>6, <3>2, Zenon DEF Reading
      <4>3. manifest.file = "regular" /\ row.sig.key \in manifest.keys
        BY <4>1, <4>2, NoExcuse, Zenon
      <4> QED BY <2>2, <4>1, <4>3, Zenon DEF RowVerifies, TrustedManifestContains
    <3> QED BY <1>1, <3>1, <3>2, Zenon
  <2> QED BY <2>1, <2>2, Zenon
<1>7. CASE me.pc = "verify" /\ DOMAIN me.rows = {}
  <2>1. CASE Answers(v, "inputs")
    BY <2>1, Zenon DEF Answers, Moves, Counted, RowsKept
  <2>2. CASE Answers(v, "refused") /\ Cardinality(me.out) # me.total
    <3>1. ASSUME me.excuse = {} PROVE FALSE
      <4>1. Cardinality(me.out) + Cardinality({}) = me.total /\ IsFiniteSet(me.out)
        BY <1>7, <3>1, Zenon DEF Counted
      <4>2. Cardinality({}) = 0 /\ Cardinality(me.out) \in Nat
        BY <4>1, FS_EmptySet, FS_CardinalityType, Zenon
      <4> QED BY <2>2, <4>1, <4>2
    <3> QED BY <1>1, <2>2, <3>1, Zenon
  <2> QED BY <1>7, <2>1, <2>2, Zenon DEF ReadEffect
<1> QED BY <1>2, <1>3, <1>4, <1>5, <1>6, <1>7, Zenon DEF ReadEffect

\* Each refusal has a cause: the count and the rows of a preparation stay those
\* of the store until a cause arises.
LEMMA CountedStep ==
    ASSUME Types, \A w \in Workers : Handles(w), Caused, Effect, NEW v \in Workers
    PROVE  Counted(v)' /\ RowsKept(v)'
<1> DEFINE me == worker[v]
           you == worker'[v]
<1>0. /\ Handles(v) /\ CausesKept(v) /\ Counted(v) /\ RowsKept(v) /\ OwnWrites
      /\ me.pc \in {"select", "verify"} => me.req.op = "prepare"
  BY Zenon DEF Caused, Handles, Reading
<1>1. ASSUME you.pc \notin {"select", "verify"}, you.reply # "refused" PROVE Counted(v)' /\ RowsKept(v)'
  BY <1>1, Zenon DEF Counted, RowsKept
<1>2. ASSUME SameWork(you, me), me.excuse \subseteq you.excuse,
             me.pc \in {"select", "verify"} => you.total = me.total,
             me.pc = "select" /\ you.excuse = {} => DOMAIN rules' = DOMAIN rules,
             me.pc = "verify" /\ you.excuse = {} =>
                \A i \in DOMAIN sigs : i \in DOMAIN sigs' /\ sigs'[i] = sigs[i]
      PROVE  Counted(v)' /\ RowsKept(v)'
  <2>1. Counted(v)'
    BY <1>0, <1>2, Zenon DEF Counted, SameWork
  <2>2. RowsKept(v)'
    BY <1>0, <1>2, Zenon DEF RowsKept, SameWork
  <2> QED BY <2>1, <2>2, Zenon
<1>3. ASSUME you = me, UNCHANGED <<rules, sigs>> PROVE Counted(v)' /\ RowsKept(v)'
  BY <1>0, <1>3, Zenon DEF Counted, RowsKept
<1>4. ASSUME NEW w \in Workers, ReceiveEffect(w) PROVE Counted(v)' /\ RowsKept(v)'
  <2>1. CASE v = w
    BY <1>1, <1>4, <2>1, Begins DEF Starts, Idle
  <2>2. CASE v # w
    BY <1>2, <1>4, <2>2, Zenon DEF ReceiveEffect, Undoes
  <2> QED BY <2>1, <2>2, SMTT(30)
<1>5. ASSUME NEW w \in Workers, OwnEffect(w) PROVE Counted(v)' /\ RowsKept(v)'
  <2>1. CASE v = w /\ ReadEffect(w)
    BY <1>0, <1>5, <2>1, ReadCounts, Zenon DEF OwnEffect
  <2>2. CASE v = w /\ (ManageEffect(w) \/ QueryEffect(w))
    <3>1. me.pc # "reply" => me.reply = "none"
      BY <1>0, Zenon DEF Handles
    <3>2. you.pc \notin {"select", "verify"} /\ you.reply # "refused"
      BY <2>2, <3>1, Zenon DEF ManageEffect, QueryEffect, Answers, Moves
    <3> QED BY <1>1, <3>2, Zenon
  <2>3. CASE v # w
    BY <1>3, <1>5, <2>3, OthersKept, Zenon DEF OwnEffect
  <2> QED BY <1>5, <2>1, <2>2, <2>3, Zenon DEF OwnEffect
<1>6. ASSUME NEW w \in Workers, InsertEffect(w) PROVE Counted(v)' /\ RowsKept(v)'
  <2>1. CASE v = w
    BY <1>1, <1>6, <2>1, Zenon DEF InsertEffect, Answers, Moves
  <2>2. CASE v # w /\ UNCHANGED <<rules, sigs>>
    <3>1. SameWork(you, me) /\ me.excuse \subseteq you.excuse /\ you.total = me.total
      BY <1>6, <2>2, Zenon DEF InsertEffect, Answers, Moves, Own, SameWork, Learns
    <3> QED BY <1>2, <2>2, <3>1, Zenon
  <2>3. CASE v # w /\ ~ UNCHANGED <<rules, sigs>>
    <3>1. /\ SameWork(you, me) /\ me.excuse \subseteq you.excuse /\ you.total = me.total
          /\ me.pc = "select" => "raced" \in you.excuse
      BY <1>6, <2>3, Zenon DEF InsertEffect, Learns
    <3>2. \A i \in DOMAIN sigs : i \in DOMAIN sigs' /\ sigs'[i] = sigs[i]
      BY <1>6, <2>3, InsertTables, ZenonT(60) DEF Inserted
    <3> QED BY <1>2, <3>1, <3>2, Zenon
  <2> QED BY <2>1, <2>2, <2>3, Zenon
<1>7. ASSUME NEW w \in Workers, ReplyEffect(w) PROVE Counted(v)' /\ RowsKept(v)'
  <2>1. CASE v = w
    <3>1. you = Idle
      BY <1>7, <2>1, Zenon DEF ReplyEffect
    <3> QED BY <1>1, <3>1 DEF Idle
  <2>2. CASE v # w
    BY <1>3, <1>7, <2>2, Zenon DEF ReplyEffect
  <2> QED BY <2>1, <2>2
<1>8. CASE InstallerEffect
  BY <1>2, <1>8, Zenon DEF InstallerEffect, Learns
<1>9. CASE CrashEffect
  BY <1>1, <1>9 DEF CrashEffect, Idle
<1>10. ASSUME NEW i \in DOMAIN rules \cup DOMAIN sigs, EditEffect(i) PROVE Counted(v)' /\ RowsKept(v)'
  <2>1. "edited" \in Excuses'
    BY <1>10, EditExcuses, Zenon DEF EditEffect
  <2>2. /\ SameWork(you, me) /\ me.excuse \subseteq you.excuse
        /\ me.req.op = "prepare" => you.excuse # {} /\ you.total = me.total
    BY <1>10, <2>1, Zenon DEF EditEffect, Learns
  <2> QED BY <1>0, <1>2, <2>2, Zenon
<1> QED BY <1>4, <1>5, <1>6, <1>7, <1>8, <1>9, <1>10, Zenon DEF Effect, WorkerEffect

\* The daemon's own writes never make a preparation refuse.
LEMMA CausedStep ==
    ASSUME Types, \A w \in Workers : Handles(w), Caused, Effect PROVE Caused'
<1>1. OwnWrites /\ \A w \in Workers : Handles(w) /\ CausesKept(w)
  BY Zenon DEF Caused
<1>2. OwnWrites' /\ \A v \in Workers : CausesKept(v)'
  BY <1>1, OwnWritesStep, CausesStep, Zenon
<1>3. \A v \in Workers : Counted(v)' /\ RowsKept(v)'
  BY CountedStep, Zenon
<1> QED BY <1>2, <1>3, Zenon DEF Caused

-----------------------------------------------------------------------------
(* Keys that status vouched for                                             *)

\* A key that status called configured stays enrolled and listed until the
\* installer moves.
LEMMA VouchesStep ==
    ASSUME Types, \A w \in Workers : Handles(w), Vouches, Effect PROVE Vouches'
<1>0. InUse(vouched) /\ \A w \in Workers : VouchKept(w) /\ Handles(w)
  BY Zenon DEF Vouches
<1>1. ASSUME UNCHANGED <<signers, manifest>>, NEW K, InUse(K) PROVE InUse(K)'
  BY <1>1, Zenon DEF InUse
<1>2. ASSUME UNCHANGED <<signers, manifest>>, NEW v \in Workers,
             worker'[v].pc = worker[v].pc, worker'[v].req = worker[v].req,
             worker'[v].reply = worker[v].reply, worker'[v].known = worker[v].known,
             worker'[v].keys = worker[v].keys \/ worker[v].req.op = "prepare",
             worker[v].excuse \subseteq worker'[v].excuse
      PROVE  VouchKept(v)'
  <2>1. VouchKept(v)
    BY <1>0, Zenon
  <2>2. worker[v].req.op \in Manage => worker'[v].keys = worker[v].keys
    BY <1>2, Zenon DEF Manage
  <2>3. worker'[v].reply = "untrusted" => worker[v].req.op \in Manage
    BY <1>0, <1>2, Zenon DEF Handles
  <2> QED BY <1>2, <2>1, <2>2, <2>3, Zenon DEF VouchKept, InUse
<1>3. ASSUME NEW v \in Workers, worker'[v] = Idle PROVE VouchKept(v)'
  BY <1>3 DEF Idle, VouchKept, Manage
<1>4. ASSUME NEW w \in Workers, ReceiveEffect(w) PROVE Vouches'
  <2>0. UNCHANGED <<signers, manifest, vouched>>
    BY <1>4, Zenon DEF ReceiveEffect
  <2>1. ASSUME NEW r \in Requests, Starts(w, r) PROVE VouchKept(w)'
    <3>1. /\ worker'[w].req.op \in Manage => worker'[w].keys = vouched
          /\ worker'[w].reply = "none" /\ worker'[w].pc # "status_db"
      BY <2>1 DEF Starts, Manage
    <3> QED BY <1>0, <2>0, <3>1, Zenon DEF VouchKept, InUse
  <2>2. VouchKept(w)'
    BY <1>3, <1>4, <2>1, Begins, Zenon
  <2>3. ASSUME NEW v \in Workers, v # w PROVE VouchKept(v)'
    BY <1>2, <1>4, <2>0, <2>3, Zenon DEF ReceiveEffect, Undoes, SameWork
  <2> QED BY <1>0, <1>1, <2>0, <2>2, <2>3, Zenon DEF Vouches, InUse
<1>5. ASSUME NEW w \in Workers, OwnEffect(w) PROVE Vouches'
  <2>0. UNCHANGED <<signers, manifest, vouched>>
    BY <1>5, Zenon DEF OwnEffect
  <2>1. worker'[w].req = worker[w].req /\ worker'[w].keys = worker[w].keys
        /\ worker'[w].excuse = worker[w].excuse
    BY <1>5, Zenon
    DEF OwnEffect, ManageEffect, QueryEffect, ReadEffect, Answers, Moves, Own
  <2>2. ASSUME worker[w].excuse = {} PROVE
           /\ worker'[w].pc = "status_db" => manifest.file = "regular" /\ worker'[w].known = manifest.keys
           /\ worker'[w].reply = "configured" => InUse(worker'[w].known)
           /\ worker'[w].reply = "untrusted" => worker[w].req.sig.key \notin worker[w].keys
    <3>0. /\ worker[w].pc # "reply" => worker[w].reply = "none"
          /\ worker[w].pc \in Asking => InUse(worker[w].keys)
          /\ worker[w].pc = "status_db" => manifest.file = "regular" /\ worker[w].known = manifest.keys
      BY <1>0, <2>2, Zenon DEF VouchKept, Handles
    <3>1. CASE ManageEffect(w)
      BY <3>0, <3>1, Zenon DEF ManageEffect, Answers, Moves, InUse, Asking
    <3>2. CASE QueryEffect(w)
      BY <3>0, <3>2, Zenon DEF QueryEffect, Answers, Moves, InUse
    <3>3. CASE ReadEffect(w)
      BY <3>0, <3>3, Zenon DEF ReadEffect, Answers, Moves
    <3> QED BY <1>5, <3>1, <3>2, <3>3, Zenon DEF OwnEffect
  <2>3. VouchKept(w)'
    BY <1>0, <2>0, <2>1, <2>2, Zenon DEF VouchKept, InUse
  <2>4. ASSUME NEW v \in Workers, v # w PROVE VouchKept(v)'
    BY <1>2, <1>5, <2>0, <2>4, OthersKept, Zenon
  <2> QED BY <1>0, <1>1, <2>0, <2>3, <2>4 DEF Vouches, InUse
<1>6. ASSUME NEW w \in Workers, InsertEffect(w) PROVE Vouches'
  <2>0. UNCHANGED <<signers, manifest, vouched>>
    BY <1>6, Zenon DEF InsertEffect
  <2>1. /\ worker'[w].req = worker[w].req /\ worker[w].req.op = "insert"
        /\ worker'[w].keys = worker[w].keys /\ worker[w].excuse \subseteq worker'[w].excuse
        /\ worker'[w].pc = "reply" /\ worker'[w].reply \in {"ok", "err"}
    BY <1>6, Zenon DEF InsertEffect, Answers, Moves, Own, Learns
  <2>2. VouchKept(w)'
    BY <1>0, <2>0, <2>1, Zenon DEF VouchKept, InUse
  <2>3. ASSUME NEW v \in Workers, v # w PROVE VouchKept(v)'
    <3>1. /\ SameWork(worker'[v], worker[v]) /\ worker[v].excuse \subseteq worker'[v].excuse
          /\ worker'[v].keys = worker[v].keys \/ worker[v].req.op = "prepare"
      BY <1>6, <2>3, Zenon DEF InsertEffect, Answers, Moves, Own, Learns, SameWork
    <3> QED BY <1>2, <2>0, <3>1, Zenon DEF SameWork
  <2> QED BY <1>0, <1>1, <2>0, <2>2, <2>3 DEF Vouches, InUse
<1>7. ASSUME NEW w \in Workers, ReplyEffect(w) PROVE Vouches'
  <2>0. UNCHANGED <<signers, manifest>>
    BY <1>7, Zenon DEF ReplyEffect
  <2>1. ASSUME NEW v \in Workers PROVE VouchKept(v)'
    BY <1>2, <1>3, <1>7, <2>0, Zenon DEF ReplyEffect
  <2>2. InUse(vouched)'
    BY <1>0, <1>7, <2>0, Zenon DEF ReplyEffect, InUse, VouchKept
  <2> QED BY <2>1, <2>2, Zenon DEF Vouches
<1>8. CASE InstallerEffect
  <2>1. vouched' = {}
    BY <1>8, Zenon DEF InstallerEffect
  <2>2. ASSUME NEW v \in Workers PROVE VouchKept(v)'
    <3>1. /\ SameWork(worker'[v], worker[v])
          /\ worker[v].req.op \in Manage \cup {"status"} => "installer" \in worker'[v].excuse
      BY <1>8, Zenon DEF InstallerEffect, Learns
    <3> QED BY <1>0, <3>1, Zenon DEF VouchKept, SameWork, Handles
  <2> QED BY <2>1, <2>2, Zenon DEF Vouches, InUse
<1>9. CASE CrashEffect
  BY <1>0, <1>3, <1>9, Zenon DEF CrashEffect, Vouches, InUse
<1>10. ASSUME NEW i \in DOMAIN rules \cup DOMAIN sigs, EditEffect(i) PROVE Vouches'
  <2>0. UNCHANGED <<signers, manifest, vouched>>
    BY <1>10, Zenon DEF EditEffect
  <2>1. ASSUME NEW v \in Workers PROVE VouchKept(v)'
    BY <1>2, <1>10, <2>0, ZenonT(60) DEF EditEffect, Learns, SameWork
  <2> QED BY <1>0, <2>0, <2>1, Zenon DEF Vouches, InUse
<1> QED BY <1>4, <1>5, <1>6, <1>7, <1>8, <1>9, <1>10, Zenon DEF Effect, WorkerEffect

-----------------------------------------------------------------------------
(* The invariants                                                           *)

\* The store another version of the daemon left behind.
LEMMA FirstStore ==
    ASSUME Init
    PROVE  /\ rules \in TableOf(Payloads) /\ DOMAIN rules \subseteq {1}
           /\ \A i \in DOMAIN rules : rules[i] \in UNION Legacy
<1>1. PICK l \in Legacy : /\ Cardinality(l) <= 1
                          /\ rules = [i \in 1 .. Cardinality(l) |-> CHOOSE p \in l : TRUE]
  BY Zenon DEF Init
<1>2. IsFiniteSet(l) /\ Cardinality(l) \in Nat
  BY RuleStoreAssumption, FS_CardinalityType, Zenon
<1>3. CASE l = {}
  <2>1. DOMAIN rules = {}
    BY <1>1, <1>3, FS_EmptySet
  <2>2. rules \in [{} -> Payloads]
    BY <1>1, <2>1, Zenon
  <2> QED BY <2>1, <2>2, Zenon DEF TableOf
<1>4. CASE l # {}
  <2>1. (CHOOSE p \in l : TRUE) \in l
    BY <1>4, Zenon
  <2>2. l \subseteq UNION Legacy /\ UNION Legacy \subseteq Payloads
    BY Zenon DEF Payloads
  <2>3. DOMAIN rules = 1 .. Cardinality(l) /\ \A i \in DOMAIN rules : rules[i] \in l
    BY <1>1, <2>1, Zenon
  <2>4. 1 .. Cardinality(l) \subseteq {1} /\ 1 .. Cardinality(l) \in SUBSET Nat
    BY <1>1, <1>2
  <2>5. rules \in [1 .. Cardinality(l) -> Payloads]
    BY <1>1, <2>1, <2>2, Zenon
  <2> QED BY <2>2, <2>3, <2>4, <2>5, Zenon DEF TableOf
<1> QED BY <1>3, <1>4, Zenon

\* The first state satisfies the invariant.
LEMMA InitInv == Init => IndInv
<1> SUFFICES ASSUME Init PROVE IndInv
  OBVIOUS
<1>1. /\ rules \in TableOf(Payloads) /\ DOMAIN rules \subseteq {1}
      /\ \A i \in DOMAIN rules : rules[i] \in UNION Legacy
  BY FirstStore, Zenon
<1>2. \A v \in Workers : worker[v] = Idle
  BY Zenon DEF Init
<1>3. /\ worker \in [Workers -> WorkerRecs]
      /\ \A w \in Workers : /\ worker[w].pc = "idle" /\ worker[w].req.op = "none"
                            /\ worker[w].reply = "none" /\ worker[w].out = {}
                            /\ worker[w].mustOff = {} /\ worker[w].excuse = {}
  <2>1. worker \in [Workers -> WorkerRecs]
    BY IdleIs, Zenon DEF Init
  <2>2. /\ Idle.pc = "idle" /\ Idle.req.op = "none" /\ Idle.reply = "none" /\ Idle.out = {}
        /\ Idle.mustOff = {} /\ Idle.excuse = {}
    BY DEF Idle
  <2> QED BY <1>2, <2>1, <2>2, Zenon
<1>4. /\ sigs = Empty /\ overrides = {} /\ acked = Empty /\ off = {} /\ vouched = {}
      /\ DOMAIN Empty = {} /\ signers = {FirstKey} /\ reader = "free"
      /\ manifest = [file |-> "regular", keys |-> {FirstKey}]
      /\ installer = [step |-> "done", key |-> FirstKey]
      /\ spent = [requests |-> 0, faults |-> 0, edited |-> "no"]
  BY EmptyTable, Zenon DEF Init
<1>5. sigs \in TableOf(Sigs) /\ acked \in TableOf(Payloads)
  BY <1>4, EmptyTable, Zenon
<1>6. Types
  <2>1. 1 \in 1 .. MaxRequests + 1 /\ 0 \in 0 .. MaxRequests /\ 0 \in 0 .. MaxFaults
    BY RuleStoreAssumption
  <2> QED BY <1>1, <1>3, <1>4, <1>5, <2>1, RuleStoreAssumption, Zenon DEF Types
<1>7. \A w \in Workers : Handles(w)
  BY <1>2 DEF Idle, Handles, NoReq, Asking, Reading, Manage
<1>8. OneReader
  BY <1>3, <1>4, RuleStoreAssumption DEF OneReader, Holding
<1>9. IdBound
  <2>1. Inserting = {}
    BY <1>3, Zenon DEF Inserting
  <2>2. Cardinality(Inserting) = 0
    BY <2>1, FS_EmptySet, Zenon
  <2> QED BY <1>1, <1>4, <2>2 DEF IdBound
<1>10. Acks
  BY <1>3, <1>4, Zenon DEF Acks, AckedTraced, PendingTraced, MustKept
<1>11. Listed
  BY <1>3 DEF Listed, KeysKept
<1>12. Offs
  BY <1>3, <1>4 DEF Offs, EnablingKnown, OffKept, Reading
<1>13. OwnWrites
  BY <1>1, <1>4, Zenon DEF OwnWrites
<1>14. Caused
  BY <1>3, <1>13 DEF Caused, CausesKept, Counted, RowsKept
<1>15. Vouches
  BY <1>3, <1>4 DEF Vouches, VouchKept, InUse, Manage
<1> QED BY <1>6, <1>7, <1>8, <1>9, <1>10, <1>11, <1>12, <1>14, <1>15, Zenon DEF IndInv, Shape

\* Every step keeps the invariant.
LEMMA NextInv == IndInv /\ [Next]_vars => IndInv'
<1> SUFFICES ASSUME IndInv, [Next]_vars PROVE IndInv'
  OBVIOUS
<1>1. CASE Next
  <2>1. /\ Types /\ OneReader /\ IdBound /\ Acks /\ Listed /\ Offs /\ Caused /\ Vouches
        /\ \A w \in Workers : Handles(w)
    BY Zenon DEF IndInv, Shape
  <2>2. Effect
    BY <1>1, <2>1, Effects, Zenon
  <2>3. /\ AckedTraced
        /\ \A w \in Workers : PendingTraced(w) /\ MustKept(w)
    BY <2>1, Zenon DEF Acks
  <2>4. Types' /\ IdBound'
    BY <2>1, <2>2, TypesStep, IdBoundStep, Zenon
  <2>5. \A w \in Workers : Handles(w)'
    BY <2>1, <2>2, HandlesStep
  <2>6. OneReader'
    BY <2>1, <2>2, OneReaderStep, Zenon
  <2>7. Acks'
    BY <2>1, <2>2, <2>3, AckedStep, PendingStep, MustStep, Zenon DEF Acks
  <2>8. Listed' /\ Offs' /\ Caused' /\ Vouches'
    BY <2>1, <2>2, ListedStep, OffsStep, CausedStep, VouchesStep, Zenon
  <2> QED BY <2>4, <2>5, <2>6, <2>7, <2>8, Zenon DEF IndInv, Shape
<1>2. CASE UNCHANGED vars
  <2>1. Shape' = Shape
    BY <1>2 DEF Shape, Types, Handles, OneReader
  <2>2. IdBound' = IdBound
    BY <1>2, Zenon DEF IdBound, Inserting
  <2>3. Acks' = Acks /\ Listed' = Listed
    <3>1. AckedTraced' = AckedTraced
      BY <1>2, Zenon DEF AckedTraced, Traced
    <3>2. ASSUME NEW w \in Workers PROVE PendingTraced(w)' = PendingTraced(w)
      BY <1>2, Zenon DEF PendingTraced, Traced
    <3>3. ASSUME NEW w \in Workers PROVE MustKept(w)' = MustKept(w)
      BY <1>2, Zenon DEF MustKept, Traced, HandedOut
    <3>4. Listed' = Listed
      BY <1>2, Zenon DEF Listed, KeysKept
    <3> QED BY <3>1, <3>2, <3>3, <3>4, Zenon DEF Acks
  <2>4. Offs' = Offs /\ Vouches' = Vouches
    BY <1>2, Zenon DEF Offs, EnablingKnown, OffKept, Vouches, VouchKept, InUse
  <2>5. Caused' = Caused
    <3>1. OwnWrites' = OwnWrites
      BY <1>2, Zenon DEF OwnWrites
    <3>2. ASSUME NEW w \in Workers PROVE CausesKept(w)' = CausesKept(w)
      BY <1>2, Zenon DEF CausesKept, Excuses
    <3>3. ASSUME NEW w \in Workers PROVE Counted(w)' = Counted(w) /\ RowsKept(w)' = RowsKept(w)
      BY <1>2, Zenon DEF Counted, RowsKept
    <3> QED BY <3>1, <3>2, <3>3, Zenon DEF Caused
  <2> QED BY <2>1, <2>2, <2>3, <2>4, <2>5, Zenon DEF IndInv
<1> QED BY <1>1, <1>2, Zenon

\* The tables, the connection, the acknowledged rules, the overrides, the causes
\* and the vouched keys keep together in every reachable state of the daemon.
THEOREM Inductive == Spec => []IndInv
BY InitInv, NextInv, PTL DEF Spec

\* The tables keep their shape and the reading connection is held exactly by the
\* worker inside a critical section of rule_store.rs, whoever crashes.
THEOREM TypeCorrect == Spec => []TypeOK
<1>1. IndInv => TypeOK
  <2> SUFFICES ASSUME IndInv PROVE TypeOK
    OBVIOUS
  <2>1. Types /\ OneReader
    BY Zenon DEF IndInv, Shape
  <2>2. \A i \in DOMAIN rules : rules[i] \in Payloads
    <3>1. rules \in TableOf(Payloads)
      BY <2>1, Zenon DEF Types
    <3> QED BY <3>1, TableIs, Zenon
  <2>3. Tables
    BY <2>1, <2>2, Zenon DEF Types, Tables
  <2> QED BY <2>1, <2>3, Zenon DEF Types, TypeOK, OneReader, Holding
<1> QED BY <1>1, Inductive, PTL

\* all_verified_user_rules hands out every acknowledged rule or refuses.
THEOREM AcknowledgedRulesEnforced == Spec => []AcknowledgedRuleEnforced
<1>1. IndInv => AcknowledgedRuleEnforced
  BY Zenon DEF IndInv, Acks, MustKept, HandedOut, AcknowledgedRuleEnforced
<1> QED BY <1>1, Inductive, PTL

\* verify_rule_signer_trusted: a rule that is handed out is of a key listed while
\* the preparation ran.
THEOREM RevokedKeysNotHonoured == Spec => []RevokedKeyNotHonoured
<1>1. IndInv => RevokedKeyNotHonoured
  BY Zenon DEF IndInv, Shape, Handles, Listed, KeysKept, RevokedKeyNotHonoured
<1> QED BY <1>1, Inductive, PTL

\* disabled_curated_patterns: an acknowledged disabling shows in every later
\* snapshot and listing.
THEOREM DisablesHonoured == Spec => []DisableHonoured
<1>1. IndInv => DisableHonoured
  BY Zenon DEF IndInv, Offs, OffKept, DisableHonoured
<1> QED BY <1>1, Inductive, PTL

\* A preparation is refused only for a cause outside of the daemon's own writes.
THEOREM RefusalsHaveCauses == Spec => []RefusalHasCause
<1>1. IndInv => RefusalHasCause
  BY Zenon DEF IndInv, Caused, RowsKept, RefusalHasCause
<1> QED BY <1>1, Inductive, PTL

\* is_trusted_rule_signer accepts the keys that rule_signing_status called
\* configured, until the installer moves.
THEOREM StatusVouches == Spec => []StatusVouchesForSigner
<1>1. IndInv => StatusVouchesForSigner
  BY Zenon DEF IndInv, Vouches, VouchKept, StatusVouchesForSigner
<1> QED BY <1>1, Inductive, PTL
=============================================================================
