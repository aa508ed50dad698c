----------------------------- MODULE RuleStore -----------------------------
(***************************************************************************)
(* The daemon's rule store: the SQLite tables of rule_store.rs, the        *)
(* root-owned manifest of trusted signers beside them, the management      *)
(* requests that change them, the snapshot preparation that reads them,    *)
(* and the enrolment of a signer by the installer, which is another        *)
(* process.                                                                *)
(*                                                                         *)
(* The store has one writing and one reading connection, each behind a     *)
(* mutex.  A statement sees one version of the database; two statements    *)
(* of the same method need not see the same one, because the writer does   *)
(* not wait for the reader.  "reader" is the worker that holds the reading *)
(* connection.                                                             *)
(*                                                                         *)
(* A payload is the record that is signed, and a signature names its key   *)
(* and the payload it was made over: the hashes, the scheme and the key    *)
(* encoding are abstracted to that equality.  The model is of a system     *)
(* installation; in a private state directory there is no manifest and     *)
(* trusted_manifest_contains is TRUE.                                      *)
(***************************************************************************)
EXTENDS Naturals, FiniteSets, FiniteSetsExt, Functions

CONSTANTS
    Workers,        \* workers of the daemon that serve management requests
    Keys,           \* signing keys
    FirstKey,       \* the key enrolled by the first installation
    Curated,        \* patterns of the curated rules
    Requests,       \* requests a client may send
    Legacy,         \* sets of payloads stored before signatures existed
    MaxRequests,    \* bound on the requests sent
    MaxFaults       \* bound on further enrolments, foreign edits and crashes

ASSUME RuleStoreAssumption ==
    /\ IsFiniteSet(Workers) /\ "free" \notin Workers
    /\ FirstKey \in Keys
    /\ MaxRequests \in Nat /\ MaxFaults \in Nat
    /\ \A l \in Legacy : IsFiniteSet(l) /\ \A p \in l : p.created > 0

VARIABLES
    rules,      \* table rules: id -> payload columns
    sigs,       \* table rule_signatures: id -> signature
    signers,    \* table trusted_rule_signers: the set of keys
    overrides,  \* table curated_overrides: the disabled patterns
    manifest,   \* the manifest file: is there one, and its keys
    reader,     \* holder of the reading connection, or "free"
    worker,     \* state of each worker
    installer,  \* step of register_rule_signer and the key it enrols
    spent,      \* requests and faults so far, and whether one was an edit
    acked,      \* history: payloads of acknowledged rules by id
    off,        \* history: patterns that stay disabled by an acknowledgement
    vouched     \* history: keys a status reply called configured

vars == <<rules, sigs, signers, overrides, manifest, reader, worker, installer,
          spent, acked, off, vouched>>
db == <<rules, sigs, signers, overrides>>

Empty == [x \in {} |-> 0]

\* The table f with the row r at id i.
Put(f, i, r) == [j \in DOMAIN f \cup {i} |-> IF j = i THEN r ELSE f[j]]

\* A worker between requests.  The last line is history: what the reply of this
\* request has to respect.
Idle == [pc |-> "idle", req |-> [op |-> "none"], disabled |-> {}, total |-> 0, rows |-> Empty,
         known |-> {}, out |-> {}, reply |-> "none",
         must |-> Empty, mustOff |-> {}, keys |-> {}, excuse |-> {}]

Payloads == {r.payload : r \in {q \in Requests : q.op = "insert"}} \cup UNION Legacy

Manage == {"insert", "disable", "enable"}
Preparing(w) == worker[w].req.op = "prepare"

\* The database another version of the daemon left behind: its rules have no
\* signatures; the installer enrolled FirstKey.
Init ==
    /\ rules \in {[i \in 1 .. Cardinality(l) |-> CHOOSE p \in l : TRUE] :
                     l \in {k \in Legacy : Cardinality(k) <= 1}}
    /\ sigs = Empty /\ overrides = {}
    /\ signers = {FirstKey}
    /\ manifest = [file |-> "regular", keys |-> {FirstKey}]
    /\ reader = "free"
    /\ worker = [w \in Workers |-> Idle]
    /\ installer = [step |-> "done", key |-> FirstKey]
    /\ spent = [requests |-> 0, faults |-> 0, edited |-> "no"]
    /\ acked = Empty /\ off = {} /\ vouched = {}

-----------------------------------------------------------------------------
(* Signatures and trust                                                      *)

\* signer_kind_allowed under the production policy.
SignerKindAllowed(kind) == kind \in {"keychain", "security-key", "tpm"}

\* verify_rule_signature: the key signed this payload.
VerifyRuleSignature(payload, sig) == SignerKindAllowed(sig.kind) /\ sig.over = payload

\* verify_management_action_signature: the same over a payload that names the
\* action, so that a disabling cannot pass for an enabling.
VerifyManagementActionSignature(payload, sig) == SignerKindAllowed(sig.kind) /\ sig.over = payload

\* trusted_manifest_contains: a missing or unsafe file is an error.
TrustedManifestContains(key) ==
    IF manifest.file # "regular" THEN "error"
    ELSE IF key \in manifest.keys THEN "yes" ELSE "no"

\* The checks of handle_insert_user_rule up to the signature.
InsertValid(r) ==
    /\ r.payload.kind \in {"allow", "deny"}
    /\ r.payload.created > 0
    /\ r.sig.key # "none"
    /\ VerifyRuleSignature(r.payload, r.sig)

\* authorize_management_action up to the signature.
Authorized(action, r) ==
    /\ r.payload.created > 0
    /\ r.sig.key # "none"
    /\ VerifyManagementActionSignature([r.payload EXCEPT !.kind = action], r.sig)

\* handle_disable_curated_rule: the pattern of a curated rule.
DisableValid(r) == r.payload.pattern \in Curated /\ Authorized("disable", r)

\* handle_enable_curated_rule: any pattern that is not empty.
EnableValid(r) == r.payload.pattern # "" /\ Authorized("enable", r)

-----------------------------------------------------------------------------
(* History.  What may excuse a refused preparation is computed from the      *)
(* store itself, not from what the preparation read.                         *)

Excuses ==
    (IF spent.edited = "yes" THEN {"edited"} ELSE {})
    \cup (IF \E i \in DOMAIN rules \ DOMAIN sigs : rules[i] \in UNION Legacy THEN {"legacy"} ELSE {})
    \cup (IF manifest.file # "regular" \/ \E i \in DOMAIN sigs :
                 sigs[i].key \notin manifest.keys \cap signers
          THEN {"signer"} ELSE {})

\* The workers after a step that changed the store or the manifest.
Touch(f) ==
    [v \in Workers |->
        IF f[v].req.op = "prepare"
        THEN [f[v] EXCEPT !.excuse = @ \cup Excuses', !.keys = @ \cup manifest'.keys]
        ELSE f[v]]

-----------------------------------------------------------------------------
(* A request arrives                                                         *)

\* The worker takes request r; "first" is where its handler starts when the
\* frame and the request are valid, and otherwise it answers at once.  Once an
\* enabling is on its way, nobody may rely on an earlier or a concurrent
\* disabling of the pattern.
Take(w, r, valid, first) ==
    LET enabled == IF r.op = "enable" /\ valid THEN {r.payload.pattern} ELSE {}
        undone(q) == IF q.op = "disable" /\ q.payload.pattern \in enabled THEN {"enabled"} ELSE {}
        crossed == r.op = "disable" /\ \E v \in Workers :
                      worker[v].req.op = "enable" /\ worker[v].req.payload.pattern = r.payload.pattern
        taken == [Idle EXCEPT !.pc = first, !.req = r,
                     !.must = IF r.op = "prepare" THEN acked ELSE Empty,
                     !.mustOff = IF r.op \in {"prepare", "list"} THEN off ELSE {},
                     !.keys = IF r.op = "prepare" THEN manifest.keys
                              ELSE IF r.op \in Manage THEN vouched ELSE {},
                     !.excuse = IF r.op = "prepare" THEN Excuses
                                ELSE IF crossed THEN {"enabled"} ELSE {}]
    IN  /\ worker[w].pc = "idle"
        /\ spent.requests < MaxRequests
        /\ spent' = [spent EXCEPT !.requests = @ + 1]
        /\ worker' = [v \in Workers |-> IF v = w THEN IF valid THEN taken ELSE Idle
                                        ELSE [worker[v] EXCEPT !.mustOff = @ \ enabled,
                                                               !.excuse = @ \cup undone(worker[v].req)]]
        /\ off' = off \ enabled
        /\ UNCHANGED <<db, manifest, reader, installer, acked, vouched>>

HandleInsertUserRule(w, r) ==
    /\ r.op = "insert"
    /\ Take(w, r, r.schema \in {3, 5} /\ InsertValid(r), "trust_db")

HandleDisableCuratedRule(w, r) ==
    /\ r.op = "disable"
    /\ Take(w, r, r.schema \in {3, 5} /\ DisableValid(r), "trust_db")

HandleEnableCuratedRule(w, r) ==
    /\ r.op = "enable"
    /\ Take(w, r, r.schema \in {3, 5} /\ EnableValid(r), "trust_db")

HandlePrepareSnapshot(w, r) ==
    /\ r.op = "prepare"
    /\ Take(w, r, TRUE, "overrides")

HandleListRules(w, r) ==
    /\ r.op = "list"
    /\ Take(w, r, r.schema = 3, "list")

HandleStatus(w, r) ==
    /\ r.op = "status"
    /\ Take(w, r, r.schema = 3, "status")

Answer(w, reply) == [worker EXCEPT ![w].pc = "reply", ![w].reply = reply]

-----------------------------------------------------------------------------
(* is_trusted_rule_signer, then the write                                    *)

\* The count in the database; the reading connection stays locked while the
\* manifest is read.
TrustedInDb(w) ==
    /\ worker[w].pc = "trust_db" /\ reader = "free"
    /\ IF worker[w].req.sig.key \in signers
       THEN worker' = [worker EXCEPT ![w].pc = "trust_manifest"] /\ reader' = w
       ELSE worker' = Answer(w, "untrusted") /\ UNCHANGED reader
    /\ UNCHANGED <<db, manifest, installer, spent, acked, off, vouched>>

\* Variant: the reading connection is not released.
TrustKeepsConnection(w) ==
    /\ worker[w].pc = "trust_manifest"
    /\ worker' = IF TrustedManifestContains(worker[w].req.sig.key) = "yes"
                 THEN [worker EXCEPT ![w].pc = "write"] ELSE Answer(w, "untrusted")
    /\ UNCHANGED <<db, manifest, reader, installer, spent, acked, off, vouched>>

TrustedInManifest(w) ==
    /\ worker[w].pc = "trust_manifest"
    /\ reader' = "free"
    /\ worker' = IF TrustedManifestContains(worker[w].req.sig.key) = "yes"
                 THEN [worker EXCEPT ![w].pc = "write"] ELSE Answer(w, "untrusted")
    /\ UNCHANGED <<db, manifest, installer, spent, acked, off, vouched>>

NextId == Max(DOMAIN rules \cup {0}) + 1

Racing(f) ==
    [v \in Workers |-> IF f[v].pc = "select" THEN [f[v] EXCEPT !.excuse = @ \cup {"raced"}] ELSE f[v]]

\* Variant: the rule is committed before its signature.
InsertWithoutTransaction(w) ==
    /\ worker[w].pc = "write" /\ worker[w].req.op = "insert"
    /\ rules' = Put(rules, NextId, worker[w].req.payload)
    /\ UNCHANGED <<sigs, signers, overrides, manifest, reader, installer, spent, acked, off, vouched>>
    /\ worker' = Touch(Racing(Answer(w, "err")))

\* insert_signed_user_rule: the row and its signature in one transaction, which
\* a left-over signature of the same id makes fail.
InsertSignedUserRule(w) ==
    /\ worker[w].pc = "write" /\ worker[w].req.op = "insert"
    /\ UNCHANGED <<signers, overrides, manifest, reader, installer, spent, acked, off, vouched>>
    /\ IF NextId \in DOMAIN sigs
       THEN worker' = Answer(w, "err") /\ UNCHANGED <<rules, sigs>>
       ELSE /\ rules' = Put(rules, NextId, worker[w].req.payload)
            /\ sigs' = Put(sigs, NextId, worker[w].req.sig)
            /\ worker' = Touch(Racing([Answer(w, "ok") EXCEPT ![w].total = NextId]))

\* disable_curated_rule: INSERT OR REPLACE.
DisableCuratedRule(w) ==
    /\ worker[w].pc = "write" /\ worker[w].req.op = "disable"
    /\ overrides' = overrides \cup {worker[w].req.payload.pattern}
    /\ worker' = Answer(w, "ok")
    /\ UNCHANGED <<rules, sigs, signers, manifest, reader, installer, spent, acked, off, vouched>>

\* Variant: every override is deleted.
EnableDeletesAll(w) ==
    /\ worker[w].pc = "write" /\ worker[w].req.op = "enable"
    /\ overrides' = {}
    /\ worker' = Answer(w, "ok")
    /\ UNCHANGED <<rules, sigs, signers, manifest, reader, installer, spent, acked, off, vouched>>

\* enable_curated_rule: DELETE of the pattern's row.
EnableCuratedRule(w) ==
    /\ worker[w].pc = "write" /\ worker[w].req.op = "enable"
    /\ overrides' = overrides \ {worker[w].req.payload.pattern}
    /\ worker' = Answer(w, "ok")
    /\ UNCHANGED <<rules, sigs, signers, manifest, reader, installer, spent, acked, off, vouched>>

-----------------------------------------------------------------------------
(* collect_snapshot_build_input                                              *)

\* disabled_curated_patterns, for a snapshot or a listing.  When the read fails
\* a snapshot goes on with every curated rule; a listing is an error.
DisabledCuratedPatterns(w) ==
    /\ worker[w].pc = "overrides" /\ reader = "free"
    /\ \/ worker' = [worker EXCEPT ![w].disabled = overrides,
                      ![w].pc = IF Preparing(w) THEN "unsigned" ELSE "reply",
                      ![w].reply = IF Preparing(w) THEN "none" ELSE "rows"]
       \/ worker' = IF Preparing(w)
                    THEN [worker EXCEPT ![w].pc = "unsigned", ![w].mustOff = {}]
                    ELSE Answer(w, "err")
    /\ UNCHANGED <<db, manifest, reader, installer, spent, acked, off, vouched>>

Refuse(w) == worker' = Answer(w, "refused") /\ reader' = "free"
GoOn(w, pc) == worker' = [worker EXCEPT ![w].pc = pc] /\ reader' = w

\* all_verified_user_rules locks the reading connection for its four
\* statements; the first two look for a row without its other half.
FindUnsigned(w) ==
    /\ worker[w].pc = "unsigned" /\ reader = "free"
    /\ IF DOMAIN rules \subseteq DOMAIN sigs THEN GoOn(w, "orphan") ELSE Refuse(w)
    /\ UNCHANGED <<db, manifest, installer, spent, acked, off, vouched>>

FindOrphan(w) ==
    /\ worker[w].pc = "orphan"
    /\ IF DOMAIN sigs \subseteq DOMAIN rules THEN GoOn(w, "count") ELSE Refuse(w)
    /\ UNCHANGED <<db, manifest, installer, spent, acked, off, vouched>>

CountRules(w) ==
    /\ worker[w].pc = "count"
    /\ worker' = [worker EXCEPT ![w].pc = "select", ![w].total = Cardinality(DOMAIN rules)]
    /\ UNCHANGED <<db, manifest, reader, installer, spent, acked, off, vouched>>

\* The join; the trusted signers are queried inside the same statement and so
\* come from the same version of the database.
SelectRows(w) ==
    /\ worker[w].pc = "select"
    /\ worker' = [worker EXCEPT ![w].pc = "verify", ![w].known = signers,
          ![w].rows = [i \in DOMAIN rules \cap DOMAIN sigs |-> [payload |-> rules[i], sig |-> sigs[i]]]]
    /\ UNCHANGED <<db, manifest, reader, installer, spent, acked, off, vouched>>

RowVerifies(w, row) ==
    /\ VerifyRuleSignature(row.payload, row.sig)
    /\ row.sig.key \in worker[w].known
    /\ TrustedManifestContains(row.sig.key) = "yes"

\* Rows are read in the order of their ids.
FirstRow(w) == Min(DOMAIN worker[w].rows)
RestOf(w) == Restrict(worker[w].rows, DOMAIN worker[w].rows \ {FirstRow(w)})

VerifiedRow(w) ==
    LET row == worker[w].rows[FirstRow(w)]
    IN  [worker EXCEPT ![w].rows = RestOf(w),
                       ![w].out = @ \cup {[id |-> FirstRow(w), payload |-> row.payload,
                                          key |-> row.sig.key]}]

\* Variant: the manifest is not consulted.
VerifyAgainstDb(w) ==
    /\ worker[w].pc = "verify" /\ worker[w].rows # Empty
    /\ LET row == worker[w].rows[FirstRow(w)]
       IN  IF VerifyRuleSignature(row.payload, row.sig) /\ row.sig.key \in worker[w].known
           THEN worker' = VerifiedRow(w) /\ UNCHANGED reader ELSE Refuse(w)
    /\ UNCHANGED <<db, manifest, installer, spent, acked, off, vouched>>

\* Variant: a row that does not verify is left out.
VerifySkipsRow(w) ==
    /\ worker[w].pc = "verify" /\ worker[w].rows # Empty
    /\ worker' = IF RowVerifies(w, worker[w].rows[FirstRow(w)]) THEN VerifiedRow(w)
                 ELSE [worker EXCEPT ![w].rows = RestOf(w), ![w].total = @ - 1]
    /\ UNCHANGED <<db, manifest, reader, installer, spent, acked, off, vouched>>

\* Variant: the check of the signer locks the reading connection once more.
VerifyLocksAgain(w) ==
    /\ worker[w].pc = "verify" /\ worker[w].rows # Empty
    /\ reader = "free"
    /\ worker' = VerifiedRow(w)
    /\ UNCHANGED <<db, manifest, reader, installer, spent, acked, off, vouched>>

\* verify_user_rule_row; the manifest is read again for every row.
VerifyUserRuleRow(w) ==
    /\ worker[w].pc = "verify" /\ worker[w].rows # Empty
    /\ IF RowVerifies(w, worker[w].rows[FirstRow(w)])
       THEN worker' = VerifiedRow(w) /\ UNCHANGED reader ELSE Refuse(w)
    /\ UNCHANGED <<db, manifest, installer, spent, acked, off, vouched>>

\* The rows that verified must be as many as were counted.
AllVerified(w) ==
    /\ worker[w].pc = "verify" /\ worker[w].rows = Empty
    /\ reader' = "free"
    /\ worker' = Answer(w, IF Cardinality(worker[w].out) = worker[w].total
                           THEN "inputs" ELSE "refused")
    /\ UNCHANGED <<db, manifest, installer, spent, acked, off, vouched>>

-----------------------------------------------------------------------------
(* handle_list_rules and rule_signing_status                                 *)

AllRulesWithSource(w) ==
    /\ worker[w].pc = "list" /\ reader = "free"
    /\ worker' = IF worker[w].req.builtins = "yes"
                 THEN [worker EXCEPT ![w].pc = "overrides"]
                 ELSE [worker EXCEPT ![w].pc = "reply", ![w].reply = "rows", ![w].mustOff = {}]
    /\ UNCHANGED <<db, manifest, reader, installer, spent, acked, off, vouched>>

\* The first signer of the manifest; the installer writes one.
RuleSigningStatus(w) ==
    /\ worker[w].pc = "status"
    /\ worker' = IF manifest.file = "regular" /\ manifest.keys # {}
                 THEN [worker EXCEPT ![w].pc = "status_db", ![w].known = manifest.keys]
                 ELSE Answer(w, "not-configured")
    /\ UNCHANGED <<db, manifest, reader, installer, spent, acked, off, vouched>>

\* Variant: the cache is taken to match.
StatusTrustsManifest(w) ==
    /\ worker[w].pc = "status_db" /\ reader = "free"
    /\ worker' = Answer(w, "configured")
    /\ UNCHANGED <<db, manifest, reader, installer, spent, acked, off, vouched>>

TrustedSignerDbMatches(w) ==
    /\ worker[w].pc = "status_db" /\ reader = "free"
    /\ worker' = Answer(w, IF worker[w].known \subseteq signers THEN "configured" ELSE "invalid")
    /\ UNCHANGED <<db, manifest, reader, installer, spent, acked, off, vouched>>

\* The reply reaches the client; only now may the client rely on it.
Reply(w) ==
    LET me == worker[w]
    IN  /\ me.pc = "reply"
        /\ worker' = [worker EXCEPT ![w] = Idle]
        /\ acked' = IF me.req.op = "insert" /\ me.reply = "ok" /\ me.total # 0
                    THEN Put(acked, me.total, me.req.payload) ELSE acked
        /\ off' = IF me.req.op = "disable" /\ me.reply = "ok" /\ "enabled" \notin me.excuse
                  THEN off \cup {me.req.payload.pattern} ELSE off
        /\ vouched' = IF me.reply = "configured" /\ me.excuse = {}
                      THEN vouched \cup me.known ELSE vouched
        /\ UNCHANGED <<db, manifest, reader, installer, spent>>

-----------------------------------------------------------------------------
(* register_rule_signer of the installer: write_trusted_signer_manifest      *)
(* removes the file, creates it and writes it; then the key is enrolled.     *)

InstallerStep(from, to) ==
    /\ installer.step = from
    /\ installer' = [installer EXCEPT !.step = to]
    /\ vouched' = {}
    /\ UNCHANGED <<rules, sigs, overrides, reader, acked, off>>

Moved ==
    Touch([v \in Workers |-> IF worker[v].req.op \in Manage \cup {"status"}
                            THEN [worker[v] EXCEPT !.excuse = @ \cup {"installer"}] ELSE worker[v]])

RemoveManifest(k) ==
    /\ installer.step = "done"
    /\ spent.faults < MaxFaults
    /\ spent' = [spent EXCEPT !.faults = @ + 1]
    /\ installer' = [step |-> "removed", key |-> k]
    /\ manifest' = [file |-> "missing", keys |-> {}]
    /\ vouched' = {}
    /\ UNCHANGED <<db, reader, acked, off>>
    /\ worker' = Moved

CreateManifest ==
    /\ InstallerStep("removed", "created")
    /\ manifest' = [file |-> "regular", keys |-> {}]
    /\ UNCHANGED <<signers, spent>>
    /\ worker' = Moved

WriteManifest ==
    /\ InstallerStep("created", "written")
    /\ manifest' = [file |-> "regular", keys |-> {installer.key}]
    /\ UNCHANGED <<signers, spent>>
    /\ worker' = Moved

RegisterTrustedRuleSigner ==
    /\ InstallerStep("written", "done")
    /\ signers' = signers \cup {installer.key}
    /\ UNCHANGED <<manifest, spent>>
    /\ worker' = Moved

-----------------------------------------------------------------------------
(* Another program edits the database: it changes a rule, or deletes a row   *)
(* of one table.  Once both rows are gone the store holds no trace of them,  *)
(* and the id is free again; so a reply that is still to name it promises    *)
(* nothing.  A preparation under way need not see the rule, since its        *)
(* statements are not one transaction.                                       *)

Edit(i) ==
    LET traced == DOMAIN rules' \cup DOMAIN sigs'
    IN  /\ spent.faults < MaxFaults
        /\ spent' = [spent EXCEPT !.faults = @ + 1, !.edited = "yes"]
        /\ acked' = Restrict(acked, {j \in DOMAIN acked : j = i => i \in traced})
        /\ UNCHANGED <<signers, overrides, manifest, reader, installer, off, vouched>>
        /\ worker' = Touch([v \in Workers |->
              [worker[v] EXCEPT !.must = Restrict(@, DOMAIN @ \ {i}),
                  !.total = IF worker[v].req.op = "insert" /\ @ = i /\ i \notin traced THEN 0 ELSE @]])

ChangeRule(i, p) ==
    /\ i \in DOMAIN rules /\ p # rules[i]
    /\ rules' = [rules EXCEPT ![i] = p] /\ UNCHANGED sigs
    /\ Edit(i)

DeleteRule(i) ==
    /\ i \in DOMAIN rules
    /\ rules' = Restrict(rules, DOMAIN rules \ {i}) /\ UNCHANGED sigs
    /\ Edit(i)

DeleteSignature(i) ==
    /\ i \in DOMAIN sigs
    /\ sigs' = Restrict(sigs, DOMAIN sigs \ {i}) /\ UNCHANGED rules
    /\ Edit(i)

\* The daemon dies and is started again; committed transactions survive.
Crash ==
    /\ spent.faults < MaxFaults
    /\ spent' = [spent EXCEPT !.faults = @ + 1]
    /\ worker' = [w \in Workers |-> Idle]
    /\ reader' = "free"
    /\ UNCHANGED <<db, manifest, installer, acked, off, vouched>>

-----------------------------------------------------------------------------
Receive(w) ==
    \E r \in Requests :
        \/ HandleInsertUserRule(w, r)  \/ HandleDisableCuratedRule(w, r)
        \/ HandleEnableCuratedRule(w, r) \/ HandlePrepareSnapshot(w, r)
        \/ HandleListRules(w, r)       \/ HandleStatus(w, r)

Work(w) ==
    \/ TrustedInDb(w)         \/ TrustedInManifest(w)   \/ InsertSignedUserRule(w)
    \/ DisableCuratedRule(w)  \/ EnableCuratedRule(w)   \/ DisabledCuratedPatterns(w)
    \/ FindUnsigned(w)        \/ FindOrphan(w)          \/ CountRules(w)
    \/ SelectRows(w)          \/ VerifyUserRuleRow(w)   \/ AllVerified(w)
    \/ AllRulesWithSource(w)  \/ RuleSigningStatus(w)   \/ TrustedSignerDbMatches(w)
    \/ Reply(w)

Installer == (\E k \in Keys : RemoveManifest(k)) \/ CreateManifest \/ WriteManifest
             \/ RegisterTrustedRuleSigner

ForeignEdit ==
    \E i \in DOMAIN rules \cup DOMAIN sigs :
        (\E p \in Payloads : ChangeRule(i, p)) \/ DeleteRule(i) \/ DeleteSignature(i)

Next == (\E w \in Workers : Receive(w) \/ Work(w)) \/ Installer \/ ForeignEdit \/ Crash

\* The workers are threads of a running daemon, so each of them goes on; clients,
\* the installer and other programs owe nothing.
Spec == Init /\ [][Next]_vars /\ \A w \in Workers : WF_vars(Work(w))

-----------------------------------------------------------------------------
Tables ==
    /\ DOMAIN rules \cup DOMAIN sigs \subseteq 1 .. MaxRequests + 1
    /\ \A i \in DOMAIN rules : rules[i] \in Payloads
    /\ \A i \in DOMAIN sigs : sigs[i].key \in Keys
    /\ signers \subseteq Keys /\ overrides \subseteq Curated

\* The tables, the manifest and the workers keep their shape, and the reading
\* connection is held exactly by the worker inside one of its critical sections.
TypeOK ==
    /\ Tables
    /\ manifest.file \in {"regular", "missing"} /\ manifest.keys \subseteq Keys
    /\ \A w \in Workers :
          (reader = w) <=> worker[w].pc \in {"trust_manifest", "orphan", "count", "select", "verify"}

\* A preparation that came after the acknowledgement of a rule hands out that
\* rule or refuses: all_verified_user_rules never returns fewer rules than the
\* clients were promised, whatever was edited before it, crashes or is enrolled
\* meanwhile.
AcknowledgedRuleEnforced ==
    \A w \in Workers : worker[w].reply = "inputs" =>
        \A i \in DOMAIN worker[w].must :
            \E o \in worker[w].out : o.id = i /\ o.payload = worker[w].must[i]

\* Every rule handed out was signed by a key that the manifest listed while the
\* preparation ran; a key that an earlier enrolment replaced counts no more,
\* though the database still has it (verify_rule_signer_trusted).
RevokedKeyNotHonoured ==
    \A w \in Workers : worker[w].reply = "inputs" =>
        \A o \in worker[w].out : o.key \in worker[w].keys

\* A curated rule whose disabling was acknowledged, and that nobody asked to
\* enable since, is disabled in every later snapshot and listing; only a failed
\* read of the overrides lets a snapshot go on without it.
DisableHonoured ==
    \A w \in Workers : worker[w].reply \in {"inputs", "rows"} =>
        worker[w].mustOff \subseteq worker[w].disabled

\* A preparation is refused only for a cause outside of the daemon's own writes:
\* a rule from before signatures, an edit, a signer that is no longer listed, or
\* a rule committed between the count and the join.
RefusalHasCause ==
    \A w \in Workers : worker[w].reply = "refused" => worker[w].excuse # {}

\* When status called a key configured and the installer has not moved since, a
\* request signed by that key is not turned away as untrusted, though status
\* and is_trusted_rule_signer compare different columns and files.
StatusVouchesForSigner ==
    \A w \in Workers :
        worker[w].reply = "untrusted" /\ worker[w].excuse = {} =>
            worker[w].req.sig.key \notin worker[w].keys

\* Every request is answered or lost in a crash; no handler waits for the
\* reading connection that it holds itself.
RequestsAnswered == \A w \in Workers : worker[w].pc # "idle" ~> worker[w].pc = "idle"
=============================================================================
