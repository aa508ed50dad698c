------------------------------ MODULE HookNet -------------------------------
(***************************************************************************)
(* The network side of one hooked process: the constructor that loads the  *)
(* snapshot, the interposed calls of its threads (replace_libc,            *)
(* replace_nw), and the cache that remembers which host an address was     *)
(* resolved from.                                                          *)
(*                                                                         *)
(* A thread is inside a hook exactly when its "at" is not "out"; the       *)
(* socket calls of the hook's own IPC are made there and go straight to    *)
(* the kernel.  A round trip to the daemon is one step that ends with the  *)
(* daemon's answer or with the time-out, other threads run in between.     *)
(* What the daemon answers is resolve_policy_deny over the same snapshot.  *)
(***************************************************************************)
EXTENDS Policy

CONSTANTS
    Threads,       \* threads of the process
    Images,        \* what the constructor finds: manifest, files, own dylib
    Modes,         \* how the daemon treats the process: see Answers
    Snapshot,      \* the entries of the published snapshot
    Names,         \* hosts the process asks for
    Dns,           \* address lists a name may resolve to
    Ipv6,          \* the addresses among them that are AF_INET6
    Hints,         \* hints.ai_family of the callers
    Dests,         \* sockaddrs the process connects or sends to
    Capacity,      \* cache::CAPACITY (32 in the code)
    MaxAttempts,   \* MAX_RESOLVE_ATTEMPTS (4 in the code)
    MaxCalls       \* bound on the calls the threads make

ASSUME HookNetAssumption ==
    Capacity \in Nat \ {0} /\ MaxAttempts \in Nat /\ MaxCalls \in Nat

\* What build_snapshot gives: rules of the six tiers, each of the kind of its
\* tier, sorted by tier.
ASSUME SnapshotAssumption ==
    /\ Snapshot \in Seq([tier : Range(Tiers), kind : {"Allow", "Deny"},
                         match_type : {"Exact", "Suffix", "Ip"}, pattern : Seq(STRING)])
    /\ \A i \in DOMAIN Snapshot :
           Snapshot[i].kind = "Allow" <=> Snapshot[i].tier \in AllowTiers
    /\ \A i, j \in DOMAIN Snapshot :
           i < j => TierRank(Snapshot[i].tier) <= TierRank(Snapshot[j].tier)

\* What the constructor, the callers and the daemon can come with.  "wire" is
\* the encoding of a sockaddr that sockaddr_to_wire chooses.
ASSUME InputAssumption ==
    /\ Images \subseteq
           [manifest : {"unset", "outside", "malformed", "unsigned", "complete"},
            file : {"same", "other"}, schema : {"v2", "old"}, signature : {"valid", "invalid"},
            signers : {"safe", "unsafe"}, signer : {"listed", "unknown"},
            hash : {"none", "matches", "differs", "malformed"},
            active : SUBSET {"connect", "write", "getaddrinfo"}, socket : {"known", "unknown"}]
    /\ Names \subseteq Seq(STRING) /\ Dns \subseteq Seq(Seq(STRING))
    /\ Hints \subseteq {"any", "inet", "inet6"}
    /\ Dests \subseteq [family : {"inet", "inet6", "unix", "malformed"}, ip : Seq(STRING),
                        form : {"wire", "other"}]

VARIABLES
    image,      \* the member of Images this process meets
    mode,       \* the member of Modes this process meets
    hook,       \* "ctor", then "open" or "closed" (FAIL_CLOSED)
    cache,      \* the slots
    tick,       \* Cache::tick
    thread,     \* what each thread does
    calls,      \* calls made so far
    granted,    \* destinations handed to the kernel, with the host they were granted for
    started,    \* hosts of the Network.framework connections started
    answered,   \* host and address pairs the daemon has answered
    recent      \* the keys touched last, the latest at the end

vars == <<image, mode, hook, cache, tick, thread, calls, granted, started, answered, recent>>

-----------------------------------------------------------------------------
(* The constructor                                                          *)

\* The lines of the manifest, and parse_manifest_signature: all seven fields of
\* the signature must be there.
ParseManifest(im) ==
    CASE im.manifest = "unset"     -> "EnvUnset"
      [] im.manifest = "outside"   -> "PathOutsideStateDir"
      [] im.manifest = "malformed" -> "ManifestParseFailed"
      [] im.manifest = "unsigned"  -> "SnapshotSignatureMissing"
      [] im.manifest = "complete"  -> "ok"

\* verify_trusted_signer_manifest_path: a regular file that only root may write.
SignersFileSafe(im) == im.signers = "safe"

\* trusted_signer_matches: a row with the key's hash, kind and bytes.
TrustedSignerMatches(im) == im.signer = "listed"

\* verify_snapshot_signature, then trusted_signer_manifest_contains.
VerifySnapshotSignature(im) ==
    IF im.signature = "invalid" THEN "SnapshotSignatureMismatch"
    ELSE IF ~SignersFileSafe(im) THEN "TrustedSignerManifestInvalid"
    ELSE IF ~TrustedSignerMatches(im) THEN "SnapshotSignerUntrusted"
    ELSE "ok"

\* load_from_env: the first check that fails names the error.
LoadFromEnv(im) ==
    IF ParseManifest(im) # "ok" THEN ParseManifest(im)
    ELSE IF im.file = "other" THEN "DigestMismatch"
    ELSE IF im.schema = "old" THEN "SchemaMismatch"
    ELSE VerifySnapshotSignature(im)

\* self_check::verify; without a hash file it succeeds.
SelfCheck(im) == im.hash \in {"none", "matches"}

\* probe_self_test: the symbols that dlsym finds to be the hook's own.
ProbeSelfTest(im) == {"connect", "write", "getaddrinfo"} \subseteq im.active

\* Variant: the outcome of the self-check is only logged.
CtorIgnoresSelfCheck ==
    /\ hook = "ctor"
    /\ hook' = IF LoadFromEnv(image) = "ok" /\ ProbeSelfTest(image)
               THEN "open" ELSE "closed"
    /\ UNCHANGED <<image, mode, cache, tick, thread, calls, granted, started, answered, recent>>

\* guard_hook_init: the snapshot, the self-check, then the interposition probe,
\* each of which can only close the hook.
Ctor ==
    /\ hook = "ctor"
    /\ hook' = IF /\ LoadFromEnv(image) = "ok"
                  /\ SelfCheck(image)
                  /\ ProbeSelfTest(image)
               THEN "open" ELSE "closed"
    /\ UNCHANGED <<image, mode, cache, tick, thread, calls, granted, started, answered, recent>>

-----------------------------------------------------------------------------
(* The cache                                                                *)

NoKey == [ip |-> Empty, form |-> "none"]
Slot  == [key |-> NoKey, host |-> Empty, tick |-> 0]

\* cache_key: everything of the sockaddr except its port.
CacheKey(sa) == [ip |-> sa.ip, form |-> sa.form]

\* find_idx; 0 stands for None.
FindIdx(c, key) ==
    LET at == {i \in DOMAIN c : c[i].key = key}
    IN  IF at = {} THEN 0 ELSE CHOOSE i \in at : \A j \in at : i <= j

\* The slot insert() takes: the key's own, else the first empty one, else the
\* first of those used longest ago.
TargetIdx(c, key) ==
    LET empty  == {i \in DOMAIN c : c[i].key = NoKey}
        oldest == {i \in DOMAIN c : \A j \in DOMAIN c : c[i].tick <= c[j].tick}
        first(S) == CHOOSE i \in S : \A j \in S : i <= j
    IN  IF FindIdx(c, key) # 0 THEN FindIdx(c, key)
        ELSE IF empty # {} THEN first(empty) ELSE first(oldest)

\* The last Capacity different keys used, for CacheKeepsRecent.
Touch(key) ==
    LET at == {i \in DOMAIN recent : recent[i] = key}
    IN  IF at # {} THEN Append(RemoveAt(recent, CHOOSE i \in at : TRUE), key)
        ELSE IF Len(recent) = Capacity THEN Append(Tail(recent), key)
        ELSE Append(recent, key)

\* Cache::insert
Insert(key, host) ==
    /\ cache' = [cache EXCEPT ![TargetIdx(cache, key)] =
                    [key |-> key, host |-> host, tick |-> tick]]
    /\ tick' = tick + 1
    /\ recent' = Touch(key)

\* Variant: a hit does not count as a use.
LookupWithoutBump(key) ==
    /\ UNCHANGED <<cache, tick>>
    /\ recent' = IF FindIdx(cache, key) = 0 THEN recent ELSE Touch(key)

\* Cache::lookup: a hit becomes the most recent entry.
Lookup(key) ==
    IF FindIdx(cache, key) = 0
    THEN UNCHANGED <<cache, tick, recent>>
    ELSE /\ cache' = [cache EXCEPT ![FindIdx(cache, key)].tick = tick]
         /\ tick' = tick + 1
         /\ recent' = Touch(key)

-----------------------------------------------------------------------------
(* The daemon's side of a Resolve                                           *)

\* resolve_policy_deny, then handle_resolve: the lists this name may get.  A
\* process the tree does not know is resolved without policy; in learn mode
\* and after a prompt ("lenient") so is every host that no hard rule denies.
Answers(host) ==
    LET policy == EvaluatePolicy(host, Empty, FALSE, Snapshot)
        hard == policy.source \in {"ConfirmedDeny", "BuiltinDeny", "loopback", "cloud-metadata"}
    IN  IF \/ mode = "untracked"
           \/ policy.verdict = "Allow"
           \/ mode = "lenient" /\ ~hard
        THEN Dns ELSE {}

\* A sockaddr as sockaddr_to_wire encodes it.
Wire(ip) == [family |-> IF ip \in Ipv6 THEN "inet6" ELSE "inet", ip |-> ip, form |-> "wire"]

-----------------------------------------------------------------------------
(* The calls                                                                *)

NoAddr == [family |-> "none", ip |-> Empty, form |-> "none"]

Out == [at |-> "out", host |-> Empty, rest |-> Empty, sa |-> NoAddr, walk |-> 0, asked |-> 0,
        source |-> "none"]

Init ==
    /\ image \in Images
    /\ mode \in Modes
    /\ hook = "ctor"
    /\ cache = [i \in 1 .. Capacity |-> Slot]
    /\ tick = 1
    /\ thread = [t \in Threads |-> Out]
    /\ calls = 0
    /\ granted = {}
    /\ started = {}
    /\ answered = {}
    /\ recent = Empty

Enters(t) ==
    /\ hook \in {"open", "closed"}
    /\ thread[t].at = "out"
    /\ calls < MaxCalls
    /\ calls' = calls + 1

\* guard_getaddrinfo up to its round trip; a closed hook, or one that does not
\* know the daemon's socket, fails at once.
GetAddrInfo(t) ==
    /\ Enters(t)
    /\ hook = "open" /\ image.socket = "known"
    /\ \E h \in Names, hint \in Hints :
           thread' = [thread EXCEPT ![t] = [Out EXCEPT !.at = "resolving", !.host = h, !.source = hint]]
    /\ UNCHANGED <<image, mode, hook, cache, tick, granted, started, answered, recent>>

\* The reply of the daemon; without an address the call ends with EAI_NONAME.
Resolved(t) ==
    /\ thread[t].at = "resolving"
    /\ \E list \in Answers(thread[t].host) :
           /\ answered' = answered \cup {<<thread[t].host, list[i]>> : i \in DOMAIN list}
           /\ thread' = [thread EXCEPT ![t] =
                            IF list = Empty THEN Out ELSE [@ EXCEPT !.at = "building", !.rest = list]]
    /\ UNCHANGED <<image, mode, hook, cache, tick, calls, granted, started, recent>>

\* A denial, a failed lookup or the time-out: EAI_FAIL, EAI_NONAME, EAI_AGAIN.
Unresolved(t) ==
    /\ thread[t].at = "resolving"
    /\ thread' = [thread EXCEPT ![t] = Out]
    /\ UNCHANGED <<image, mode, hook, cache, tick, calls, granted, started, answered, recent>>

\* One round of build_addrinfo_chain.  An address of another family than the
\* one asked for is skipped; else the cache learns its host under the lock and
\* the node is allocated; a failed allocation ends the call.
BuildNode(t) ==
    /\ thread[t].at = "building"
    /\ LET call == thread[t]
           sa == Wire(Head(call.rest))
           next == IF Len(call.rest) = 1 THEN Out ELSE [call EXCEPT !.rest = Tail(@)]
       IN  IF call.source \in {"any", sa.family}
           THEN /\ Insert(CacheKey(sa), call.host)
                /\ \/ thread' = [thread EXCEPT ![t] = next]
                   \/ thread' = [thread EXCEPT ![t] = Out]
           ELSE /\ thread' = [thread EXCEPT ![t] = next]
                /\ UNCHANGED <<cache, tick, recent>>
    /\ UNCHANGED <<image, mode, hook, calls, granted, started, answered>>

\* guard_connect, guard_connectx, and guard_sendto and guard_sendmsg with an
\* address.  Without an address the last two go to the kernel unchecked.
Connect(t) ==
    /\ Enters(t)
    /\ \E sa \in Dests :
           thread' = [thread EXCEPT ![t] = [Out EXCEPT !.at = "deciding", !.sa = sa]]
    /\ UNCHANGED <<image, mode, hook, cache, tick, granted, started, answered, recent>>

\* The verdict of evaluate_policy sends the call to the kernel or to the report.
Judged(call, host, resolved) ==
    LET v == EvaluatePolicy(host, call.sa.ip, resolved, Snapshot)
    IN  [Out EXCEPT !.at = IF v.verdict = "Allow" THEN "allowed" ELSE "denied",
                    !.sa = call.sa, !.host = host, !.source = v.source]

Refused(call, source) == [Out EXCEPT !.at = "denied", !.sa = call.sa, !.source = source]

\* The Exact CuratedAllow entries, which the fallback asks the daemon about.
Candidates ==
    {i \in DOMAIN Snapshot :
        /\ Snapshot[i].kind = "Allow" /\ Snapshot[i].tier = "CuratedAllow"
        /\ Snapshot[i].match_type = "Exact"}

\* decide_for_sockaddr up to the cache and the guards of the fallback.
Decide(t) ==
    /\ thread[t].at = "deciding"
    /\ LET call == thread[t]
           idx == FindIdx(cache, CacheKey(call.sa))
           asks == /\ image.socket = "known"
                   /\ call.sa.family \in {"inet", "inet6"}
                   /\ ~IsLoopbackIp(call.sa.ip) /\ ~IsCloudMetadata(call.sa.ip)
                   /\ Candidates # {} /\ MaxAttempts > 0
           early == IF call.sa.family = "unix" THEN "unix-socket"
                    ELSE IF hook = "closed" THEN "fail-closed"
                    ELSE IF call.sa.family = "malformed" THEN "bad-sockaddr" ELSE "none"
       IN  IF early # "none"
           THEN /\ thread' = [thread EXCEPT ![t] = Refused(call, early)]
                /\ UNCHANGED <<cache, tick, recent>>
           ELSE /\ Lookup(CacheKey(call.sa))
                /\ thread' = [thread EXCEPT ![t] =
                       IF idx # 0 THEN Judged(call, cache[idx].host, TRUE)
                       ELSE IF asks
                       THEN [call EXCEPT !.at = "walking", !.walk = Min(Candidates), !.asked = 1]
                       ELSE Judged(call, Empty, FALSE)]
    /\ UNCHANGED <<image, mode, hook, calls, granted, started, answered>>

\* One candidate of the fallback: its answer holds the destination, and the
\* cache learns the pattern as its host.
WalkFinds(t) ==
    /\ thread[t].at = "walking"
    /\ LET call == thread[t]
           host == Snapshot[call.walk].pattern
       IN  \E list \in Answers(host) :
               /\ call.sa \in {Wire(list[i]) : i \in DOMAIN list}
               /\ answered' = answered \cup {<<host, call.sa.ip>>}
               /\ Insert(CacheKey(call.sa), host)
               /\ thread' = [thread EXCEPT ![t] = Judged(call, host, TRUE)]
    /\ UNCHANGED <<image, mode, hook, calls, granted, started>>

\* Variant: a candidate that gives no answer sends the call back to the cache.
WalkRetries(t) ==
    /\ thread[t].at = "walking"
    /\ thread' = [thread EXCEPT ![t] = [@ EXCEPT !.at = "deciding", !.walk = 0, !.asked = 0]]
    /\ UNCHANGED <<image, mode, hook, cache, tick, calls, granted, started, answered, recent>>

\* Variant: no limit on the candidates asked about.
WalkUnlimited(t) ==
    /\ thread[t].at = "walking"
    /\ LET call == thread[t]
           later == {i \in Candidates : i > call.walk}
       IN  thread' = [thread EXCEPT ![t] =
               IF later = {} THEN Judged(call, Empty, FALSE)
               ELSE [call EXCEPT !.walk = Min(later), !.asked = @ + 1]]
    /\ UNCHANGED <<image, mode, hook, cache, tick, calls, granted, started, answered, recent>>

\* The candidate does not resolve to the destination, fails, or times out after
\* RESOLVE_TIMEOUT_MS; after the last one the miss is judged as it stands.
WalkMisses(t) ==
    /\ thread[t].at = "walking"
    /\ LET call == thread[t]
           later == {i \in Candidates : i > call.walk}
       IN  thread' = [thread EXCEPT ![t] =
               IF later = {} \/ call.asked = MaxAttempts THEN Judged(call, Empty, FALSE)
               ELSE [call EXCEPT !.walk = Min(later), !.asked = @ + 1]]
    /\ UNCHANGED <<image, mode, hook, cache, tick, calls, granted, started, answered, recent>>

\* The raw system call.
Grant(t) ==
    /\ thread[t].at = "allowed"
    /\ granted' = granted \cup {[sa |-> thread[t].sa, host |-> thread[t].host]}
    /\ thread' = [thread EXCEPT ![t] = Out]
    /\ UNCHANGED <<image, mode, hook, cache, tick, calls, started, answered, recent>>

\* notify_deny_for_sockaddr looks the host up once more before it reports, and
\* only when the socket is known and the sockaddr is sound; then EHOSTUNREACH.
Report(t) ==
    /\ thread[t].at = "denied"
    /\ IF image.socket = "known" /\ thread[t].sa.family # "malformed"
       THEN Lookup(CacheKey(thread[t].sa))
       ELSE UNCHANGED <<cache, tick, recent>>
    /\ thread' = [thread EXCEPT ![t] = Out]
    /\ UNCHANGED <<image, mode, hook, calls, granted, started, answered>>

\* is_nw_object and extract_endpoint_hostname: no host for a pointer that is not
\* a connection of the framework, or without a host endpoint.
EndpointHostname(conn) == IF conn.class = "OS_nw_" THEN conn.host ELSE Empty

\* decide_for_nw_connection; a closed hook does not decide.
DeniesNwConnection(host) ==
    /\ hook = "open" /\ host # Empty
    /\ EvaluatePolicy(host, Empty, TRUE, Snapshot).verdict = "Deny"

\* nw_connection_start: a connection whose host is denied is cancelled and not
\* started; every other goes on, and its sockets meet the calls above.
NwStart(t) ==
    /\ Enters(t)
    /\ \E conn \in [class : {"OS_nw_", "other"}, host : Names \cup {Empty}] :
           LET host == EndpointHostname(conn)
           IN  started' = IF DeniesNwConnection(host) THEN started
                          ELSE started \cup {[host |-> host, hook |-> hook]}
    /\ UNCHANGED <<image, mode, hook, cache, tick, thread, granted, answered, recent>>

Step(t) ==
    \/ Resolved(t) \/ Unresolved(t) \/ BuildNode(t)
    \/ Decide(t) \/ WalkFinds(t) \/ WalkMisses(t) \/ Grant(t) \/ Report(t)

Next ==
    \/ Ctor
    \/ \E t \in Threads : GetAddrInfo(t) \/ Connect(t) \/ NwStart(t) \/ Step(t)

\* A thread inside a call is running or waits for a bounded time.
Fairness == WF_vars(Ctor) /\ \A t \in Threads : WF_vars(Step(t))

Spec == Init /\ [][Next]_vars /\ Fairness

-----------------------------------------------------------------------------
(* Properties                                                               *)

Sockaddrs == Dests \cup {Wire(ip) : ip \in UNION {{l[i] : i \in DOMAIN l} : l \in Dns}}

\* Type correctness; the fallback of one call asks about at most MaxAttempts
\* names (decide_for_sockaddr).
TypeOK ==
    /\ image \in Images /\ mode \in Modes
    /\ hook \in {"ctor", "open", "closed"}
    /\ \A i \in 1 .. Capacity : cache[i].key \in {NoKey} \cup {CacheKey(sa) : sa \in Sockaddrs}
    /\ tick \in Nat
    /\ \A t \in Threads : thread[t].asked \in 0 .. MaxAttempts
    /\ calls \in 0 .. MaxCalls

\* Every destination the hook hands to the kernel was resolved through the
\* daemon, by this process, from a host that the snapshot's highest-priority
\* rule allows for that address, and is none that a hard rule denies, whatever
\* the threads overwrote or evicted in the cache in the meantime.  A started
\* Network.framework connection with a host is one the rules allow as well.
GrantedIsPermitted ==
    /\ \A g \in granted :
           /\ g.sa.family \notin {"unix", "malformed"}
           /\ <<g.host, g.sa.ip>> \in answered
           /\ Permitted(g.host, g.sa.ip, Snapshot)
    /\ \A s \in started : s.hook = "open" /\ s.host # Empty => Permitted(s.host, Empty, Snapshot)

\* The cache holds exactly the addresses used last: an address is forgotten only
\* after Capacity others were resolved or looked up since (Cache::insert and
\* Cache::lookup, with their ticks).
CacheKeepsRecent ==
    {cache[i].key : i \in 1 .. Capacity} \ {NoKey} = {recent[i] : i \in DOMAIN recent}

\* A process whose snapshot is missing, altered, unsigned or signed by a signer
\* that is not listed, whose dylib was altered, or whose calls are not
\* interposed, connects nowhere and resolves nothing (FAIL_CLOSED).
UntrustedGrantsNothing ==
    \/ /\ image.manifest = "complete" /\ image.file = "same" /\ image.schema = "v2"
       /\ image.signature = "valid" /\ image.signers = "safe" /\ image.signer = "listed"
       /\ image.hash \notin {"differs", "malformed"}
       /\ image.active = {"connect", "write", "getaddrinfo"}
    \/ granted = {} /\ answered = {}

\* Every intercepted call returns, whether or not the daemon answers.
CallsReturn == \A t \in Threads : thread[t].at # "out" ~> thread[t].at = "out"
=============================================================================
