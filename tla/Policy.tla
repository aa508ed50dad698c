------------------------------- MODULE Policy -------------------------------
(***************************************************************************)
(* guard-core: the rule evaluator shared by the daemon and the hook        *)
(* (policy::evaluate_policy over allowlist::AllowlistEntry::matches) and   *)
(* the construction of a snapshot (snapshot_build::build_snapshot).        *)
(*                                                                         *)
(* A name or the text of an address is the sequence of its dot-separated   *)
(* labels; << >> is the empty host, and stands for "no address" where the  *)
(* code has None.  The leading dot of a suffix pattern is an empty first   *)
(* label.                                                                  *)
(***************************************************************************)
EXTENDS Integers, Sequences, FiniteSets, SequencesExt

Empty == << >>

\* RuleTier, in the order the snapshot is sorted by; a rule of a "Deny" tier
\* denies.  The loaders give a tier only to rules of its kind.
Tiers == <<"BuiltinDeny", "CuratedAllow", "ConfirmedDeny", "UserDeny", "UserAllow", "SuspectDeny">>

TierRank(t) == CHOOSE i \in DOMAIN Tiers : Tiers[i] = t

AllowTiers == {"CuratedAllow", "UserAllow"}

Entry(tier, matchType, pattern) ==
    [tier |-> tier, kind |-> IF tier \in AllowTiers THEN "Allow" ELSE "Deny",
     match_type |-> matchType, pattern |-> pattern]

\* AllowlistEntry::matches.  A suffix pattern without its leading dot matches
\* nothing.
Matches(e, host) ==
    IF e.match_type = "Suffix"
    THEN /\ e.pattern # Empty
         /\ e.pattern[1] = ""
         /\ Len(host) >= Len(e.pattern)
         /\ SubSeq(host, Len(host) - Len(e.pattern) + 2, Len(host)) = Tail(e.pattern)
    ELSE e.pattern = host

IsLoopbackHost(host) == host \in {<<"localhost">>, <<"localhost6">>}

IsLoopbackIp(ip) == ip = <<"::1">> \/ (Len(ip) > 1 /\ ip[1] = "127")

\* is_cloud_metadata_host: one spelling of the IPv4 address, and every text
\* that parses to the link-local IPv6 address once its zone is cut off.
IsCloudMetadata(text) ==
    text \in {<<"169", "254", "169", "254">>, <<"fe80::a9fe:a9fe">>, <<"FE80::A9FE:A9FE">>,
              <<"fe80:0:0:0:0:0:a9fe:a9fe">>, <<"fe80::a9fe:a9fe%en0">>}

HardDeny(rule) == [verdict |-> "Deny", source |-> rule]

\* verdict_for / SourceKind::from_tier
VerdictFor(e) == [verdict |-> e.kind, source |-> e.tier]

\* The entries that match the host, or the address in the case of an Ip entry.
Hits(host, ip, entries) ==
    {i \in DOMAIN entries :
        \/ host # Empty /\ Matches(entries[i], host)
        \/ ip # Empty /\ entries[i].match_type = "Ip" /\ Matches(entries[i], ip)}

\* Variant: the entries are consulted before the rules on addresses.
EvaluateEntriesFirst(host, ip, resolved, entries) ==
    LET hits == Hits(host, ip, entries)
    IN  IF IsLoopbackHost(host) THEN HardDeny("loopback")
        ELSE IF ip # Empty /\ ~resolved THEN HardDeny("raw-ip-cache-miss")
        ELSE IF hits # {} THEN VerdictFor(entries[Min(hits)])
        ELSE IF IsLoopbackIp(ip) THEN HardDeny("loopback")
        ELSE HardDeny("DefaultDeny")

\* evaluate_policy: hard rules, then the first entry that matches.
EvaluatePolicy(host, ip, resolved, entries) ==
    LET hits == Hits(host, ip, entries)
    IN  IF IsLoopbackHost(host) \/ IsLoopbackIp(ip) THEN HardDeny("loopback")
        ELSE IF IsCloudMetadata(host) \/ IsCloudMetadata(ip) THEN HardDeny("cloud-metadata")
        ELSE IF ip # Empty /\ ~resolved THEN HardDeny("raw-ip-cache-miss")
        ELSE IF hits # {} THEN VerdictFor(entries[Min(hits)])
        ELSE HardDeny("DefaultDeny")

\* build_snapshot: the curated entries that are not disabled, the user's and
\* the lockfile's, sorted by tier; the sort is stable.
BuildSnapshot(curated, disabled, user, lockfile) ==
    LET all == SelectSeq(curated, LAMBDA e : e.pattern \notin disabled) \o user \o lockfile
    IN  FlattenSeq([i \in DOMAIN Tiers |-> SelectSeq(all, LAMBDA e : e.tier = Tiers[i])])

-----------------------------------------------------------------------------
(* What the precedence stack promises, without an order on the entries: the *)
(* matching rule of the highest priority allows, and no hard rule applies.  *)

Permitted(host, ip, entries) ==
    LET ranks == {TierRank(entries[i].tier) : i \in {j \in DOMAIN entries :
                      \/ host # Empty /\ Matches(entries[j], host)
                      \/ ip # Empty /\ entries[j].match_type = "Ip" /\ entries[j].pattern = ip}}
    IN  /\ ~IsLoopbackHost(host) /\ ~IsLoopbackIp(ip)
        /\ ~IsCloudMetadata(host) /\ ~IsCloudMetadata(ip)
        /\ \E r \in ranks : Tiers[r] \in AllowTiers /\ \A q \in ranks : r <= q
=============================================================================
