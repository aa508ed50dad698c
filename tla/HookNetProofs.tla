--------------------------- MODULE HookNetProofs ---------------------------
(***************************************************************************)
(* Proofs about HookNet for any number of threads, names, addresses and    *)
(* cache slots, and any snapshot that is sorted by tier.                   *)
(***************************************************************************)
EXTENDS HookNet, FiniteSetTheorems, SequenceTheorems, WellFoundedInduction, TLAPS

-----------------------------------------------------------------------------
(* Least elements                                                          *)

Less == {ss \in Nat \X Nat : ss[1] < ss[2]}

\* The order of the numbers is well founded.
LEMMA LessWF == IsWellFoundedOn(Less, Nat)
BY NatLessThanWellFounded, Zenon DEF OpToRel, Less

\* A set of numbers that is not empty has a least one: the first entry that
\* matches, the first slot that is free, the least recent tick.
LEMMA LeastOf == ASSUME NEW S \in SUBSET Nat, S # {} PROVE \E x \in S : \A y \in S : x <= y
<1>1. PICK x \in S : \A y \in S : ~ (<<y, x>> \in Less)
  BY LessWF, WFMin, Zenon
<1>2. \A y \in S : ~ (y < x)
  BY <1>1, Zenon DEF Less
<1> QED BY <1>2

\* Min is that element.
LEMMA MinIs ==
    ASSUME NEW S \in SUBSET Nat, S # {} PROVE Min(S) \in S /\ \A y \in S : Min(S) <= y
BY LeastOf, Zenon DEF Min

-----------------------------------------------------------------------------
(* evaluate_policy                                                         *)

Texts == Seq(STRING)

Rules == [tier : Range(Tiers), kind : {"Allow", "Deny"},
          match_type : {"Exact", "Suffix", "Ip"}, pattern : Texts]

TierNames ==
    {"BuiltinDeny", "CuratedAllow", "ConfirmedDeny", "UserDeny", "UserAllow", "SuspectDeny"}

Sources ==
    TierNames \cup {"loopback", "cloud-metadata", "raw-ip-cache-miss", "DefaultDeny", "none",
                   "any", "inet", "inet6", "unix-socket", "fail-closed", "bad-sockaddr"}

Verdicts == [verdict : {"Allow", "Deny"}, source : Sources]

\* The tiers and their ranks.
LEMMA Ranks ==
    /\ DOMAIN Tiers = 1 .. 6 /\ Range(Tiers) \subseteq TierNames
    /\ \A x \in Range(Tiers) : TierRank(x) \in DOMAIN Tiers /\ Tiers[TierRank(x)] = x
<1>1. DOMAIN Tiers = 1 .. 6 /\ Range(Tiers) \subseteq TierNames
  <2>1. DOMAIN Tiers = 1 .. 6 /\ \A i \in 1 .. 6 : Tiers[i] \in TierNames
    BY DEF Tiers, TierNames
  <2>2. ASSUME NEW x \in Range(Tiers) PROVE x \in TierNames
    <3>1. PICK i \in DOMAIN Tiers : x = Tiers[i]
      BY <2>2, Zenon DEF Range
    <3> QED BY <2>1, <3>1, Zenon
  <2> QED BY <2>1, <2>2
<1>2. ASSUME NEW x \in Range(Tiers) PROVE TierRank(x) \in DOMAIN Tiers /\ Tiers[TierRank(x)] = x
  <2>1. \E i \in DOMAIN Tiers : Tiers[i] = x
    BY Zenon DEF Range
  <2> QED BY <2>1, Zenon DEF TierRank
<1> QED BY <1>1, <1>2

\* A verdict of evaluate_policy over the sorted snapshot that allows was given
\* by a rule of the highest matching tier, which allows, and no hard rule
\* denies the host or the address; one for an address was resolved before.
LEMMA AllowedIsPermitted ==
    ASSUME NEW host \in Texts, NEW ip \in Texts, NEW resolved \in BOOLEAN
    PROVE  /\ EvaluatePolicy(host, ip, resolved, Snapshot) \in Verdicts
           /\ EvaluatePolicy(host, ip, resolved, Snapshot).verdict = "Allow" =>
                  /\ Permitted(host, ip, Snapshot)
                  /\ ip # Empty => resolved
                  /\ host # Empty \/ ip # Empty
<1> DEFINE hits == Hits(host, ip, Snapshot)
           v == EvaluatePolicy(host, ip, resolved, Snapshot)
           first == Snapshot[Min(hits)]
<1>1. Snapshot \in Seq(Rules) /\ DOMAIN Snapshot \in SUBSET Nat
  BY SnapshotAssumption DEF Rules, Texts
<1>2. hits \in SUBSET Nat /\ hits \subseteq DOMAIN Snapshot
  BY <1>1, Zenon DEF Hits
<1>3. ASSUME hits # {}
      PROVE  /\ Min(hits) \in hits /\ \A i \in hits : Min(hits) <= i
             /\ first \in Rules /\ Min(hits) \in DOMAIN Snapshot
  <2>1. Min(hits) \in hits /\ \A i \in hits : Min(hits) <= i
    BY <1>2, <1>3, MinIs
  <2>2. Min(hits) \in DOMAIN Snapshot
    BY <1>2, <2>1
  <2> QED BY <1>1, <2>1, <2>2
<1>4. ASSUME NEW r \in Sources PROVE HardDeny(r) \in Verdicts
  BY DEF HardDeny, Verdicts
<1>5. hits # {} => VerdictFor(first) \in Verdicts
  BY <1>3, Ranks DEF VerdictFor, Rules, Verdicts, Sources
<1>6. v \in Verdicts
  <2>1. {"loopback", "cloud-metadata", "raw-ip-cache-miss", "DefaultDeny"} \subseteq Sources
    BY DEF Sources
  <2> QED BY <1>4, <1>5, <2>1, Zenon DEF EvaluatePolicy
<1>7. ASSUME v.verdict = "Allow"
      PROVE  /\ Permitted(host, ip, Snapshot) /\ (ip # Empty => resolved)
             /\ host # Empty \/ ip # Empty
  <2>1. /\ ~IsLoopbackHost(host) /\ ~IsLoopbackIp(ip)
        /\ ~IsCloudMetadata(host) /\ ~IsCloudMetadata(ip)
        /\ ip # Empty => resolved
        /\ hits # {} /\ v = VerdictFor(first)
    BY <1>7 DEF EvaluatePolicy, HardDeny
  <2>2. first.kind = "Allow" /\ first.tier \in AllowTiers
    BY <1>3, <1>7, <2>1, SnapshotAssumption DEF VerdictFor
  <2>3. host # Empty \/ ip # Empty
    BY <1>3, <2>1, Zenon DEF Hits
  <2> DEFINE match == {j \in DOMAIN Snapshot :
                          \/ host # Empty /\ Matches(Snapshot[j], host)
                          \/ ip # Empty /\ Snapshot[j].match_type = "Ip" /\ Snapshot[j].pattern = ip}
             ranks == {TierRank(Snapshot[i].tier) : i \in match}
  <2>4. match = hits
    BY Zenon DEF Hits, Matches
  <2>5. ASSUME NEW q \in ranks PROVE TierRank(first.tier) <= q
    <3>1. PICK i \in hits : q = TierRank(Snapshot[i].tier)
      BY <2>4, Zenon
    <3>2. i \in DOMAIN Snapshot /\ Min(hits) \in DOMAIN Snapshot /\ Min(hits) <= i
      BY <1>2, <1>3, <2>1
    <3>3. CASE Min(hits) = i
      <4>0. Snapshot[i] \in Rules
        BY <1>1, <3>2
      <4>1. Snapshot[i].tier \in Range(Tiers)
        BY <4>0 DEF Rules
      <4>2. q \in 1 .. 6
        BY <3>1, <4>1, Ranks
      <4> QED BY <3>1, <3>3, <4>2
    <3>4. CASE Min(hits) # i
      <4>1. Min(hits) < i
        BY <1>1, <3>2, <3>4
      <4> QED BY <3>1, <3>2, <4>1, SnapshotAssumption
    <3> QED BY <3>3, <3>4
  <2>6. TierRank(first.tier) \in ranks
    BY <1>3, <2>1, <2>4, Zenon
  <2>7. Tiers[TierRank(first.tier)] \in AllowTiers
    BY <1>3, <2>1, <2>2, Ranks DEF Rules
  <2>8. \E r \in ranks : Tiers[r] \in AllowTiers /\ \A q \in ranks : r <= q
    BY <2>5, <2>6, <2>7, Zenon
  <2> QED BY <2>1, <2>3, <2>8, Zenon DEF Permitted
<1> QED BY <1>6, <1>7, Zenon

-----------------------------------------------------------------------------
(* The cache                                                               *)

UsedKeys == {CacheKey(sa) : sa \in Sockaddrs}

Slots == [key : {NoKey} \cup UsedKeys, host : Texts, tick : Nat]

\* The slots that hold an address.
Used(c) == {i \in 1 .. Capacity : c[i].key # NoKey}

\* The cache c with the clock n holds the addresses of r, the one used longest
\* ago first: each in one slot, and later ones with later ticks.
LRU(c, n, r) ==
    /\ c \in [1 .. Capacity -> Slots] /\ n \in Nat /\ r \in Seq(UsedKeys)
    /\ Cardinality(Used(c)) = Len(r)
    /\ \A i, j \in Used(c) : c[i].key = c[j].key => i = j
    /\ \A i \in Used(c) : c[i].tick < n
    /\ \A i \in Used(c) : \E p \in 1 .. Len(r) : r[p] = c[i].key
    /\ \A p \in 1 .. Len(r) : \E i \in Used(c) : c[i].key = r[p]
    /\ \A p, q \in 1 .. Len(r) : \A i, j \in Used(c) :
           p < q /\ c[i].key = r[p] /\ c[j].key = r[q] => c[i].tick < c[j].tick

\* The key of an empty slot is the key of no address.
LEMMA KeysUsed == NoKey \notin UsedKeys
<1>1. ASSUME NEW sa \in Sockaddrs PROVE sa.form # "none"
  BY <1>1, InputAssumption DEF Sockaddrs, Wire
<1> QED BY <1>1, Zenon DEF UsedKeys, CacheKey, NoKey

\* No address is listed twice.
LEMMA RecentOnce ==
    ASSUME NEW c, NEW n, NEW r, LRU(c, n, r),
           NEW p \in 1 .. Len(r), NEW q \in 1 .. Len(r), r[p] = r[q]
    PROVE  p = q
<1>1. PICK i \in Used(c) : c[i].key = r[p]
  BY Zenon DEF LRU
<1>2. c[i].tick \in Nat
  BY <1>1 DEF LRU, Slots, Used
<1>3. ~ (p < q) /\ ~ (q < p)
  BY <1>1, <1>2 DEF LRU
<1> QED BY <1>3

\* The slots in use are at most Capacity, and Capacity only when none is free.
LEMMA UsedSlots ==
    ASSUME NEW c
    PROVE  /\ IsFiniteSet(Used(c)) /\ Cardinality(Used(c)) \in Nat
           /\ Cardinality(Used(c)) <= Capacity
           /\ Cardinality(Used(c)) = Capacity <=> Used(c) = 1 .. Capacity
<1>1. Capacity \in Nat /\ 1 \in Int /\ Capacity \in Int
  BY HookNetAssumption
<1>2. IsFiniteSet(1 .. Capacity) /\ Cardinality(1 .. Capacity) = Capacity
  BY <1>1, FS_Interval
<1>3. Used(c) \subseteq 1 .. Capacity
  BY Zenon DEF Used
<1>4. IsFiniteSet(Used(c)) /\ Cardinality(Used(c)) <= Capacity
      /\ (Cardinality(Used(c)) = Capacity => Used(c) = 1 .. Capacity)
  BY <1>2, <1>3, FS_Subset, Zenon
<1>5. Cardinality(Used(c)) \in Nat
  BY <1>4, FS_CardinalityType
<1> QED BY <1>2, <1>4, <1>5

\* The list with one of its addresses moved to the end (Touch).
LEMMA MovedToEnd ==
    ASSUME NEW S, NEW r \in Seq(S), NEW p \in 1 .. Len(r)
    PROVE  LET s == Append(RemoveAt(r, p), r[p])
           IN  /\ s \in Seq(S) /\ Len(s) = Len(r)
               /\ \A q \in 1 .. Len(r) :
                     s[q] = IF q < p THEN r[q] ELSE IF q < Len(r) THEN r[q + 1] ELSE r[p]
<1> DEFINE x == SubSeq(r, 1, p - 1)
           y == SubSeq(r, p + 1, Len(r))
           z == x \o y
<1>0. Len(r) \in Nat /\ p \in Nat /\ 1 <= p /\ p <= Len(r) /\ r[p] \in S
  OBVIOUS
<1>1. x \in Seq(S) /\ Len(x) = p - 1 /\ \A q \in 1 .. p - 1 : x[q] = r[q]
  BY <1>0
<1>2. y \in Seq(S) /\ Len(y) = Len(r) - p /\ \A q \in 1 .. Len(r) - p : y[q] = r[p + q]
  BY <1>0
<1>3. RemoveAt(r, p) = z
  BY DEF RemoveAt
<1> HIDE DEF x, y
<1>4. z \in Seq(S) /\ Len(z) = Len(r) - 1
  <2>1. z \in Seq(S) /\ Len(z) = Len(x) + Len(y)
    BY <1>1, <1>2, ConcatProperties, Zenon
  <2> QED BY <1>0, <1>1, <1>2, <2>1
<1>5. ASSUME NEW q \in 1 .. p - 1 PROVE z[q] = r[q]
  BY <1>0, <1>1, <1>2
<1>6. ASSUME NEW q \in p .. Len(r) - 1 PROVE z[q] = r[q + 1]
  <2>1. z[q] = y[q - Len(x)]
    BY <1>0, <1>1, <1>2
  <2>2. q - Len(x) \in 1 .. Len(r) - p /\ p + (q - Len(x)) = q + 1
    BY <1>0, <1>1
  <2> QED BY <1>2, <2>1, <2>2, Zenon
<1> HIDE DEF z
<1> DEFINE s == Append(z, r[p])
<1>7. s \in Seq(S) /\ Len(s) = Len(r) /\ s[Len(r)] = r[p]
  BY <1>0, <1>4
<1>8. ASSUME NEW q \in 1 .. Len(r) - 1 PROVE s[q] = z[q]
  BY <1>0, <1>4
<1> HIDE DEF s
<1>9. ASSUME NEW q \in 1 .. Len(r)
      PROVE s[q] = IF q < p THEN r[q] ELSE IF q < Len(r) THEN r[q + 1] ELSE r[p]
  <2>1. CASE q < p
    BY <1>0, <1>5, <1>8, <2>1
  <2>2. CASE ~ (q < p) /\ q < Len(r)
    BY <1>0, <1>6, <1>8, <2>2
  <2>3. CASE q = Len(r)
    BY <1>0, <1>7, <2>3
  <2> QED BY <1>0, <2>1, <2>2, <2>3
<1> QED BY <1>3, <1>7, <1>9 DEF s

\* A slot whose key is used again: Cache::insert over its own entry, and
\* Cache::lookup.
LEMMA UseAgain ==
    ASSUME NEW c, NEW n, NEW r, LRU(c, n, r), NEW k \in Used(c), NEW e \in Slots,
           e.key = c[k].key, e.tick = n, NEW p \in 1 .. Len(r), r[p] = c[k].key,
           NEW s \in Seq(UsedKeys), Len(s) = Len(r),
           \A q \in 1 .. Len(r) :
              s[q] = IF q < p THEN r[q] ELSE IF q < Len(r) THEN r[q + 1] ELSE r[p]
    PROVE  LRU([c EXCEPT ![k] = e], n + 1, s)
<1> DEFINE d == [c EXCEPT ![k] = e]
           from(q) == IF q < p THEN q ELSE IF q < Len(r) THEN q + 1 ELSE p
<1>1. /\ c \in [1 .. Capacity -> Slots] /\ n \in Nat /\ r \in Seq(UsedKeys)
      /\ k \in 1 .. Capacity /\ k \in Used(c) /\ Len(r) \in Nat
  BY DEF LRU, Used
<1>2. /\ d \in [1 .. Capacity -> Slots] /\ d[k] = e
      /\ \A i \in 1 .. Capacity : i # k => d[i] = c[i]
  BY <1>1, Zenon
<1> HIDE DEF d
<1>3. ASSUME NEW i \in 1 .. Capacity PROVE d[i].key = c[i].key
  BY <1>2, Zenon
<1>4. Used(d) = Used(c)
  BY <1>3, Zenon DEF Used
<1>5. ASSUME NEW q \in 1 .. Len(r)
      PROVE  /\ from(q) \in 1 .. Len(r) /\ s[q] = r[from(q)]
             /\ q < Len(r) => from(q) # p
             /\ q = Len(r) => from(q) = p
             /\ \A o \in 1 .. Len(r) : o < q /\ q < Len(r) => from(o) < from(q)
  BY <1>1
<1>6. ASSUME NEW q \in 1 .. Len(r) PROVE \E o \in 1 .. Len(s) : s[o] = r[q]
  <2>1. CASE q < p
    BY <2>1
  <2>2. CASE q = p
    BY <1>1, <2>2
  <2>3. CASE q > p
    <3>1. q - 1 \in 1 .. Len(r) /\ s[q - 1] = r[q]
      BY <1>1, <2>3, SMTT(30)
    <3> QED BY <3>1
  <2> QED BY <2>1, <2>2, <2>3
<1> HIDE DEF from
<1>7. ASSUME NEW i \in Used(d)
      PROVE  /\ i \in Used(c) /\ i \in 1 .. Capacity /\ d[i].key = c[i].key
             /\ c[i].tick \in Nat /\ c[i].tick < n /\ (i # k => d[i].tick = c[i].tick)
             /\ (i = k => d[i].tick = n)
  <2>1. i \in Used(c) /\ i \in 1 .. Capacity
    BY <1>4, Zenon DEF Used
  <2>2. c[i] \in Slots /\ c[i].tick < n
    BY <1>1, <2>1, Zenon DEF LRU
  <2> QED BY <1>2, <1>3, <2>1, <2>2 DEF Slots
<1>8. ASSUME NEW o \in 1 .. Len(r), NEW q \in 1 .. Len(r), NEW i \in Used(d), NEW j \in Used(d),
             o < q, d[i].key = s[o], d[j].key = s[q]
      PROVE  d[i].tick < d[j].tick
  <2>1. c[i].key = r[from(o)] /\ c[j].key = r[from(q)]
    BY <1>5, <1>7, <1>8, Zenon
  <2>2. o < Len(r)
    BY <1>1, <1>8
  <2>3. from(o) # p /\ from(o) \in 1 .. Len(r) /\ from(q) \in 1 .. Len(r)
    BY <1>5, <2>2, Zenon
  <2>4. i # k
    <3>1. r[from(o)] # r[p]
      BY <2>3, RecentOnce
    <3> QED BY <2>1, <3>1, Zenon
  <2>5. CASE q = Len(r)
    <3>1. c[j].key = c[k].key
      BY <1>5, <2>1, <2>5, Zenon
    <3>2. j = k
      BY <1>1, <1>7, <3>1, Zenon DEF LRU
    <3> QED BY <1>7, <2>4, <3>2
  <2>6. CASE q < Len(r)
    <3>1. from(q) # p /\ from(o) < from(q)
      BY <1>5, <1>8, <2>6, Zenon
    <3>2. j # k
      <4>1. r[from(q)] # r[p]
        BY <2>3, <3>1, RecentOnce
      <4> QED BY <2>1, <4>1, Zenon
    <3>3. c[i].tick < c[j].tick
      BY <1>7, <2>1, <2>3, <3>1, Zenon DEF LRU
    <3> QED BY <1>7, <2>4, <3>2, <3>3
  <2> QED BY <1>1, <2>5, <2>6
<1>9. ASSUME NEW i \in Used(d) PROVE \E o \in 1 .. Len(s) : s[o] = d[i].key
  <2>1. PICK q \in 1 .. Len(r) : r[q] = c[i].key
    BY <1>7, Zenon DEF LRU
  <2> QED BY <1>6, <1>7, <2>1, Zenon
<1>10. ASSUME NEW o \in 1 .. Len(r) PROVE \E i \in Used(d) : d[i].key = s[o]
  <2>1. PICK i \in Used(c) : c[i].key = r[from(o)]
    BY <1>5, Zenon DEF LRU
  <2> QED BY <1>4, <1>5, <1>7, <2>1, Zenon
<1>11. /\ \A i \in Used(d) : d[i].tick < n + 1
       /\ \A i, j \in Used(d) : d[i].key = d[j].key => i = j
       /\ Cardinality(Used(d)) = Len(s) /\ n + 1 \in Nat
  <2>1. ASSUME NEW i \in Used(d) PROVE d[i].tick < n + 1
    BY <1>1, <1>7
  <2>2. ASSUME NEW i \in Used(d), NEW j \in Used(d), d[i].key = d[j].key PROVE i = j
    BY <1>7, <2>2, Zenon DEF LRU
  <2> QED BY <1>1, <1>4, <2>1, <2>2 DEF LRU
<1>12. LRU(d, n + 1, s)
  BY <1>2, <1>8, <1>9, <1>10, <1>11, Zenon DEF LRU
<1> QED BY <1>12 DEF d

\* The entry e of a new address takes slot k, in place of no address (m = 0) or
\* of the one used longest ago (m = 1).
Takes(c, n, r, k, e, m) ==
    /\ k \in 1 .. Capacity /\ e \in Slots /\ e.key \in UsedKeys /\ e.tick = n
    /\ \A i \in Used(c) : c[i].key # e.key
    /\ m = 0 => k \notin Used(c)
    /\ m = 1 => k \in Used(c) /\ c[k].key = r[1]

\* The list s is r without its first m addresses, followed by key.
Follows(r, s, m, key) ==
    /\ m \in {0, 1} /\ s \in Seq(UsedKeys)
    /\ \E b \in Nat : /\ Len(r) = b + m /\ Len(s) = b + 1
                      /\ \A q \in 1 .. b : s[q] = r[q + m]
                      /\ s[b + 1] = key

\* A new address in the cache.
LEMMA UseFirst ==
    ASSUME NEW c, NEW n, NEW r, LRU(c, n, r), NEW k, NEW e, NEW m, Takes(c, n, r, k, e, m),
           NEW s, Follows(r, s, m, e.key)
    PROVE  LRU([c EXCEPT ![k] = e], n + 1, s)
<1>0. /\ k \in 1 .. Capacity /\ e \in Slots /\ e.key \in UsedKeys /\ e.tick = n
      /\ \A i \in Used(c) : c[i].key # e.key
      /\ m = 0 => k \notin Used(c)
      /\ m = 1 => k \in Used(c) /\ c[k].key = r[1]
      /\ m \in {0, 1} /\ s \in Seq(UsedKeys)
  BY Zenon DEF Takes, Follows
<1>a. PICK b \in Nat : /\ Len(r) = b + m /\ Len(s) = b + 1
                       /\ \A q \in 1 .. b : s[q] = r[q + m]
                       /\ s[b + 1] = e.key
  BY Zenon DEF Follows
<1> USE <1>0, <1>a
<1> DEFINE d == [c EXCEPT ![k] = e]
<1>1. /\ c \in [1 .. Capacity -> Slots] /\ n \in Nat /\ r \in Seq(UsedKeys)
      /\ Len(r) \in Nat
  BY DEF LRU
<1>2. /\ d \in [1 .. Capacity -> Slots] /\ d[k] = e
      /\ \A i \in 1 .. Capacity : i # k => d[i] = c[i]
  BY <1>1, Zenon
<1> HIDE DEF d
<1>3. Used(d) = Used(c) \cup {k}
  BY <1>2, KeysUsed, Zenon DEF Used
<1>4. ASSUME NEW i \in Used(d)
      PROVE  /\ i = k => d[i].key = e.key /\ d[i].tick = n
             /\ i # k => /\ i \in Used(c) /\ d[i].key = c[i].key /\ d[i].tick = c[i].tick
                         /\ c[i].tick \in Nat /\ c[i].tick < n
  <2>1. CASE i = k
    BY <1>2, <2>1, Zenon
  <2>2. CASE i # k
    <3>1. i \in Used(c) /\ i \in 1 .. Capacity
      BY <1>3, <2>2, Zenon DEF Used
    <3>2. c[i] \in Slots /\ c[i].tick < n /\ d[i] = c[i]
      BY <1>1, <1>2, <2>2, <3>1, Zenon DEF LRU
    <3> QED BY <2>2, <3>1, <3>2 DEF Slots
  <2> QED BY <2>1, <2>2
<1>5. ASSUME NEW q \in 1 .. Len(s)
      PROVE  /\ q = Len(s) => s[q] = e.key
             /\ q < Len(s) => q + m \in 1 .. Len(r) /\ s[q] = r[q + m]
  BY <1>1
<1>6. ASSUME NEW q \in 1 .. Len(s), q < Len(s), NEW i \in Used(d), d[i].key = s[q]
      PROVE  i # k
  <2>1. q + m \in 1 .. Len(r) /\ s[q] = r[q + m]
    BY <1>5, <1>6, Zenon
  <2>2. PICK j \in Used(c) : c[j].key = r[q + m]
    BY <2>1, Zenon DEF LRU
  <2> QED BY <1>4, <1>6, <2>1, <2>2, Zenon
<1>7. ASSUME NEW o \in 1 .. Len(s), NEW q \in 1 .. Len(s), NEW i \in Used(d), NEW j \in Used(d),
             o < q, d[i].key = s[o], d[j].key = s[q]
      PROVE  d[i].tick < d[j].tick
  <2>1. o < Len(s) /\ i # k
    BY <1>1, <1>6, <1>7
  <2>2. o + m \in 1 .. Len(r) /\ c[i].key = r[o + m] /\ i \in Used(c)
    BY <1>4, <1>5, <1>7, <2>1, Zenon
  <2>3. CASE q = Len(s)
    <3>1. j = k
      BY <1>4, <1>5, <1>7, <2>3, Zenon
    <3> QED BY <1>4, <2>1, <3>1
  <2>4. CASE q < Len(s)
    <3>1. j # k
      BY <1>6, <1>7, <2>4, Zenon
    <3>2. q + m \in 1 .. Len(r) /\ c[j].key = r[q + m] /\ j \in Used(c)
      BY <1>4, <1>5, <1>7, <2>4, <3>1, Zenon
    <3>3. o + m < q + m
      BY <1>7
    <3>4. c[i].tick < c[j].tick
      BY <2>2, <3>2, <3>3, Zenon DEF LRU
    <3> QED BY <1>4, <2>1, <3>1, <3>4
  <2> QED BY <1>1, <2>3, <2>4
<1>8. ASSUME NEW i \in Used(d) PROVE \E o \in 1 .. Len(s) : s[o] = d[i].key
  <2>1. CASE i = k
    <3>1. Len(s) \in 1 .. Len(s)
      BY <1>1
    <3> QED BY <1>4, <1>5, <2>1, <3>1, Zenon
  <2>2. CASE i # k
    <3>1. PICK q \in 1 .. Len(r) : r[q] = c[i].key
      BY <1>4, <2>2, Zenon DEF LRU
    <3>2. m = 1 => q # 1
      <4>1. ASSUME m = 1, q = 1 PROVE FALSE
        BY <1>4, <2>2, <3>1, <4>1, Zenon DEF LRU
      <4> QED BY <4>1
    <3>3. q - m \in 1 .. Len(s) /\ q - m < Len(s) /\ q - m + m = q
      BY <1>1, <3>2
    <3>4. s[q - m] = r[q]
      BY <1>5, <3>3, Zenon
    <3> QED BY <1>4, <2>2, <3>1, <3>3, <3>4, Zenon
  <2> QED BY <2>1, <2>2
<1>9. ASSUME NEW o \in 1 .. Len(s) PROVE \E i \in Used(d) : d[i].key = s[o]
  <2>1. CASE o = Len(s)
    BY <1>3, <1>4, <1>5, <2>1, Zenon
  <2>2. CASE o < Len(s)
    <3>1. o + m \in 1 .. Len(r) /\ s[o] = r[o + m]
      BY <1>5, <2>2, Zenon
    <3>2. PICK i \in Used(c) : c[i].key = r[o + m]
      BY <3>1, Zenon DEF LRU
    <3>3. i # k
      <4>1. ASSUME i = k PROVE FALSE
        <5>1. m = 1 /\ 1 \in 1 .. Len(r) /\ r[1] = r[o + m]
          BY <3>2, <4>1
        <5>2. o + m = 1
          BY <3>1, <5>1, RecentOnce
        <5> QED BY <5>1, <5>2
      <4> QED BY <4>1
    <3> QED BY <1>3, <1>4, <3>1, <3>2, <3>3, Zenon
  <2> QED BY <1>1, <2>1, <2>2
<1>10. Cardinality(Used(d)) = Len(s) /\ n + 1 \in Nat
  <2>1. IsFiniteSet(Used(c)) /\ Cardinality(Used(c)) = Len(r)
    BY UsedSlots DEF LRU
  <2>2. Cardinality(Used(d)) = IF k \in Used(c) THEN Len(r) ELSE Len(r) + 1
    BY <1>3, <2>1, FS_AddElement, Zenon
  <2> QED BY <1>1, <2>2
<1>11. ASSUME NEW i \in Used(d) PROVE d[i].tick < n + 1
  <2>1. d[i].tick = n \/ (d[i].tick \in Nat /\ d[i].tick < n)
    BY <1>4, Zenon
  <2> QED BY <1>1, <2>1
<1>12. ASSUME NEW i \in Used(d), NEW j \in Used(d), d[i].key = d[j].key PROVE i = j
  <2>1. CASE i # k /\ j # k
    BY <1>4, <1>12, <2>1, Zenon DEF LRU
  <2>2. i = k <=> j = k
    BY <1>4, <1>12, Zenon
  <2> QED BY <2>1, <2>2, Zenon
<1>13. LRU(d, n + 1, s)
  <2>1. d \in [1 .. Capacity -> Slots]
    BY <1>2, Zenon
  <2> QED BY <2>1, <1>7, <1>8, <1>9, <1>10, <1>11, <1>12, Zenon DEF LRU
<1> QED BY <1>13 DEF d

\* Cache::find_idx finds the slot of an address, if there is one.
LEMMA FindIdxIs ==
    ASSUME NEW c \in [1 .. Capacity -> Slots], NEW key \in UsedKeys
    PROVE  /\ FindIdx(c, key) = 0 => \A i \in Used(c) : c[i].key # key
           /\ FindIdx(c, key) # 0 => FindIdx(c, key) \in Used(c) /\ c[FindIdx(c, key)].key = key
<1> DEFINE at == {i \in DOMAIN c : c[i].key = key}
<1>1. DOMAIN c = 1 .. Capacity /\ 1 .. Capacity \in SUBSET Nat
  BY HookNetAssumption
<1>2. CASE at = {}
  <2>1. FindIdx(c, key) = 0
    BY <1>2, Zenon DEF FindIdx
  <2> QED BY <1>1, <1>2, <2>1, Zenon DEF Used
<1>3. CASE at # {}
  <2>1. \E i \in at : \A j \in at : i <= j
    BY <1>1, <1>3, LeastOf, Zenon
  <2>2. FindIdx(c, key) \in at
    BY <1>3, <2>1, Zenon DEF FindIdx
  <2>3. 0 \notin at
    BY <1>1, HookNetAssumption
  <2> QED BY <1>1, <2>2, <2>3, KeysUsed, Zenon DEF Used
<1> QED BY <1>2, <1>3

\* The slot of a new address is an empty one, or when there is none one with
\* the least tick.
LEMMA TargetIdxIs ==
    ASSUME NEW c \in [1 .. Capacity -> Slots], NEW key \in UsedKeys
    PROVE  /\ FindIdx(c, key) # 0 => TargetIdx(c, key) = FindIdx(c, key)
           /\ FindIdx(c, key) = 0 /\ Used(c) # 1 .. Capacity =>
                 TargetIdx(c, key) \in (1 .. Capacity) \ Used(c)
           /\ FindIdx(c, key) = 0 /\ Used(c) = 1 .. Capacity =>
                 /\ TargetIdx(c, key) \in 1 .. Capacity
                 /\ \A j \in 1 .. Capacity : c[TargetIdx(c, key)].tick <= c[j].tick
<1> DEFINE empty  == {i \in DOMAIN c : c[i].key = NoKey}
           oldest == {i \in DOMAIN c : \A j \in DOMAIN c : c[i].tick <= c[j].tick}
           first(S) == CHOOSE i \in S : \A j \in S : i <= j
<1>1. DOMAIN c = 1 .. Capacity /\ 1 .. Capacity \in SUBSET Nat /\ 1 \in 1 .. Capacity
  BY HookNetAssumption
<1>2. TargetIdx(c, key) = IF FindIdx(c, key) # 0 THEN FindIdx(c, key)
                          ELSE IF empty # {} THEN first(empty) ELSE first(oldest)
  BY Zenon DEF TargetIdx
<1>3. ASSUME NEW S \in SUBSET Nat, S # {} PROVE first(S) \in S
  BY <1>3, LeastOf, Zenon
<1>4. empty = (1 .. Capacity) \ Used(c) /\ empty \in SUBSET Nat /\ oldest \in SUBSET Nat
  BY <1>1, Zenon DEF Used
<1>5. oldest # {}
  <2> DEFINE ticks == {c[i].tick : i \in 1 .. Capacity}
  <2>1. ASSUME NEW i \in 1 .. Capacity PROVE c[i].tick \in Nat
    <3>1. c[i] \in Slots
      OBVIOUS
    <3> QED BY <3>1 DEF Slots
  <2>2. ticks \in SUBSET Nat /\ ticks # {}
    BY <1>1, <2>1
  <2>3. PICK x \in ticks : \A y \in ticks : x <= y
    BY <2>2, LeastOf, Zenon
  <2>4. PICK i \in 1 .. Capacity : x = c[i].tick
    BY <2>3, Zenon
  <2>5. i \in oldest
    BY <1>1, <2>3, <2>4, Zenon
  <2> QED BY <2>5
<1> HIDE DEF first
<1>6. CASE FindIdx(c, key) # 0
  BY <1>2, <1>6, Zenon
<1>7. CASE FindIdx(c, key) = 0 /\ empty # {}
  <2>1. TargetIdx(c, key) \in empty
    BY <1>2, <1>3, <1>4, <1>7, Zenon
  <2> QED BY <1>4, <1>7, <2>1, Zenon
<1>8. CASE FindIdx(c, key) = 0 /\ empty = {}
  <2>1. TargetIdx(c, key) \in oldest
    BY <1>2, <1>3, <1>4, <1>5, <1>8, Zenon
  <2>2. Used(c) = 1 .. Capacity
    BY <1>4, <1>8, Zenon DEF Used
  <2> QED BY <1>1, <1>8, <2>1, <2>2, Zenon
<1> QED BY <1>6, <1>7, <1>8, Zenon

\* What an insertion leaves in the slots it does not take.
SlotsAfter(key, host) ==
    \A i \in 1 .. Capacity :
        \/ cache'[i] = cache[i]
        \/ cache'[i].key = key /\ cache'[i].host = host

\* Cache::insert keeps the addresses used last.
LEMMA InsertKeeps ==
    ASSUME LRU(cache, tick, recent), NEW key \in UsedKeys, NEW host \in Texts, Insert(key, host)
    PROVE  LRU(cache', tick', recent') /\ SlotsAfter(key, host)
<1> DEFINE e == [key |-> key, host |-> host, tick |-> tick]
           k == TargetIdx(cache, key)
           at == {i \in DOMAIN recent : recent[i] = key}
<1>1. /\ cache \in [1 .. Capacity -> Slots] /\ tick \in Nat /\ recent \in Seq(UsedKeys)
      /\ Len(recent) \in Nat /\ DOMAIN recent = 1 .. Len(recent)
  BY DEF LRU
<1>2. cache' = [cache EXCEPT ![k] = e] /\ tick' = tick + 1 /\ recent' = Touch(key)
  BY Zenon DEF Insert
<1>3. e \in Slots /\ e.key = key /\ e.host = host /\ e.tick = tick
  BY <1>1 DEF Slots
<1> HIDE DEF e, k
<1>4. CASE FindIdx(cache, key) # 0
  <2>1. k \in Used(cache) /\ cache[k].key = key
    <3>1. FindIdx(cache, key) \in Used(cache) /\ cache[FindIdx(cache, key)].key = key
      BY <1>1, <1>4, FindIdxIs, Zenon
    <3>2. k = FindIdx(cache, key)
      BY <1>1, <1>4, TargetIdxIs, Zenon DEF k
    <3> QED BY <3>1, <3>2, Zenon
  <2>2. PICK q \in 1 .. Len(recent) : recent[q] = key
    BY <2>1, Zenon DEF LRU
  <2> DEFINE p == CHOOSE i \in at : TRUE
  <2>3. at # {} /\ p \in 1 .. Len(recent) /\ recent[p] = key
    <3>1. at # {}
      BY <1>1, <2>2, Zenon
    <3>2. p \in at
      BY <3>1, Zenon
    <3> QED BY <1>1, <3>1, <3>2, Zenon
  <2>4. recent' = Append(RemoveAt(recent, p), recent[p])
    BY <1>2, <2>3, Zenon DEF Touch
  <2> HIDE DEF p
  <2>5. /\ recent' \in Seq(UsedKeys) /\ Len(recent') = Len(recent)
        /\ \A q_1 \in 1 .. Len(recent) :
              recent'[q_1] = IF q_1 < p THEN recent[q_1]
                             ELSE IF q_1 < Len(recent) THEN recent[q_1 + 1] ELSE recent[p]
    BY <1>1, <2>3, <2>4, MovedToEnd, Zenon
  <2>6. LRU([cache EXCEPT ![k] = e], tick + 1, recent')
    BY <1>3, <2>1, <2>3, <2>5, UseAgain, Zenon
  <2> QED BY <1>1, <1>2, <1>3, <2>1, <2>6, Zenon DEF SlotsAfter, Used
<1>5. CASE FindIdx(cache, key) = 0
  <2>1. \A i \in Used(cache) : cache[i].key # key
    BY <1>1, <1>5, FindIdxIs, Zenon
  <2>2. at = {}
    <3>1. ASSUME NEW q \in 1 .. Len(recent) PROVE recent[q] # key
      BY <2>1, Zenon DEF LRU
    <3> QED BY <1>1, <3>1, Zenon
  <2>3. recent' = IF Len(recent) = Capacity THEN Append(Tail(recent), key) ELSE Append(recent, key)
    BY <1>2, <2>2, Zenon DEF Touch
  <2>4. Len(recent) = Capacity <=> Used(cache) = 1 .. Capacity
    BY UsedSlots DEF LRU
  <2>5. CASE Used(cache) # 1 .. Capacity
    <3>1. k \in 1 .. Capacity /\ k \notin Used(cache)
      BY <1>1, <1>5, <2>5, TargetIdxIs, Zenon DEF k
    <3>2. recent' = Append(recent, key)
      BY <2>3, <2>4, <2>5, Zenon
    <3>3. /\ recent' \in Seq(UsedKeys) /\ Len(recent') = Len(recent) + 1
          /\ Len(recent) = Len(recent) + 0
          /\ \A q \in 1 .. Len(recent) : recent'[q] = recent[q + 0]
          /\ recent'[Len(recent) + 1] = key
      BY <1>1, <3>2
    <3>5. Follows(recent, recent', 0, e.key) /\ Takes(cache, tick, recent, k, e, 0)
      <4>1. Follows(recent, recent', 0, e.key)
        <5>1. Len(recent) \in Nat /\ recent'[Len(recent) + 1] = e.key /\ 0 \in {0, 1}
          BY <1>1, <1>3, <3>3
        <5> QED BY <3>3, <5>1, Zenon DEF Follows
      <4>2. Takes(cache, tick, recent, k, e, 0)
        BY <1>3, <2>1, <3>1 DEF Takes
      <4> QED BY <4>1, <4>2
    <3>4. LRU([cache EXCEPT ![k] = e], tick + 1, recent')
      BY <3>5, UseFirst, Zenon
    <3> QED BY <1>1, <1>2, <1>3, <3>1, <3>4, Zenon DEF SlotsAfter
  <2>6. CASE Used(cache) = 1 .. Capacity
    <3>1. k \in Used(cache) /\ \A j \in 1 .. Capacity : cache[k].tick <= cache[j].tick
      BY <1>1, <1>5, <2>6, TargetIdxIs, Zenon DEF k
    <3>2. recent' = Append(Tail(recent), key) /\ Len(recent) >= 1
      BY <2>3, <2>4, <2>6, HookNetAssumption
    <3>3. cache[k].key = recent[1]
      <4>1. PICK p \in 1 .. Len(recent) : recent[p] = cache[k].key
        BY <3>1, Zenon DEF LRU
      <4>2. PICK j \in Used(cache) : cache[j].key = recent[1]
        BY <1>1, <3>2 DEF LRU
      <4>3. cache[k].tick <= cache[j].tick /\ cache[k].tick \in Nat /\ cache[j].tick \in Nat
        <5>1. cache[k] \in Slots /\ cache[j] \in Slots
          BY <1>1, <2>6, <3>1, <4>2, Zenon
        <5> QED BY <2>6, <3>1, <4>2, <5>1 DEF Slots
      <4>4. ~ (1 < p)
        BY <1>1, <3>1, <3>2, <4>1, <4>2, <4>3, SMTT(30) DEF LRU
      <4>5. p = 1
        BY <4>1, <4>4
      <4> QED BY <4>1, <4>5
    <3> DEFINE t == Tail(recent)
    <3>4. /\ t \in Seq(UsedKeys) /\ Len(t) \in Nat /\ Len(recent) = Len(t) + 1
          /\ \A q \in 1 .. Len(t) : t[q] = recent[q + 1]
      BY <1>1, <3>2
    <3> HIDE DEF t
    <3>5. /\ recent' \in Seq(UsedKeys) /\ Len(recent') = Len(t) + 1
          /\ \A q \in 1 .. Len(t) : recent'[q] = t[q]
          /\ recent'[Len(t) + 1] = key
      BY <3>2, <3>4 DEF t
    <3>6. \A q \in 1 .. Len(t) : recent'[q] = recent[q + 1]
      BY <3>4, <3>5, Zenon
    <3>7. k \in 1 .. Capacity
      BY <2>6, <3>1, Zenon
    <3>8. LRU([cache EXCEPT ![k] = e], tick + 1, recent')
      <4>1. Follows(recent, recent', 1, e.key)
        BY <1>3, <3>4, <3>5, <3>6, SMTT(30) DEF Follows
      <4>2. Takes(cache, tick, recent, k, e, 1)
        BY <1>3, <2>1, <3>1, <3>3, <3>7, SMTT(30) DEF Takes
      <4> QED BY <4>1, <4>2, UseFirst, Zenon
    <3> QED BY <1>1, <1>2, <1>3, <3>7, <3>8, Zenon DEF SlotsAfter
  <2> QED BY <2>5, <2>6
<1> QED BY <1>4, <1>5

\* Cache::lookup keeps the addresses used last, and what is known of them.
LEMMA LookupKeeps ==
    ASSUME LRU(cache, tick, recent), NEW key \in UsedKeys, Lookup(key)
    PROVE  /\ LRU(cache', tick', recent')
           /\ \A i \in 1 .. Capacity : cache'[i].key = cache[i].key /\ cache'[i].host = cache[i].host
<1> DEFINE k == FindIdx(cache, key)
           e == [cache[k] EXCEPT !.tick = tick]
           at == {i \in DOMAIN recent : recent[i] = key}
           p == CHOOSE i \in at : TRUE
<1>1. /\ cache \in [1 .. Capacity -> Slots] /\ tick \in Nat /\ recent \in Seq(UsedKeys)
      /\ DOMAIN recent = 1 .. Len(recent)
  BY DEF LRU
<1>2. CASE k = 0
  <2>1. cache' = cache /\ tick' = tick /\ recent' = recent
    BY <1>2, Zenon DEF Lookup
  <2> QED BY <2>1, Zenon
<1>3. CASE k # 0
  <2>1. k \in Used(cache) /\ cache[k].key = key
    BY <1>1, <1>3, FindIdxIs, Zenon
  <2>2. k \in 1 .. Capacity
    BY <2>1, Zenon DEF Used
  <2>3. cache' = [cache EXCEPT ![k] = e] /\ tick' = tick + 1 /\ recent' = Touch(key)
    BY <1>3, Zenon DEF Lookup
  <2>4. cache[k] \in Slots
    BY <1>1, <2>2, Zenon
  <2>5. e \in Slots /\ e.key = cache[k].key /\ e.host = cache[k].host /\ e.tick = tick
    BY <1>1, <2>4 DEF Slots
  <2>6. PICK q \in 1 .. Len(recent) : recent[q] = key
    BY <2>1, Zenon DEF LRU
  <2>7. at # {} /\ p \in at
    BY <1>1, <2>6, Zenon
  <2>8. p \in 1 .. Len(recent) /\ recent[p] = key
    BY <1>1, <2>7, Zenon
  <2>9. recent' = Append(RemoveAt(recent, p), recent[p])
    BY <2>3, <2>7, <2>8, Zenon DEF Touch
  <2> HIDE DEF e, k, p
  <2>10. /\ recent' \in Seq(UsedKeys) /\ Len(recent') = Len(recent)
         /\ \A q_1 \in 1 .. Len(recent) :
               recent'[q_1] = IF q_1 < p THEN recent[q_1]
                              ELSE IF q_1 < Len(recent) THEN recent[q_1 + 1] ELSE recent[p]
    BY <1>1, <2>8, <2>9, MovedToEnd, Zenon
  <2>11. LRU([cache EXCEPT ![k] = e], tick + 1, recent')
    BY <2>1, <2>5, <2>8, <2>10, UseAgain, Zenon
  <2>12. ASSUME NEW i \in 1 .. Capacity
         PROVE  cache'[i].key = cache[i].key /\ cache'[i].host = cache[i].host
    BY <1>1, <2>2, <2>3, <2>5, Zenon
  <2> QED BY <2>3, <2>11, <2>12, Zenon
<1> QED BY <1>2, <1>3

\* The list of the addresses used last is the cache (the property of the runs).
LEMMA ListIsCache ==
    ASSUME LRU(cache, tick, recent) PROVE CacheKeepsRecent
<1>1. /\ cache \in [1 .. Capacity -> Slots] /\ recent \in Seq(UsedKeys)
      /\ DOMAIN recent = 1 .. Len(recent)
  BY DEF LRU
<1>2. ASSUME NEW i \in 1 .. Capacity, cache[i].key # NoKey
      PROVE  \E q \in DOMAIN recent : cache[i].key = recent[q]
  BY <1>1, <1>2, Zenon DEF LRU, Used
<1>3. ASSUME NEW q \in DOMAIN recent
      PROVE  \E i \in 1 .. Capacity : recent[q] = cache[i].key /\ recent[q] # NoKey
  <2>1. PICK i \in Used(cache) : cache[i].key = recent[q]
    BY <1>1, Zenon DEF LRU
  <2> QED BY <2>1, Zenon DEF Used
<1> DEFINE held == {cache[i].key : i \in 1 .. Capacity} \ {NoKey}
           listed == {recent[i] : i \in DOMAIN recent}
<1>4. ASSUME NEW x \in held PROVE x \in listed
  BY <1>2, <1>4
<1>5. ASSUME NEW x \in listed PROVE x \in held
  BY <1>3, <1>5
<1>6. held = listed
  BY <1>4, <1>5, Zenon
<1> QED BY <1>6, Zenon DEF CacheKeepsRecent

-----------------------------------------------------------------------------
(* The inductive invariant                                                 *)

Addrs == [family : {"none", "inet", "inet6", "unix", "malformed"}, ip : Texts,
          form : {"none", "wire", "other"}]

CallRecs == [at : {"out", "resolving", "building", "deciding", "walking", "allowed", "denied"},
             host : Texts, rest : Seq(Texts), sa : Addrs, walk : Nat, asked : 0 .. MaxAttempts,
             source : Sources]

\* What a call in the state c has established, with the hook in state h and the
\* answers ans of the daemon: only an open hook asks or allows, the addresses
\* that are put in the cache were answered for the host, and a call that goes to
\* the kernel is answered and permitted.
CallFine(c, h, ans) ==
    /\ c.at # "out" => h # "ctor"
    /\ c.at \in {"resolving", "building", "walking", "allowed"} => h = "open"
    /\ c.at = "building" =>
          /\ c.rest # Empty
          /\ \A i \in DOMAIN c.rest : <<c.host, c.rest[i]>> \in ans /\ Wire(c.rest[i]) \in Sockaddrs
    /\ c.at \in {"deciding", "walking", "denied"} => c.sa \in Dests
    /\ c.at = "walking" => c.sa.family \in {"inet", "inet6"} /\ c.walk \in Candidates
    /\ c.at = "allowed" => /\ c.sa.family \notin {"unix", "malformed"}
                           /\ <<c.host, c.sa.ip>> \in ans
                           /\ Permitted(c.host, c.sa.ip, Snapshot)

\* An address in the cache was answered for the host it is stored with.
CacheFine(c, ans) ==
    \A i \in 1 .. Capacity : c[i].key # NoKey => <<c[i].host, c[i].key.ip>> \in ans

Shape ==
    /\ image \in Images /\ mode \in Modes /\ hook \in {"ctor", "open", "closed"}
    /\ thread \in [Threads -> CallRecs] /\ calls \in 0 .. MaxCalls

CallsFine == \A t \in Threads : CallFine(thread[t], hook, answered)

\* Only a hook that passed every check of its constructor is open, and only an
\* open one has answers and grants.
Trusted ==
    /\ hook = "open" => LoadFromEnv(image) = "ok" /\ SelfCheck(image) /\ ProbeSelfTest(image)
    /\ hook # "open" => granted = {} /\ answered = {}

IndInv ==
    /\ Shape /\ LRU(cache, tick, recent) /\ CacheFine(cache, answered)
    /\ CallsFine /\ Trusted /\ GrantedIsPermitted

-----------------------------------------------------------------------------
(* The states of a call                                                    *)

\* A sockaddr of a caller.
LEMMA DestIs ==
    ASSUME NEW sa \in Dests
    PROVE  sa \in Addrs /\ CacheKey(sa) \in UsedKeys /\ sa.ip \in Texts /\ CacheKey(sa).ip = sa.ip
<1>1. sa \in Addrs /\ sa.ip \in Texts
  BY InputAssumption DEF Addrs, Texts
<1>2. CacheKey(sa) \in UsedKeys
  BY Zenon DEF UsedKeys, Sockaddrs
<1> QED BY <1>1, <1>2 DEF CacheKey

\* A call that has returned.
LEMMA OutIs ==
    /\ Out \in CallRecs /\ Out.at = "out"
    /\ \A h, ans : CallFine(Out, h, ans)
<1>1. Out \in CallRecs /\ Out.at = "out"
  BY HookNetAssumption DEF Out, CallRecs, NoAddr, Addrs, Empty, Texts, Sources
<1> QED BY <1>1 DEF CallFine

\* A call that was judged: it is allowed only with an answer of the daemon.
LEMMA JudgedIs ==
    ASSUME NEW c \in CallRecs, c.sa \in Dests, c.sa.family \notin {"unix", "malformed"},
           NEW host \in Texts, NEW resolved \in BOOLEAN, NEW ans,
           resolved => <<host, c.sa.ip>> \in ans, ~resolved => host = Empty
    PROVE  /\ Judged(c, host, resolved) \in CallRecs
           /\ CallFine(Judged(c, host, resolved), "open", ans)
<1> DEFINE v == EvaluatePolicy(host, c.sa.ip, resolved, Snapshot)
           to == IF v.verdict = "Allow" THEN "allowed" ELSE "denied"
           j == [Out EXCEPT !.at = to, !.sa = c.sa, !.host = host, !.source = v.source]
<1>1. Judged(c, host, resolved) = j
  BY Zenon DEF Judged
<1>2. c.sa \in Addrs /\ c.sa.ip \in Texts
  BY DestIs
<1>3. /\ v \in Verdicts
      /\ v.verdict = "Allow" => /\ Permitted(host, c.sa.ip, Snapshot)
                                /\ (c.sa.ip # Empty => resolved) /\ (host # Empty \/ c.sa.ip # Empty)
  BY <1>2, AllowedIsPermitted
<1>4. v.verdict = "Allow" => <<host, c.sa.ip>> \in ans
  BY <1>3, Zenon
<1>5. v.source \in Sources
  BY <1>3 DEF Verdicts
<1> HIDE DEF v
<1>6. /\ j \in CallRecs /\ j.at = to /\ j.sa = c.sa /\ j.host = host
  BY <1>2, <1>5, OutIs, Zenon DEF CallRecs
<1>7. CallFine(j, "open", ans)
  BY <1>3, <1>4, <1>6 DEF CallFine
<1> QED BY <1>1, <1>6, <1>7, Zenon

\* A call that was refused before the policy was asked.
LEMMA RefusedIs ==
    ASSUME NEW c \in CallRecs, c.sa \in Dests, NEW source \in Sources, NEW h, h # "ctor", NEW ans
    PROVE  Refused(c, source) \in CallRecs /\ CallFine(Refused(c, source), h, ans)
<1> DEFINE j == [Out EXCEPT !.at = "denied", !.sa = c.sa, !.source = source]
<1>1. Refused(c, source) = j
  BY Zenon DEF Refused
<1>2. c.sa \in Addrs
  BY DestIs
<1>3. j \in CallRecs /\ j.at = "denied" /\ j.sa = c.sa
  BY <1>2, OutIs, Zenon DEF CallRecs
<1>4. CallFine(j, h, ans)
  BY <1>3 DEF CallFine
<1> QED BY <1>1, <1>3, <1>4, Zenon

-----------------------------------------------------------------------------
(* The steps                                                               *)

\* What is known of a call stays true when the daemon answers more.
LEMMA AnswersGrow ==
    ASSUME NEW h, NEW ans, NEW more, ans \subseteq more
    PROVE  /\ \A c : CallFine(c, h, ans) => CallFine(c, h, more)
           /\ \A c : CacheFine(c, ans) => CacheFine(c, more)
<1>1. ASSUME NEW c, CallFine(c, h, ans) PROVE CallFine(c, h, more)
  BY <1>1, Zenon DEF CallFine
<1>2. ASSUME NEW c, CacheFine(c, ans) PROVE CacheFine(c, more)
  BY <1>2, Zenon DEF CacheFine
<1> QED BY <1>1, <1>2, Zenon

\* A step of one thread's call.
LEMMA OneCall ==
    ASSUME IndInv, NEW t \in Threads, NEW x \in CallRecs, CallFine(x, hook, answered'),
           answered \subseteq answered', thread' = [thread EXCEPT ![t] = x], hook' = hook
    PROVE  thread' \in [Threads -> CallRecs] /\ CallsFine'
<1>1. thread \in [Threads -> CallRecs]
  BY Zenon DEF IndInv, Shape
<1>2. /\ thread' \in [Threads -> CallRecs] /\ thread'[t] = x
      /\ \A u \in Threads : u # t => thread'[u] = thread[u]
  BY <1>1, Zenon
<1>3. ASSUME NEW u \in Threads PROVE CallFine(thread'[u], hook', answered')
  <2>1. CASE u = t
    BY <1>2, <2>1, Zenon
  <2>2. CASE u # t
    <3>1. CallFine(thread[u], hook, answered)
      BY Zenon DEF IndInv, CallsFine
    <3>2. CallFine(thread[u], hook, answered')
      BY <3>1, AnswersGrow, Zenon
    <3> QED BY <1>2, <2>2, <3>2, Zenon
  <2> QED BY <2>1, <2>2
<1> QED BY <1>2, <1>3, Zenon DEF CallsFine

\* A step that grants nothing and starts nothing.
LEMMA Quiet ==
    ASSUME IndInv, UNCHANGED <<image, mode, hook, granted, started>>, calls' \in 0 .. MaxCalls,
           thread' \in [Threads -> CallRecs], CallsFine', LRU(cache', tick', recent'),
           CacheFine(cache', answered'), answered \subseteq answered',
           hook # "open" => answered' = answered
    PROVE  IndInv'
<1>1. Shape'
  BY Zenon DEF IndInv, Shape
<1>2. Trusted'
  BY Zenon DEF IndInv, Trusted
<1>3. GrantedIsPermitted'
  BY Zenon DEF IndInv, GrantedIsPermitted
<1> QED BY <1>1, <1>2, <1>3, Zenon DEF IndInv

\* The constructor opens or closes the hook before any call.
LEMMA CtorKeeps == ASSUME IndInv, Ctor PROVE IndInv'
<1>1. /\ hook = "ctor" /\ hook' \in {"open", "closed"}
      /\ hook' = "open" =>
            LoadFromEnv(image) = "ok" /\ SelfCheck(image) /\ ProbeSelfTest(image)
      /\ UNCHANGED <<image, mode, cache, tick, thread, calls, granted, started, answered, recent>>
  BY Zenon DEF Ctor
<1>2. ASSUME NEW t \in Threads PROVE thread[t].at = "out" /\ thread[t] \in CallRecs
  BY <1>1, Zenon DEF IndInv, Shape, CallsFine, CallFine
<1>3. CallsFine'
  <2>1. ASSUME NEW t \in Threads PROVE CallFine(thread[t], hook', answered)
    BY <1>2 DEF CallFine
  <2> QED BY <1>1, <2>1, Zenon DEF CallsFine
<1>4. Shape'
  BY <1>1, Zenon DEF IndInv, Shape
<1>5. Trusted'
  BY <1>1 DEF IndInv, Trusted
<1>6. GrantedIsPermitted' /\ LRU(cache', tick', recent') /\ CacheFine(cache', answered')
  BY <1>1, Zenon DEF IndInv, GrantedIsPermitted
<1> QED BY <1>3, <1>4, <1>5, <1>6, Zenon DEF IndInv

\* guard_getaddrinfo asks only when the hook is open.
LEMMA GetAddrInfoKeeps == ASSUME IndInv, NEW t \in Threads, GetAddrInfo(t) PROVE IndInv'
<1>1. PICK h \in Names, hint \in Hints :
          thread' = [thread EXCEPT ![t] =
                        [Out EXCEPT !.at = "resolving", !.host = h, !.source = hint]]
  BY Zenon DEF GetAddrInfo
<1> DEFINE x == [Out EXCEPT !.at = "resolving", !.host = h, !.source = hint]
<1>2. h \in Texts /\ hint \in Sources
  BY InputAssumption DEF Texts, Sources
<1>3. x \in CallRecs /\ x.at = "resolving"
  BY <1>2, OutIs, Zenon DEF CallRecs
<1>4. /\ hook = "open" /\ calls' = calls + 1 /\ calls < MaxCalls
      /\ UNCHANGED <<image, mode, hook, cache, tick, granted, started, answered, recent>>
  BY Zenon DEF GetAddrInfo, Enters
<1>5. CallFine(x, hook, answered')
  BY <1>3, <1>4 DEF CallFine
<1> HIDE DEF x
<1>6. thread' \in [Threads -> CallRecs] /\ CallsFine'
  BY <1>1, <1>3, <1>4, <1>5, OneCall, Zenon DEF x
<1>7. calls' \in 0 .. MaxCalls
  BY <1>4, HookNetAssumption DEF IndInv, Shape
<1> QED BY <1>4, <1>6, <1>7, Quiet, Zenon DEF IndInv

\* A connect or send with an address.
LEMMA ConnectKeeps == ASSUME IndInv, NEW t \in Threads, Connect(t) PROVE IndInv'
<1>1. PICK sa \in Dests : thread' = [thread EXCEPT ![t] = [Out EXCEPT !.at = "deciding", !.sa = sa]]
  BY Zenon DEF Connect
<1> DEFINE x == [Out EXCEPT !.at = "deciding", !.sa = sa]
<1>2. x \in CallRecs /\ x.at = "deciding" /\ x.sa = sa
  BY DestIs, OutIs, Zenon DEF CallRecs
<1>3. /\ hook \in {"open", "closed"} /\ calls' = calls + 1 /\ calls < MaxCalls
      /\ UNCHANGED <<image, mode, hook, cache, tick, granted, started, answered, recent>>
  BY Zenon DEF Connect, Enters
<1>4. CallFine(x, hook, answered')
  BY <1>2, <1>3 DEF CallFine
<1> HIDE DEF x
<1>5. thread' \in [Threads -> CallRecs] /\ CallsFine'
  BY <1>1, <1>2, <1>3, <1>4, OneCall, Zenon DEF x
<1>6. calls' \in 0 .. MaxCalls
  BY <1>3, HookNetAssumption DEF IndInv, Shape
<1> QED BY <1>3, <1>5, <1>6, Quiet, Zenon DEF IndInv

\* What the daemon answers is an address list of the resolver.
LEMMA AnswerIs ==
    ASSUME NEW host, NEW list \in Answers(host)
    PROVE  /\ list \in Seq(Texts)
           /\ \A i \in DOMAIN list : list[i] \in Texts /\ Wire(list[i]) \in Sockaddrs
<1>1. list \in Dns
  BY Zenon DEF Answers
<1>2. list \in Seq(Texts)
  BY <1>1, InputAssumption DEF Texts
<1>3. ASSUME NEW i \in DOMAIN list PROVE Wire(list[i]) \in Sockaddrs
  <2> DEFINE all == UNION {{l[n] : n \in DOMAIN l} : l \in Dns}
  <2>1. list[i] \in {list[n] : n \in DOMAIN list}
    BY <1>3, Zenon
  <2>2. list[i] \in all
    BY <1>1, <2>1, Zenon
  <2> HIDE DEF all
  <2>3. Wire(list[i]) \in {Wire(ip) : ip \in all}
    BY <2>2, Zenon
  <2> QED BY <2>3, Zenon DEF Sockaddrs, all
<1> QED BY <1>2, <1>3

\* The reply to guard_getaddrinfo.
LEMMA ResolvedKeeps == ASSUME IndInv, NEW t \in Threads, Resolved(t) PROVE IndInv'
<1> DEFINE c == thread[t]
<1>1. PICK list \in Answers(c.host) :
          /\ answered' = answered \cup {<<c.host, list[i]>> : i \in DOMAIN list}
          /\ thread' = [thread EXCEPT ![t] =
                  IF list = Empty THEN Out ELSE [c EXCEPT !.at = "building", !.rest = list]]
  BY Zenon DEF Resolved
<1>2. /\ c.at = "resolving"
      /\ UNCHANGED <<image, mode, hook, cache, tick, calls, granted, started, recent>>
  BY Zenon DEF Resolved
<1>3. c \in CallRecs /\ CallFine(c, hook, answered)
  BY Zenon DEF IndInv, Shape, CallsFine
<1>4. hook = "open"
  BY <1>2, <1>3 DEF CallFine
<1> DEFINE y == [c EXCEPT !.at = "building", !.rest = list]
           x == IF list = Empty THEN Out ELSE y
<1>5. y \in CallRecs /\ y.at = "building" /\ y.rest = list /\ y.host = c.host
  BY <1>3, AnswerIs, Zenon DEF CallRecs
<1>6. \A i \in DOMAIN list : <<c.host, list[i]>> \in answered' /\ Wire(list[i]) \in Sockaddrs
  BY <1>1, AnswerIs, Zenon
<1>7. list # Empty => CallFine(y, hook, answered')
  BY <1>4, <1>5, <1>6 DEF CallFine
<1>8. x \in CallRecs /\ CallFine(x, hook, answered')
  BY <1>5, <1>7, OutIs, Zenon
<1>9. answered \subseteq answered'
  BY <1>1, Zenon
<1>10. thread' = [thread EXCEPT ![t] = x]
  BY <1>1, Zenon
<1> HIDE DEF x
<1>11. thread' \in [Threads -> CallRecs] /\ CallsFine'
  BY <1>2, <1>8, <1>9, <1>10, OneCall, Zenon
<1>12. CacheFine(cache', answered')
  BY <1>2, <1>9, AnswersGrow, Zenon DEF IndInv
<1> QED BY <1>2, <1>4, <1>9, <1>11, <1>12, Quiet, Zenon DEF IndInv, Shape

\* A call that returns with an error of the resolver.
LEMMA UnresolvedKeeps == ASSUME IndInv, NEW t \in Threads, Unresolved(t) PROVE IndInv'
<1>1. /\ thread' = [thread EXCEPT ![t] = Out]
      /\ UNCHANGED <<image, mode, hook, cache, tick, calls, granted, started, answered, recent>>
  BY Zenon DEF Unresolved
<1>2. thread' \in [Threads -> CallRecs] /\ CallsFine'
  BY <1>1, OutIs, OneCall, Zenon
<1> QED BY <1>1, <1>2, Quiet, Zenon DEF IndInv, Shape

\* What Cache::insert does to the answers the cache stands for.
LEMMA InsertFine ==
    ASSUME IndInv, NEW key \in UsedKeys, NEW host \in Texts, Insert(key, host),
           <<host, key.ip>> \in answered', answered \subseteq answered'
    PROVE  LRU(cache', tick', recent') /\ CacheFine(cache', answered')
<1>1. LRU(cache', tick', recent') /\ SlotsAfter(key, host)
  BY InsertKeeps, Zenon DEF IndInv
<1>2. CacheFine(cache, answered')
  BY AnswersGrow, Zenon DEF IndInv
<1>3. ASSUME NEW i \in 1 .. Capacity, cache'[i].key # NoKey
      PROVE  <<cache'[i].host, cache'[i].key.ip>> \in answered'
  BY <1>1, <1>2, <1>3, Zenon DEF CacheFine, SlotsAfter
<1> QED BY <1>1, <1>3, Zenon DEF CacheFine

\* What Cache::lookup does to the answers the cache stands for.
LEMMA LookupFine ==
    ASSUME IndInv, NEW key \in UsedKeys, Lookup(key), answered' = answered
    PROVE  LRU(cache', tick', recent') /\ CacheFine(cache', answered')
<1>1. /\ LRU(cache', tick', recent')
      /\ \A i \in 1 .. Capacity : cache'[i].key = cache[i].key /\ cache'[i].host = cache[i].host
  BY LookupKeeps, Zenon DEF IndInv
<1>2. CacheFine(cache', answered')
  BY <1>1, Zenon DEF IndInv, CacheFine
<1> QED BY <1>1, <1>2

\* One address of the reply goes into the cache and into the result.
LEMMA BuildNodeKeeps == ASSUME IndInv, NEW t \in Threads, BuildNode(t) PROVE IndInv'
<1> DEFINE c == thread[t]
           ip == Head(c.rest)
           sa == Wire(ip)
           y == [c EXCEPT !.rest = Tail(@)]
           next == IF Len(c.rest) = 1 THEN Out ELSE y
<1>1. /\ c.at = "building"
      /\ UNCHANGED <<image, mode, hook, calls, granted, started, answered>>
      /\ thread' = [thread EXCEPT ![t] = next] \/ thread' = [thread EXCEPT ![t] = Out]
      /\ Insert(CacheKey(sa), c.host) \/ UNCHANGED <<cache, tick, recent>>
  BY Zenon DEF BuildNode
<1>2. c \in CallRecs /\ CallFine(c, hook, answered)
  BY Zenon DEF IndInv, Shape, CallsFine
<1>3. /\ hook = "open" /\ c.rest # Empty /\ c.rest \in Seq(Texts) /\ c.host \in Texts
      /\ \A i \in DOMAIN c.rest : <<c.host, c.rest[i]>> \in answered /\ Wire(c.rest[i]) \in Sockaddrs
  BY <1>1, <1>2 DEF CallFine, CallRecs
<1>4. <<c.host, ip>> \in answered /\ sa \in Sockaddrs
  <2>1. 1 \in DOMAIN c.rest /\ ip = c.rest[1]
    BY <1>3 DEF Empty
  <2> QED BY <1>3, <2>1, Zenon
<1>5. CacheKey(sa) \in UsedKeys /\ CacheKey(sa).ip = ip
  <2>1. CacheKey(sa) \in UsedKeys
    BY <1>4, Zenon DEF UsedKeys
  <2> QED BY <2>1 DEF CacheKey, Wire
<1>6. LRU(cache', tick', recent') /\ CacheFine(cache', answered')
  <2>1. CASE Insert(CacheKey(sa), c.host)
    BY <1>1, <1>3, <1>4, <1>5, <2>1, InsertFine, Zenon
  <2>2. CASE UNCHANGED <<cache, tick, recent>>
    BY <1>1, <2>2, Zenon DEF IndInv
  <2> QED BY <1>1, <2>1, <2>2, Zenon
<1>7. Len(c.rest) # 1 => y \in CallRecs /\ CallFine(y, hook, answered)
  <2>1. HAVE Len(c.rest) # 1
  <2>2. /\ Tail(c.rest) \in Seq(Texts) /\ Tail(c.rest) # Empty
        /\ \A i \in DOMAIN Tail(c.rest) : i + 1 \in DOMAIN c.rest /\ Tail(c.rest)[i] = c.rest[i + 1]
    <3> DEFINE r == c.rest
    <3>0. r \in Seq(Texts) /\ r # << >> /\ Len(r) # 1
      BY <1>3, <2>1, Zenon DEF Empty
    <3> HIDE DEF r
    <3>1. r \in Seq(Texts) /\ Len(r) >= 2 /\ Len(r) \in Nat
      <4>1. Len(r) \in Nat \ {0}
        BY <3>0, EmptySeq, Zenon
      <4>2. \A n \in Nat \ {0} : n # 1 => n >= 2 /\ n \in Nat
        OBVIOUS
      <4> QED BY <3>0, <4>1, <4>2, Zenon
    <3>2. Tail(r) \in Seq(Texts) /\ Len(Tail(r)) = Len(r) - 1
      BY <3>1
    <3>3. ASSUME NEW i \in 1 .. Len(r) - 1 PROVE i + 1 \in 1 .. Len(r) /\ Tail(r)[i] = r[i + 1]
      BY <3>1
    <3>4. DOMAIN Tail(r) = 1 .. Len(r) - 1 /\ DOMAIN r = 1 .. Len(r) /\ Tail(r) # Empty
      <4>1. DOMAIN Tail(r) = 1 .. Len(r) - 1 /\ DOMAIN r = 1 .. Len(r) /\ Len(Tail(r)) # 0
        BY <3>1, <3>2
      <4> QED BY <4>1, EmptySeq, Zenon DEF Empty
    <3>5. \A i \in DOMAIN Tail(r) : i + 1 \in DOMAIN r /\ Tail(r)[i] = r[i + 1]
      BY <3>3, <3>4, Zenon
    <3> QED BY <3>2, <3>4, <3>5, Zenon DEF r
  <2>3. /\ y \in CallRecs /\ y.rest = Tail(c.rest) /\ y.at = "building" /\ y.host = c.host
    BY <1>1, <1>2, <2>2, Zenon DEF CallRecs
  <2>4. ASSUME NEW i \in DOMAIN y.rest
        PROVE  <<y.host, y.rest[i]>> \in answered /\ Wire(y.rest[i]) \in Sockaddrs
    BY <1>3, <2>2, <2>3, Zenon
  <2>5. CallFine(y, hook, answered)
    BY <1>3, <2>2, <2>3, <2>4 DEF CallFine
  <2> QED BY <2>3, <2>5
<1>8. next \in CallRecs /\ CallFine(next, hook, answered)
  BY <1>7, OutIs, Zenon
<1> HIDE DEF next
<1>9. thread' \in [Threads -> CallRecs] /\ CallsFine'
  <2>1. CASE thread' = [thread EXCEPT ![t] = next]
    BY <1>1, <1>8, <2>1, OneCall, Zenon
  <2>2. CASE thread' = [thread EXCEPT ![t] = Out]
    BY <1>1, <2>2, OutIs, OneCall, Zenon
  <2> QED BY <1>1, <2>1, <2>2, Zenon
<1> QED BY <1>1, <1>6, <1>9, Quiet, Zenon DEF IndInv, Shape

\* decide_for_sockaddr: refused early, judged with the host of the cache, sent
\* to the fallback, or judged as an address of no host.
LEMMA DecideKeeps == ASSUME IndInv, NEW t \in Threads, Decide(t) PROVE IndInv'
<1> DEFINE c == thread[t]
           idx == FindIdx(cache, CacheKey(c.sa))
           asks == /\ image.socket = "known"
                   /\ c.sa.family \in {"inet", "inet6"}
                   /\ ~IsLoopbackIp(c.sa.ip) /\ ~IsCloudMetadata(c.sa.ip)
                   /\ Candidates # {} /\ MaxAttempts > 0
           early == IF c.sa.family = "unix" THEN "unix-socket"
                    ELSE IF hook = "closed" THEN "fail-closed"
                    ELSE IF c.sa.family = "malformed" THEN "bad-sockaddr" ELSE "none"
           w == [c EXCEPT !.at = "walking", !.walk = Min(Candidates), !.asked = 1]
           x == IF idx # 0 THEN Judged(c, cache[idx].host, TRUE)
                ELSE IF asks THEN w ELSE Judged(c, Empty, FALSE)
<1>1. /\ c.at = "deciding"
      /\ UNCHANGED <<image, mode, hook, calls, granted, started, answered>>
  BY Zenon DEF Decide
<1>2. \/ /\ early # "none" /\ thread' = [thread EXCEPT ![t] = Refused(c, early)]
         /\ UNCHANGED <<cache, tick, recent>>
      \/ early = "none" /\ Lookup(CacheKey(c.sa)) /\ thread' = [thread EXCEPT ![t] = x]
  BY Zenon DEF Decide
<1>3. c \in CallRecs /\ CallFine(c, hook, answered)
  BY Zenon DEF IndInv, Shape, CallsFine
<1>4. c.sa \in Dests /\ hook # "ctor" /\ hook \in {"ctor", "open", "closed"}
  BY <1>1, <1>3 DEF CallFine, IndInv, Shape
<1>5. CASE early # "none"
  <2>1. early \in Sources
    BY DEF Sources
  <2>2. Refused(c, early) \in CallRecs /\ CallFine(Refused(c, early), hook, answered)
    BY <1>3, <1>4, <2>1, RefusedIs, Zenon
  <2>3. thread' = [thread EXCEPT ![t] = Refused(c, early)] /\ UNCHANGED <<cache, tick, recent>>
    BY <1>2, <1>5, Zenon
  <2>4. thread' \in [Threads -> CallRecs] /\ CallsFine'
    BY <1>1, <2>2, <2>3, OneCall, Zenon
  <2> QED BY <1>1, <2>3, <2>4, Quiet, Zenon DEF IndInv, Shape
<1>6. CASE early = "none"
  <2>1. hook = "open" /\ c.sa.family \notin {"unix", "malformed"}
    BY <1>4, <1>6
  <2>2. Lookup(CacheKey(c.sa)) /\ thread' = [thread EXCEPT ![t] = x]
    BY <1>2, <1>6, Zenon
  <2>3. CacheKey(c.sa) \in UsedKeys /\ c.sa.ip \in Texts /\ CacheKey(c.sa).ip = c.sa.ip
    BY <1>4, DestIs, Zenon
  <2>4. LRU(cache', tick', recent') /\ CacheFine(cache', answered')
    BY <1>1, <2>2, <2>3, LookupFine, Zenon
  <2>5. Empty \in Texts /\ TRUE \in BOOLEAN /\ FALSE \in BOOLEAN
    BY DEF Empty, Texts
  <2>6. x \in CallRecs /\ CallFine(x, hook, answered')
    <3>1. CASE idx # 0
      <4>1. cache \in [1 .. Capacity -> Slots] /\ CacheFine(cache, answered)
        BY Zenon DEF IndInv, LRU
      <4>2. idx \in Used(cache) /\ cache[idx].key = CacheKey(c.sa)
        BY <2>3, <3>1, <4>1, FindIdxIs, Zenon
      <4>3. idx \in 1 .. Capacity /\ cache[idx].key # NoKey
        BY <4>2, Zenon DEF Used
      <4>4. cache[idx].host \in Texts
        <5>1. cache[idx] \in Slots
          BY <4>1, <4>3, Zenon
        <5> QED BY <5>1 DEF Slots
      <4>5. <<cache[idx].host, c.sa.ip>> \in answered
        BY <2>3, <4>1, <4>2, <4>3, Zenon DEF CacheFine
      <4>6. x = Judged(c, cache[idx].host, TRUE)
        BY <3>1, Zenon
      <4> DEFINE j == Judged(c, cache[idx].host, TRUE)
      <4>7. j \in CallRecs /\ CallFine(j, "open", answered)
        BY <1>3, <1>4, <2>1, <2>5, <4>4, <4>5, JudgedIs, Zenon
      <4> HIDE DEF j
      <4> QED BY <1>1, <2>1, <4>6, <4>7, Zenon DEF j
    <3>2. CASE idx = 0 /\ asks
      <4>1. x = w
        BY <3>2, Zenon
      <4>2. Candidates \in SUBSET Nat /\ Candidates # {}
        BY <3>2, SnapshotAssumption DEF Candidates
      <4>3. Min(Candidates) \in Candidates /\ Min(Candidates) \in Nat
        BY <4>2, MinIs, Zenon
      <4>4. 1 \in 0 .. MaxAttempts
        BY <3>2, HookNetAssumption
      <4>5. w \in CallRecs /\ w.at = "walking" /\ w.sa = c.sa /\ w.walk = Min(Candidates)
        BY <1>3, <4>3, <4>4, Zenon DEF CallRecs
      <4>6. CallFine(w, hook, answered')
        BY <1>4, <2>1, <3>2, <4>3, <4>5, SMTT(30) DEF CallFine
      <4> QED BY <4>1, <4>5, <4>6, Zenon
    <3>3. CASE idx = 0 /\ ~asks
      <4>1. x = Judged(c, Empty, FALSE)
        BY <3>3, Zenon
      <4> DEFINE j == Judged(c, Empty, FALSE)
      <4>2. j \in CallRecs /\ CallFine(j, "open", answered)
        BY <1>3, <1>4, <2>1, <2>5, JudgedIs, Zenon
      <4> HIDE DEF j
      <4> QED BY <1>1, <2>1, <4>1, <4>2, Zenon DEF j
    <3> QED BY <3>1, <3>2, <3>3, Zenon
  <2> HIDE DEF x
  <2>7. thread' \in [Threads -> CallRecs] /\ CallsFine'
    BY <1>1, <2>2, <2>6, OneCall, Zenon
  <2> QED BY <1>1, <2>4, <2>7, Quiet, Zenon DEF IndInv, Shape
<1> QED BY <1>5, <1>6, Zenon

\* A candidate of the fallback that resolves to the destination.
LEMMA WalkFindsKeeps == ASSUME IndInv, NEW t \in Threads, WalkFinds(t) PROVE IndInv'
<1> DEFINE c == thread[t]
           host == Snapshot[c.walk].pattern
           j == Judged(c, host, TRUE)
<1>1. /\ c.at = "walking" /\ UNCHANGED <<image, mode, hook, calls, granted, started>>
      /\ answered' = answered \cup {<<host, c.sa.ip>>}
      /\ Insert(CacheKey(c.sa), host) /\ thread' = [thread EXCEPT ![t] = j]
  BY Zenon DEF WalkFinds
<1>2. c \in CallRecs /\ CallFine(c, hook, answered)
  BY Zenon DEF IndInv, Shape, CallsFine
<1>3. /\ hook = "open" /\ c.sa \in Dests /\ c.sa.family \in {"inet", "inet6"}
      /\ c.walk \in Candidates
  BY <1>1, <1>2 DEF CallFine
<1>4. host \in Texts
  <2>1. c.walk \in DOMAIN Snapshot
    BY <1>3, Zenon DEF Candidates
  <2>2. Snapshot \in Seq(Rules)
    BY SnapshotAssumption DEF Rules, Texts
  <2>3. Snapshot[c.walk] \in Rules
    BY <2>1, <2>2
  <2> QED BY <2>3 DEF Rules
<1> HIDE DEF host
<1>5. CacheKey(c.sa) \in UsedKeys /\ CacheKey(c.sa).ip = c.sa.ip
  BY <1>3, DestIs, Zenon
<1>6. answered \subseteq answered' /\ <<host, c.sa.ip>> \in answered'
  BY <1>1, Zenon
<1>7. LRU(cache', tick', recent') /\ CacheFine(cache', answered')
  BY <1>1, <1>4, <1>5, <1>6, InsertFine, Zenon
<1>8. j \in CallRecs /\ CallFine(j, "open", answered')
  BY <1>2, <1>3, <1>4, <1>6, JudgedIs, Zenon
<1> HIDE DEF j
<1>9. thread' \in [Threads -> CallRecs] /\ CallsFine'
  BY <1>1, <1>3, <1>6, <1>8, OneCall, Zenon
<1> QED BY <1>1, <1>3, <1>6, <1>7, <1>9, Quiet, Zenon DEF IndInv, Shape

\* A candidate that does not: the next one is asked about, or the miss judged.
LEMMA WalkMissesKeeps == ASSUME IndInv, NEW t \in Threads, WalkMisses(t) PROVE IndInv'
<1> DEFINE c == thread[t]
           later == {i \in Candidates : i > c.walk}
           w == [c EXCEPT !.walk = Min(later), !.asked = @ + 1]
           j == Judged(c, Empty, FALSE)
           last == later = {} \/ c.asked = MaxAttempts
           x == IF last THEN j ELSE w
<1>1. /\ c.at = "walking" /\ thread' = [thread EXCEPT ![t] = x]
      /\ UNCHANGED <<image, mode, hook, cache, tick, calls, granted, started, answered, recent>>
  BY Zenon DEF WalkMisses
<1>2. c \in CallRecs /\ CallFine(c, hook, answered)
  BY Zenon DEF IndInv, Shape, CallsFine
<1>3. /\ hook = "open" /\ c.sa \in Dests /\ c.sa.family \in {"inet", "inet6"}
  BY <1>1, <1>2 DEF CallFine
<1>4. Empty \in Texts /\ FALSE \in BOOLEAN
  BY DEF Empty, Texts
<1>5. j \in CallRecs /\ CallFine(j, "open", answered)
  BY <1>2, <1>3, <1>4, JudgedIs, Zenon
<1>6. ASSUME ~last PROVE w \in CallRecs /\ CallFine(w, "open", answered)
  <2>1. later \in SUBSET Nat /\ later # {} /\ later \subseteq Candidates
    BY <1>6, SnapshotAssumption DEF Candidates
  <2>2. Min(later) \in Candidates /\ Min(later) \in Nat
    BY <2>1, MinIs, Zenon
  <2>3. c.asked \in 0 .. MaxAttempts
    BY <1>2 DEF CallRecs
  <2>4. c.asked + 1 \in 0 .. MaxAttempts
    BY <1>6, <2>3, HookNetAssumption
  <2>5. w \in CallRecs /\ w.at = "walking" /\ w.sa = c.sa /\ w.walk = Min(later)
    BY <1>1, <1>2, <2>2, <2>4, Zenon DEF CallRecs
  <2>6. CallFine(w, "open", answered)
    BY <1>3, <2>2, <2>5 DEF CallFine
  <2> QED BY <2>5, <2>6
<1>7. x \in CallRecs /\ CallFine(x, "open", answered)
  BY <1>5, <1>6, Zenon
<1> HIDE DEF x
<1>8. thread' \in [Threads -> CallRecs] /\ CallsFine'
  BY <1>1, <1>3, <1>7, OneCall, Zenon
<1> QED BY <1>1, <1>8, Quiet, Zenon DEF IndInv, Shape

\* The raw system call.
LEMMA GrantKeeps == ASSUME IndInv, NEW t \in Threads, Grant(t) PROVE IndInv'
<1> DEFINE c == thread[t]
           g == [sa |-> c.sa, host |-> c.host]
<1>1. /\ c.at = "allowed" /\ granted' = granted \cup {g} /\ thread' = [thread EXCEPT ![t] = Out]
      /\ UNCHANGED <<image, mode, hook, cache, tick, calls, started, answered, recent>>
  BY Zenon DEF Grant
<1>2. c \in CallRecs /\ CallFine(c, hook, answered)
  BY Zenon DEF IndInv, Shape, CallsFine
<1>3. /\ hook = "open" /\ c.sa.family \notin {"unix", "malformed"}
      /\ <<c.host, c.sa.ip>> \in answered /\ Permitted(c.host, c.sa.ip, Snapshot)
  BY <1>1, <1>2 DEF CallFine
<1>4. thread' \in [Threads -> CallRecs] /\ CallsFine'
  BY <1>1, OutIs, OneCall, Zenon
<1>5. g.sa = c.sa /\ g.host = c.host
  OBVIOUS
<1> HIDE DEF g
<1>6. GrantedIsPermitted'
  <2>1. ASSUME NEW y \in granted'
        PROVE  /\ y.sa.family \notin {"unix", "malformed"}
               /\ <<y.host, y.sa.ip>> \in answered'
               /\ Permitted(y.host, y.sa.ip, Snapshot)
    <3>1. CASE y = g
      BY <1>1, <1>3, <1>5, <3>1
    <3>2. CASE y \in granted
      BY <1>1, <3>2, Zenon DEF IndInv, GrantedIsPermitted
    <3> QED BY <1>1, <3>1, <3>2, Zenon
  <2>2. \A y \in started' : y.hook = "open" /\ y.host # Empty => Permitted(y.host, Empty, Snapshot)
    BY <1>1, Zenon DEF IndInv, GrantedIsPermitted
  <2> QED BY <2>1, <2>2, Zenon DEF GrantedIsPermitted
<1>7. Shape' /\ Trusted' /\ LRU(cache', tick', recent') /\ CacheFine(cache', answered')
  BY <1>1, <1>3, <1>4, Zenon DEF IndInv, Shape, Trusted
<1> QED BY <1>4, <1>6, <1>7, Zenon DEF IndInv

\* The report of a denial looks the host up once more.
LEMMA ReportKeeps == ASSUME IndInv, NEW t \in Threads, Report(t) PROVE IndInv'
<1> DEFINE c == thread[t]
<1>1. /\ c.at = "denied" /\ thread' = [thread EXCEPT ![t] = Out]
      /\ UNCHANGED <<image, mode, hook, calls, granted, started, answered>>
      /\ Lookup(CacheKey(c.sa)) \/ UNCHANGED <<cache, tick, recent>>
  BY Zenon DEF Report
<1>2. CallFine(c, hook, answered)
  BY Zenon DEF IndInv, CallsFine
<1>3. c.sa \in Dests
  BY <1>1, <1>2 DEF CallFine
<1>4. LRU(cache', tick', recent') /\ CacheFine(cache', answered')
  <2>1. CASE Lookup(CacheKey(c.sa))
    BY <1>1, <1>3, <2>1, DestIs, LookupFine, Zenon
  <2>2. CASE UNCHANGED <<cache, tick, recent>>
    BY <1>1, <2>2, Zenon DEF IndInv
  <2> QED BY <1>1, <2>1, <2>2, Zenon
<1>5. thread' \in [Threads -> CallRecs] /\ CallsFine'
  BY <1>1, OutIs, OneCall, Zenon
<1> QED BY <1>1, <1>4, <1>5, Quiet, Zenon DEF IndInv, Shape

\* nw_connection_start: a host the rules do not allow is not started.
LEMMA NwStartKeeps == ASSUME IndInv, NEW t \in Threads, NwStart(t) PROVE IndInv'
<1>1. /\ UNCHANGED <<image, mode, hook, cache, tick, thread, granted, answered, recent>>
      /\ calls < MaxCalls /\ calls' = calls + 1
  BY Zenon DEF NwStart, Enters
<1>2. PICK conn \in [class : {"OS_nw_", "other"}, host : Names \cup {Empty}] :
          started' = IF DeniesNwConnection(EndpointHostname(conn)) THEN started
                     ELSE started \cup {[host |-> EndpointHostname(conn), hook |-> hook]}
  BY Zenon DEF NwStart
<1> DEFINE h == EndpointHostname(conn)
           v == EvaluatePolicy(h, Empty, TRUE, Snapshot)
           s == [host |-> h, hook |-> hook]
<1>3. h \in Texts /\ Empty \in Texts
  <2>1. Empty \in Texts
    BY DEF Texts, Empty
  <2>2. conn.host \in Names \cup {Empty} /\ Names \subseteq Texts
    BY InputAssumption DEF Texts
  <2> QED BY <2>1, <2>2, Zenon DEF EndpointHostname
<1>4. s.host = h /\ s.hook = hook
  OBVIOUS
<1>5. \/ started' = started
      \/ started' = started \cup {s} /\ ~DeniesNwConnection(h)
  BY <1>2, Zenon
<1> HIDE DEF h
<1>6. ASSUME ~DeniesNwConnection(h), hook = "open", h # Empty PROVE Permitted(h, Empty, Snapshot)
  <2>1. v \in Verdicts /\ (v.verdict = "Allow" => Permitted(h, Empty, Snapshot))
    BY <1>3, AllowedIsPermitted, Zenon
  <2>2. v.verdict # "Deny"
    BY <1>6, Zenon DEF DeniesNwConnection
  <2> HIDE DEF v
  <2>3. v.verdict \in {"Allow", "Deny"}
    BY <2>1 DEF Verdicts
  <2> QED BY <2>1, <2>2, <2>3, Zenon
<1> HIDE DEF s
<1>7. GrantedIsPermitted'
  <2>1. ASSUME NEW y \in started', y.hook = "open", y.host # Empty
        PROVE  Permitted(y.host, Empty, Snapshot)
    <3>1. CASE y \in started
      BY <2>1, <3>1, Zenon DEF IndInv, GrantedIsPermitted
    <3>2. CASE y = s /\ ~DeniesNwConnection(h)
      BY <1>4, <1>6, <2>1, <3>2, Zenon
    <3> QED BY <1>5, <2>1, <3>1, <3>2, Zenon
  <2>2. \A g \in granted' : /\ g.sa.family \notin {"unix", "malformed"}
                            /\ <<g.host, g.sa.ip>> \in answered'
                            /\ Permitted(g.host, g.sa.ip, Snapshot)
    BY <1>1, Zenon DEF IndInv, GrantedIsPermitted
  <2> QED BY <2>1, <2>2, Zenon DEF GrantedIsPermitted
<1>8. calls' \in 0 .. MaxCalls
  BY <1>1, HookNetAssumption DEF IndInv, Shape
<1>9. Shape' /\ CallsFine' /\ Trusted' /\ LRU(cache', tick', recent') /\ CacheFine(cache', answered')
  BY <1>1, <1>8, Zenon DEF IndInv, Shape, CallsFine, Trusted
<1> QED BY <1>7, <1>9, Zenon DEF IndInv

-----------------------------------------------------------------------------
(* The theorems                                                            *)

\* Before the constructor the cache is empty and no call is under way.
LEMMA InitKeeps == ASSUME Init PROVE IndInv
<1>1. /\ image \in Images /\ mode \in Modes /\ hook = "ctor" /\ calls = 0
      /\ cache = [i \in 1 .. Capacity |-> Slot] /\ tick = 1 /\ thread = [t \in Threads |-> Out]
      /\ granted = {} /\ started = {} /\ answered = {} /\ recent = Empty
  BY Zenon DEF Init
<1>2. \A t \in Threads : thread[t] = Out
  BY <1>1, Zenon
<1>3. Shape
  <2>1. thread \in [Threads -> CallRecs]
    BY <1>1, OutIs, Zenon
  <2>2. calls \in 0 .. MaxCalls
    BY <1>1, HookNetAssumption
  <2>3. hook \in {"ctor", "open", "closed"}
    BY <1>1
  <2> QED BY <1>1, <2>1, <2>2, <2>3, Zenon DEF Shape
<1>4. CallsFine
  BY <1>2, OutIs, Zenon DEF CallsFine
<1>5. \A i \in 1 .. Capacity : cache[i] = Slot /\ cache[i].key = NoKey
  BY <1>1 DEF Slot
<1>6. LRU(cache, tick, recent)
  <2>1. Used(cache) = {}
    BY <1>5, Zenon DEF Used
  <2>2. Cardinality(Used(cache)) = 0
    BY <2>1, FS_EmptySet, Zenon
  <2>3. Len(recent) = 0 /\ recent \in Seq(UsedKeys)
    BY <1>1 DEF Empty
  <2>4. Slot \in Slots
    BY DEF Slot, Slots, Texts, Empty
  <2>5. cache \in [1 .. Capacity -> Slots]
    BY <1>1, <2>4, Zenon
  <2>6. tick \in Nat
    BY <1>1
  <2> QED BY <2>1, <2>2, <2>3, <2>5, <2>6, SMTT(30) DEF LRU
<1>7. CacheFine(cache, answered)
  BY <1>5, Zenon DEF CacheFine
<1>8. Trusted /\ GrantedIsPermitted
  BY <1>1 DEF Trusted, GrantedIsPermitted
<1> QED BY <1>3, <1>4, <1>6, <1>7, <1>8, Zenon DEF IndInv

\* Every step of the constructor, the daemon and the threads keeps the
\* invariant.
LEMMA NextKeeps == ASSUME IndInv, [Next]_vars PROVE IndInv'
<1>1. CASE Ctor
  BY <1>1, CtorKeeps, Zenon
<1>2. ASSUME NEW t \in Threads, GetAddrInfo(t) \/ Connect(t) \/ NwStart(t) \/ Step(t)
      PROVE  IndInv'
  BY <1>2, GetAddrInfoKeeps, ConnectKeeps, NwStartKeeps, ResolvedKeeps, UnresolvedKeeps,
     BuildNodeKeeps, DecideKeeps, WalkFindsKeeps, WalkMissesKeeps, GrantKeeps, ReportKeeps, Zenon
     DEF Step
<1>3. CASE UNCHANGED vars
  BY <1>3, Zenon DEF vars, IndInv, Shape, CallsFine, Trusted, GrantedIsPermitted
<1> QED BY <1>1, <1>2, <1>3, Zenon DEF Next

\* The invariant that the theorems below follow from.
THEOREM Inductive == Spec => []IndInv
BY InitKeeps, NextKeeps, PTL DEF Spec

\* The state of the hook is well typed, and the fallback of one call asks the
\* daemon about at most MaxAttempts names (fallback_resolve_allow).
THEOREM TypeCorrect == Spec => []TypeOK
<1>1. ASSUME IndInv PROVE TypeOK
  <2>1. \A i \in 1 .. Capacity : cache[i].key \in {NoKey} \cup UsedKeys
    BY <1>1 DEF IndInv, LRU, Slots
  <2>2. \A t \in Threads : thread[t].asked \in 0 .. MaxAttempts
    BY <1>1 DEF IndInv, Shape, CallRecs
  <2>3. tick \in Nat
    BY <1>1, Zenon DEF IndInv, LRU
  <2> QED BY <1>1, <2>1, <2>2, <2>3, Zenon DEF IndInv, Shape, TypeOK, UsedKeys
<1> QED BY <1>1, Inductive, PTL

\* Whatever the threads overwrite or evict in the cache between a lookup and
\* the system call, decide_for_sockaddr and decide_for_nw_connection let nothing
\* through that the snapshot does not permit.
THEOREM GrantsPermitted == Spec => []GrantedIsPermitted
<1>1. IndInv => GrantedIsPermitted
  BY Zenon DEF IndInv
<1> QED BY <1>1, Inductive, PTL

\* Cache::insert and Cache::lookup forget an address only after Capacity others
\* were used since.
THEOREM CacheHoldsRecent == Spec => []CacheKeepsRecent
<1>1. IndInv => CacheKeepsRecent
  BY ListIsCache, Zenon DEF IndInv
<1> QED BY <1>1, Inductive, PTL

\* A hook whose constructor found the snapshot, its signer, the dylib or the
\* interposition wanting stays FAIL_CLOSED.
THEOREM UntrustedGetNothing == Spec => []UntrustedGrantsNothing
<1>1. ASSUME IndInv PROVE UntrustedGrantsNothing
  <2>1. CASE hook # "open"
    BY <1>1, <2>1, Zenon DEF IndInv, Trusted, UntrustedGrantsNothing
  <2>2. CASE hook = "open"
    <3>1. /\ LoadFromEnv(image) = "ok" /\ SelfCheck(image) /\ ProbeSelfTest(image)
          /\ image \in Images
      BY <1>1, <2>2, Zenon DEF IndInv, Trusted, Shape
    <3>2. /\ image.manifest \in {"unset", "outside", "malformed", "unsigned", "complete"}
          /\ image.file \in {"same", "other"} /\ image.schema \in {"v2", "old"}
          /\ image.signature \in {"valid", "invalid"}
          /\ image.active \subseteq {"connect", "write", "getaddrinfo"}
      BY <3>1, InputAssumption
    <3>3. image.manifest = "complete"
      BY <3>1, <3>2 DEF LoadFromEnv, ParseManifest
    <3>4. image.file = "same" /\ image.schema = "v2" /\ VerifySnapshotSignature(image) = "ok"
      BY <3>1, <3>2 DEF LoadFromEnv, ParseManifest
    <3>5. image.signature = "valid" /\ image.signers = "safe" /\ image.signer = "listed"
      BY <3>2, <3>4 DEF VerifySnapshotSignature, SignersFileSafe, TrustedSignerMatches
    <3>6. image.hash \notin {"differs", "malformed"}
      BY <3>1 DEF SelfCheck
    <3>7. image.active = {"connect", "write", "getaddrinfo"}
      BY <3>1, <3>2, Zenon DEF ProbeSelfTest
    <3> QED BY <3>3, <3>4, <3>5, <3>6, <3>7, Zenon DEF UntrustedGrantsNothing
  <2> QED BY <2>1, <2>2, Zenon
<1> QED BY <1>1, Inductive, PTL
=============================================================================
