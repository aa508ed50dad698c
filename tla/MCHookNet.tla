----------------------------- MODULE MCHookNet ------------------------------
(* Instances of HookNet for TLC: a snapshot with a rule of every kind that  *)
(* the calls can meet, two public addresses, one loopback address that a    *)
(* name resolves to, and a sockaddr spelled differently from the daemon's.  *)
EXTENDS HookNet

Registry == <<"registry", "npm">>
Mirror   == <<"mirror", "npm">>
Cdn      == <<"a", "cdn">>
Discord  == <<"discord">>
Ip1      == <<"10", "1">>
Ip2      == <<"10", "2">>
Local    == <<"127", "1">>

MCSnapshot ==
    << Entry("BuiltinDeny", "Exact", <<"b", "cdn">>),
       Entry("CuratedAllow", "Exact", Registry), Entry("CuratedAllow", "Exact", Mirror),
       Entry("UserAllow", "Suffix", <<"", "cdn">>) >>

\* It is what build_snapshot makes of its rules, of which one is disabled.
ASSUME SnapshotIsBuilt ==
    MCSnapshot = BuildSnapshot(
        << Entry("CuratedAllow", "Exact", Registry), Entry("CuratedAllow", "Exact", Discord),
           Entry("CuratedAllow", "Exact", Mirror), Entry("BuiltinDeny", "Exact", <<"b", "cdn">>) >>,
        {Discord}, << Entry("UserAllow", "Suffix", <<"", "cdn">>) >>, << >>)

MCNames == {Registry, Cdn, Discord}
MCDns   == {<<Ip1>>, <<Ip2, Local>>}
MCIpv6  == {Ip2}
MCDests == {[family |-> "inet", ip |-> Ip1, form |-> "wire"],
            [family |-> "inet6", ip |-> Ip2, form |-> "wire"],
            [family |-> "inet", ip |-> Local, form |-> "wire"],
            [family |-> "inet", ip |-> Ip1, form |-> "other"]}
OddDests == {[family |-> "unix", ip |-> Empty, form |-> "wire"],
             [family |-> "malformed", ip |-> Empty, form |-> "wire"]}
AllDests == MCDests \cup OddDests

Good == [manifest |-> "complete", file |-> "same", schema |-> "v2", signature |-> "valid",
         signers |-> "safe", signer |-> "listed", hash |-> "matches",
         active |-> {"connect", "write", "getaddrinfo"}, socket |-> "known"]
MCImages ==
    {Good, [Good EXCEPT !.hash = "none", !.socket = "unknown"]}
    \cup {[Good EXCEPT !.manifest = x] : x \in {"unset", "outside", "malformed", "unsigned"}}
    \cup {[Good EXCEPT !.hash = x] : x \in {"differs", "malformed"}}
    \cup {[Good EXCEPT !.file = "other"], [Good EXCEPT !.schema = "old"],
          [Good EXCEPT !.signature = "invalid"], [Good EXCEPT !.signers = "unsafe"],
          [Good EXCEPT !.signer = "unknown"], [Good EXCEPT !.active = {"connect", "write"}]}
=============================================================================
