---------------------------- MODULE MCRuleStore ----------------------------
(* The instance of RuleStore for TLC: one allow and one deny rule by two    *)
(* keys, one request with a signature over something else, two curated      *)
(* patterns of which either may be disabled and enabled.                    *)
EXTENDS RuleStore

CONSTANTS k1, k2

Rule(kind, pattern) == [kind |-> kind, pattern |-> pattern, created |-> 1]
Signed(key, payload) == [key |-> key, kind |-> "keychain", over |-> payload]
Request(op, schema, payload, sig) ==
    [op |-> op, schema |-> schema, payload |-> payload, sig |-> sig, builtins |-> "yes"]
Manages(op, key, pattern) ==
    LET p == [kind |-> op, pattern |-> pattern, created |-> 1]
    IN  Request(op, 5, p, Signed(key, p))

NoSig == [key |-> "none", kind |-> "none", over |-> Rule("none", "none")]
Allow == Rule("allow", "x")
Deny  == Rule("deny", "y")
Query(op) == [Request(op, 3, Rule("none", "none"), NoSig) EXCEPT !.builtins = "yes"]

MCRequests ==
    {Request("insert", 5, Allow, Signed(k1, Allow)), Request("insert", 5, Deny, Signed(k2, Deny)),
     Request("insert", 5, Deny, Signed(k1, Allow)),
     Manages("disable", k1, "a"), Manages("disable", k1, "b"), Manages("enable", k1, "b"),
     Query("prepare"), Query("list"), Query("status")}
MCLegacy == {{}, {Rule("allow", "old")}}
MCCurated == {"a", "b"}
=============================================================================
