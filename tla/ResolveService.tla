--------------------------- MODULE ResolveService ---------------------------
(***************************************************************************)
(* What the daemon promises to a wrapped process that asks for a           *)
(* destination: one reply to each request, for the request as it was       *)
(* asked, and no reply without a cause that came before it.  Nothing is    *)
(* said here of prompts, ids, tables, windows, queues or threads;          *)
(* PromptResolve shows that the daemon's implements it.                    *)
(***************************************************************************)
CONSTANTS Workers, Runs, Hosts, Source, Baseline

VARIABLES
    asking,   \* whether a worker has a request without a reply
    job,      \* its request, or the one it served last
    out,      \* the reply to it
    answers,  \* <<run, host, choice>> given by the users
    closed,   \* runs whose CLI has closed its prompt channel
    swept     \* runs whose snapshot is no longer on disk

vars == <<asking, job, out, answers, closed, swept>>

\* Replies that are given without a decision on the destination: the peer is not
\* tracked, the prompt queue is full, or nobody decided in time.
Undecided == {"dns_untracked", "dns_fallback", "deny_timeout", "deny_dropped", "closed"}

Replies == Undecided \cup {"dns_policy", "dns_learn", "dns_prompt", "deny_policy", "deny_user"}

Answered(j, choices) == \E c \in choices : <<j.run, j.host, c>> \in answers

Hard(j) == Source[j.host] \in {"BuiltinDeny", "ConfirmedDeny"} /\ j.run \notin swept

\* The cause each reply must have when it is given.
Justified(o, j) ==
    \/ o \in Undecided
    \/ o = "dns_policy"  /\ Source[j.host] = "Allow"
    \/ o = "dns_learn"   /\ j.run \in Baseline /\ ~Hard(j)
    \/ o = "dns_prompt"  /\ Answered(j, {"once", "always"}) /\ ~Hard(j)
    \/ o = "deny_policy" /\ (Source[j.host] # "Allow" \/ j.run \in swept)
    \/ o = "deny_user"   /\ (Answered(j, {"deny", "cancel", "always"}) \/ j.run \in closed)

Init ==
    /\ asking = [w \in Workers |-> "no"]
    /\ \E j \in [run : Runs, host : Hosts] : job = [w \in Workers |-> j]
    /\ out = [w \in Workers |-> "none"]
    /\ answers = {} /\ closed = {} /\ swept = {}

\* A request arrives; the one of an untracked peer is answered at once.
Ask(w) ==
    /\ asking[w] = "no"
    /\ \E r \in Runs, h \in Hosts : job' = [job EXCEPT ![w] = [run |-> r, host |-> h]]
    /\ \/ asking' = [asking EXCEPT ![w] = "yes"] /\ out' = [out EXCEPT ![w] = "none"]
       \/ asking' = asking /\ out' = [out EXCEPT ![w] = "dns_untracked"]
    /\ UNCHANGED <<answers, closed, swept>>

\* The reply to it.
Reply(w) ==
    /\ asking[w] = "yes"
    /\ asking' = [asking EXCEPT ![w] = "no"]
    /\ \E o \in Replies : Justified(o, job[w]) /\ out' = [out EXCEPT ![w] = o]
    /\ UNCHANGED <<job, answers, closed, swept>>

\* Users answer, channels close and snapshots go; none of it is taken back.
Outside ==
    /\ answers \subseteq answers' /\ closed \subseteq closed' /\ swept \subseteq swept'
    /\ UNCHANGED <<asking, job, out>>

Next == (\E w \in Workers : Ask(w) \/ Reply(w)) \/ Outside

Spec == Init /\ [][Next]_vars
=============================================================================
