-------------------------- MODULE MCPromptResolve --------------------------
(* Instances of PromptResolve for TLC. *)
EXTENDS PromptResolve, TLC

CONSTANTS w1, w2, r1, r2, h1, h2, h3, h4

\* Every destination must be asked for.
AskSource == [h \in Hosts |-> "DefaultDeny"]

\* One destination of each kind the handlers tell apart.
MixedSource == h1 :> "Allow" @@ h2 :> "ConfirmedDeny" @@ h3 :> "SuspectDeny"
               @@ h4 :> "UserDeny"

Symmetry == Permutations(Workers)
=============================================================================
