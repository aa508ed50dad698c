--------------------------- MODULE MCProcessTree ---------------------------
(* ProcessTree on a few pids, with one executable file per way the scanner *)
(* and the loader can disagree.  ScanChunk is 4, so the pattern of "split" *)
(* straddles two chunks.                                                    *)
EXTENDS ProcessTree, TLC

CONSTANTS p1, p2, p3, r1

MCFiles == {"hard", "script", "split"}
MCSymmetry == Permutations(Pids \ NoTaskPort)

Signed(flags) ==
    [magic |-> "embedded",
     blobs |-> <<[magic |-> "requirements", flags |-> {}, version |-> "new", platform |-> 0],
                 [magic |-> "code_directory", flags |-> flags, version |-> "new", platform |-> 0]>>]

Text(off, size) == [cmd |-> "text", size |-> 72, off |-> off, filesize |-> size]
Sig             == [cmd |-> "code_signature", size |-> 72, off |-> 0, filesize |-> 0]

Thin(flags, bytes) ==
    [open |-> "yes", setuid |-> "no", magic |-> "macho", len |-> 400, cpu |-> "arm64",
     subtype |-> "all", restrict |-> "no", cmds |-> <<Text(1, Len(bytes) - 1), Sig>>,
     sig |-> Signed(flags), slices |-> << >>, bytes |-> bytes, interp |-> "none",
     dir |-> "user"]

Clean == <<"x", "P1", "P2", "P3", "x", "P4", "x", "x", "x">>
Split == <<"x", "x", "x", "x", "P1", "P2", "P3", "P4", "x">>

MCContent ==
    [f \in MCFiles \cup {"runtime"} |->
        CASE f = "hard"    -> Thin({"HARD"}, Clean)
          [] f = "split"   -> Thin({}, Split)
          [] f = "runtime" -> Thin({"RUNTIME"}, Clean)
          [] f = "script"  -> [Thin({}, Clean) EXCEPT !.magic = "script", !.interp = "runtime",
                                                     !.dir = "apple_system"]]
=============================================================================
