------------------------------ MODULE ExecScan ------------------------------
(***************************************************************************)
(* The exec-time classifier of the hook: exec_policy::check_exec_target    *)
(* over scanner::macho::classify_path and macho_flags::will_shed_dylib.    *)
(*                                                                         *)
(* A file is a record of what the code reads from it: "len" bytes of       *)
(* header, its load commands with their sizes, since the two parsers walk  *)
(* them with different bounds, its code signature, and its "bytes", in     *)
(* which P1 .. P4 make up a system-call instruction.  The caps on the      *)
(* number of commands (256 and 512) and on the header (64 and 256 KiB) are *)
(* beyond the files of the instances.                                      *)
(***************************************************************************)
EXTENDS Naturals, Sequences, SequencesExt

CONSTANTS
    ScanChunk,     \* SCAN_CHUNK (64 KiB in the code)
    Tail3,         \* bytes carried over to the next chunk (3 in the code)
    NativeCpu      \* NATIVE_CPU_TYPE of the build

ASSUME ScanAssumption ==
    ScanChunk \in Nat \ {0} /\ Tail3 \in Nat /\ Tail3 >= 3 /\ NativeCpu \in {"arm64", "x86_64"}

\* Sizes of the Mach-O structures that the parsers test.
HeaderSize  == 32
SegmentSize == 72
SigCmdSize  == 16
MinCmdSize  == 8

-----------------------------------------------------------------------------
(* macho_flags: will the loader strip the hook from this image?             *)

NoInfo == [flags |-> {}, platform |-> 0, found |-> "no"]

\* read_code_signature: the first CodeDirectory of an embedded signature; its
\* platform byte exists from version 0x20400 on.
ReadCodeSignature(sig) ==
    LET dirs == SelectSeq(sig.blobs, LAMBDA b : b.magic = "code_directory")
    IN  IF sig.magic # "embedded" \/ dirs = << >> THEN NoInfo
        ELSE [flags |-> dirs[1].flags,
              platform |-> IF dirs[1].version = "new" THEN dirs[1].platform ELSE 0,
              found |-> "yes"]

\* check_macho64 walks at most 256 commands and stops at the first one that is
\* too short or leaves the header.  MH_RESTRICT alone is enough to shed.
CheckMacho64(f) ==
    LET restricted == IF f.restrict = "yes"
                      THEN [NoInfo EXCEPT !.flags = {"RESTRICT"}, !.found = "yes"] ELSE NoInfo
        step(s, c) ==
            IF s.stop = "yes" THEN s
            ELSE IF s.pos + MinCmdSize > f.len \/ c.size < MinCmdSize
                 THEN [s EXCEPT !.stop = "yes"]
            ELSE IF c.cmd = "code_signature"
                 THEN [s EXCEPT !.stop = "yes",
                        !.sig = IF s.pos + SigCmdSize > f.len THEN "no" ELSE "yes"]
            ELSE [s EXCEPT !.pos = @ + c.size]
        walk == FoldLeft(step, [pos |-> HeaderSize, stop |-> "no", sig |-> "no"], f.cmds)
        info == ReadCodeSignature(f.sig)
    IN  IF f.len < HeaderSize THEN NoInfo
        ELSE IF walk.sig = "no" \/ info.found = "no" THEN restricted
        ELSE [info EXCEPT !.flags = @ \cup restricted.flags]

\* check_binary and check_fd; of a fat file the first slice of the native
\* architecture counts (check_fat32, check_fat64).
CheckBinary(f) ==
    LET native == SelectSeq(f.slices, LAMBDA s : s.cpu = NativeCpu)
    IN  IF f.open = "no" THEN NoInfo
        ELSE IF f.magic = "fat" /\ native # << >> THEN CheckMacho64(native[1])
        ELSE IF f.magic = "macho" THEN CheckMacho64(f)
        ELSE NoInfo

InfoSheds(info) == info.platform > 0 \/ info.flags \cap {"RUNTIME", "RESTRICT"} # {}

WillShedDylib(f) == f.setuid = "yes" \/ InfoSheds(CheckBinary(f))

-----------------------------------------------------------------------------
(* scanner::macho                                                           *)

\* parse_header_kind over the first bytes of the file.
HeaderKind(f) ==
    CASE f.magic = "elf"    -> "Elf"
      [] f.magic = "fat"    -> "Fat"
      [] f.magic = "cigam"  -> "UnsupportedMachO"
      [] f.magic = "script" -> "Script"
      [] f.magic = "macho"  -> IF f.len < HeaderSize THEN "MalformedMachO" ELSE "Thin64"
      [] OTHER              -> "UnknownFormat"

\* text_ranges: every command must leave 72 bytes in the header, also the
\* shorter ones; a bad command makes the whole scan fail.
TextRangesOk(f) ==
    LET step(s, c) ==
            IF s.ok = "no" \/ s.pos + SegmentSize > f.len \/ c.size < MinCmdSize
                           \/ s.pos + c.size > f.len
            THEN [s EXCEPT !.ok = "no"]
            ELSE [s EXCEPT !.pos = @ + c.size]
    IN  FoldLeft(step, [pos |-> HeaderSize, ok |-> "yes"], f.cmds).ok = "yes"

\* The commands whose ranges it returns, which come in the order of the file.
TextRanges(f) == {i \in DOMAIN f.cmds : f.cmds[i].cmd = "text" /\ f.cmds[i].size >= SegmentSize}

SyscallPattern == <<"P1", "P2", "P3", "P4">>

Occurs(pat, bytes) ==
    \E i \in 0 .. Len(bytes) - Len(pat) :
        Len(pat) <= Len(bytes) /\ SubSeq(bytes, i + 1, i + Len(pat)) = pat

\* contains_syscall_pattern for one architecture (arm64: one pattern of four
\* bytes, the longest of the builds).
ContainsSyscallPattern(bytes) == Occurs(SyscallPattern, bytes)

\* The chunks of a range of "size" bytes, and where each one ends.
Chunks(size)      == {k \in 0 .. size : k * ScanChunk < size}
ChunkEnd(k, size) == IF (k + 1) * ScanChunk < size THEN (k + 1) * ScanChunk ELSE size

\* Variant: the last bytes of a chunk are dropped.
ScanDropsTail(bytes, off, size) ==
    \E k \in Chunks(size) :
        ContainsSyscallPattern(SubSeq(bytes, off + k * ScanChunk + 1, off + ChunkEnd(k, size)))

\* scan_file_range: chunks of ScanChunk bytes, each searched together with the
\* last Tail3 bytes of what was searched before.  An end of file inside the
\* range is a failure of the scan.
ScanFileRange(bytes, off, size) ==
    LET from(k) == IF k * ScanChunk < Tail3 THEN 0 ELSE k * ScanChunk - Tail3
    IN  \E k \in Chunks(size) :
            ContainsSyscallPattern(SubSeq(bytes, off + from(k) + 1, off + ChunkEnd(k, size)))

\* One range of scan_path, that of command c: the bytes up to the end of the
\* file are searched, and a range that goes on past it fails once they are found
\* clean.
RangeVerdict(f, c) ==
    LET past == c.off + c.filesize > Len(f.bytes)
        size == IF c.off > Len(f.bytes) THEN 0
                ELSE IF past THEN Len(f.bytes) - c.off ELSE c.filesize
    IN  IF ScanFileRange(f.bytes, c.off, size) THEN "Suspicious"
        ELSE IF past /\ c.filesize > 0 THEN "failed" ELSE "Clean"

\* scan_path: the first range that is not clean decides.
ScanPath(f) ==
    LET notClean == {i \in TextRanges(f) : RangeVerdict(f, f.cmds[i]) # "Clean"}
    IN  IF ~TextRangesOk(f) THEN "failed"
        ELSE IF notClean = {} THEN "Clean" ELSE RangeVerdict(f, f.cmds[Min(notClean)])

SupportedSubtype(f) ==
    \/ f.cpu = "arm64" /\ f.subtype = "all"
    \/ f.cpu = "x86_64" /\ f.subtype \in {"all", "h"}

\* classify_path.  The scan cache is keyed by the hash of the file, so a hit
\* and a scan give the same verdict for the same bytes.
ClassifyPath(f) ==
    LET kind == HeaderKind(f)
        scan == ScanPath(f)
        blocked == \/ WillShedDylib(f)
                   \/ f.open = "no"
                   \/ kind \notin {"Script", "Thin64"}
                   \/ /\ kind = "Thin64"
                      /\ f.cpu # NativeCpu \/ ~SupportedSubtype(f) \/ scan = "failed"
    IN  IF blocked THEN "T0Blocked"
        ELSE IF kind = "Script" THEN "T2AllowedScript"
        ELSE IF scan = "Suspicious" THEN "T3SuspiciousUnknown"
        ELSE "T2CleanNativeMachO"

\* check_exec_target
CheckExecTarget(f) ==
    LET tier == ClassifyPath(f)
    IN  IF tier = "T0Blocked" THEN "Block"
        ELSE IF tier = "T3SuspiciousUnknown" THEN "Trace" ELSE "Allow"
=============================================================================
