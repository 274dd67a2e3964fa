-------------------------------- MODULE HashMany -------------------------------
(***************************************************************************)
(* hash_many of rs/commp/src/sha256: messages are hashed a group at a time *)
(* by the kernel the build and the CPU select, then the remainder.  A node *)
(* is named by the message it is the truncated hash of, a word of a        *)
(* message or of a digest by its owner and its index.                      *)
(***************************************************************************)
EXTENDS Backend

CONSTANT Counts  \* numbers of messages a caller passes

ASSUME CountsAssumption == Counts \subseteq Nat

MAX_LANES == 16

ZeroMessage == -1  \* the zero bytes a short group is padded with
Stale == -2        \* what a node of the output held before the call
Junk == -3         \* the hash of something that is no message

VARIABLES
    build, cpu,  \* fixed
    pc,          \* "idle" or "hashing"
    kernel,      \* the code running
    n,           \* msgs.len()
    out,         \* out, at least n long
    done         \* messages hashed

vars == <<build, cpu, pc, kernel, n, out, done>>

Lanes(k) ==
    IF k = "Avx512" THEN 16 ELSE IF k \in {"Avx2", "Sse2", "Neon"} THEN 8
    ELSE IF k \in {"ArmSha2", "Wasm"} THEN 4 ELSE IF k = "ShaNi" THEN 2 ELSE 1

(* Sse2 and Neon run as a Pair of two registers of four lanes. *)
Registers(k) == IF k \in {"Sse2", "Neon"} THEN 2 ELSE 1
Width(k) == Lanes(k) \div Registers(k)

TransposesInBuffer == {"Avx512", "Avx2", "Sse2", "Neon"}

Init ==
    /\ build \in Builds /\ cpu \in SUBSET Detectable(build.arch)
    /\ pc = "idle" /\ kernel = "Portable"
    /\ n = 0 /\ out = <<>> /\ done = 0

-----------------------------------------------------------------------------
(* One lane of compress_message and compress_padding. *)
Digest(words) ==
    LET m == words[0][1]
        owner == IF words = [j \in 0 .. 15 |-> <<m, j>>] THEN m ELSE Junk
    IN  [k \in 0 .. 7 |-> <<owner, k, "whole">>]

(* node[NODE_SIZE - 1] &= 0b0011_1111 *)
Truncate(node) == [node EXCEPT ![7] = <<@[1], @[2], "cut">>]

Node(words) ==
    LET m == words[0][1]
    IN  IF words = [k \in 0 .. 7 |-> <<m, k, IF k = 7 THEN "cut" ELSE "whole">>]
        THEN m ELSE Junk

Words(m) == [j \in 0 .. 15 |-> <<m, j>>]

(* truncated_hash_64 *)
HashOne(m) == Node(Truncate(Digest(Words(m))))

(* Mutant: both halves of a Pair are loaded from the start of the buffer. *)
LoadSamePair(k, buf) ==
    [r \in 0 .. Registers(k) - 1 |-> [l \in 0 .. Width(k) - 1 |-> buf[l]]]

(* hash_group of lanes/mod.rs: word j of every message goes through a      *)
(* buffer of MAX_LANES words into the registers of w[j], and back.         *)
Load(k, buf) ==
    [r \in 0 .. Registers(k) - 1 |-> [l \in 0 .. Width(k) - 1 |-> buf[Width(k) * r + l]]]

Store(k, vector, buf) ==
    [l \in 0 .. MAX_LANES - 1 |->
        IF l < Lanes(k) THEN vector[l \div Width(k)][l % Width(k)] ELSE buf[l]]

LanesGroup(k, msgs) ==
    LET empty == [l \in 0 .. MAX_LANES - 1 |-> <<ZeroMessage, 0>>]
        w == [j \in 0 .. 15 |->
                 Load(k, [l \in 0 .. MAX_LANES - 1 |->
                             IF l < Lanes(k) THEN Words(msgs[l])[j] ELSE empty[l]])]
        s == [r \in 0 .. Registers(k) - 1 |-> [l \in 0 .. Width(k) - 1 |->
                 Digest([j \in 0 .. 15 |-> w[j][r][l]])]]
        word(i) == Store(k, [r \in 0 .. Registers(k) - 1 |->
                                [l \in 0 .. Width(k) - 1 |-> s[r][l][i]]], empty)
    IN  [l \in 0 .. Lanes(k) - 1 |-> Node(Truncate([i \in 0 .. 7 |-> word(i)[l]]))]

(* hash4 of wasm.rs: four words of four messages are transposed at a time. *)
Shuffle(lanes, x, y) ==
    [l \in 0 .. 3 |-> IF lanes[l + 1] < 4 THEN x[lanes[l + 1]] ELSE y[lanes[l + 1] - 4]]

Transpose(r) ==
    LET t0 == Shuffle(<<0, 4, 1, 5>>, r[0], r[1])
        t1 == Shuffle(<<2, 6, 3, 7>>, r[0], r[1])
        t2 == Shuffle(<<0, 4, 1, 5>>, r[2], r[3])
        t3 == Shuffle(<<2, 6, 3, 7>>, r[2], r[3])
    IN  <<Shuffle(<<0, 1, 4, 5>>, t0, t2), Shuffle(<<2, 3, 6, 7>>, t0, t2),
          Shuffle(<<0, 1, 4, 5>>, t1, t3), Shuffle(<<2, 3, 6, 7>>, t1, t3)>>

Hash4(msgs) ==
    LET rows(g) == [m \in 0 .. 3 |-> [b \in 0 .. 3 |-> Words(msgs[m])[4 * g + b]]]
        w == [j \in 0 .. 15 |-> Transpose(rows(j \div 4))[(j % 4) + 1]]
        s == [l \in 0 .. 3 |-> Digest([j \in 0 .. 15 |-> w[j][l]])]
        half(h) == Transpose([i \in 0 .. 3 |-> [l \in 0 .. 3 |-> s[l][4 * h + i]]])
    IN  [m \in 0 .. 3 |-> Node(Truncate([i \in 0 .. 7 |-> half(i \div 4)[m + 1][i % 4]]))]

(* hash_lanes of arm.rs and x86.rs: each message has registers of its own. *)
HashLanes(k, msgs) == [l \in 0 .. Lanes(k) - 1 |-> HashOne(msgs[l])]

Group(k, msgs) ==
    IF k \in TransposesInBuffer THEN LanesGroup(k, msgs)
    ELSE IF k = "Wasm" THEN Hash4(msgs)
    ELSE HashLanes(k, msgs)

-----------------------------------------------------------------------------
Call(count, spare) ==
    /\ pc = "idle"
    /\ pc' = "hashing" /\ kernel' = Kernel(build, cpu)
    /\ n' = count /\ done' = 0
    /\ out' = [j \in 0 .. count + spare - 1 |-> Stale]
    /\ UNCHANGED <<build, cpu>>

(* Writes nodes[0 .. len - 1] after the messages already done. *)
Write(nodes, len) ==
    /\ out' = [j \in DOMAIN out |->
                  IF done <= j /\ j < done + len THEN nodes[j - done] ELSE out[j]]
    /\ done' = done + len
    /\ UNCHANGED <<build, cpu, pc, kernel, n>>

(* Mutant: the last group is taken whole, as if the messages filled it. *)
HashGroupRoundedUp ==
    /\ pc = "hashing" /\ done < n
    /\ Write(Group(kernel, [l \in 0 .. Lanes(kernel) - 1 |-> done + l]), Lanes(kernel))

HashGroup ==
    /\ pc = "hashing" /\ done + Lanes(kernel) <= n
    /\ Write(Group(kernel, [l \in 0 .. Lanes(kernel) - 1 |-> done + l]), Lanes(kernel))

Remainder == n - done

InRemainder == pc = "hashing" /\ 0 < Remainder /\ Remainder < Lanes(kernel)

(* A lone message is hashed scalar; ARM and SHA-NI hash each of the rest   *)
(* in one lane.                                                            *)
HashSingle ==
    /\ InRemainder
    /\ kernel \in {"ArmSha2", "ShaNi"} \/ Remainder = 1
    /\ Write([l \in {0} |-> HashOne(done)], 1)

(* Mutant: the nodes of the rest are taken from the end of the group. *)
HashPaddedGroupTail ==
    /\ InRemainder
    /\ kernel \notin {"ArmSha2", "ShaNi"} /\ Remainder # 1
    /\ LET group == [l \in 0 .. Lanes(kernel) - 1 |->
                        IF l < Remainder THEN done + l ELSE ZeroMessage]
           nodes == Group(kernel, group)
       IN  Write([l \in 0 .. Remainder - 1 |-> nodes[Lanes(kernel) - Remainder + l]], Remainder)

(* Several share one group padded with zero messages. *)
HashPaddedGroup ==
    /\ InRemainder
    /\ kernel \notin {"ArmSha2", "ShaNi"} /\ Remainder # 1
    /\ LET group == [l \in 0 .. Lanes(kernel) - 1 |->
                        IF l < Remainder THEN done + l ELSE ZeroMessage]
       IN  Write(Group(kernel, group), Remainder)

Return ==
    /\ pc = "hashing" /\ Remainder = 0
    /\ pc' = "idle" /\ kernel' = "Portable"
    /\ n' = 0 /\ out' = <<>> /\ done' = 0
    /\ UNCHANGED <<build, cpu>>

Next ==
    \/ \E count \in Counts, spare \in 0 .. 1 : Call(count, spare)
    \/ HashGroup
    \/ HashSingle
    \/ HashPaddedGroup
    \/ Return

Spec == Init /\ [][Next]_vars

-----------------------------------------------------------------------------
TypeOK ==
    /\ build \in Builds /\ cpu \subseteq Detectable(build.arch)
    /\ pc \in {"idle", "hashing"} /\ kernel \in Backends \union {"Wasm"}
    /\ n \in Nat /\ done \in 0 .. n
    /\ \E spare \in 0 .. 1 : DOMAIN out = 0 .. n + spare - 1

(***************************************************************************)
(* Each node is the truncated hash of the message at its own index, for    *)
(* every kernel, number of messages and remainder, and nothing past the    *)
(* messages is written (lanes/mod.rs 139-158, wasm.rs 138-155, arm.rs and  *)
(* x86.rs hash_many): no lane is mixed up with another or with a padding   *)
(* lane.                                                                   *)
(***************************************************************************)
HashedInPlace ==
    pc = "hashing" =>
        \A j \in DOMAIN out : out[j] = IF j < done THEN j ELSE Stale

(* What a kernel's instructions ask of the CPU: the features its entry     *)
(* point enables (#[target_feature(enable = ...)]).                        *)
Needs(k) ==
    IF k = "ArmSha2" THEN {"sha2"} ELSE IF k = "ShaNi" THEN {"sha", "ssse3", "sse4.1"}
    ELSE IF k = "Avx512" THEN {"avx512f"} ELSE IF k = "Avx2" THEN {"avx2"} ELSE {}

(***************************************************************************)
(* No call reaches an instruction the CPU lacks, whatever backend is       *)
(* forced (the SAFETY comment, backend.rs 115), and none reaches the       *)
(* SHA-256 instructions in a build that rules them out (60-62).            *)
(***************************************************************************)
RunsOnThisCPU ==
    pc = "hashing" =>
        /\ Needs(kernel) \subseteq cpu
        /\ build.soft => kernel \notin {"ArmSha2", "ShaNi"}

(***************************************************************************)
(* sha256_backend() tells the truth about the calls: it names the code     *)
(* that runs, says that it was forced, and says so when the forced one     *)
(* could not be run (backend.rs 136-153).                                  *)
(***************************************************************************)
ReportsWhatRuns ==
    pc = "hashing" /\ build.arch # "wasm32" =>
        LET report == Report(build, cpu) IN
        /\ report.backend = kernel
        /\ report.note = "forced" <=> kernel = build.forced
        /\ report.note = "unavailable" <=>
              build.forced # None /\ kernel # build.forced
=============================================================================
