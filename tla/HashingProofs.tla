---------------------------- MODULE HashingProofs -----------------------------
(***************************************************************************)
(* What is proved of HashMany: hash_many hashes every message in its       *)
(* place, for any number of messages, on every kernel, and runs only code  *)
(* the CPU has; and of DigestBytes: the bytes of a digest are the          *)
(* multihash of its fields and decode to them, for any base of the         *)
(* varints, any code of two bytes, any padding, height and root.           *)
(***************************************************************************)
EXTENDS HashMany, DigestBytes, SequenceTheorems, WellFoundedInduction, TLAPS

-----------------------------------------------------------------------------
(* hash_many *)

Kernels == Backends \union {"Wasm"}

LEMMA KernelNames ==
    Kernels = {"ArmSha2", "ShaNi", "Avx512", "Avx2", "Sse2", "Neon", "Portable", "Wasm"}
<1>1. 1 .. 7 = {1, 2, 3, 4, 5, 6, 7}
  OBVIOUS
<1>2. Backends = {PREFERENCE[1], PREFERENCE[2], PREFERENCE[3], PREFERENCE[4],
                  PREFERENCE[5], PREFERENCE[6], PREFERENCE[7]}
  BY <1>1 DEF Backends
<1>3. Backends = {"ArmSha2", "ShaNi", "Avx512", "Avx2", "Sse2", "Neon", "Portable"}
  BY <1>2 DEF PREFERENCE
<1> QED
  BY <1>3 DEF Kernels

(* The message whose words are digested owns the digest. *)
LEMMA DigestOfWords ==
    ASSUME NEW m
    PROVE  Digest(Words(m)) = [k \in 0 .. 7 |-> <<m, k, "whole">>]
<1>1. Words(m)[0][1] = m
  BY DEF Words
<1>2. Words(m) = [j \in 0 .. 15 |-> <<Words(m)[0][1], j>>]
  BY <1>1 DEF Words
<1> QED
  BY <1>1, <1>2 DEF Digest

(* A truncated digest is its message's node. *)
LEMMA NodeOfDigest ==
    ASSUME NEW m
    PROVE  Node(Truncate([k \in 0 .. 7 |-> <<m, k, "whole">>])) = m
<1> DEFINE d == [k \in 0 .. 7 |-> <<m, k, "whole">>]
           t == [k \in 0 .. 7 |-> <<m, k, IF k = 7 THEN "cut" ELSE "whole">>]
<1>1. Truncate(d) = [d EXCEPT ![7] = <<m, 7, "cut">>]
  BY DEF Truncate
<1>2. [d EXCEPT ![7] = <<m, 7, "cut">>] = t
  OBVIOUS
<1>3. t[0][1] = m
  OBVIOUS
<1> QED
  BY <1>1, <1>2, <1>3 DEF Node

LEMMA HashOneIsNode ==
    ASSUME NEW m
    PROVE  HashOne(m) = m
BY DigestOfWords, NodeOfDigest DEF HashOne

(***************************************************************************)
(* No lane is mixed up: the node in lane l is that of message l, through   *)
(* one register or a pair of them.                                         *)
(***************************************************************************)
LEMMA LanesInOrder ==
    ASSUME NEW k \in TransposesInBuffer, NEW msgs,
           NEW i \in 0 .. Lanes(k) - 1
    PROVE  LanesGroup(k, msgs)[i] = msgs[i]
<1> DEFINE W == Width(k)
           empty == [l \in 0 .. MAX_LANES - 1 |-> <<ZeroMessage, 0>>]
           w == [j \in 0 .. 15 |->
                   Load(k, [l \in 0 .. MAX_LANES - 1 |->
                              IF l < Lanes(k) THEN Words(msgs[l])[j] ELSE empty[l]])]
           s == [r \in 0 .. Registers(k) - 1 |-> [l \in 0 .. Width(k) - 1 |->
                    Digest([j \in 0 .. 15 |-> w[j][r][l]])]]
           word(x) == Store(k, [r \in 0 .. Registers(k) - 1 |->
                                  [l \in 0 .. Width(k) - 1 |-> s[r][l][x]]], empty)
           R == i \div W
           L == i % W
<1>1. /\ R \in 0 .. Registers(k) - 1 /\ L \in 0 .. W - 1 /\ W * R + L = i
      /\ i \in 0 .. MAX_LANES - 1 /\ i < Lanes(k)
  <2>1. CASE k = "Avx512"
    <3>1. Lanes(k) = 16 /\ Registers(k) = 1 /\ W = 16
      BY <2>1 DEF Lanes, Registers, Width
    <3> QED
      BY <3>1 DEF MAX_LANES
  <2>2. CASE k = "Avx2"
    <3>1. Lanes(k) = 8 /\ Registers(k) = 1 /\ W = 8
      BY <2>2 DEF Lanes, Registers, Width
    <3> QED
      BY <3>1 DEF MAX_LANES
  <2>3. CASE k \in {"Sse2", "Neon"}
    <3>1. Lanes(k) = 8 /\ Registers(k) = 2 /\ W = 4
      BY <2>3 DEF Lanes, Registers, Width
    <3> QED
      BY <3>1 DEF MAX_LANES
  <2> QED
    BY <2>1, <2>2, <2>3 DEF TransposesInBuffer
<1>2. ASSUME NEW j \in 0 .. 15
      PROVE  w[j][R][L] = Words(msgs[i])[j]
  BY <1>1 DEF Load
<1>3. [j \in 0 .. 15 |-> w[j][R][L]] = Words(msgs[i])
  BY <1>2, Zenon DEF Words
<1>4. s[R][L] = [x \in 0 .. 7 |-> <<msgs[i], x, "whole">>]
  BY <1>1, <1>3, DigestOfWords, Zenon
<1>5. ASSUME NEW x \in 0 .. 7
      PROVE  word(x)[i] = <<msgs[i], x, "whole">>
  BY <1>1, <1>4, Zenon DEF Store
<1>6. [x \in 0 .. 7 |-> word(x)[i]] = [x \in 0 .. 7 |-> <<msgs[i], x, "whole">>]
  BY <1>5, Zenon
<1>7. LanesGroup(k, msgs)[i] = Node(Truncate([x \in 0 .. 7 |-> word(x)[i]]))
  BY Zenon DEF LanesGroup
<1> QED
  BY <1>6, <1>7, NodeOfDigest, Zenon

(* The shuffles of wasm.rs transpose a 4x4 matrix. *)
LEMMA TransposeTransposes ==
    ASSUME NEW r, NEW c \in 0 .. 3, NEW m \in 0 .. 3
    PROVE  Transpose(r)[c + 1][m] = r[m][c]
<1> DEFINE t0 == Shuffle(<<0, 4, 1, 5>>, r[0], r[1])
           t1 == Shuffle(<<2, 6, 3, 7>>, r[0], r[1])
           t2 == Shuffle(<<0, 4, 1, 5>>, r[2], r[3])
           t3 == Shuffle(<<2, 6, 3, 7>>, r[2], r[3])
<1>1. /\ t0[0] = r[0][0] /\ t0[1] = r[1][0] /\ t0[2] = r[0][1] /\ t0[3] = r[1][1]
      /\ t1[0] = r[0][2] /\ t1[1] = r[1][2] /\ t1[2] = r[0][3] /\ t1[3] = r[1][3]
      /\ t2[0] = r[2][0] /\ t2[1] = r[3][0] /\ t2[2] = r[2][1] /\ t2[3] = r[3][1]
      /\ t3[0] = r[2][2] /\ t3[1] = r[3][2] /\ t3[2] = r[2][3] /\ t3[3] = r[3][3]
  BY DEF Shuffle
<1>2. CASE c = 0
  <2>1. Transpose(r)[c + 1] = Shuffle(<<0, 1, 4, 5>>, t0, t2)
    BY <1>2 DEF Transpose
  <2>2. /\ Transpose(r)[c + 1][0] = t0[0] /\ Transpose(r)[c + 1][1] = t0[1]
        /\ Transpose(r)[c + 1][2] = t2[0] /\ Transpose(r)[c + 1][3] = t2[1]
    <3> HIDE DEF t0, t2
    <3> QED
      BY <2>1 DEF Shuffle
  <2> HIDE DEF t0, t2
  <2> QED
    BY <1>1, <1>2, <2>2
<1>3. CASE c = 1
  <2>1. Transpose(r)[c + 1] = Shuffle(<<2, 3, 6, 7>>, t0, t2)
    BY <1>3 DEF Transpose
  <2>2. /\ Transpose(r)[c + 1][0] = t0[2] /\ Transpose(r)[c + 1][1] = t0[3]
        /\ Transpose(r)[c + 1][2] = t2[2] /\ Transpose(r)[c + 1][3] = t2[3]
    <3> HIDE DEF t0, t2
    <3> QED
      BY <2>1 DEF Shuffle
  <2> HIDE DEF t0, t2
  <2> QED
    BY <1>1, <1>3, <2>2
<1>4. CASE c = 2
  <2>1. Transpose(r)[c + 1] = Shuffle(<<0, 1, 4, 5>>, t1, t3)
    BY <1>4 DEF Transpose
  <2>2. /\ Transpose(r)[c + 1][0] = t1[0] /\ Transpose(r)[c + 1][1] = t1[1]
        /\ Transpose(r)[c + 1][2] = t3[0] /\ Transpose(r)[c + 1][3] = t3[1]
    <3> HIDE DEF t1, t3
    <3> QED
      BY <2>1 DEF Shuffle
  <2> HIDE DEF t1, t3
  <2> QED
    BY <1>1, <1>4, <2>2
<1>5. CASE c = 3
  <2>1. Transpose(r)[c + 1] = Shuffle(<<2, 3, 6, 7>>, t1, t3)
    BY <1>5 DEF Transpose
  <2>2. /\ Transpose(r)[c + 1][0] = t1[2] /\ Transpose(r)[c + 1][1] = t1[3]
        /\ Transpose(r)[c + 1][2] = t3[2] /\ Transpose(r)[c + 1][3] = t3[3]
    <3> HIDE DEF t1, t3
    <3> QED
      BY <2>1 DEF Shuffle
  <2> HIDE DEF t1, t3
  <2> QED
    BY <1>1, <1>5, <2>2
<1> QED
  BY <1>2, <1>3, <1>4, <1>5

LEMMA Hash4InOrder ==
    ASSUME NEW msgs, NEW i \in 0 .. 3
    PROVE  Hash4(msgs)[i] = msgs[i]
<1> DEFINE rows(g) == [m \in 0 .. 3 |-> [b \in 0 .. 3 |-> Words(msgs[m])[4 * g + b]]]
           w == [j \in 0 .. 15 |-> Transpose(rows(j \div 4))[(j % 4) + 1]]
           s == [l \in 0 .. 3 |-> Digest([j \in 0 .. 15 |-> w[j][l]])]
           mat(h) == [x \in 0 .. 3 |-> [l \in 0 .. 3 |-> s[l][4 * h + x]]]
           half(h) == Transpose(mat(h))
<1>1. ASSUME NEW j \in 0 .. 15
      PROVE  w[j][i] = Words(msgs[i])[j]
  <2>1. j \div 4 \in 0 .. 3 /\ j % 4 \in 0 .. 3 /\ 4 * (j \div 4) + (j % 4) = j
    OBVIOUS
  <2>2. w[j][i] = rows(j \div 4)[i][j % 4]
    <3> HIDE DEF rows
    <3> QED
      BY <2>1, TransposeTransposes
  <2> QED
    BY <2>1, <2>2
<1>2. [j \in 0 .. 15 |-> w[j][i]] = Words(msgs[i])
  BY <1>1, Zenon DEF Words
<1>3. s[i] = [x \in 0 .. 7 |-> <<msgs[i], x, "whole">>]
  BY <1>2, DigestOfWords, Zenon
<1>4. ASSUME NEW x \in 0 .. 7
      PROVE  half(x \div 4)[i + 1][x % 4] = <<msgs[i], x, "whole">>
  <2>1. x \div 4 \in 0 .. 1 /\ x % 4 \in 0 .. 3 /\ 4 * (x \div 4) + (x % 4) = x
    OBVIOUS
  <2>2. half(x \div 4)[i + 1][x % 4] = mat(x \div 4)[x % 4][i]
    <3> HIDE DEF mat
    <3> QED
      BY <2>1, TransposeTransposes
  <2>3. mat(x \div 4)[x % 4][i] = s[i][x]
    <3> HIDE DEF s
    <3> QED
      BY <2>1
  <2> QED
    BY <1>3, <2>2, <2>3, Zenon
<1>5. [x \in 0 .. 7 |-> half(x \div 4)[i + 1][x % 4]] = [x \in 0 .. 7 |-> <<msgs[i], x, "whole">>]
  BY <1>4, Zenon
<1>6. Hash4(msgs)[i] = Node(Truncate([x \in 0 .. 7 |-> half(x \div 4)[i + 1][x % 4]]))
  BY Zenon DEF Hash4
<1> QED
  BY <1>5, <1>6, NodeOfDigest, Zenon

(* Whatever the kernel, a group is hashed message by message. *)
LEMMA GroupInOrder ==
    ASSUME NEW k \in Kernels, NEW msgs, NEW i \in 0 .. Lanes(k) - 1
    PROVE  Group(k, msgs)[i] = msgs[i]
<1>1. CASE k \in TransposesInBuffer
  BY <1>1, LanesInOrder DEF Group
<1>2. CASE k = "Wasm"
  <2>1. Lanes(k) = 4 /\ k \notin TransposesInBuffer
    BY <1>2 DEF Lanes, TransposesInBuffer
  <2> QED
    BY <1>2, <2>1, Hash4InOrder DEF Group
<1>3. CASE k \notin TransposesInBuffer /\ k # "Wasm"
  BY <1>3, HashOneIsNode DEF Group, HashLanes
<1> QED
  BY <1>1, <1>2, <1>3

LEMMA LanesPositive ==
    ASSUME NEW k \in Kernels
    PROVE  Lanes(k) \in Nat /\ Lanes(k) >= 1
BY KernelNames DEF Lanes

-----------------------------------------------------------------------------
(* get() only picks what supported() allows: Portable always is. *)
LEMMA GetSupported ==
    ASSUME NEW b, NEW c
    PROVE  Supported(b, c, Get(b, c))
<1> DEFINE S(p) == Supported(b, c, PREFERENCE[p])
           First(p) == S(p) /\ \A q \in 1 .. p - 1 : ~S(q)
<1>1. S(7)
  BY DEF Supported, PREFERENCE
<1>2. \E p \in 1 .. 7 : First(p)
  <2> HIDE DEF S
  <2>1. CASE S(1)
    BY <2>1
  <2>2. CASE ~S(1) /\ S(2)
    BY <2>2
  <2>3. CASE ~S(1) /\ ~S(2) /\ S(3)
    BY <2>3
  <2>4. CASE ~S(1) /\ ~S(2) /\ ~S(3) /\ S(4)
    BY <2>4
  <2>5. CASE ~S(1) /\ ~S(2) /\ ~S(3) /\ ~S(4) /\ S(5)
    BY <2>5
  <2>6. CASE ~S(1) /\ ~S(2) /\ ~S(3) /\ ~S(4) /\ ~S(5) /\ S(6)
    BY <2>6
  <2>7. CASE ~S(1) /\ ~S(2) /\ ~S(3) /\ ~S(4) /\ ~S(5) /\ ~S(6)
    BY <1>1, <2>7
  <2> QED
    BY <2>1, <2>2, <2>3, <2>4, <2>5, <2>6, <2>7
<1>3. First(CHOOSE p \in 1 .. 7 : First(p))
  <2> HIDE DEF First
  <2> QED
    BY <1>2
<1>4. Supported(b, c, Fastest(b, c))
  BY <1>3 DEF Fastest
<1> QED
  BY <1>4 DEF Get, ForcedRuns

LEMMA KernelAllowed ==
    ASSUME NEW b, NEW c
    PROVE  LET k == Kernel(b, c) IN
           /\ k \in Kernels
           /\ Needs(k) \subseteq c
           /\ b.soft => k \notin {"ArmSha2", "ShaNi"}
<1>1. CASE Kernel(b, c) \in {"Portable", "Wasm"}
  BY <1>1, KernelNames DEF Needs
<1>2. CASE Kernel(b, c) \notin {"Portable", "Wasm"}
  <2>1. /\ Kernel(b, c) = Get(b, c)
        /\ Get(b, c) \in CompiledIn(b.arch)
    BY <1>2 DEF Kernel
  <2>2. Get(b, c) \in {"ArmSha2", "Neon", "ShaNi", "Avx512", "Avx2", "Sse2"}
    BY <2>1 DEF CompiledIn
  <2>3. Supported(b, c, Get(b, c))
    BY GetSupported
  <2> QED
    BY <2>1, <2>2, <2>3, KernelNames DEF Supported, Needs
<1> QED
  BY <1>1, <1>2

-----------------------------------------------------------------------------
(* The messages before done are hashed in place, the rest is untouched. *)
Hashing ==
    /\ n \in Nat /\ done \in 0 .. n
    /\ \E spare \in 0 .. 1 : DOMAIN out = 0 .. n + spare - 1
    /\ \A j \in DOMAIN out : out[j] = IF j < done THEN j ELSE Stale

IndInv ==
    /\ pc \in {"idle", "hashing"}
    /\ kernel \in Kernels
    /\ pc = "hashing" => Hashing /\ RunsOnThisCPU

(* A step that writes the nodes of len messages after those done. *)
LEMMA WriteHashes ==
    ASSUME IndInv, pc = "hashing", NEW nodes, NEW len \in Nat, done + len <= n,
           \A l \in 0 .. len - 1 : nodes[l] = done + l,
           Write(nodes, len)
    PROVE  IndInv'
<1>1. Hashing /\ RunsOnThisCPU
  BY DEF IndInv
<1>2. /\ UNCHANGED <<build, cpu, pc, kernel, n>>
      /\ done' = done + len
      /\ out' = [j \in DOMAIN out |->
                   IF done <= j /\ j < done + len THEN nodes[j - done] ELSE out[j]]
  BY DEF Write
<1>3. n' \in Nat /\ done' \in 0 .. n'
  BY <1>1, <1>2 DEF Hashing
<1>4. DOMAIN out' = DOMAIN out
  BY <1>2
<1>5. ASSUME NEW j \in DOMAIN out
      PROVE  out'[j] = IF j < done' THEN j ELSE Stale
  <2>1. j \in Int /\ j >= 0 /\ done \in Nat
    BY <1>1 DEF Hashing
  <2>2. CASE done <= j /\ j < done + len
    BY <1>2, <2>1, <2>2
  <2>3. CASE ~(done <= j /\ j < done + len)
    BY <1>1, <1>2, <2>1, <2>3 DEF Hashing
  <2> QED
    BY <2>2, <2>3
<1>6. RunsOnThisCPU'
  BY <1>1, <1>2 DEF RunsOnThisCPU
<1> QED
  BY <1>1, <1>2, <1>3, <1>4, <1>5, <1>6 DEF IndInv, Hashing

LEMMA StepHashes == IndInv /\ [Next]_vars => IndInv'
<1> SUFFICES ASSUME IndInv, [Next]_vars
             PROVE  IndInv'
  OBVIOUS
<1>1. ASSUME NEW count \in Counts, NEW spare \in 0 .. 1, Call(count, spare)
      PROVE  IndInv'
  <2>1. count \in Nat
    BY CountsAssumption
  <2>2. /\ pc' = "hashing" /\ n' = count /\ done' = 0
        /\ kernel' = Kernel(build, cpu) /\ build' = build /\ cpu' = cpu
        /\ out' = [j \in 0 .. count + spare - 1 |-> Stale]
    BY <1>1 DEF Call
  <2>3. Hashing'
    BY <2>1, <2>2 DEF Hashing
  <2>4. kernel' \in Kernels /\ RunsOnThisCPU'
    BY <2>2, KernelAllowed DEF RunsOnThisCPU
  <2> QED
    BY <2>2, <2>3, <2>4 DEF IndInv
<1>2. CASE HashGroup
  <2>1. kernel \in Kernels /\ pc = "hashing" /\ done \in Int /\ n \in Nat
        /\ done + Lanes(kernel) <= n
    BY <1>2 DEF HashGroup, IndInv, Hashing
  <2> DEFINE msgs == [l \in 0 .. Lanes(kernel) - 1 |-> done + l]
  <2>2. \A l \in 0 .. Lanes(kernel) - 1 : Group(kernel, msgs)[l] = done + l
    BY <2>1, GroupInOrder
  <2>3. Write(Group(kernel, msgs), Lanes(kernel))
    BY <1>2 DEF HashGroup
  <2> HIDE DEF msgs
  <2> QED
    BY <2>1, <2>2, <2>3, LanesPositive, WriteHashes
<1>3. CASE HashSingle
  <2>1. pc = "hashing" /\ done \in Int /\ n \in Nat /\ done + 1 <= n
    BY <1>3 DEF HashSingle, InRemainder, Remainder, IndInv, Hashing
  <2> DEFINE node == [l \in {0} |-> HashOne(done)]
  <2>2. \A l \in 0 .. 1 - 1 : node[l] = done + l
    BY <2>1, HashOneIsNode
  <2>3. Write(node, 1)
    BY <1>3 DEF HashSingle
  <2> HIDE DEF node
  <2> QED
    BY <2>1, <2>2, <2>3, WriteHashes
<1>4. CASE HashPaddedGroup
  <2>1. /\ kernel \in Kernels /\ pc = "hashing" /\ done \in Int /\ n \in Nat
        /\ Remainder \in Nat /\ Remainder < Lanes(kernel) /\ done + Remainder <= n
    BY <1>4 DEF HashPaddedGroup, InRemainder, Remainder, IndInv, Hashing
  <2> DEFINE group == [l \in 0 .. Lanes(kernel) - 1 |->
                          IF l < Remainder THEN done + l ELSE ZeroMessage]
  <2>2. \A l \in 0 .. Remainder - 1 : Group(kernel, group)[l] = done + l
    <3>1. \A l \in 0 .. Remainder - 1 : l \in 0 .. Lanes(kernel) - 1 /\ group[l] = done + l
      BY <2>1, LanesPositive
    <3> HIDE DEF group
    <3> QED
      BY <2>1, <3>1, GroupInOrder
  <2>3. Write(Group(kernel, group), Remainder)
    BY <1>4 DEF HashPaddedGroup
  <2> HIDE DEF group
  <2> QED
    BY <2>1, <2>2, <2>3, WriteHashes
<1>5. CASE Return
  BY <1>5, KernelNames DEF Return, IndInv
<1>6. CASE UNCHANGED vars
  BY <1>6 DEF vars, IndInv, Hashing, RunsOnThisCPU
<1> QED
  BY <1>1, <1>2, <1>3, <1>4, <1>5, <1>6 DEF Next

(* The invariant of the group loop and of every path of the remainder. *)
THEOREM HashingInductive == Spec => []IndInv
<1>1. Init => IndInv
  BY KernelNames DEF Init, IndInv
<1> QED
  BY <1>1, StepHashes, PTL DEF Spec

(***************************************************************************)
(* For any number of messages, every kernel puts the node of each message  *)
(* at its own index and writes nothing past the messages.                  *)
(***************************************************************************)
THEOREM HashManyInPlace == Spec => []HashedInPlace
<1>1. IndInv => HashedInPlace
  BY DEF IndInv, Hashing, HashedInPlace
<1> QED
  BY <1>1, HashingInductive, PTL

(* hash_many never runs an instruction the CPU lacks or the build rules out. *)
THEOREM HashManyRunsOnThisCPU == Spec => []RunsOnThisCPU
<1>1. IndInv => RunsOnThisCPU
  BY DEF IndInv, RunsOnThisCPU
<1> QED
  BY <1>1, HashingInductive, PTL

-----------------------------------------------------------------------------
(* What runs is what dispatch picked; between calls nothing is left.       *)
Dispatched ==
    /\ build \in Builds /\ cpu \subseteq Detectable(build.arch)
    /\ pc = "hashing" => kernel = Kernel(build, cpu)
    /\ pc = "idle" => n = 0 /\ done = 0 /\ out = <<>>

LEMMA StepDispatches == Dispatched /\ [Next]_vars => Dispatched'
<1> SUFFICES ASSUME Dispatched, [Next]_vars
             PROVE  Dispatched'
  OBVIOUS
<1>1. ASSUME NEW count \in Counts, NEW spare \in 0 .. 1, Call(count, spare)
      PROVE  Dispatched'
  BY <1>1 DEF Call, Dispatched
<1>2. CASE HashGroup \/ HashSingle \/ HashPaddedGroup
  <2>1. pc = "hashing" /\ UNCHANGED <<build, cpu, pc, kernel>>
    BY <1>2 DEF HashGroup, HashSingle, HashPaddedGroup, InRemainder, Write
  <2> QED
    BY <2>1 DEF Dispatched
<1>3. CASE Return
  BY <1>3 DEF Return, Dispatched
<1>4. CASE UNCHANGED vars
  BY <1>4 DEF vars, Dispatched
<1> QED
  BY <1>1, <1>2, <1>3, <1>4 DEF Next

THEOREM HashManyDispatched == Spec => []Dispatched
<1>1. Init => Dispatched
  BY DEF Init, Dispatched
<1> QED
  BY <1>1, StepDispatches, PTL DEF Spec

(* What get() picks is compiled in: its arm of the match is never missing. *)
LEMMA GetCompiledIn ==
    ASSUME NEW b, NEW c, b.arch # "wasm32"
    PROVE  Kernel(b, c) = Get(b, c)
<1>1. Supported(b, c, Get(b, c))
  BY GetSupported
<1>2. Get(b, c) = "Portable" \/ Get(b, c) \in CompiledIn(b.arch)
  BY <1>1 DEF Supported, CompiledIn
<1> QED
  BY <1>2 DEF Kernel

(* The types of hash_many's state, for any number of messages.             *)
THEOREM HashManyTypeOK == Spec => []TypeOK
<1>1. IndInv /\ Dispatched => TypeOK
  <2> SUFFICES ASSUME IndInv, Dispatched
               PROVE  TypeOK
    OBVIOUS
  <2>1. kernel \in Backends \union {"Wasm"}
    BY DEF IndInv, Kernels
  <2>2. CASE pc = "hashing"
    BY <2>1, <2>2 DEF IndInv, Hashing, Dispatched, TypeOK
  <2>3. CASE pc = "idle"
    <3>1. n = 0 /\ done = 0 /\ out = <<>>
      BY <2>3 DEF Dispatched
    <3>2. DOMAIN out = 0 .. n + 0 - 1
      BY <3>1
    <3>3. n \in Nat /\ done \in 0 .. n /\ 0 \in 0 .. 1
      BY <3>1
    <3> QED
      BY <2>1, <2>3, <3>2, <3>3 DEF Dispatched, TypeOK
  <2> QED
    BY <2>2, <2>3 DEF IndInv
<1> QED
  BY <1>1, HashingInductive, HashManyDispatched, PTL

(***************************************************************************)
(* Whatever the build forces and the CPU has, sha256_backend() names the   *)
(* kernel that the calls run, and calls it forced or unavailable truly.    *)
(***************************************************************************)
THEOREM HashManyReports == Spec => []ReportsWhatRuns
<1>1. Dispatched => ReportsWhatRuns
  <2> SUFFICES ASSUME Dispatched, pc = "hashing", build.arch # "wasm32"
               PROVE  LET report == Report(build, cpu) IN
                      /\ report.backend = kernel
                      /\ report.note = "forced" <=> kernel = build.forced
                      /\ report.note = "unavailable" <=>
                            build.forced # None /\ kernel # build.forced
    BY DEF ReportsWhatRuns
  <2>1. kernel = Get(build, cpu)
    BY GetCompiledIn DEF Dispatched
  <2>2. kernel \in Kernels /\ None \notin Kernels
    BY <2>1, KernelAllowed, KernelNames, GetCompiledIn DEF None
  <2> QED
    BY <2>1, <2>2 DEF Report
<1> QED
  BY <1>1, HashManyDispatched, PTL

-----------------------------------------------------------------------------
(* The bytes of a digest. *)

LEMMA LeastNumber ==
    ASSUME NEW T, T \subseteq Nat, T # {}
    PROVE  \E x \in T : \A y \in T : x <= y
PROOF
<1> DEFINE R == {ss \in Nat \X Nat : ss[1] < ss[2]}
<1>1. IsWellFoundedOn(R, Nat)
  BY NatLessThanWellFounded DEF OpToRel
<1>2. \A x, y \in Nat : y < x => <<y, x>> \in R
  OBVIOUS
<1> HIDE DEF R
<1>3. PICK x \in T : \A y \in T : ~ (<<y, x>> \in R)
  BY <1>1, WFMin
<1>4. ASSUME NEW y \in T PROVE x <= y
  <2>1. x \in Nat /\ y \in Nat
    OBVIOUS
  <2>2. ~ (y < x)
    BY <1>2, <1>3, <2>1
  <2> QED BY <2>1, <2>2
<1> QED
  BY <1>4

-----------------------------------------------------------------------------
(* Varints. *)

LEMMA Quotient ==
    ASSUME NEW v \in Nat
    PROVE  /\ v \div BASE \in Nat /\ v % BASE \in 0 .. BASE - 1
           /\ v = BASE * (v \div BASE) + (v % BASE)
           /\ v >= BASE => v \div BASE < v
           /\ BASE \in Nat /\ BASE >= 2
PROOF
<1> DEFINE q == v \div BASE
           r == v % BASE
           p == BASE * q
<1>1. BASE \in Nat /\ BASE >= 2
  BY BytesAssumption
<1>2. q \in Nat /\ r \in 0 .. BASE - 1 /\ v = BASE * q + r
  BY <1>1
<1> HIDE DEF q, r
<1>3. q >= 1 => p >= 2 * q
  <2>1. BASE = 2 + (BASE - 2) /\ BASE - 2 \in Nat
    BY <1>1
  <2>2. p = 2 * q + (BASE - 2) * q /\ (BASE - 2) * q \in Nat
    BY <1>1, <1>2, <2>1
  <2> QED BY <1>2, <2>2
<1>4. p \in Nat
  BY <1>1, <1>2
<1>5. v = p + r
  BY <1>2
<1> HIDE DEF p
<1>6. v >= BASE => q < v
  <2>1. CASE q = 0
    BY <1>1, <2>1
  <2>2. CASE q # 0
    BY <1>1, <1>2, <1>3, <1>4, <1>5, <2>2
  <2> QED BY <2>1, <2>2
<1> QED
  BY <1>1, <1>2, <1>6 DEF q, r

VarintOf(g, v) ==
    IF v < BASE THEN <<v>> ELSE <<(v % BASE) + BASE>> \o g[v \div BASE]

(* g gives the varints up to m. *)
VarintsUpTo(g, m) == \A v \in 0 .. m : g[v] = VarintOf(g, v)

LEMMA VarintsExist ==
    ASSUME NEW m \in Nat
    PROVE  \E g : VarintsUpTo(g, m)
PROOF
<1> SUFFICES ASSUME ~ \E g : VarintsUpTo(g, m) PROVE FALSE
  OBVIOUS
<1> DEFINE T == {k \in Nat : ~ \E g : VarintsUpTo(g, k)}
<1>1. T \subseteq Nat /\ T # {}
  OBVIOUS
<1>2. PICK k \in T : \A j \in T : k <= j
  BY <1>1, LeastNumber
<1>3. PICK g : \A v \in 0 .. k - 1 : g[v] = VarintOf(g, v)
  <2>1. CASE k = 0
    BY <2>1
  <2>2. CASE k # 0
    <3>1. k - 1 \in Nat /\ k - 1 \notin T
      BY <1>2, <2>2
    <3>2. \E g : VarintsUpTo(g, k - 1)
      BY <3>1
    <3> QED BY <3>2 DEF VarintsUpTo
  <2> QED BY <2>1, <2>2
<1> DEFINE h == [v \in 0 .. k |-> IF v = k THEN VarintOf(g, k) ELSE g[v]]
<1>4. ASSUME NEW v \in 0 .. k PROVE h[v] = VarintOf(h, v)
  <2>1. h[v] = VarintOf(g, v)
    BY <1>3
  <2>2. v >= BASE => h[v \div BASE] = g[v \div BASE]
    <3> SUFFICES ASSUME v >= BASE PROVE h[v \div BASE] = g[v \div BASE]
      OBVIOUS
    <3>1. v \div BASE \in Nat /\ v \div BASE < v
      BY Quotient
    <3>2. v \div BASE \in 0 .. k /\ v \div BASE # k
      BY <3>1
    <3> QED BY <3>2
  <2>3. BASE \in Nat
    BY BytesAssumption
  <2> HIDE DEF h
  <2>4. CASE v < BASE
    BY <2>1, <2>4 DEF VarintOf
  <2>5. CASE v >= BASE
    BY <2>1, <2>2, <2>3, <2>5 DEF VarintOf
  <2> QED BY <2>3, <2>4, <2>5
<1>5. VarintsUpTo(h, k)
  BY <1>4 DEF VarintsUpTo
<1> QED
  BY <1>2, <1>5

LEMMA VarintsUnique ==
    ASSUME NEW g, NEW h, NEW m \in Nat, NEW j \in Nat, NEW v \in 0 .. m, v <= j,
           VarintsUpTo(g, m), VarintsUpTo(h, j)
    PROVE  g[v] = h[v]
PROOF
<1> SUFFICES ASSUME g[v] # h[v] PROVE FALSE
  OBVIOUS
<1> DEFINE T == {w \in 0 .. v : g[w] # h[w]}
<1>1. T \subseteq Nat /\ T # {}
  OBVIOUS
<1>2. PICK w \in T : \A x \in T : w <= x
  BY <1>1, LeastNumber
<1>3. w \in 0 .. m /\ w \in 0 .. j /\ w \in Nat /\ w \in 0 .. v
  BY <1>2
<1>4. g[w] = VarintOf(g, w) /\ h[w] = VarintOf(h, w)
  BY <1>3 DEF VarintsUpTo
<1>5. BASE \in Nat
  BY BytesAssumption
<1>6. CASE w < BASE
  BY <1>2, <1>4, <1>6 DEF VarintOf
<1>7. CASE w >= BASE
  <2>1. w \div BASE \in Nat /\ w \div BASE < w
    BY <1>3, <1>7, Quotient
  <2>2. w \div BASE \in 0 .. v /\ ~ (w <= w \div BASE)
    BY <1>3, <2>1
  <2>3. g[w \div BASE] = h[w \div BASE]
    BY <1>2, <2>2
  <2>4. g[w] = h[w]
    BY <1>4, <2>3 DEF VarintOf
  <2> QED BY <1>2, <2>4
<1> QED
  BY <1>3, <1>5, <1>6, <1>7

(* The recursion in Varint defines the function it describes. *)
LEMMA VarintRecursion ==
    ASSUME NEW v \in Nat
    PROVE  Varint[v] = VarintOf(Varint, v)
PROOF
<1> DEFINE G(m) == CHOOSE g : VarintsUpTo(g, m)
           F == [m \in Nat |-> G(m)[m]]
<1>1. \A m \in Nat : VarintsUpTo(G(m), m)
  <2> TAKE m \in Nat
  <2>1. \E g : VarintsUpTo(g, m)
    BY VarintsExist
  <2> QED BY <2>1
<1> HIDE DEF G
<1>2. ASSUME NEW m \in Nat PROVE F[m] = VarintOf(F, m)
  <2>1. F[m] = VarintOf(G(m), m)
    <3>1. m \in 0 .. m
      OBVIOUS
    <3>2. G(m)[m] = VarintOf(G(m), m)
      BY <1>1, <3>1 DEF VarintsUpTo
    <3> QED BY <3>2
  <2>2. BASE \in Nat
    BY BytesAssumption
  <2>3. ASSUME m >= BASE PROVE G(m)[m \div BASE] = F[m \div BASE]
    <3> DEFINE q == m \div BASE
    <3>1. q \in Nat /\ q < m
      BY <2>3, Quotient
    <3> HIDE DEF q
    <3>2. q \in 0 .. m /\ q <= q
      BY <3>1
    <3>3. VarintsUpTo(G(m), m) /\ VarintsUpTo(G(q), q)
      BY <1>1, <3>1
    <3>4. G(m)[q] = G(q)[q]
      BY <3>1, <3>2, <3>3, VarintsUnique
    <3>5. F[q] = G(q)[q]
      BY <3>1
    <3> QED BY <3>4, <3>5 DEF q
  <2> HIDE DEF F
  <2>4. CASE m < BASE
    BY <2>1, <2>4 DEF VarintOf
  <2>5. CASE m >= BASE
    <3>1. ~ (m < BASE)
      BY <2>2, <2>5
    <3> QED BY <2>1, <2>3, <2>5, <3>1 DEF VarintOf
  <2> QED BY <2>2, <2>4, <2>5
<1>3. F = [m \in Nat |-> VarintOf(F, m)]
  <2>1. F = [m \in Nat |-> F[m]]
    OBVIOUS
  <2> HIDE DEF F
  <2> QED BY <1>2, <2>1
<1> HIDE DEF F
<1>4. Varint = [m \in Nat |-> VarintOf(Varint, m)]
  BY <1>3 DEF Varint, VarintOf
<1> QED
  BY <1>4

(* Every byte of a varint is marked but the last. *)
IsVarint(s) ==
    /\ s \in Seq(Nat) /\ Len(s) \in Nat \ {0}
    /\ \A k \in 1 .. Len(s) - 1 : s[k] >= BASE
    /\ s[Len(s)] < BASE

LEMMA VarintStep ==
    ASSUME NEW v \in Nat, v >= BASE, IsVarint(Varint[v \div BASE])
    PROVE  /\ Varint[v] = <<(v % BASE) + BASE>> \o Varint[v \div BASE]
           /\ (v % BASE) + BASE \in Nat
           /\ Varint[v] \in Seq(Nat)
           /\ Len(Varint[v]) = 1 + Len(Varint[v \div BASE])
           /\ Varint[v][1] = (v % BASE) + BASE
           /\ \A k \in 1 .. Len(Varint[v \div BASE]) : Varint[v][k + 1] = Varint[v \div BASE][k]
PROOF
<1> DEFINE b == (v % BASE) + BASE
           t == Varint[v \div BASE]
           s == Varint[v]
<1>1. b \in Nat /\ BASE \in Nat
  <2>1. v % BASE \in 0 .. BASE - 1 /\ BASE \in Nat
    BY Quotient
  <2> QED BY <2>1
<1>2. s = <<b>> \o t
  <2>1. ~ (v < BASE)
    BY <1>1
  <2> QED BY <2>1, VarintRecursion DEF VarintOf
<1>3. t \in Seq(Nat) /\ Len(t) \in Nat \ {0}
  BY DEF IsVarint
<1> HIDE DEF b, t, s
<1>4. <<b>> \in Seq(Nat) /\ Len(<<b>>) = 1 /\ <<b>>[1] = b
  BY <1>1
<1>5. /\ s \in Seq(Nat) /\ Len(s) = 1 + Len(t)
      /\ \A k \in 1 .. 1 + Len(t) : s[k] = IF k <= 1 THEN <<b>>[k] ELSE t[k - 1]
  BY <1>2, <1>3, <1>4, ConcatProperties
<1>6. s[1] = b
  BY <1>3, <1>4, <1>5
<1>7. ASSUME NEW k \in 1 .. Len(t) PROVE s[k + 1] = t[k]
  <2>1. k + 1 \in 1 .. 1 + Len(t) /\ ~ (k + 1 <= 1) /\ (k + 1) - 1 = k
    BY <1>3
  <2> QED BY <1>5, <2>1
<1> QED
  BY <1>1, <1>2, <1>5, <1>6, <1>7 DEF b, t, s

LEMMA VarintLast ==
    ASSUME NEW v \in Nat, v < BASE
    PROVE  Varint[v] = <<v>> /\ IsVarint(Varint[v]) /\ Len(Varint[v]) = 1
PROOF
<1>1. Varint[v] = <<v>>
  BY VarintRecursion DEF VarintOf
<1> QED
  BY <1>1 DEF IsVarint

LEMMA VarintIsVarint ==
    ASSUME NEW v \in Nat
    PROVE  IsVarint(Varint[v])
PROOF
<1> SUFFICES ASSUME ~ IsVarint(Varint[v]) PROVE FALSE
  OBVIOUS
<1> DEFINE T == {w \in Nat : ~ IsVarint(Varint[w])}
<1>1. T \subseteq Nat /\ T # {}
  OBVIOUS
<1>2. PICK w \in T : \A x \in T : w <= x
  BY <1>1, LeastNumber
<1>3. w \in Nat /\ BASE \in Nat /\ w >= BASE
  BY <1>2, BytesAssumption, VarintLast
<1>4. w \div BASE \in Nat /\ w \div BASE < w
  BY <1>3, Quotient
<1>5. IsVarint(Varint[w \div BASE])
  <2>1. ~ (w <= w \div BASE)
    BY <1>3, <1>4
  <2> QED BY <1>2, <1>4, <2>1
<1> DEFINE s == Varint[w]
           t == Varint[w \div BASE]
           b == (w % BASE) + BASE
<1>6. /\ s \in Seq(Nat) /\ Len(s) = 1 + Len(t) /\ s[1] = b
      /\ \A k \in 1 .. Len(t) : s[k + 1] = t[k]
  BY <1>3, <1>5, VarintStep
<1>7. b >= BASE /\ b \in Nat
  BY <1>3, Quotient
<1>8. /\ t \in Seq(Nat) /\ Len(t) \in Nat \ {0} /\ \A k \in 1 .. Len(t) - 1 : t[k] >= BASE
      /\ t[Len(t)] < BASE
  BY <1>5 DEF IsVarint
<1> HIDE DEF s, t, b
<1>9. ASSUME NEW k \in 1 .. Len(s) - 1 PROVE s[k] >= BASE
  <2>1. CASE k = 1
    BY <1>6, <1>7, <2>1
  <2>2. CASE k # 1
    <3>1. k - 1 \in 1 .. Len(t) - 1 /\ k - 1 \in 1 .. Len(t) /\ (k - 1) + 1 = k
      BY <1>6, <1>8, <2>2
    <3>2. s[(k - 1) + 1] = t[k - 1]
      BY <1>6, <3>1
    <3> QED BY <1>8, <3>1, <3>2
  <2> QED BY <2>1, <2>2
<1>10. s[Len(s)] < BASE
  <2>1. Len(t) \in 1 .. Len(t) /\ Len(t) + 1 = Len(s)
    BY <1>6, <1>8
  <2>2. s[Len(t) + 1] = t[Len(t)]
    BY <1>6, <2>1
  <2> QED BY <1>8, <2>1, <2>2
<1>11. IsVarint(s)
  BY <1>6, <1>8, <1>9, <1>10 DEF IsVarint
<1> QED
  BY <1>2, <1>11 DEF s

(* What the decoder adds up over the bytes of a varint. *)
Summed(g, s) ==
    g = [k \in 1 .. Len(s) + 1 |->
            IF k > Len(s) THEN 0 ELSE (s[k] % BASE) + BASE * g[k + 1]]

LEMMA SumOfLast ==
    ASSUME NEW v \in Nat, v < BASE
    PROVE  /\ \E g : Summed(g, Varint[v])
           /\ \A g : Summed(g, Varint[v]) => g[1] = v
PROOF
<1>1. Varint[v] = <<v>> /\ BASE \in Nat \ {0} /\ Len(<<v>>) = 1 /\ <<v>>[1] = v
  BY VarintLast, BytesAssumption
<1>2. v % BASE = v /\ BASE * 0 = 0
  BY <1>1
<1>3. ASSUME NEW g, Summed(g, Varint[v]) PROVE g[1] = v
  <2>1. g = [k \in 1 .. 1 + 1 |->
               IF k > 1 THEN 0 ELSE (<<v>>[k] % BASE) + BASE * g[k + 1]]
    BY <1>1, <1>3 DEF Summed
  <2>2. g[2] = 0
    BY <2>1
  <2>3. g[1] = (v % BASE) + BASE * g[2]
    BY <1>1, <2>1
  <2> QED BY <1>2, <2>2, <2>3
<1>4. \E g : Summed(g, Varint[v])
  <2> DEFINE g == [k \in 1 .. 1 + 1 |-> IF k > 1 THEN 0 ELSE v]
             h == [k \in 1 .. 1 + 1 |->
                     IF k > 1 THEN 0 ELSE (<<v>>[k] % BASE) + BASE * g[k + 1]]
  <2>1. g = h
    <3>1. ASSUME NEW k \in 1 .. 1 + 1 PROVE g[k] = h[k]
      <4>1. CASE k = 1
        <5>1. g[1 + 1] = 0 /\ g[1] = v
          OBVIOUS
        <5>2. h[1] = (v % BASE) + BASE * g[1 + 1]
          BY <1>1
        <5> QED BY <1>2, <4>1, <5>1, <5>2
      <4>2. CASE k # 1
        BY <4>2
      <4> QED BY <4>1, <4>2
    <3> QED BY <3>1
  <2> HIDE DEF g
  <2>2. Summed(g, Varint[v])
    BY <1>1, <2>1 DEF Summed
  <2> QED BY <2>2
<1> QED
  BY <1>3, <1>4

(* A function over the tail of a varint, one index lower. *)
LEMMA SumOfTail ==
    ASSUME NEW v \in Nat, v >= BASE, NEW g, Summed(g, Varint[v])
    PROVE  /\ g[1] = (v % BASE) + BASE * g[2]
           /\ Summed([k \in 1 .. Len(Varint[v \div BASE]) + 1 |-> g[k + 1]], Varint[v \div BASE])
PROOF
<1> DEFINE s == Varint[v]
           t == Varint[v \div BASE]
           h == [k \in 1 .. Len(t) + 1 |-> g[k + 1]]
           b == (v % BASE) + BASE
<1>1. v % BASE \in 0 .. BASE - 1 /\ BASE \in Nat \ {0} /\ v \div BASE \in Nat
  BY Quotient
<1>2. IsVarint(t)
  BY <1>1, VarintIsVarint
<1>3. /\ s[1] = b /\ Len(s) = 1 + Len(t) /\ \A k \in 1 .. Len(t) : s[k + 1] = t[k]
  BY <1>2, VarintStep
<1>4. Len(t) \in Nat \ {0}
  BY <1>2 DEF IsVarint
<1>5. b % BASE = v % BASE
  <2> DEFINE r == v % BASE
  <2>1. r \in 0 .. BASE - 1
    BY <1>1
  <2> HIDE DEF r
  <2>2. (r + BASE) % BASE = r
    BY <1>1, <2>1
  <2> QED BY <2>2 DEF r
<1>6. g = [k \in 1 .. Len(s) + 1 |->
             IF k > Len(s) THEN 0 ELSE (s[k] % BASE) + BASE * g[k + 1]]
  BY DEF Summed
<1> HIDE DEF s, t, b
<1>7. g[1] = (v % BASE) + BASE * g[2]
  <2>1. 1 \in 1 .. Len(s) + 1 /\ ~ (1 > Len(s)) /\ 1 + 1 = 2
    BY <1>3, <1>4
  <2>2. g[1] = (s[1] % BASE) + BASE * g[2]
    BY <1>6, <2>1
  <2> QED BY <1>3, <1>5, <2>2
<1>8. ASSUME NEW k \in 1 .. Len(t) + 1
      PROVE  h[k] = IF k > Len(t) THEN 0 ELSE (t[k] % BASE) + BASE * h[k + 1]
  <2>1. k + 1 \in 1 .. Len(s) + 1 /\ h[k] = g[k + 1]
    BY <1>3, <1>4
  <2>2. g[k + 1] = IF k + 1 > Len(s) THEN 0 ELSE (s[k + 1] % BASE) + BASE * g[(k + 1) + 1]
    BY <1>6, <2>1
  <2>3. CASE k > Len(t)
    BY <1>3, <1>4, <2>1, <2>2, <2>3
  <2>4. CASE ~ (k > Len(t))
    <3>1. k \in 1 .. Len(t) /\ k + 1 \in 1 .. Len(t) + 1 /\ ~ (k + 1 > Len(s))
      BY <1>3, <1>4, <2>4
    <3>2. s[k + 1] = t[k] /\ h[k + 1] = g[(k + 1) + 1]
      BY <1>3, <3>1
    <3> HIDE DEF h
    <3> QED BY <2>1, <2>2, <2>4, <3>1, <3>2
  <2> QED BY <2>3, <2>4
<1>9. Summed(h, t)
  <2>1. h = [k \in 1 .. Len(t) + 1 |-> h[k]]
    OBVIOUS
  <2> HIDE DEF h
  <2> QED BY <1>8, <2>1 DEF Summed
<1> QED
  BY <1>7, <1>9 DEF s, t

LEMMA SumOfVarint ==
    ASSUME NEW v \in Nat
    PROVE  \A g : Summed(g, Varint[v]) => g[1] = v
PROOF
<1> DEFINE Sums(w) == \A g : Summed(g, Varint[w]) => g[1] = w
<1> SUFFICES ASSUME ~ Sums(v) PROVE FALSE
  OBVIOUS
<1> DEFINE T == {w \in Nat : ~ Sums(w)}
<1>1. T \subseteq Nat /\ T # {}
  OBVIOUS
<1> HIDE DEF Sums
<1>2. PICK w \in T : \A x \in T : w <= x
  BY <1>1, LeastNumber
<1>3. w \in Nat /\ BASE \in Nat /\ w >= BASE
  BY <1>2, BytesAssumption, SumOfLast DEF Sums
<1>4. w \div BASE \in Nat /\ w \div BASE < w /\ w = BASE * (w \div BASE) + (w % BASE)
      /\ w % BASE \in Nat
  BY <1>3, Quotient
<1>5. Sums(w \div BASE)
  <2>1. ~ (w <= w \div BASE)
    BY <1>3, <1>4
  <2> QED BY <1>2, <1>4, <2>1
<1>6. ASSUME NEW g, Summed(g, Varint[w]) PROVE g[1] = w
  <2> DEFINE n1 == Len(Varint[w \div BASE])
             h == [k \in 1 .. n1 + 1 |-> g[k + 1]]
  <2>1. g[1] = (w % BASE) + BASE * g[2] /\ Summed(h, Varint[w \div BASE])
    BY <1>3, <1>6, SumOfTail
  <2>2. h[1] = g[2]
    <3>1. n1 \in Nat \ {0}
      BY <1>4, VarintIsVarint DEF IsVarint
    <3> HIDE DEF n1
    <3>2. 1 \in 1 .. n1 + 1 /\ 1 + 1 = 2
      BY <3>1
    <3> QED BY <3>2
  <2> HIDE DEF h
  <2>3. h[1] = w \div BASE
    BY <1>5, <2>1 DEF Sums
  <2> DEFINE q == w \div BASE
             r == w % BASE
  <2>4. g[1] = r + BASE * q /\ w = BASE * q + r /\ q \in Nat /\ r \in Nat
    BY <1>4, <2>1, <2>2, <2>3
  <2> HIDE DEF q, r
  <2> QED BY <1>3, <2>4
<1> QED
  BY <1>2, <1>6 DEF Sums

LEMMA SumsExist ==
    ASSUME NEW v \in Nat
    PROVE  \E g : Summed(g, Varint[v])
PROOF
<1> SUFFICES ASSUME ~ \E g : Summed(g, Varint[v]) PROVE FALSE
  OBVIOUS
<1> DEFINE T == {w \in Nat : ~ \E g : Summed(g, Varint[w])}
<1>1. T \subseteq Nat /\ T # {}
  OBVIOUS
<1>2. PICK w \in T : \A x \in T : w <= x
  BY <1>1, LeastNumber
<1>3. w \in Nat /\ BASE \in Nat /\ w >= BASE
  BY <1>2, BytesAssumption, SumOfLast
<1>4. w \div BASE \in Nat /\ w \div BASE < w /\ ~ (w <= w \div BASE)
  BY <1>3, Quotient
<1>5. PICK h : Summed(h, Varint[w \div BASE])
  BY <1>2, <1>4
<1>6. IsVarint(Varint[w \div BASE])
  BY <1>4, VarintIsVarint
<1> DEFINE s == Varint[w]
           t == Varint[w \div BASE]
           g == [k \in 1 .. Len(s) + 1 |->
                   IF k = 1 THEN (s[1] % BASE) + BASE * h[1] ELSE h[k - 1]]
<1>7. Len(s) = 1 + Len(t) /\ Len(t) \in Nat \ {0} /\ \A k \in 1 .. Len(t) : s[k + 1] = t[k]
  <2>1. Len(t) \in Nat \ {0}
    BY <1>6 DEF IsVarint
  <2> QED BY <1>3, <1>6, <2>1, VarintStep
<1>8. h = [k \in 1 .. Len(t) + 1 |->
             IF k > Len(t) THEN 0 ELSE (t[k] % BASE) + BASE * h[k + 1]]
  BY <1>5 DEF Summed
<1> HIDE DEF s, t
<1>9. ASSUME NEW k \in 1 .. Len(s) + 1
      PROVE  g[k] = IF k > Len(s) THEN 0 ELSE (s[k] % BASE) + BASE * g[k + 1]
  <2>1. CASE k = 1
    <3>1. g[1 + 1] = h[1] /\ ~ (1 > Len(s))
      <4>1. 1 + 1 \in 1 .. Len(s) + 1 /\ (1 + 1) - 1 = 1 /\ 1 + 1 # 1 /\ ~ (1 > Len(s))
        BY <1>7
      <4> QED BY <4>1
    <3>2. g[1] = (s[1] % BASE) + BASE * h[1]
      BY <1>7
    <3> HIDE DEF g
    <3> QED BY <2>1, <3>1, <3>2
  <2>2. CASE k # 1
    <3>1. k - 1 \in 1 .. Len(t) + 1 /\ (k - 1) + 1 = k /\ g[k] = h[k - 1]
      BY <1>7, <2>2
    <3>2. h[k - 1] = IF k - 1 > Len(t) THEN 0 ELSE (t[k - 1] % BASE) + BASE * h[k]
      BY <1>8, <3>1
    <3>3. CASE k > Len(s)
      <4>1. k - 1 > Len(t)
        BY <1>7, <3>3
      <4> QED BY <3>1, <3>2, <3>3, <4>1
    <3>4. CASE ~ (k > Len(s))
      <4>1. k - 1 \in 1 .. Len(t) /\ ~ (k - 1 > Len(t)) /\ k + 1 \in 1 .. Len(s) + 1
            /\ k + 1 # 1 /\ (k + 1) - 1 = k
        BY <1>7, <2>2, <3>4
      <4>2. s[(k - 1) + 1] = t[k - 1]
        BY <1>7, <4>1
      <4>3. g[k + 1] = h[k]
        BY <4>1
      <4> HIDE DEF g
      <4> QED BY <3>1, <3>2, <3>4, <4>1, <4>2, <4>3
    <3> QED BY <3>3, <3>4
  <2> QED BY <2>1, <2>2
<1>10. Summed(g, s)
  <2>1. g = [k \in 1 .. Len(s) + 1 |-> g[k]]
    OBVIOUS
  <2> HIDE DEF g
  <2> QED BY <1>9, <2>1 DEF Summed
<1> HIDE DEF g
<1>11. \E f : Summed(f, Varint[w])
  BY <1>10 DEF s
<1> QED
  BY <1>2, <1>11

(* Where a varint is found, the decoder reads its value and its length. *)
LEMMA VarintRead ==
    ASSUME NEW v \in Nat, NEW offset \in Nat, bytes \in Seq(Nat),
           offset + Len(Varint[v]) <= Len(bytes),
           \A k \in 1 .. Len(Varint[v]) : bytes[offset + k] = Varint[v][k]
    PROVE  VarintLength(offset) = Len(Varint[v]) /\ VarintValue(offset) = v
PROOF
<1> DEFINE s == Varint[v]
           size == Len(s)
           total == Len(bytes)
<1>1. /\ s \in Seq(Nat) /\ size \in Nat \ {0}
      /\ \A k \in 1 .. size - 1 : s[k] >= BASE
      /\ s[size] < BASE
  BY VarintIsVarint DEF IsVarint
<1>2. \A k \in 1 .. size : bytes[offset + k] = s[k] /\ s[k] \in Nat
  BY <1>1
<1>3. total \in Nat /\ offset + size <= total /\ BASE \in Nat
  BY BytesAssumption
<1> DEFINE Ends(len) ==
             /\ \A k \in 1 .. len - 1 : offset + k <= Len(bytes) /\ bytes[offset + k] >= BASE
             /\ offset + len > Len(bytes) \/ bytes[offset + len] < BASE
<1>4. size \in 1 .. total + 1 /\ Ends(size)
  <2>1. size \in 1 .. total + 1
    BY <1>1, <1>3
  <2>2. ASSUME NEW k \in 1 .. size - 1 PROVE offset + k <= total /\ bytes[offset + k] >= BASE
    <3>1. k \in 1 .. size
      BY <1>1
    <3> HIDE DEF s, size, total
    <3>2. offset + k <= total
      BY <1>1, <1>3
    <3>3. bytes[offset + k] = s[k] /\ s[k] >= BASE
      BY <1>1, <1>2, <3>1
    <3> QED BY <3>2, <3>3
  <2>3. bytes[offset + size] < BASE
    <3>1. size \in 1 .. size
      BY <1>1
    <3> QED BY <1>1, <1>2, <3>1
  <2> QED BY <2>1, <2>2, <2>3
<1>5. ASSUME NEW len \in 1 .. total + 1, Ends(len) PROVE len = size
  <2>1. CASE len < size
    <3>1. len \in 1 .. size - 1 /\ len \in 1 .. size
      BY <1>1, <1>3, <2>1
    <3>2. bytes[offset + len] = s[len] /\ s[len] >= BASE /\ s[len] \in Nat
      BY <1>1, <1>2, <3>1
    <3>3. ~ (offset + len > total)
      BY <1>1, <1>3, <3>1
    <3>4. bytes[offset + len] < BASE
      BY <1>5, <3>3
    <3> HIDE DEF s
    <3> QED BY <1>3, <3>2, <3>4
  <2>2. CASE len > size
    <3>1. size \in 1 .. len - 1 /\ size \in 1 .. size
      BY <1>1, <1>3, <2>2
    <3>2. bytes[offset + size] >= BASE
      BY <1>5, <3>1
    <3>3. bytes[offset + size] = s[size] /\ s[size] \in Nat
      BY <1>2, <3>1
    <3> HIDE DEF s
    <3> QED BY <1>1, <1>3, <3>2, <3>3
  <2> HIDE DEF size, total
  <2> QED BY <1>1, <1>3, <2>1, <2>2
<1>6. VarintLength(offset) = size
  <2>1. VarintLength(offset) = CHOOSE len \in 1 .. total + 1 : Ends(len)
    BY DEF VarintLength
  <2> HIDE DEF Ends, size, total
  <2> QED BY <1>4, <1>5, <2>1
<1>7. SubSeq(bytes, offset + 1, offset + size) = s
  <2> DEFINE sub == SubSeq(bytes, offset + 1, offset + size)
  <2> HIDE DEF s, size, total
  <2>1. \A i \in offset + 1 .. offset + size : bytes[i] \in Nat
    <3>1. \A i \in offset + 1 .. offset + size : i \in 1 .. Len(bytes)
      BY <1>1, <1>3 DEF total
    <3> QED BY <3>1
  <2>2. /\ sub \in Seq(Nat)
        /\ Len(sub) = IF offset + 1 <= offset + size THEN (offset + size) - (offset + 1) + 1 ELSE 0
        /\ \A i \in 1 .. (offset + size) - (offset + 1) + 1 : sub[i] = bytes[(offset + 1) + i - 1]
    <3>1. offset + 1 \in Int /\ offset + size \in Int
      BY <1>1
    <3> QED BY <2>1, <3>1, SubSeqProperties
  <2> HIDE DEF sub
  <2>3. Len(sub) = size
    BY <1>1, <2>2
  <2>4. ASSUME NEW i \in 1 .. size PROVE sub[i] = s[i]
    <3>1. i \in 1 .. (offset + size) - (offset + 1) + 1 /\ (offset + 1) + i - 1 = offset + i
      BY <1>1
    <3>2. sub[i] = bytes[offset + i]
      BY <2>2, <3>1
    <3> QED BY <1>2, <3>2
  <2>5. Len(s) = size
    BY DEF size
  <2>6. sub = s
    BY <1>1, <2>2, <2>3, <2>4, <2>5, SeqEqual
  <2> QED BY <2>6 DEF sub
<1>8. VarintValue(offset) = v
  <2> DEFINE value == CHOOSE g : Summed(g, s)
  <2>1. VarintValue(offset) = value[1]
    <3> HIDE DEF s, size
    <3> QED BY <1>6, <1>7 DEF VarintValue, Summed
  <2>2. Summed(value, s)
    BY SumsExist
  <2> HIDE DEF value
  <2> QED BY <2>1, <2>2, SumOfVarint
<1> QED
  BY <1>6, <1>8

-----------------------------------------------------------------------------
(* The encoders. *)

Varied(value) == Len(Varint[value])

HashedPart == Varint[padding] \o (<<height>> \o Root)

Whole == Varint[MULTIHASH_CODE] \o (Varint[Len(HashedPart)] \o HashedPart)

(* What push has appended, or encodeTo and set have assigned. *)
Written == IF encoder = "js" THEN SubSeq(bytes, 1, pos) ELSE bytes

(* The fields that follow the one being written. *)
Rest == CASE stage = "code"    -> Varint[Len(HashedPart)] \o HashedPart
          [] stage = "size"    -> HashedPart
          [] stage = "padding" -> <<height>> \o Root

ToWrite ==
    IF Field THEN Varint[num] \o Rest
    ELSE IF stage = "tree" THEN <<height>> \o Root ELSE <<>>

CallTypes ==
    /\ encoder \in {"rust", "js"} /\ padding \in Nat /\ height \in Nat
    /\ stage \in {"measure", "measureSize", "code", "size", "padding", "tree", "encoded", "decoded"}
    /\ num \in Nat /\ length \in Nat /\ digestSizeLength \in Nat
    /\ bytes \in Seq(Nat) /\ pos \in 0 .. Len(bytes)
    /\ stage = "measureSize" => encoder = "js"

(* The lengths counted are those of the varints. *)
Counted ==
    /\ IF stage = "measure" THEN length + Varied(num) = 1 + Varied(padding)
       ELSE length = Varied(padding)
    /\ stage = "measureSize" =>
          digestSizeLength + Varied(num) = 1 + Varied(Len(HashedPart))
    /\ (encoder = "js" /\ ~ Measuring) =>
          digestSizeLength = Varied(Len(HashedPart)) /\ Len(bytes) = Len(Whole)

Encoding ==
    IF Measuring THEN bytes = <<>> ELSE Written \o ToWrite = Whole

BytesInv == CallTypes /\ Counted /\ Encoding /\ FieldsRoundTrip

-----------------------------------------------------------------------------
(* The bytes to be written, and writing them. *)

LEMMA Joins == \A s, t, u \in Seq(Nat) : (s \o t) \o u = s \o (t \o u)
PROOF
  BY ConcatAssociative

LEMMA CodeLength == MULTIHASH_CODE \in Nat /\ Varied(MULTIHASH_CODE) = CODE_SIZE
PROOF
<1> DEFINE q == MULTIHASH_CODE \div BASE
           r == MULTIHASH_CODE % BASE
<1>1. MULTIHASH_CODE \in Nat /\ MULTIHASH_CODE >= BASE /\ MULTIHASH_CODE < BASE * BASE
      /\ BASE \in Nat /\ BASE >= 2
  <2>1. BASE \in Nat /\ BASE >= 2 /\ MULTIHASH_CODE \in BASE .. BASE * BASE - 1
    BY BytesAssumption
  <2>2. BASE * BASE \in Nat
    BY <2>1
  <2> QED BY <2>1, <2>2
<1>2. q \in Nat /\ r \in 0 .. BASE - 1 /\ MULTIHASH_CODE = BASE * q + r
  BY <1>1, Quotient
<1>3. q < BASE
  <2> SUFFICES ASSUME ~ (q < BASE) PROVE FALSE
    OBVIOUS
  <2> HIDE DEF q, r
  <2>1. q = BASE + (q - BASE) /\ q - BASE \in Nat
    BY <1>1, <1>2
  <2>2. BASE * q = BASE * BASE + BASE * (q - BASE) /\ BASE * (q - BASE) \in Nat
    BY <1>1, <1>2, <2>1
  <2> DEFINE x == BASE * q
             y == BASE * BASE
             z == BASE * (q - BASE)
  <2>3. x = y + z /\ z \in Nat /\ y \in Nat /\ MULTIHASH_CODE = x + r /\ MULTIHASH_CODE < y
    BY <1>1, <1>2, <2>2
  <2> HIDE DEF x, y, z
  <2> QED BY <1>2, <2>3
<1>4. Varint[q] = <<q>> /\ IsVarint(Varint[q]) /\ Len(Varint[q]) = 1
  BY <1>2, <1>3, VarintLast
<1>5. Len(Varint[MULTIHASH_CODE]) = 1 + Len(Varint[q])
  BY <1>1, <1>4, VarintStep
<1> QED
  BY <1>1, <1>4, <1>5 DEF Varied, CODE_SIZE

LEMMA WholeFacts ==
    ASSUME padding \in Nat, height \in Nat
    PROVE  /\ Root \in Seq(Nat) /\ ROOT_SIZE \in Nat /\ <<height>> \in Seq(Nat)
           /\ <<height>> \o Root \in Seq(Nat) /\ Len(<<height>> \o Root) = 1 + ROOT_SIZE
           /\ Varint[padding] \in Seq(Nat) /\ Varied(padding) \in Nat
           /\ HashedPart \in Seq(Nat) /\ Len(HashedPart) = Varied(padding) + 1 + ROOT_SIZE
           /\ Varint[Len(HashedPart)] \in Seq(Nat) /\ Varied(Len(HashedPart)) \in Nat
           /\ Varint[Len(HashedPart)] \o HashedPart \in Seq(Nat)
           /\ Varint[MULTIHASH_CODE] \in Seq(Nat)
           /\ Whole \in Seq(Nat)
           /\ Len(Whole) = CODE_SIZE + Varied(Len(HashedPart)) + Len(HashedPart)
           /\ HashedPart = Varint[padding] \o <<height>> \o Root
           /\ Whole = Varint[MULTIHASH_CODE] \o Varint[Len(HashedPart)] \o HashedPart
PROOF
<1> DEFINE tree == <<height>> \o Root
           var == Varint[padding]
           part == HashedPart
           size == Varint[Len(HashedPart)]
           code == Varint[MULTIHASH_CODE]
<1>1. Root \in Seq(Nat) /\ ROOT_SIZE = Len(Root) /\ ROOT_SIZE \in Nat
  <2>1. Root \in Seq(0 .. 2 * BASE - 1)
    BY BytesAssumption
  <2>2. 0 .. 2 * BASE - 1 \subseteq Nat
    BY BytesAssumption
  <2>3. Root \in Seq(Nat)
    BY <2>1, <2>2, SeqMonotonic
  <2> QED BY <2>3 DEF ROOT_SIZE
<1>2. <<height>> \in Seq(Nat) /\ Len(<<height>>) = 1
  OBVIOUS
<1>3. tree \in Seq(Nat) /\ Len(tree) = 1 + ROOT_SIZE
  BY <1>1, <1>2, ConcatProperties
<1>4. var \in Seq(Nat) /\ Len(var) \in Nat /\ Varied(padding) = Len(var)
  BY VarintIsVarint DEF IsVarint, Varied
<1>5. part = var \o tree
  BY DEF HashedPart
<1>6. part = (var \o <<height>>) \o Root
  BY <1>1, <1>2, <1>4, <1>5, Joins, Zenon
<1> HIDE DEF tree, var, part
<1>7. part \in Seq(Nat) /\ Len(part) = Len(var) + Len(tree)
  BY <1>3, <1>4, <1>5, ConcatProperties
<1>8. Len(part) = Len(var) + 1 + ROOT_SIZE /\ Len(part) \in Nat
  BY <1>1, <1>3, <1>4, <1>7
<1>9. size \in Seq(Nat) /\ Len(size) \in Nat /\ Varied(Len(HashedPart)) = Len(size)
  <2>1. Len(HashedPart) \in Nat
    BY <1>8 DEF part
  <2> QED BY <2>1, VarintIsVarint DEF IsVarint, Varied
<1>10. code \in Seq(Nat) /\ Len(code) = CODE_SIZE
  <2>1. IsVarint(code)
    BY CodeLength, VarintIsVarint
  <2> QED BY <2>1, CodeLength DEF IsVarint, Varied
<1>11. Whole = code \o (size \o part)
  BY DEF Whole, part
<1> HIDE DEF size, code
<1>12. size \o part \in Seq(Nat) /\ Len(size \o part) = Len(size) + Len(part)
  BY <1>7, <1>9, ConcatProperties
<1>13. Whole \in Seq(Nat) /\ Len(Whole) = Len(code) + (Len(size) + Len(part))
  BY <1>10, <1>11, <1>12, ConcatProperties
<1>14. Whole = (code \o size) \o part
  BY <1>7, <1>9, <1>10, <1>11, Joins, Zenon
<1>15. Len(Whole) = CODE_SIZE + Len(size) + Len(part)
  <2>1. CODE_SIZE \in Nat
    BY DEF CODE_SIZE
  <2> QED BY <1>8, <1>9, <1>10, <1>13, <2>1
<1> QED
  BY <1>1, <1>2, <1>3, <1>4, <1>6, <1>7, <1>8, <1>9, <1>10, <1>12, <1>13, <1>14, <1>15
     DEF tree, var, part, size, code

LEMMA SameCall ==
    ASSUME UNCHANGED input
    PROVE  /\ encoder' = encoder /\ padding' = padding /\ height' = height
           /\ HashedPart' = HashedPart /\ Whole' = Whole
PROOF
  BY DEF input, HashedPart, Whole

(* What is put goes after what was written, and a Uint8Array of the length *)
(* of the whole drops none of it.                                          *)
LEMMA PutWrites ==
    ASSUME CallTypes, UNCHANGED input, encoder = "js" => Len(bytes) = Len(Whole),
           NEW values \in Seq(Nat), NEW more \in Seq(Nat),
           Written \o (values \o more) = Whole, Put(values)
    PROVE  /\ bytes' \in Seq(Nat) /\ pos' \in 0 .. Len(bytes')
           /\ Written' \o more = Whole
           /\ encoder = "js" => Len(bytes') = Len(bytes)
PROOF
<1>1. bytes \in Seq(Nat) /\ Len(bytes) \in Nat /\ pos \in 0 .. Len(bytes)
      /\ Len(values) \in Nat /\ Len(more) \in Nat /\ encoder \in {"rust", "js"} /\ encoder' = encoder
  BY SameCall DEF CallTypes
<1>2. CASE encoder = "rust"
  <2>1. Written = bytes /\ bytes' = bytes \o values /\ pos' = pos /\ Written' = bytes'
    BY <1>1, <1>2 DEF Written, Put
  <2>2. bytes' \in Seq(Nat) /\ Len(bytes') = Len(bytes) + Len(values)
    BY <1>1, <2>1, ConcatProperties
  <2>3. (bytes \o values) \o more = bytes \o (values \o more)
    BY <1>1, Joins, Zenon
  <2>4. pos' \in 0 .. Len(bytes')
    BY <1>1, <2>1, <2>2
  <2> QED BY <1>2, <2>1, <2>2, <2>3, <2>4
<1>3. CASE encoder = "js"
  <2> DEFINE w == SubSeq(bytes, 1, pos)
             d == Len(values)
             new == SubSeq(bytes', 1, pos + d)
  <2>1. Written = w /\ pos' = pos + d /\ Written' = new
        /\ bytes' = [i \in 1 .. Len(bytes) |-> IF i - pos \in 1 .. d THEN values[i - pos] ELSE bytes[i]]
    BY <1>1, <1>3 DEF Written, Put
  <2>2. w \in Seq(Nat) /\ Len(w) = pos /\ \A i \in 1 .. pos : w[i] = bytes[i]
    BY <1>1
  <2>3. pos + d + Len(more) = Len(bytes)
    <3>1. values \o more \in Seq(Nat) /\ Len(values \o more) = d + Len(more)
      BY <1>1, ConcatProperties
    <3> HIDE DEF w
    <3>2. Len(w \o (values \o more)) = pos + (d + Len(more))
      BY <2>2, <3>1, ConcatProperties
    <3> QED BY <1>1, <1>3, <2>1, <3>2
  <2> HIDE DEF w
  <2>4. \A i \in 1 .. d : values[i] \in Nat
    OBVIOUS
  <2> HIDE DEF d
  <2>5. d \in Nat /\ pos \in Nat /\ pos + d \in Nat /\ pos + d <= Len(bytes)
    BY <1>1, <2>3 DEF d
  <2>6. bytes' \in [1 .. Len(bytes) -> Nat]
    <3>1. \A i \in 1 .. Len(bytes) :
             (IF i - pos \in 1 .. d THEN values[i - pos] ELSE bytes[i]) \in Nat
      BY <1>1, <2>4
    <3> QED BY <2>1, <3>1
  <2>7. bytes' \in Seq(Nat) /\ Len(bytes') = Len(bytes)
    <3> DEFINE len == Len(bytes)
               after == bytes'
    <3>1. after \in [1 .. len -> Nat] /\ len \in Nat
      BY <1>1, <2>6
    <3> HIDE DEF len, after
    <3>2. after \in Seq(Nat) /\ Len(after) = len
      BY <3>1
    <3> QED BY <3>2 DEF len, after
  <2>8. new \in Seq(Nat) /\ Len(new) = pos + d /\ \A i \in 1 .. pos + d : new[i] = bytes'[i]
    <3> DEFINE after == bytes'
               m == pos + d
    <3>1. after \in Seq(Nat) /\ m \in Nat /\ m <= Len(after)
      BY <2>5, <2>7
    <3> HIDE DEF after, m
    <3>2. /\ SubSeq(after, 1, m) \in Seq(Nat) /\ Len(SubSeq(after, 1, m)) = m
          /\ \A i \in 1 .. m : SubSeq(after, 1, m)[i] = after[i]
      BY <3>1
    <3> QED BY <3>2 DEF after, m
  <2> HIDE DEF new
  <2>9. w \o values \in Seq(Nat) /\ Len(w \o values) = pos + d
        /\ \A i \in 1 .. pos + d : (w \o values)[i] = IF i <= pos THEN w[i] ELSE values[i - pos]
    <3>1. w \in Seq(Nat) /\ values \in Seq(Nat) /\ d = Len(values)
      BY <2>2 DEF d
    <3>2. /\ w \o values \in Seq(Nat) /\ Len(w \o values) = Len(w) + Len(values)
          /\ \A i \in 1 .. Len(w) + Len(values) :
                (w \o values)[i] = IF i <= Len(w) THEN w[i] ELSE values[i - Len(w)]
      BY <3>1, ConcatProperties
    <3> QED BY <2>2, <3>1, <3>2
  <2>10. ASSUME NEW i \in 1 .. pos + d PROVE new[i] = (w \o values)[i]
    <3>1. i \in 1 .. Len(bytes)
      BY <1>1, <2>5
    <3>2. new[i] = IF i - pos \in 1 .. d THEN values[i - pos] ELSE bytes[i]
      BY <2>1, <2>8, <3>1
    <3>3. CASE i <= pos
      <4>1. ~ (i - pos \in 1 .. d) /\ i \in 1 .. pos
        BY <1>1, <2>5, <3>3
      <4> QED BY <2>2, <2>9, <3>2, <3>3, <4>1
    <3>4. CASE ~ (i <= pos)
      <4>1. i - pos \in 1 .. d
        BY <1>1, <2>5, <3>4
      <4> QED BY <2>9, <3>2, <3>4, <4>1
    <3> QED BY <3>3, <3>4
  <2>11. new = w \o values
    BY <2>8, <2>9, <2>10, SeqEqual
  <2>12. (w \o values) \o more = w \o (values \o more)
    BY <2>2, Joins, Zenon
  <2>13. pos' \in 0 .. Len(bytes')
    <3>1. pos + d \in 0 .. Len(bytes)
      BY <1>1, <2>5
    <3> QED BY <2>1, <2>7, <3>1
  <2> QED BY <2>1, <2>7, <2>11, <2>12, <2>13
<1> QED
  BY <1>1, <1>2, <1>3

LEMMA VariedFacts ==
    ASSUME NEW v \in Nat
    PROVE  /\ Varied(v) \in Nat \ {0} /\ Varint[v] \in Seq(Nat)
           /\ v < BASE => Varied(v) = 1 /\ Varint[v] = <<v>>
           /\ v >= BASE => /\ v \div BASE \in Nat /\ Varied(v) = 1 + Varied(v \div BASE)
                           /\ <<(v % BASE) + BASE>> \in Seq(Nat)
                           /\ Varint[v] = <<(v % BASE) + BASE>> \o Varint[v \div BASE]
PROOF
<1>1. Varied(v) \in Nat \ {0} /\ Varint[v] \in Seq(Nat)
  BY VarintIsVarint DEF IsVarint, Varied
<1>2. ASSUME v < BASE PROVE Varied(v) = 1 /\ Varint[v] = <<v>>
  BY <1>2, VarintLast DEF Varied
<1>3. ASSUME v >= BASE
      PROVE  /\ v \div BASE \in Nat /\ Varied(v) = 1 + Varied(v \div BASE)
             /\ <<(v % BASE) + BASE>> \in Seq(Nat)
             /\ Varint[v] = <<(v % BASE) + BASE>> \o Varint[v \div BASE]
  <2>1. v \div BASE \in Nat
    BY Quotient
  <2>2. IsVarint(Varint[v \div BASE])
    BY <2>1, VarintIsVarint
  <2>3. /\ Varint[v] = <<(v % BASE) + BASE>> \o Varint[v \div BASE]
        /\ (v % BASE) + BASE \in Nat
        /\ Len(Varint[v]) = 1 + Len(Varint[v \div BASE])
    BY <1>3, <2>2, VarintStep
  <2>4. <<(v % BASE) + BASE>> \in Seq(Nat)
    BY <2>3
  <2> QED BY <2>1, <2>3, <2>4 DEF Varied
<1> QED
  BY <1>1, <1>2, <1>3

(* Before the first byte all of it is to be written. *)
LEMMA WritingStarts ==
    ASSUME CallTypes, UNCHANGED input, stage' = "code", num' = MULTIHASH_CODE, Written' = <<>>
    PROVE  Written' \o ToWrite' = Whole /\ ~ Measuring'
PROOF
<1>1. Whole \in Seq(Nat)
  BY WholeFacts DEF CallTypes
<1>2. ToWrite' = Whole'
  <2>1. Field' /\ Rest' = (Varint[Len(HashedPart)] \o HashedPart)'
    BY DEF Field, Rest
  <2>2. ToWrite' = Varint[num'] \o Rest'
    BY <2>1 DEF ToWrite
  <2> QED BY <2>1, <2>2 DEF Whole
<1>3. Whole' = Whole
  BY SameCall
<1>4. <<>> \o Whole = Whole
  BY <1>1, ConcatEmptySeq
<1>5. ~ Measuring'
  BY DEF Measuring
<1> QED
  BY <1>2, <1>3, <1>4, <1>5

LEMMA BytesInitInv == BytesInit => BytesInv
PROOF
<1> SUFFICES ASSUME BytesInit PROVE BytesInv
  OBVIOUS
<1> USE DEF BytesInit
<1>1. padding \in Nat /\ height \in Nat
  <2>1. Paddings \subseteq Nat /\ Heights \subseteq 0 .. 2 * BASE - 1 /\ BASE \in Nat
    BY BytesAssumption
  <2> QED BY <2>1
<1>2. CallTypes
  <2>1. <<>> \in Seq(Nat) /\ Len(<<>>) = 0
    OBVIOUS
  <2> QED BY <1>1, <2>1 DEF CallTypes
<1>3. Counted
  <2>1. Varied(padding) \in Nat
    BY <1>1, WholeFacts
  <2> QED BY <2>1 DEF Counted, Measuring
<1>4. Encoding
  BY DEF Encoding, Measuring
<1>5. FieldsRoundTrip
  BY DEF FieldsRoundTrip
<1> QED
  BY <1>2, <1>3, <1>4, <1>5 DEF BytesInv

LEMMA MeasureKeeps ==
    ASSUME BytesInv, Measure
    PROVE  BytesInv'
PROOF
<1>1. CallTypes /\ Counted /\ Encoding
  BY DEF BytesInv
<1>2. /\ encoder' = encoder /\ padding' = padding /\ height' = height
      /\ HashedPart' = HashedPart /\ Whole' = Whole
  BY SameCall DEF Measure
<1>3. /\ Measuring /\ num \in Nat /\ num >= BASE /\ num' = num \div BASE
      /\ stage' = stage /\ bytes' = bytes /\ pos' = pos
  BY <1>1 DEF Measure, CallTypes
<1>4. num' \in Nat /\ Varied(num) = 1 + Varied(num') /\ Varied(num') \in Nat
  BY <1>3, VariedFacts
<1>5. length \in Nat /\ digestSizeLength \in Nat /\ stage \in {"measure", "measureSize"}
  BY <1>1, <1>3 DEF CallTypes, Measuring
<1>6. length' = (IF stage = "measure" THEN length + 1 ELSE length)
      /\ digestSizeLength' = (IF stage = "measure" THEN digestSizeLength ELSE digestSizeLength + 1)
  BY DEF Measure
<1>7. CallTypes'
  BY <1>1, <1>2, <1>3, <1>4, <1>5, <1>6 DEF CallTypes
<1>8. Counted'
  <2>1. /\ Varied(padding)' = Varied(padding) /\ Varied(num)' = Varied(num')
        /\ Varied(Len(HashedPart))' = Varied(Len(HashedPart)) /\ Measuring'
    BY <1>2, <1>3 DEF Varied, Measuring
  <2>2. CASE stage = "measure"
    <3>1. length + Varied(num) = 1 + Varied(padding)
      BY <1>1, <2>2 DEF Counted
    <3>2. length' + Varied(num') = 1 + Varied(padding)
      BY <1>4, <1>5, <1>6, <2>2, <3>1
    <3> QED BY <1>3, <2>1, <2>2, <3>2 DEF Counted
  <2>3. CASE stage = "measureSize"
    <3>1. /\ length = Varied(padding)
          /\ digestSizeLength + Varied(num) = 1 + Varied(Len(HashedPart))
      BY <1>1, <2>3 DEF Counted
    <3>2. digestSizeLength' + Varied(num') = 1 + Varied(Len(HashedPart))
      BY <1>4, <1>5, <1>6, <2>3, <3>1
    <3> QED BY <1>3, <1>6, <2>1, <2>3, <3>1, <3>2 DEF Counted
  <2> QED BY <1>5, <2>2, <2>3
<1>9. Encoding'
  <2>1. Measuring' /\ bytes = <<>>
    BY <1>1, <1>3 DEF Encoding, Measuring
  <2> QED BY <1>3, <2>1 DEF Encoding
<1>10. FieldsRoundTrip'
  BY <1>3, <1>5 DEF FieldsRoundTrip
<1> QED
  BY <1>7, <1>8, <1>9, <1>10 DEF BytesInv

(* The size measured beforehand is that of what is hashed. *)
LEMMA SizeMeasured ==
    ASSUME CallTypes, length = Varied(padding)
    PROVE  DigestSize = Len(HashedPart) /\ DigestSize \in Nat
PROOF
<1>1. /\ Len(HashedPart) = Varied(padding) + 1 + ROOT_SIZE
      /\ Varied(padding) \in Nat /\ ROOT_SIZE \in Nat
  BY WholeFacts DEF CallTypes
<1> QED
  BY <1>1 DEF DigestSize, HEIGHT_SIZE

LEMMA MeasuredKeeps ==
    ASSUME BytesInv, Measured
    PROVE  BytesInv'
PROOF
<1>1. CallTypes /\ Counted /\ Encoding
  BY DEF BytesInv
<1>2. /\ encoder' = encoder /\ padding' = padding /\ height' = height
      /\ HashedPart' = HashedPart /\ Whole' = Whole /\ UNCHANGED input
  BY SameCall DEF Measured
<1>3. /\ stage = "measure" /\ num \in Nat /\ num < BASE
      /\ length' = length /\ bytes' = bytes /\ pos' = pos /\ length \in Nat
      /\ digestSizeLength \in Nat /\ encoder \in {"rust", "js"}
  BY <1>1 DEF Measured, CallTypes
<1>4. length = Varied(padding) /\ Varied(padding) \in Nat
  <2>1. length + Varied(num) = 1 + Varied(padding)
    BY <1>1, <1>3 DEF Counted
  <2>2. Varied(num) = 1 /\ Varied(padding) \in Nat
    BY <1>1, <1>3, VariedFacts DEF CallTypes
  <2> QED BY <1>3, <2>1, <2>2
<1>5. DigestSize = Len(HashedPart) /\ DigestSize \in Nat
  BY <1>1, <1>4, SizeMeasured
<1>6. bytes = <<>>
  BY <1>1, <1>3 DEF Encoding, Measuring
<1>7. Varied(padding)' = Varied(padding) /\ Varied(Len(HashedPart))' = Varied(Len(HashedPart))
      /\ Varied(num)' = Varied(num')
  BY <1>2 DEF Varied
<1>8. CASE encoder = "js"
  <2>1. stage' = "measureSize" /\ num' = DigestSize /\ digestSizeLength' = 1
    BY <1>8 DEF Measured
  <2>2. CallTypes'
    BY <1>1, <1>2, <1>3, <1>5, <1>8, <2>1 DEF CallTypes
  <2>3. Counted'
    BY <1>3, <1>4, <1>5, <1>7, <2>1 DEF Counted, Measuring
  <2>4. Encoding' /\ FieldsRoundTrip'
    BY <1>3, <1>6, <2>1 DEF Encoding, Measuring, FieldsRoundTrip
  <2> QED BY <2>2, <2>3, <2>4 DEF BytesInv
<1>9. CASE encoder = "rust"
  <2>1. stage' = "code" /\ num' = MULTIHASH_CODE /\ digestSizeLength' = digestSizeLength
    BY <1>9 DEF Measured
  <2>2. CallTypes'
    BY <1>1, <1>2, <1>3, <1>9, <2>1, CodeLength DEF CallTypes
  <2>3. Counted'
    BY <1>2, <1>3, <1>4, <1>7, <1>9, <2>1 DEF Counted, Measuring
  <2>4. Written' = <<>>
    BY <1>2, <1>3, <1>6, <1>9 DEF Written
  <2>5. Written' \o ToWrite' = Whole' /\ ~ Measuring'
    BY <1>1, <1>2, <2>1, <2>4, WritingStarts
  <2>6. Encoding' /\ FieldsRoundTrip'
    BY <2>1, <2>5 DEF Encoding, FieldsRoundTrip
  <2> QED BY <2>2, <2>3, <2>6 DEF BytesInv
<1> QED
  BY <1>3, <1>8, <1>9

LEMMA AllocateKeeps ==
    ASSUME BytesInv, Allocate
    PROVE  BytesInv'
PROOF
<1>1. CallTypes /\ Counted /\ Encoding
  BY DEF BytesInv
<1>2. /\ encoder' = encoder /\ padding' = padding /\ height' = height
      /\ HashedPart' = HashedPart /\ Whole' = Whole /\ UNCHANGED input
  BY SameCall DEF Allocate
<1>3. /\ stage = "measureSize" /\ num \in Nat /\ num < BASE /\ encoder = "js"
      /\ stage' = "code" /\ num' = MULTIHASH_CODE
      /\ length' = length /\ pos' = pos /\ digestSizeLength' = digestSizeLength
      /\ length \in Nat /\ digestSizeLength \in Nat
  BY <1>1 DEF Allocate, CallTypes
<1>4. bytes = <<>> /\ pos = 0
  <2>1. bytes = <<>>
    BY <1>1, <1>3 DEF Encoding, Measuring
  <2> QED BY <1>1, <2>1 DEF CallTypes
<1>5. length = Varied(padding) /\ digestSizeLength = Varied(Len(HashedPart))
  <2>1. length = Varied(padding) /\ digestSizeLength + Varied(num) = 1 + Varied(Len(HashedPart))
    BY <1>1, <1>3 DEF Counted
  <2>2. Varied(num) = 1
    BY <1>3, VariedFacts
  <2>3. Varied(Len(HashedPart)) \in Nat
    BY <1>1, WholeFacts DEF CallTypes
  <2> QED BY <1>3, <2>1, <2>2, <2>3
<1>6. DigestSize = Len(HashedPart) /\ DigestSize \in Nat
  BY <1>1, <1>5, SizeMeasured
<1> DEFINE total == CODE_SIZE + digestSizeLength + DigestSize
<1>7. total = Len(Whole) /\ total \in Nat /\ bytes' = [i \in 1 .. total |-> 0]
  <2>1. Len(Whole) = CODE_SIZE + Varied(Len(HashedPart)) + Len(HashedPart)
    BY <1>1, WholeFacts DEF CallTypes
  <2> QED BY <1>3, <1>5, <1>6, <2>1 DEF Allocate, CODE_SIZE
<1> HIDE DEF total
<1>8. bytes' \in Seq(Nat) /\ Len(bytes') = total /\ SubSeq(bytes', 1, 0) = <<>>
  <2> DEFINE zeros == [i \in 1 .. total |-> 0]
  <2>1. zeros \in Seq(Nat) /\ Len(zeros) = total
    BY <1>7
  <2>2. SubSeq(zeros, 1, 0) = <<>>
    BY SubSeqEmpty
  <2> HIDE DEF zeros
  <2>3. bytes' = zeros
    BY <1>7 DEF zeros
  <2> QED BY <2>1, <2>2, <2>3
<1>9. CallTypes'
  <2>1. pos' \in 0 .. Len(bytes')
    BY <1>3, <1>4, <1>7, <1>8
  <2> QED BY <1>1, <1>2, <1>3, <1>8, <2>1, CodeLength DEF CallTypes
<1>10. Counted'
  <2>1. Varied(padding)' = Varied(padding) /\ Varied(Len(HashedPart))' = Varied(Len(HashedPart))
    BY <1>2 DEF Varied
  <2> QED BY <1>2, <1>3, <1>5, <1>7, <1>8, <2>1 DEF Counted
<1>11. Written' = <<>>
  BY <1>2, <1>3, <1>4, <1>8 DEF Written
<1>12. Written' \o ToWrite' = Whole' /\ ~ Measuring'
  BY <1>1, <1>2, <1>3, <1>11, WritingStarts
<1>13. Encoding' /\ FieldsRoundTrip'
  BY <1>3, <1>12 DEF Encoding, FieldsRoundTrip
<1> QED
  BY <1>9, <1>10, <1>13 DEF BytesInv

(* A step that puts some of what is to be written keeps the invariant. *)
LEMMA PutKeeps ==
    ASSUME BytesInv, ~ Measuring, UNCHANGED <<input, length, digestSizeLength>>,
           NEW values \in Seq(Nat), Put(values), ToWrite' \in Seq(Nat),
           ToWrite = values \o ToWrite',
           num' \in Nat, stage' \in {"code", "size", "padding", "tree", "encoded"}
    PROVE  BytesInv'
PROOF
<1>1. CallTypes /\ Counted /\ Encoding
  BY DEF BytesInv
<1>2. /\ encoder' = encoder /\ padding' = padding /\ height' = height
      /\ HashedPart' = HashedPart /\ Whole' = Whole
  BY SameCall
<1>3. ~ Measuring' /\ stage # "measure" /\ stage # "measureSize"
  BY DEF Measuring
<1>4. encoder = "js" => Len(bytes) = Len(Whole) /\ digestSizeLength = Varied(Len(HashedPart))
  BY <1>1 DEF Counted
<1>5. Written \o (values \o ToWrite') = Whole
  BY <1>1 DEF Encoding
<1>6. /\ bytes' \in Seq(Nat) /\ pos' \in 0 .. Len(bytes')
      /\ Written' \o ToWrite' = Whole
      /\ encoder = "js" => Len(bytes') = Len(bytes)
  BY <1>1, <1>4, <1>5, PutWrites
<1>7. CallTypes'
  BY <1>1, <1>2, <1>6 DEF CallTypes
<1>8. Counted'
  <2>1. Varied(padding)' = Varied(padding) /\ Varied(Len(HashedPart))' = Varied(Len(HashedPart))
    BY <1>2 DEF Varied
  <2>2. length = Varied(padding)
    BY <1>1, <1>3 DEF Counted
  <2> QED BY <1>2, <1>3, <1>4, <1>6, <2>1, <2>2 DEF Counted, Measuring
<1>9. Encoding'
  BY <1>2, <1>3, <1>6 DEF Encoding
<1>10. FieldsRoundTrip'
  BY DEF FieldsRoundTrip
<1> QED
  BY <1>7, <1>8, <1>9, <1>10 DEF BytesInv

LEMMA RestBytes ==
    ASSUME CallTypes, Field
    PROVE  Rest \in Seq(Nat)
PROOF
<1>1. /\ Varint[Len(HashedPart)] \o HashedPart \in Seq(Nat) /\ HashedPart \in Seq(Nat)
      /\ <<height>> \o Root \in Seq(Nat)
  BY WholeFacts DEF CallTypes
<1>2. stage = "code" \/ stage = "size" \/ stage = "padding"
  BY DEF Field
<1> QED
  BY <1>1, <1>2 DEF Rest

LEMMA PutVarintByteKeeps ==
    ASSUME BytesInv, PutVarintByte
    PROVE  BytesInv'
PROOF
<1>1. CallTypes
  BY DEF BytesInv
<1>2. /\ encoder' = encoder /\ padding' = padding /\ height' = height
      /\ HashedPart' = HashedPart /\ UNCHANGED input
  BY SameCall DEF PutVarintByte
<1>3. /\ Field /\ num \in Nat /\ num >= BASE /\ num' = num \div BASE /\ stage' = stage
      /\ length' = length /\ digestSizeLength' = digestSizeLength
      /\ Put(<<(num % BASE) + BASE>>)
  BY <1>1 DEF PutVarintByte, CallTypes
<1> DEFINE b == <<(num % BASE) + BASE>>
<1>4. /\ num' \in Nat /\ b \in Seq(Nat) /\ Varint[num] = b \o Varint[num']
      /\ Varint[num'] \in Seq(Nat)
  BY <1>3, VariedFacts
<1>5. Rest' = Rest /\ Field' /\ Rest \in Seq(Nat)
  <2>1. Rest' = Rest
    BY <1>2, <1>3 DEF Rest
  <2>2. Field'
    BY <1>3 DEF Field
  <2> QED BY <1>1, <1>3, <2>1, <2>2, RestBytes
<1>6. ToWrite = Varint[num] \o Rest /\ ToWrite' = Varint[num'] \o Rest
  BY <1>3, <1>5 DEF ToWrite
<1> HIDE DEF b
<1>7. (b \o Varint[num']) \o Rest = b \o (Varint[num'] \o Rest)
  BY <1>4, <1>5, Joins, Zenon
<1>8. ToWrite' \in Seq(Nat) /\ ToWrite = b \o ToWrite'
  <2>1. Varint[num'] \o Rest \in Seq(Nat)
    BY <1>4, <1>5, ConcatProperties
  <2> QED BY <1>4, <1>6, <1>7, <2>1
<1>9. ~ Measuring /\ stage' \in {"code", "size", "padding", "tree", "encoded"}
  BY <1>3 DEF Field, Measuring
<1>10. Put(b)
  BY <1>3 DEF b
<1> QED
  BY <1>2, <1>3, <1>4, <1>8, <1>9, <1>10, PutKeeps

LEMMA PutLastByteKeeps ==
    ASSUME BytesInv, PutLastByte
    PROVE  BytesInv'
PROOF
<1>1. CallTypes /\ Counted
  BY DEF BytesInv
<1>2. /\ encoder' = encoder /\ padding' = padding /\ height' = height
      /\ HashedPart' = HashedPart /\ UNCHANGED input
  BY SameCall DEF PutLastByte
<1>3. /\ Field /\ num \in Nat /\ num < BASE /\ Put(<<num>>)
      /\ length' = length /\ digestSizeLength' = digestSizeLength
  BY <1>1 DEF PutLastByte, CallTypes
<1>4. Varint[num] = <<num>> /\ <<num>> \in Seq(Nat)
  BY <1>3, VariedFacts
<1>5. ToWrite = <<num>> \o Rest /\ Rest \in Seq(Nat)
  BY <1>1, <1>3, <1>4, RestBytes DEF ToWrite
<1>6. ~ Measuring /\ stage # "measure"
  BY <1>3 DEF Field, Measuring
<1>7. padding \in Nat /\ DigestSize = Len(HashedPart) /\ DigestSize \in Nat
  <2>1. length = Varied(padding)
    BY <1>1, <1>6 DEF Counted
  <2> QED BY <1>1, <2>1, SizeMeasured DEF CallTypes
<1>8. \/ stage = "code" /\ stage' = "size" /\ num' = DigestSize
      \/ stage = "size" /\ stage' = "padding" /\ num' = padding
      \/ stage = "padding" /\ stage' = "tree" /\ num' = 0
  BY DEF PutLastByte
<1>9. ToWrite' = Rest
  <2>1. CASE stage = "code" /\ stage' = "size" /\ num' = DigestSize
    <3>1. Rest = Varint[Len(HashedPart)] \o HashedPart
      BY <2>1 DEF Rest
    <3>2. Field' /\ Rest' = HashedPart'
      BY <2>1 DEF Field, Rest
    <3> QED BY <1>2, <1>7, <2>1, <3>1, <3>2 DEF ToWrite
  <2>2. CASE stage = "size" /\ stage' = "padding" /\ num' = padding
    <3>1. Rest = Varint[padding] \o (<<height>> \o Root)
      BY <2>2 DEF Rest, HashedPart
    <3>2. Field' /\ Rest' = <<height'>> \o Root
      BY <2>2 DEF Field, Rest
    <3> QED BY <1>2, <2>2, <3>1, <3>2 DEF ToWrite
  <2>3. CASE stage = "padding" /\ stage' = "tree" /\ num' = 0
    <3>1. Rest = <<height>> \o Root
      BY <2>3 DEF Rest
    <3>2. ~ Field' /\ ToWrite' = <<height'>> \o Root
      BY <2>3 DEF Field, ToWrite
    <3> QED BY <1>2, <3>1, <3>2
  <2> QED BY <1>8, <2>1, <2>2, <2>3
<1>10. num' \in Nat /\ stage' \in {"code", "size", "padding", "tree", "encoded"}
  BY <1>7, <1>8
<1> QED
  BY <1>2, <1>3, <1>4, <1>5, <1>6, <1>9, <1>10, PutKeeps

LEMMA PutTreeKeeps ==
    ASSUME BytesInv, PutTree
    PROVE  BytesInv'
PROOF
<1>1. CallTypes
  BY DEF BytesInv
<1> DEFINE tree == <<height>> \o Root
<1>2. /\ stage = "tree" /\ stage' = "encoded" /\ num' = num /\ num \in Nat /\ Put(tree)
      /\ UNCHANGED input /\ length' = length /\ digestSizeLength' = digestSizeLength
  BY <1>1 DEF PutTree, CallTypes
<1>3. tree \in Seq(Nat)
  BY <1>1, WholeFacts DEF CallTypes
<1>4. ToWrite = tree /\ ToWrite' = <<>> /\ ~ Measuring
  BY <1>2 DEF ToWrite, Field, Measuring
<1> HIDE DEF tree
<1>5. tree \o <<>> = tree /\ <<>> \in Seq(Nat)
  BY <1>3, ConcatEmptySeq
<1> QED
  BY <1>2, <1>3, <1>4, <1>5, PutKeeps

-----------------------------------------------------------------------------
(* The decoders. *)

LEMMA Joined ==
    ASSUME NEW s \in Seq(Nat), NEW t \in Seq(Nat)
    PROVE  /\ \A k \in 1 .. Len(s) : (s \o t)[k] = s[k]
           /\ \A k \in 1 .. Len(t) : (s \o t)[Len(s) + k] = t[k]
           /\ SubSeq(s \o t, Len(s) + 1, Len(s \o t)) = t
           /\ s \o t \in Seq(Nat) /\ Len(s \o t) = Len(s) + Len(t)
           /\ Len(s) \in Nat /\ Len(t) \in Nat
PROOF
<1> DEFINE whole == s \o t
           ls == Len(s)
           lt == Len(t)
           sub == SubSeq(whole, ls + 1, Len(whole))
<1>1. ls \in Nat /\ lt \in Nat
  OBVIOUS
<1>2. /\ whole \in Seq(Nat) /\ Len(whole) = ls + lt
      /\ \A k \in 1 .. ls + lt : whole[k] = IF k <= ls THEN s[k] ELSE t[k - ls]
  BY ConcatProperties
<1>3. t \in Seq(Nat) /\ Len(t) = lt
  OBVIOUS
<1> HIDE DEF whole, ls, lt
<1>4. \A k \in 1 .. ls : whole[k] = s[k]
  BY <1>1, <1>2
<1>5. ASSUME NEW k \in 1 .. lt PROVE whole[ls + k] = t[k]
  <2>1. ls + k \in 1 .. ls + lt /\ ~ (ls + k <= ls) /\ (ls + k) - ls = k
    BY <1>1
  <2> QED BY <1>2, <2>1
<1>6. sub = t
  <2>1. /\ sub \in Seq(Nat) /\ Len(sub) = lt
        /\ \A k \in 1 .. lt : sub[k] = whole[ls + k]
    <3>1. ls + 1 \in Int /\ Len(whole) \in Int /\ \A i \in ls + 1 .. Len(whole) : whole[i] \in Nat
      <4>1. \A i \in ls + 1 .. Len(whole) : i \in 1 .. Len(whole)
        BY <1>1, <1>2
      <4> QED BY <1>1, <1>2, <4>1
    <3>2. /\ sub \in Seq(Nat)
          /\ Len(sub) = IF ls + 1 <= Len(whole) THEN Len(whole) - (ls + 1) + 1 ELSE 0
          /\ \A i \in 1 .. Len(whole) - (ls + 1) + 1 : sub[i] = whole[(ls + 1) + i - 1]
      BY <3>1, SubSeqProperties
    <3> HIDE DEF sub
    <3>3. Len(sub) = lt
      BY <1>1, <1>2, <3>2
    <3>4. ASSUME NEW k \in 1 .. lt PROVE sub[k] = whole[ls + k]
      <4>1. k \in 1 .. Len(whole) - (ls + 1) + 1 /\ (ls + 1) + k - 1 = ls + k
        BY <1>1, <1>2
      <4> QED BY <3>2, <4>1
    <3> QED BY <3>2, <3>3, <3>4
  <2> HIDE DEF sub
  <2>2. \A k \in 1 .. Len(sub) : sub[k] = t[k]
    BY <1>5, <2>1
  <2> QED BY <1>3, <2>1, <2>2, SeqEqual
<1> QED
  BY <1>1, <1>2, <1>4, <1>5, <1>6 DEF whole, ls, lt, sub

(* Where the fields are in the whole. *)
LEMMA WholeParts ==
    ASSUME CallTypes
    PROVE  LET start == CODE_SIZE + Varied(Len(HashedPart)) IN
           /\ \A k \in 1 .. CODE_SIZE : Whole[k] = Varint[MULTIHASH_CODE][k]
           /\ \A k \in 1 .. Varied(Len(HashedPart)) :
                 Whole[CODE_SIZE + k] = Varint[Len(HashedPart)][k]
           /\ \A k \in 1 .. Varied(padding) : Whole[start + k] = Varint[padding][k]
           /\ Whole[Len(Whole) - ROOT_SIZE] = height
           /\ SubSeq(Whole, start + 1, Len(Whole)) = HashedPart
           /\ SubSeq(Whole, Len(Whole) - ROOT_SIZE + 1, Len(Whole)) = Root
           /\ start \in Nat /\ Len(Whole) \in Nat /\ start + Varied(padding) <= Len(Whole)
           /\ CODE_SIZE + Varied(Len(HashedPart)) <= Len(Whole) /\ CODE_SIZE <= Len(Whole)
PROOF
<1> DEFINE c == Varint[MULTIHASH_CODE]
           s == Varint[Len(HashedPart)]
           v == Varint[padding]
           h == <<height>>
           r == Root
           part == HashedPart
           start == CODE_SIZE + Varied(Len(HashedPart))
<1>1. /\ c \in Seq(Nat) /\ s \in Seq(Nat) /\ v \in Seq(Nat) /\ h \in Seq(Nat) /\ r \in Seq(Nat)
      /\ part \in Seq(Nat)
  BY WholeFacts DEF CallTypes
<1>2. /\ Len(c) = CODE_SIZE /\ Len(s) = Varied(Len(HashedPart)) /\ Len(v) = Varied(padding)
      /\ Len(r) = ROOT_SIZE /\ Len(h) = 1 /\ h[1] = height
  BY CodeLength DEF Varied, ROOT_SIZE
<1>3. part = v \o (h \o r) /\ part = (v \o h) \o r /\ Whole = c \o (s \o part) /\ Whole = (c \o s) \o part
  <2>1. /\ HashedPart = Varint[padding] \o <<height>> \o Root
        /\ Whole = Varint[MULTIHASH_CODE] \o Varint[Len(HashedPart)] \o HashedPart
    BY WholeFacts DEF CallTypes
  <2> QED BY <2>1 DEF HashedPart, Whole
<1>4. start = Len(c) + Len(s)
  BY <1>2
<1> HIDE DEF c, s, v, h, r, part, start
<1>5. /\ Len(c) \in Nat /\ Len(s) \in Nat /\ Len(v) \in Nat /\ Len(h) \in Nat /\ Len(r) \in Nat
      /\ Len(part) \in Nat
  BY <1>1
<1> DEFINE hr == h \o r
           vh == v \o h
           cs == c \o s
           sp == s \o part
<1>6. hr \in Seq(Nat) /\ Len(hr) = Len(h) + Len(r) /\ vh \in Seq(Nat) /\ Len(vh) = Len(v) + Len(h)
  BY <1>1, Joined
<1>7. cs \in Seq(Nat) /\ Len(cs) = Len(c) + Len(s) /\ sp \in Seq(Nat) /\ Len(sp) = Len(s) + Len(part)
  BY <1>1, Joined
<1>8. \A k \in 1 .. Len(s) : sp[k] = s[k]
  BY <1>1, Joined
<1>9. vh[Len(v) + 1] = height
  <2>1. 1 \in 1 .. Len(h)
    BY <1>2
  <2>2. vh[Len(v) + 1] = h[1]
    BY <1>1, <2>1, Joined
  <2> QED BY <1>2, <2>2
<1> HIDE DEF hr, vh, cs, sp
<1>10. part = v \o hr /\ part = vh \o r /\ Whole = c \o sp /\ Whole = cs \o part
  BY <1>3 DEF hr, vh, cs, sp
<1>11. \A k \in 1 .. Len(v) : part[k] = v[k]
  <2>1. \A k \in 1 .. Len(v) : (v \o hr)[k] = v[k]
    BY <1>1, <1>6, Joined
  <2> QED BY <1>10, <2>1
<1>12. Len(part) = Len(vh) + Len(r) /\ \A k \in 1 .. Len(vh) : part[k] = vh[k]
  <2>1. Len(vh \o r) = Len(vh) + Len(r) /\ \A k \in 1 .. Len(vh) : (vh \o r)[k] = vh[k]
    BY <1>1, <1>6, Joined
  <2> QED BY <1>10, <2>1
<1>13. /\ \A k \in 1 .. Len(c) : Whole[k] = c[k]
       /\ \A k \in 1 .. Len(sp) : Whole[Len(c) + k] = sp[k]
  <2>1. /\ \A k \in 1 .. Len(c) : (c \o sp)[k] = c[k]
        /\ \A k \in 1 .. Len(sp) : (c \o sp)[Len(c) + k] = sp[k]
    BY <1>1, <1>7, Joined
  <2> QED BY <1>10, <2>1
<1>14. /\ \A k \in 1 .. Len(part) : Whole[Len(cs) + k] = part[k]
       /\ SubSeq(Whole, Len(cs) + 1, Len(Whole)) = part
       /\ Len(Whole) = Len(cs) + Len(part)
  <2>1. /\ \A k \in 1 .. Len(part) : (cs \o part)[Len(cs) + k] = part[k]
        /\ SubSeq(cs \o part, Len(cs) + 1, Len(cs \o part)) = part
        /\ Len(cs \o part) = Len(cs) + Len(part)
    BY <1>1, <1>7, Joined
  <2> QED BY <1>10, <2>1
<1>15. ASSUME NEW k \in 1 .. Len(s) PROVE Whole[Len(c) + k] = s[k]
  <2>1. k \in 1 .. Len(sp)
    BY <1>5, <1>7
  <2> QED BY <1>8, <1>13, <2>1
<1>16. ASSUME NEW k \in 1 .. Len(v) PROVE Whole[start + k] = v[k]
  <2>1. k \in 1 .. Len(part)
    BY <1>5, <1>6, <1>12
  <2>2. Whole[Len(cs) + k] = part[k] /\ part[k] = v[k]
    BY <1>11, <1>14, <2>1
  <2> QED BY <1>4, <1>7, <2>2
<1>21. Len(cs) + (Len(v) + 1) = Len(Whole) - ROOT_SIZE /\ Len(cs) + Len(vh) = Len(Whole) - ROOT_SIZE
  <2>1. /\ Len(Whole) = Len(cs) + Len(part) /\ Len(part) = Len(vh) + Len(r)
        /\ Len(vh) = Len(v) + 1 /\ Len(cs) = Len(c) + Len(s) /\ Len(r) = ROOT_SIZE
    BY <1>2, <1>6, <1>7, <1>12, <1>14
  <2> DEFINE lw == Len(Whole)
             lcs == Len(cs)
             lp == Len(part)
             lvh == Len(vh)
             lr == Len(r)
             lv == Len(v)
  <2>2. lcs \in Nat /\ lp \in Nat /\ lr \in Nat /\ lv \in Nat
    BY <1>5, <2>1
  <2>3. lw = lcs + lp /\ lp = lvh + lr /\ lvh = lv + 1 /\ lr = ROOT_SIZE
    BY <2>1
  <2> HIDE DEF lw, lcs, lp, lvh, lr, lv
  <2>4. lcs + (lv + 1) = lw - ROOT_SIZE /\ lcs + lvh = lw - ROOT_SIZE
    BY <2>2, <2>3
  <2> QED BY <2>4 DEF lw, lcs, lvh, lv
<1>17. Whole[Len(Whole) - ROOT_SIZE] = height
  <2>1. Len(v) + 1 \in 1 .. Len(vh) /\ Len(v) + 1 \in 1 .. Len(part)
    BY <1>2, <1>5, <1>6, <1>12
  <2>2. Whole[Len(cs) + (Len(v) + 1)] = height
    BY <1>9, <1>12, <1>14, <2>1
  <2>3. Len(cs) + (Len(v) + 1) = Len(Whole) - ROOT_SIZE
    BY <1>21
  <2> QED BY <2>2, <2>3
<1>18. SubSeq(Whole, Len(Whole) - ROOT_SIZE + 1, Len(Whole)) = r
  <2> DEFINE front == cs \o vh
  <2>1. front \in Seq(Nat) /\ Len(front) = Len(cs) + Len(vh)
    BY <1>6, <1>7, Joined
  <2>2. Whole = front \o r
    <3>1. cs \in Seq(Nat) /\ vh \in Seq(Nat) /\ r \in Seq(Nat)
      BY <1>1, <1>6, <1>7
    <3>2. (cs \o vh) \o r = cs \o (vh \o r)
      BY <3>1, Joins
    <3> QED BY <1>10, <3>2
  <2> HIDE DEF front
  <2>3. SubSeq(Whole, Len(front) + 1, Len(Whole)) = r
    BY <1>1, <2>1, <2>2, Joined
  <2>4. Len(front) = Len(Whole) - ROOT_SIZE
    BY <1>21, <2>1
  <2> QED BY <2>3, <2>4
<1>19. /\ start \in Nat /\ Len(Whole) \in Nat /\ start + Len(v) <= Len(Whole)
       /\ start <= Len(Whole) /\ Len(c) <= Len(Whole)
  BY <1>4, <1>5, <1>6, <1>7, <1>12, <1>14
<1>20. SubSeq(Whole, start + 1, Len(Whole)) = part
  BY <1>4, <1>7, <1>14
<1> QED
  BY <1>2, <1>13, <1>15, <1>16, <1>17, <1>18, <1>19, <1>20 DEF c, s, v, r, part, start

(* All is written when nothing is left to write. *)
LEMMA AllWritten ==
    ASSUME CallTypes, Counted, Encoding, stage \in {"encoded", "decoded"}
    PROVE  bytes = Whole
PROOF
<1>1. bytes \in Seq(Nat) /\ Len(bytes) \in Nat /\ pos \in 0 .. Len(bytes) /\ Whole \in Seq(Nat)
      /\ encoder \in {"rust", "js"}
  BY WholeFacts DEF CallTypes
<1>2. Written \o <<>> = Whole
  <2>1. ToWrite = <<>> /\ ~ Measuring
    BY DEF ToWrite, Field, Measuring
  <2> QED BY <2>1 DEF Encoding
<1>3. CASE encoder = "rust"
  <2>1. Written = bytes
    BY <1>3 DEF Written
  <2> QED BY <1>1, <1>2, <2>1, ConcatEmptySeq
<1>4. CASE encoder = "js"
  <2>1. Written = SubSeq(bytes, 1, pos) /\ Len(bytes) = Len(Whole)
    BY <1>4 DEF Written, Counted, Measuring
  <2>2. SubSeq(bytes, 1, pos) \in Seq(Nat) /\ Len(SubSeq(bytes, 1, pos)) = pos
    BY <1>1
  <2> DEFINE w == SubSeq(bytes, 1, pos)
  <2>3. w = Whole
    <3> HIDE DEF w
    <3>1. w \in Seq(Nat) /\ w \o <<>> = Whole
      BY <1>2, <2>1, <2>2 DEF w
    <3> QED BY <3>1, ConcatEmptySeq
  <2>4. pos = Len(bytes)
    BY <2>1, <2>2, <2>3
  <2>5. w = bytes
    BY <1>1, <2>4, SubSeqFull
  <2> QED BY <2>3, <2>5
<1> QED
  BY <1>1, <1>3, <1>4

LEMMA DecodeKeeps ==
    ASSUME BytesInv, Decode
    PROVE  BytesInv'
PROOF
<1>1. CallTypes /\ Counted /\ Encoding
  BY DEF BytesInv
<1>2. /\ stage = "encoded" /\ encoder = "rust" /\ stage' = "decoded" /\ bytes' = bytes
      /\ length' = length /\ digestSizeLength' = digestSizeLength /\ num' = num /\ pos' = pos
      /\ encoder' = encoder /\ padding' = padding /\ height' = height
      /\ HashedPart' = HashedPart /\ Whole' = Whole
  BY SameCall DEF Decode
<1>3. bytes = Whole /\ bytes \in Seq(Nat)
  BY <1>1, <1>2, AllWritten DEF CallTypes
<1> DEFINE size == Len(HashedPart)
           start == CODE_SIZE + Varied(size)
<1>4. /\ \A k \in 1 .. CODE_SIZE : Whole[k] = Varint[MULTIHASH_CODE][k]
      /\ \A k \in 1 .. Varied(size) : Whole[CODE_SIZE + k] = Varint[size][k]
      /\ \A k \in 1 .. Varied(padding) : Whole[start + k] = Varint[padding][k]
      /\ Whole[Len(Whole) - ROOT_SIZE] = height
      /\ SubSeq(Whole, start + 1, Len(Whole)) = HashedPart
      /\ SubSeq(Whole, Len(Whole) - ROOT_SIZE + 1, Len(Whole)) = Root
      /\ start \in Nat /\ Len(Whole) \in Nat /\ start + Varied(padding) <= Len(Whole)
      /\ CODE_SIZE + Varied(size) <= Len(Whole) /\ CODE_SIZE <= Len(Whole)
  BY <1>1, WholeParts
<1>5. /\ size \in Nat /\ padding \in Nat /\ MULTIHASH_CODE \in Nat /\ CODE_SIZE \in Nat
      /\ Varied(MULTIHASH_CODE) = CODE_SIZE
  BY <1>1, CodeLength, WholeFacts DEF CallTypes, CODE_SIZE
<1> HIDE DEF size, start
<1>6. VarintLength(0) = CODE_SIZE
  <2>1. \A k \in 1 .. Len(Varint[MULTIHASH_CODE]) : bytes[0 + k] = Varint[MULTIHASH_CODE][k]
    BY <1>3, <1>4, <1>5 DEF Varied
  <2>2. 0 + Len(Varint[MULTIHASH_CODE]) <= Len(bytes)
    BY <1>3, <1>4, <1>5 DEF Varied
  <2> QED BY <1>3, <1>5, <2>1, <2>2, VarintRead DEF Varied
<1>7. VarintLength(CODE_SIZE) = Varied(size)
  <2>1. /\ \A k \in 1 .. Len(Varint[size]) : bytes[CODE_SIZE + k] = Varint[size][k]
        /\ CODE_SIZE + Len(Varint[size]) <= Len(bytes)
    BY <1>3, <1>4 DEF Varied
  <2> QED BY <1>3, <1>5, <2>1, VarintRead DEF Varied
<1>8. VarintValue(start) = padding
  <2>1. /\ \A k \in 1 .. Len(Varint[padding]) : bytes[start + k] = Varint[padding][k]
        /\ start + Len(Varint[padding]) <= Len(bytes)
    BY <1>3, <1>4 DEF Varied
  <2> QED BY <1>3, <1>4, <1>5, <2>1, VarintRead
<1>9. decoded' = [digest |-> SubSeq(bytes, start + 1, Len(bytes)),
                  padding |-> VarintValue(start),
                  height |-> bytes[Len(bytes) - ROOT_SIZE],
                  root |-> SubSeq(bytes, Len(bytes) - ROOT_SIZE + 1, Len(bytes))]
  BY <1>6, <1>7 DEF Decode, start
<1>10. decoded' = [digest |-> HashedPart, padding |-> padding, height |-> height, root |-> Root]
  BY <1>3, <1>4, <1>8, <1>9
<1>11. FieldsRoundTrip'
  <2>1. HashedPart = Varint[padding] \o <<height>> \o Root
    BY <1>1, WholeFacts DEF CallTypes
  <2> QED BY <1>2, <1>10, <2>1 DEF FieldsRoundTrip
<1>12. CallTypes'
  BY <1>1, <1>2 DEF CallTypes
<1>13. Counted'
  BY <1>1, <1>2 DEF Counted, Varied, Measuring
<1>14. Encoding'
  <2>1. /\ ~ Measuring /\ ToWrite = <<>> /\ ~ Measuring' /\ ToWrite' = <<>> /\ Written' = Written
    BY <1>2 DEF Measuring, ToWrite, Field, Written
  <2> QED BY <1>1, <1>2, <2>1 DEF Encoding
<1> QED
  BY <1>11, <1>12, <1>13, <1>14 DEF BytesInv

LEMMA ReturnPartsKeeps ==
    ASSUME BytesInv, ReturnParts
    PROVE  BytesInv'
PROOF
<1>1. CallTypes /\ Counted /\ Encoding
  BY DEF BytesInv
<1>2. /\ stage = "encoded" /\ encoder = "js" /\ stage' = "decoded" /\ bytes' = bytes
      /\ length' = length /\ digestSizeLength' = digestSizeLength /\ num' = num /\ pos' = pos
      /\ encoder' = encoder /\ padding' = padding /\ height' = height
      /\ HashedPart' = HashedPart /\ Whole' = Whole
  BY SameCall DEF ReturnParts
<1>3. bytes = Whole /\ digestSizeLength = Varied(Len(HashedPart))
  BY <1>1, <1>2, AllWritten DEF Counted, Measuring
<1>4. SubSeq(Whole, CODE_SIZE + Varied(Len(HashedPart)) + 1, Len(Whole)) = HashedPart
  BY <1>1, WholeParts
<1>5. decoded' = [digest |-> HashedPart, padding |-> padding, height |-> height, root |-> Root]
  BY <1>3, <1>4 DEF ReturnParts
<1>6. FieldsRoundTrip'
  <2>1. HashedPart = Varint[padding] \o <<height>> \o Root
    BY <1>1, WholeFacts DEF CallTypes
  <2> QED BY <1>2, <1>5, <2>1 DEF FieldsRoundTrip
<1>7. CallTypes'
  BY <1>1, <1>2 DEF CallTypes
<1>8. Counted'
  BY <1>1, <1>2 DEF Counted, Varied, Measuring
<1>9. Encoding'
  <2>1. /\ ~ Measuring /\ ToWrite = <<>> /\ ~ Measuring' /\ ToWrite' = <<>> /\ Written' = Written
    BY <1>2 DEF Measuring, ToWrite, Field, Written
  <2> QED BY <1>1, <1>2, <2>1 DEF Encoding
<1> QED
  BY <1>6, <1>7, <1>8, <1>9 DEF BytesInv

LEMMA BytesStutter ==
    ASSUME BytesInv, UNCHANGED bytesVars
    PROVE  BytesInv'
PROOF
<1>1. /\ stage' = stage /\ bytes' = bytes /\ decoded' = decoded
      /\ length' = length /\ digestSizeLength' = digestSizeLength /\ num' = num /\ pos' = pos
      /\ encoder' = encoder /\ padding' = padding /\ height' = height
      /\ HashedPart' = HashedPart /\ Whole' = Whole
  BY SameCall DEF bytesVars, input
<1>2. CallTypes' /\ Counted' /\ FieldsRoundTrip'
  BY <1>1 DEF BytesInv, CallTypes, Counted, FieldsRoundTrip, Varied, Measuring
<1>3. Measuring' = Measuring /\ Written' = Written /\ ToWrite' = ToWrite
  BY <1>1 DEF Measuring, Written, ToWrite, Field, Rest
<1> QED
  BY <1>1, <1>2, <1>3 DEF BytesInv, Encoding

LEMMA BytesInductive == BytesSpec => []BytesInv
PROOF
<1>1. BytesInit => BytesInv
  BY BytesInitInv
<1>2. BytesInv /\ [BytesNext]_bytesVars => BytesInv'
  BY MeasureKeeps, MeasuredKeeps, AllocateKeeps, PutVarintByteKeeps, PutLastByteKeeps,
     PutTreeKeeps, DecodeKeeps, ReturnPartsKeeps, BytesStutter DEF BytesNext
<1> QED
  BY <1>1, <1>2, PTL DEF BytesSpec

-----------------------------------------------------------------------------
(* The theorems about the digest's bytes. *)

(* Both encoders write [code, size, padding, height, root], with the size   *)
(* of what follows it, for any base, code, root, padding and height: the    *)
(* lengths measured beforehand fit (multihash.rs 6-21, index.js 194-219).   *)
THEOREM DigestMultihash == BytesSpec => []Multihash
PROOF
<1>1. BytesInv => Multihash
  <2> SUFFICES ASSUME BytesInv, stage \in {"encoded", "decoded"}
               PROVE  bytes = Varint[MULTIHASH_CODE] \o Varint[Len(HashedPart)] \o HashedPart
                      /\ HashedPart = Varint[padding] \o <<height>> \o Root
    BY DEF Multihash
  <2>1. bytes = Whole
    BY AllWritten DEF BytesInv
  <2> QED BY <2>1, WholeFacts DEF BytesInv, CallTypes
<1> QED
  BY <1>1, BytesInductive, PTL

(* The wasm wrapper's decoder gives back what was encoded, and the hasher   *)
(* in JavaScript returns it (api.js 89-106, varint.js 17-27).               *)
THEOREM DigestFieldsRoundTrip == BytesSpec => []FieldsRoundTrip
PROOF
<1>1. BytesInv => FieldsRoundTrip
  BY DEF BytesInv
<1> QED
  BY <1>1, BytesInductive, PTL
=============================================================================
