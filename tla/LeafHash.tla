------------------------------- MODULE LeafHash -------------------------------
(***************************************************************************)
(* From a quad to its two leaves in packages/commp-js/src: readQuad of     *)
(* fr32.js, truncatedHashInto of hash.js, sha256x64Into of sha256.js, at   *)
(* their real sizes, one iteration of a loop a step.                       *)
(*                                                                         *)
(* A 32-bit value is named by what SHA-256 (FIPS 180-4) calls it, and an   *)
(* operation on other values than the standard's gives Junk: names stand   *)
(* for the arithmetic, the code decides what meets what and when.          *)
(***************************************************************************)
EXTENDS Fr32

NODE_SIZE == 32

VARIABLES
    W, PADDING_WK,  \* module-wide message schedules, W reused by every call
    registers,      \* a .. h, as 0 .. 7
    hash,           \* the values registers started from: H, then h0 .. h7
    leaf,           \* which half of the quad is hashed
    pc, t,          \* the loop, and its index
    inPlace         \* the result overlaps the data (sha256.test.js 26)

scratch == <<W, PADDING_WK>>
vars == <<padding, scratch, registers, hash, leaf, pc, t, inPlace>>

-----------------------------------------------------------------------------
(* Values: <<name, leaf, block, index>>.  The data blocks have one schedule *)
(* each, the padding block is the same for all.                             *)

Junk == <<"junk", 0, "", 0>>

Word(b, n) == IF b = "data" THEN <<"W", leaf, b, n>> ELSE <<"W", 0, b, n>>
Term(b, n) == [Word(b, n) EXCEPT ![1] = "W + K"]

(* The value word k of the chaining variable has when block b starts. *)
Chain(b, k) == IF b = "data" THEN <<"H", 0, b, k>> ELSE <<"H", leaf, b, k>>

(* Register k when round n of block b starts: a was computed in round       *)
(* n - 1, b in the round before it; so were e and f.                        *)
Register(b, n, k) ==
    IF k < 4 THEN IF n > k THEN <<"a", leaf, b, n - 1 - k>> ELSE Chain(b, k - n)
             ELSE IF n > k - 4 THEN <<"e", leaf, b, n + 3 - k>> ELSE Chain(b, k - n)

(* x + K[n] *)
AddK(x, n) == IF x[1] = "W" /\ x[4] = n THEN [x EXCEPT ![1] = "W + K"] ELSE Junk

(* expand(): word t of the schedule in w. *)
Expand(w, b) ==
    [w EXCEPT ![t] = IF \A back \in {16, 15, 7, 2} : w[t - back] = Word(b, t - back)
                     THEN Word(b, t) ELSE Junk]

(* One round of block b: T1 is made of e .. h and the schedule's term, the  *)
(* new e of d and T1, the new a of a, b, c and T1.                          *)
Round(b, term) ==
    LET right(k) == registers[k] = Register(b, t, k)
        t1 == (\A k \in 4 .. 7 : right(k)) /\ term = Term(b, t)
    IN  [k \in 0 .. 7 |->
            CASE k = 0 -> IF t1 /\ right(0) /\ right(1) /\ right(2)
                          THEN Register(b, t + 1, 0) ELSE Junk
              [] k = 4 -> IF t1 /\ right(3) THEN Register(b, t + 1, 4) ELSE Junk
              [] OTHER -> registers[k - 1]]

(* Register k after block b plus the value it started from. *)
IsFinal(b, k) == registers[k] = Register(b, 64, k) /\ hash[k] = Chain(b, k)

-----------------------------------------------------------------------------
(* Bits of memory: those of a digest are numbered apart from the quad's. *)
DigestBit(n, word, bit) == 10000 + 256 * n + 32 * word + bit

LEAVES == 128  \* the address of the leaves, after FR32_BUFFER

HalfAtNode == NODE_SIZE * leaf
HalfAt == 64 * leaf
LeafAt(n) == IF inPlace THEN 64 * n + 16 ELSE LEAVES + NODE_SIZE * n

Init ==
    /\ output = [n \in 0 .. 191 |-> [b \in 0 .. 7 |-> Stale]]
    /\ element = 0 /\ i = 0
    /\ W = [n \in 0 .. 63 |-> Junk]
    /\ PADDING_WK = [n \in 0 .. 63 |-> IF n < 16 THEN <<"W", 0, "padding", n>> ELSE Junk]
    /\ registers = [k \in 0 .. 7 |-> Junk] /\ hash = [k \in 0 .. 7 |-> Junk]
    /\ leaf = 0
    /\ pc = "expandPadding" /\ t = 16
    /\ inPlace \in BOOLEAN

(* The next iteration, or the next loop when this one is over. *)
Advance(last, then, from) ==
    IF t < last THEN t' = t + 1 /\ UNCHANGED pc ELSE t' = from /\ pc' = then

(* When the module loads: PADDING_WK. *)
ExpandPadding ==
    /\ pc = "expandPadding"
    /\ PADDING_WK' = Expand(PADDING_WK, "padding")
    /\ Advance(63, "addK", 0)
    /\ UNCHANGED <<padding, W, registers, hash, leaf, inPlace>>

AddPaddingK ==
    /\ pc = "addK"
    /\ PADDING_WK' = [PADDING_WK EXCEPT ![t] = AddK(@, t)]
    /\ Advance(63, "pad", 0)
    /\ UNCHANGED <<padding, W, registers, hash, leaf, inPlace>>

(* readQuad(): FR32, then both halves. *)
PadQuad ==
    /\ pc = "pad"
    /\ PadStep
    /\ pc' = IF i' = OUT_BYTES_PER_QUAD THEN "load" ELSE pc
    /\ UNCHANGED <<scratch, registers, hash, leaf, t, inPlace>>

(* Sixteen big-endian words of the data. *)
LoadWord ==
    /\ pc = "load"
    /\ W' = [W EXCEPT ![t] =
                IF \A bit \in 0 .. 31 :
                      LET byte == 4 * t + 3 - (bit \div 8)
                      IN  output[HalfAt + byte][bit % 8]
                            = Fr32Bit(512 * leaf + 8 * byte + (bit % 8))
                THEN Word("data", t) ELSE Junk]
    /\ Advance(15, "expand", 16)
    /\ UNCHANGED <<padding, PADDING_WK, registers, hash, leaf, inPlace>>

ExpandData ==
    /\ pc = "expand"
    /\ W' = Expand(W, "data")
    /\ Advance(63, "rounds", 0)
    /\ registers' = [k \in 0 .. 7 |-> Chain("data", k)]
    /\ hash' = registers'
    /\ UNCHANGED <<padding, PADDING_WK, leaf, inPlace>>

DataRound ==
    /\ pc = "rounds"
    /\ registers' = Round("data", AddK(W[t], t))
    /\ Advance(63, "chain", 0)
    /\ UNCHANGED <<padding, scratch, hash, leaf, inPlace>>

(* h0 .. h7, from which the padding block goes on. *)
ChainBlocks ==
    /\ pc = "chain"
    /\ hash' = [k \in 0 .. 7 |-> IF IsFinal("data", k) THEN Chain("padding", k) ELSE Junk]
    /\ registers' = hash'
    /\ pc' = "paddingRounds"
    /\ UNCHANGED <<padding, scratch, leaf, t, inPlace>>

PaddingRound ==
    /\ pc = "paddingRounds"
    /\ registers' = Round("padding", PADDING_WK[t])
    /\ Advance(63, "write", 0)
    /\ UNCHANGED <<padding, scratch, hash, leaf, inPlace>>

(* writeWord(): word t of the digest, most significant byte first. *)
WriteWord ==
    /\ pc = "write"
    /\ LET at == LeafAt(leaf) + 4 * t
       IN  output' = [n \in DOMAIN output |->
             IF n \notin at .. at + 3 THEN output[n]
             ELSE [b \in 0 .. 7 |->
                    IF IsFinal("padding", t)
                    THEN DigestBit(leaf, t, 8 * (3 - (n - at)) + b) ELSE Mixed]]
    /\ Advance(7, "truncate", 0)
    /\ UNCHANGED <<element, i, scratch, registers, hash, leaf, inPlace>>

Truncate ==
    /\ pc = "truncate"
    /\ output' = [output EXCEPT ![LeafAt(leaf) + NODE_SIZE - 1] = And63(@)]
    /\ IF leaf = 0 THEN leaf' = 1 /\ pc' = "load" ELSE pc' = "done" /\ UNCHANGED leaf
    /\ UNCHANGED <<element, i, scratch, registers, hash, t, inPlace>>

Next ==
    \/ ExpandPadding \/ AddPaddingK \/ PadQuad
    \/ LoadWord \/ ExpandData \/ DataRound \/ ChainBlocks \/ PaddingRound
    \/ WriteWord \/ Truncate

Spec == Init /\ [][Next]_vars

-----------------------------------------------------------------------------
(* FR32 holds until the leaves are written over it. *)
QuadPadded == pc \in {"pad", "load"} /\ leaf = 0 => Padded

(***************************************************************************)
(* Each leaf is the digest of the schedule and rounds FIPS 180-4 gives for *)
(* its own half of the padded quad, big-endian, its two top bits cleared,  *)
(* though the schedule W still holds the words of the call before and the  *)
(* result may overlap the data (fr32.js 81-85, sha256.js 46-51).           *)
(***************************************************************************)
LeavesRight ==
    pc = "done" =>
        \A n \in 0 .. 1, byte \in 0 .. NODE_SIZE - 1, b \in 0 .. 7 :
            output[LeafAt(n) + byte][b] =
                IF byte = NODE_SIZE - 1 /\ b >= 6 THEN Zero
                ELSE DigestBit(n, byte \div 4, 8 * (3 - (byte % 4)) + b)
=============================================================================
