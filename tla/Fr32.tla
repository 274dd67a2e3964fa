--------------------------------- MODULE Fr32 ---------------------------------
(***************************************************************************)
(* fr32_pad of rs/commp/src/fr32.rs and fr32PadInto of packages/commp-js,  *)
(* at their real sizes, one output byte a step.  A bit is named by its     *)
(* position in the quad; a byte is its eight bits, lowest first.           *)
(***************************************************************************)
EXTENDS Integers

IN_BYTES_PER_QUAD == 127
OUT_BYTES_PER_QUAD == 128

Zero == -1    \* a bit that is 0
Mixed == -2   \* two bits or-ed together
Stale == -3   \* a bit of the quad padded before: the buffer is reused

VARIABLES
    output,   \* memory whose first 128 bytes are the buffer
    element,  \* the field element being written, 0 .. 3
    i         \* the next byte

padding == <<output, element, i>>

Source(n) == [b \in 0 .. 7 |-> 8 * n + b]

(* The u8 operators; JavaScript truncates when it stores the byte. *)
Shl(byte, k) == [b \in 0 .. 7 |-> IF b >= k THEN byte[b - k] ELSE Zero]
Shr(byte, k) == [b \in 0 .. 7 |-> IF b + k <= 7 THEN byte[b + k] ELSE Zero]
Or(x, y) == [b \in 0 .. 7 |-> IF x[b] = Zero THEN y[b]
                              ELSE IF y[b] = Zero THEN x[b] ELSE Mixed]
And63(byte) == [b \in 0 .. 7 |-> IF b < 6 THEN byte[b] ELSE Zero]

(* Mutant: the last element is shifted like the one before. *)
PaddedByteShift4(n) ==
    IF element = 0 THEN Source(n)
    ELSE IF element = 3 THEN Or(Shl(Source(n), 4), Shr(Source(n - 1), 4))
    ELSE Or(Shl(Source(n), 2 * element), Shr(Source(n - 1), 8 - 2 * element))

PaddedByte(n) ==
    IF element = 0 THEN Source(n)
    ELSE Or(Shl(Source(n), 2 * element), Shr(Source(n - 1), 8 - 2 * element))

(* The four loops; the source of the last one ends a byte early. *)
PadByte ==
    /\ i < 32 * (element + 1) /\ i < IN_BYTES_PER_QUAD
    /\ output' = [output EXCEPT ![i] = PaddedByte(i)]
    /\ i' = i + 1
    /\ UNCHANGED element

(* output[31], [63] and [95] &= 0b00111111 *)
ClearTopBits ==
    /\ element < 3 /\ i = 32 * (element + 1)
    /\ output' = [output EXCEPT ![i - 1] = And63(@)]
    /\ element' = element + 1
    /\ UNCHANGED i

LastByte ==
    /\ element = 3 /\ i = IN_BYTES_PER_QUAD
    /\ output' = [output EXCEPT ![i] = Shr(Source(i - 1), 2)]
    /\ i' = i + 1
    /\ UNCHANGED element

PadStep == PadByte \/ ClearTopBits \/ LastByte

-----------------------------------------------------------------------------
(* Bit n of a padded quad. *)
Fr32Bit(n) == IF n % 256 < 254 THEN 254 * (n \div 256) + (n % 256) ELSE Zero

(***************************************************************************)
(* FR32: output element e holds the 254 source bits from 254 e on and two  *)
(* zero bits (fr32.rs 1-8), whatever the buffer held before.  So the two   *)
(* halves that are hashed to leaves hold 508 bits of the quad each, in     *)
(* order, none lost or twice.                                              *)
(***************************************************************************)
Padded ==
    \A n \in 0 .. 8 * OUT_BYTES_PER_QUAD - 1 :
        n \div 256 < element \/ i = OUT_BYTES_PER_QUAD =>
            output[n \div 8][n % 8] = Fr32Bit(n)
=============================================================================
