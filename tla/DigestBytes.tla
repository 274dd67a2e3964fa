------------------------------ MODULE DigestBytes ------------------------------
(***************************************************************************)
(* The multihash bytes of a digest: encode_digest of rs/commp/src/         *)
(* multihash.rs, which appends to a Vec, and the encoder inside digest()   *)
(* of packages/commp-js/src/index.js, which measures first and then writes *)
(* into a Uint8Array of that length; and the decoder in digest() of        *)
(* packages/commp-wasm/src/api.js.  BASE is 128 in the code.               *)
(***************************************************************************)
EXTENDS Integers, Sequences

CONSTANTS
    BASE,             \* values of the low bits of a varint byte
    MULTIHASH_CODE,   \* encoded in CODE_SIZE bytes
    Root,             \* the bytes of the root
    Paddings, Heights

ASSUME BytesAssumption ==
    /\ BASE \in Nat /\ BASE >= 2
    /\ MULTIHASH_CODE \in BASE .. BASE * BASE - 1
    /\ Paddings \subseteq Nat /\ Heights \subseteq 0 .. 2 * BASE - 1
    /\ Root \in Seq(0 .. 2 * BASE - 1)

CODE_SIZE == 2
HEIGHT_SIZE == 1
ROOT_SIZE == Len(Root)

VARIABLES
    encoder,          \* "rust" or "js"
    padding, height,  \* what is encoded
    stage,            \* of the call
    num,              \* what varint_encode or encodingLength has left
    length,           \* what varint_len or encodingLength counted
    digestSizeLength, \* JavaScript only
    bytes,            \* the Vec, or the Uint8Array
    pos,              \* next byte, JavaScript only
    decoded           \* what the decoder returned

bytesVars == <<encoder, padding, height, stage, num, length, digestSizeLength, bytes, pos, decoded>>

DigestSize == length + HEIGHT_SIZE + ROOT_SIZE

NotDecoded == [digest |-> <<>>, padding |-> -1, height |-> -1, root |-> <<>>]

BytesInit ==
    /\ encoder \in {"rust", "js"} /\ padding \in Paddings /\ height \in Heights
    /\ stage = "measure" /\ num = padding /\ length = 1
    /\ digestSizeLength = 0 /\ bytes = <<>> /\ pos = 0 /\ decoded = NotDecoded

input == <<encoder, padding, height>>

-----------------------------------------------------------------------------
(* varint_len and encodingLength, over the padding; JavaScript measures    *)
(* the digest size as well.                                                *)
Measuring == stage \in {"measure", "measureSize"}
Length == IF stage = "measure" THEN length ELSE digestSizeLength

Measure ==
    /\ Measuring /\ num >= BASE
    /\ num' = num \div BASE
    /\ IF stage = "measure" THEN length' = length + 1 /\ UNCHANGED digestSizeLength
                         ELSE digestSizeLength' = digestSizeLength + 1 /\ UNCHANGED length
    /\ UNCHANGED <<input, stage, bytes, pos, decoded>>

Measured ==
    /\ stage = "measure" /\ num < BASE
    /\ IF encoder = "js"
       THEN stage' = "measureSize" /\ num' = DigestSize /\ digestSizeLength' = 1
       ELSE stage' = "code" /\ num' = MULTIHASH_CODE /\ UNCHANGED digestSizeLength
    /\ UNCHANGED <<input, length, bytes, pos, decoded>>

(* new Uint8Array(totalSize) *)
Allocate ==
    /\ stage = "measureSize" /\ num < BASE
    /\ bytes' = [i \in 1 .. CODE_SIZE + digestSizeLength + DigestSize |-> 0]
    /\ stage' = "code" /\ num' = MULTIHASH_CODE
    /\ UNCHANGED <<input, length, digestSizeLength, pos, decoded>>

(* push, or an assignment that a Uint8Array drops past its end *)
Put(values) ==
    IF encoder = "rust"
    THEN bytes' = bytes \o values /\ UNCHANGED pos
    ELSE /\ bytes' = [i \in 1 .. Len(bytes) |->
                         IF i - pos \in 1 .. Len(values) THEN values[i - pos] ELSE bytes[i]]
         /\ pos' = pos + Len(values)

Field == stage \in {"code", "size", "padding"}

(* The loop of varint_encode and encodeTo: seven bits and the mark. *)
PutVarintByte ==
    /\ Field /\ num >= BASE
    /\ Put(<<(num % BASE) + BASE>>)
    /\ num' = num \div BASE
    /\ UNCHANGED <<input, stage, length, digestSizeLength, decoded>>

(* Mutant: the size counts the root and the height only. *)
PutLastByteShortSize ==
    /\ Field /\ num < BASE
    /\ Put(<<num>>)
    /\ \/ stage = "code" /\ stage' = "size" /\ num' = HEIGHT_SIZE + ROOT_SIZE
       \/ stage = "size" /\ stage' = "padding" /\ num' = padding
       \/ stage = "padding" /\ stage' = "tree" /\ num' = 0
    /\ UNCHANGED <<input, length, digestSizeLength, decoded>>

(* The last byte of a field, and the next field. *)
PutLastByte ==
    /\ Field /\ num < BASE
    /\ Put(<<num>>)
    /\ \/ stage = "code" /\ stage' = "size" /\ num' = DigestSize
       \/ stage = "size" /\ stage' = "padding" /\ num' = padding
       \/ stage = "padding" /\ stage' = "tree" /\ num' = 0
    /\ UNCHANGED <<input, length, digestSizeLength, decoded>>

(* The height byte and the root. *)
PutTree ==
    /\ stage = "tree"
    /\ Put(<<height>> \o Root)
    /\ stage' = "encoded"
    /\ UNCHANGED <<input, num, length, digestSizeLength, decoded>>

-----------------------------------------------------------------------------
(* decode of commp-wasm/src/varint.js: the bytes of the varint at offset,  *)
(* up to the first without the mark; a byte past the end reads undefined,  *)
(* which has no mark.                                                      *)
VarintLength(offset) ==
    CHOOSE len \in 1 .. Len(bytes) + 1 :
        /\ \A k \in 1 .. len - 1 : offset + k <= Len(bytes) /\ bytes[offset + k] >= BASE
        /\ offset + len > Len(bytes) \/ bytes[offset + len] < BASE

(* Each byte is worth BASE times the one before it; the last has no mark. *)
VarintValue(offset) ==
    LET digits == SubSeq(bytes, offset + 1, offset + VarintLength(offset))
        value[k \in 1 .. Len(digits) + 1] ==
            IF k > Len(digits) THEN 0 ELSE (digits[k] % BASE) + BASE * value[k + 1]
    IN  value[1]

(* Mutant: the size is taken to be one byte. *)
DecodeByteSize ==
    /\ stage = "encoded" /\ encoder = "rust"
    /\ LET digestStart == VarintLength(0) + 1 IN
       decoded' = [digest |-> SubSeq(bytes, digestStart + 1, Len(bytes)),
                   padding |-> VarintValue(digestStart),
                   height |-> bytes[Len(bytes) - ROOT_SIZE],
                   root |-> SubSeq(bytes, Len(bytes) - ROOT_SIZE + 1, Len(bytes))]
    /\ stage' = "decoded"
    /\ UNCHANGED <<input, num, length, digestSizeLength, bytes, pos>>

(* The wasm wrapper reads the fields back from the bytes. *)
Decode ==
    /\ stage = "encoded" /\ encoder = "rust"
    /\ LET codeLength == VarintLength(0)
           digestStart == codeLength + VarintLength(codeLength)
       IN  decoded' = [digest |-> SubSeq(bytes, digestStart + 1, Len(bytes)),
                       padding |-> VarintValue(digestStart),
                       height |-> bytes[Len(bytes) - ROOT_SIZE],
                       root |-> SubSeq(bytes, Len(bytes) - ROOT_SIZE + 1, Len(bytes))]
    /\ stage' = "decoded"
    /\ UNCHANGED <<input, num, length, digestSizeLength, bytes, pos>>

(* The JavaScript hasher returns what it has: digest is a view of bytes. *)
ReturnParts ==
    /\ stage = "encoded" /\ encoder = "js"
    /\ decoded' = [digest |-> SubSeq(bytes, CODE_SIZE + digestSizeLength + 1, Len(bytes)),
                   padding |-> padding, height |-> height, root |-> Root]
    /\ stage' = "decoded"
    /\ UNCHANGED <<input, num, length, digestSizeLength, bytes, pos>>

BytesNext ==
    \/ Measure \/ Measured \/ Allocate
    \/ PutVarintByte \/ PutLastByte \/ PutTree
    \/ Decode \/ ReturnParts

BytesSpec == BytesInit /\ [][BytesNext]_bytesVars

-----------------------------------------------------------------------------
(* Base-BASE digits, least significant first, all but the last marked. *)
Varint[value \in Nat] ==
    IF value < BASE THEN <<value>> ELSE <<(value % BASE) + BASE>> \o Varint[value \div BASE]

(***************************************************************************)
(* Both encoders produce the same bytes, [code, digest size, padding,      *)
(* height, root] (multihash.rs 6), with the size of what follows it: the   *)
(* lengths measured beforehand agree with the bytes written, at every      *)
(* boundary of the varints.                                                *)
(***************************************************************************)
Multihash ==
    stage \in {"encoded", "decoded"} =>
        LET digest == Varint[padding] \o <<height>> \o Root
        IN  bytes = Varint[MULTIHASH_CODE] \o Varint[Len(digest)] \o digest

(***************************************************************************)
(* The fields of a digest are those that were encoded, from either package,*)
(* and its digest is the multihash without code and size                   *)
(* (commp-wasm/src/types.ts 27: padding + height + root).                  *)
(***************************************************************************)
FieldsRoundTrip ==
    stage = "decoded" =>
        decoded = [digest |-> Varint[padding] \o <<height>> \o Root,
                   padding |-> padding, height |-> height, root |-> Root]

=============================================================================
