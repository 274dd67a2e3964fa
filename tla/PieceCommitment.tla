---------------------------- MODULE PieceCommitment ----------------------------
(***************************************************************************)
(* What a CommP hasher promises its caller (the doc comments of            *)
(* CommPHasher in rs/commp/src/hasher.rs and the StreamingHasher           *)
(* interface of packages/commp-js): it takes bytes in any pieces, refuses  *)
(* a write that would exceed the largest payload and keeps what it had,    *)
(* and answers at any moment with the commitment of the bytes so far.      *)
(***************************************************************************)
EXTENDS QuadLeaves

CONSTANTS
    MaxPayload,  \* MAX_PAYLOAD_SIZE
    WriteSizes,  \* lengths a caller may write
    MaxBase      \* bound: resets are explored up to this stream position

VARIABLES
    base,     \* stream position of the payload's first byte
    size,     \* bytes accepted since
    outcome,  \* of the last write: "ok" or "RangeError"
    answer    \* the last digest, while the payload is the one it covers

NoAnswer == [padding |-> 0, height |-> 0, root |-> Junk]

vars == <<base, size, outcome, answer>>

Init == base = 0 /\ size = 0 /\ outcome = "ok" /\ answer = NoAnswer

Accept(len) ==
    /\ size + len <= MaxPayload
    /\ size' = size + len
    /\ outcome' = "ok"
    /\ answer' = IF len = 0 THEN answer ELSE NoAnswer
    /\ UNCHANGED base

Refuse(len) ==
    /\ size + len > MaxPayload
    /\ outcome' = "RangeError"
    /\ UNCHANGED <<base, size, answer>>

Answer ==
    \E k \in 0 .. MAX_LEVEL :
        /\ answer' = [padding |-> Q * Pow[k] - size,
                      height  |-> k + 2,
                      root    |-> IF size = 0 THEN Zero(k + 2)
                                  ELSE Extent(k + 2, 2 * base, 2 * (base + size))]
        /\ IsCommitment(answer', base, size)
        /\ UNCHANGED <<base, size, outcome>>

Restart ==
    /\ base + size <= MaxBase
    /\ base' = base + size
    /\ size' = 0
    /\ outcome' = "ok"
    /\ answer' = NoAnswer

Next == (\E len \in WriteSizes : Accept(len) \/ Refuse(len)) \/ Answer \/ Restart

Spec == Init /\ [][Next]_vars

(* Between digests the promise does not change under the caller. *)
AnswerIsCommitment == answer # NoAnswer => IsCommitment(answer, base, size)
=============================================================================
