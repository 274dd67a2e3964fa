----------------------------- MODULE CompareFrames -----------------------------
(***************************************************************************)
(* How the CLIs of compare/ read payloads from stdin: `hash` (one payload  *)
(* to the end of input) and `frames` (payloads behind length headers), in  *)
(* rust/src/main.rs and go/main.go, which fill a buffer with reads of any  *)
(* length, and in wasm.js, whose stream hands out chunks that do not       *)
(* respect any boundary.  A byte is named by its position in the stream.   *)
(* `bench` hashes a buffer repeated, a chunk at a time; a byte is named by *)
(* its position in the buffer.                                             *)
(***************************************************************************)
EXTENDS Integers, Sequences, FiniteSets, FiniteSetsExt

CONSTANTS
    FrameLists,   \* lists of payload sizes fed to a CLI
    READ_SIZES,   \* payloads are read in this cycle of sizes
    HEADER,       \* bytes of a length header, 8 in the code
    Benches,      \* arguments of bench: [size, iters, buf, chunk]
    WARM_UP,      \* bytes of the first pass, 8 << 20 in the code
    MIN_PAYLOAD   \* the Go library digests no less, 65

ASSUME FramesAssumption ==
    /\ HEADER \in Nat \ {0}
    /\ READ_SIZES \in Seq(Nat \ {0}) /\ READ_SIZES # <<>>
    /\ FrameLists \subseteq Seq(Nat)
    /\ MIN_PAYLOAD \in Nat /\ WARM_UP \in Nat \ {0} /\ MIN_PAYLOAD <= WARM_UP
    /\ \A b \in Benches : /\ {b.iters, b.buf} \subseteq Nat \ {0}
                          /\ {b.size, b.chunk} \subseteq Nat

Unlimited == -1
NoArgs == [size |-> 0, iters |-> 0, buf |-> 1, chunk |-> 0]

VARIABLES
    cli,      \* "rust" or "go", with a buffer, or "wasm", with a stream
    mode,     \* "hash", "frames" or "bench"
    args,     \* of bench
    frames,   \* the sizes written to stdin ...
    avail,    \* ... and where the input ends
    taken,    \* bytes read from stdin
    pending,  \* bytes of the current read, or Input.pending
    eof,      \* the read met the end of input
    stage,    \* "header", "body", "pass" or "exit"
    limit,    \* bytes of the payload left, or Unlimited
    round,    \* reads of the payload, or passes over the buffer
    hashed,   \* what the hasher was given
    results,  \* the lines of the out buffer, a payload each; written at the end
    broken,   \* a read has failed
    failed    \* exit status 1

input == <<cli, mode, args, frames, avail>>
framesVars == <<input, taken, pending, eof, stage, limit, round, hashed, results, broken, failed>>

(* Where the header of each frame begins; one more frame for the end. *)
Starts(sizes) ==
    LET start[f \in 1 .. Len(sizes) + 1] ==
            IF f = 1 THEN 0 ELSE start[f - 1] + HEADER + sizes[f - 1]
    IN  start

FrameStart(f) == Starts(frames)[f]

Bytes(from, to) == [k \in 1 .. to - from |-> from + k]

FramesInit ==
    /\ cli \in {"rust", "go", "wasm"}
    /\ \/ /\ mode = "frames" /\ stage = "header" /\ args = NoArgs
          /\ frames \in FrameLists /\ avail \in 0 .. FrameStart(Len(frames) + 1)
       \/ /\ mode = "hash" /\ stage = "body" /\ args = NoArgs
          /\ frames \in FrameLists /\ avail \in 0 .. FrameStart(Len(frames) + 1)
       \/ /\ mode = "bench" /\ stage = "pass" /\ args \in Benches
          /\ frames = <<>> /\ avail = 0
    /\ taken = 0 /\ pending = <<>> /\ eof = FALSE
    /\ limit = Unlimited /\ round = 0 /\ hashed = <<>> /\ results = <<>>
    /\ broken = FALSE /\ failed = FALSE

-----------------------------------------------------------------------------
ReadSize == READ_SIZES[(round % Len(READ_SIZES)) + 1]

(* Mutant: a read is not cut to the payload. *)
FillSizeUncut == IF stage = "header" THEN HEADER ELSE ReadSize

FillSize ==
    IF stage = "header" THEN HEADER
    ELSE IF limit # Unlimited /\ limit < ReadSize THEN limit ELSE ReadSize

(* hash_reader and hashInput leave their loop when nothing is left. *)
Reading == stage = "header" \/ (stage = "body" /\ limit # 0)

Filling == Reading /\ ~eof /\ Len(pending) < FillSize

(* read_full and io.ReadFull: a read of any length up to what is missing.  *)
(* An interrupted one changes nothing.                                     *)
Read ==
    /\ cli # "wasm" /\ Filling
    /\ \E n \in 1 .. FillSize - Len(pending) :
          /\ taken + n <= avail
          /\ pending' = pending \o Bytes(taken, taken + n)
          /\ taken' = taken + n
    /\ UNCHANGED <<input, broken, eof, stage, limit, round, hashed, results, failed>>

(* Input.read: the next chunk of the stream, which may hold many frames. *)
ReadChunk ==
    /\ cli = "wasm" /\ Filling
    /\ \E n \in 1 .. avail - taken :
          /\ pending' = pending \o Bytes(taken, taken + n)
          /\ taken' = taken + n
    /\ UNCHANGED <<input, broken, eof, stage, limit, round, hashed, results, failed>>

(* Mutant: the loop that fills a read goes on at the end of the input. *)
ReadEndOn ==
    /\ Filling /\ taken = avail
    /\ UNCHANGED framesVars

ReadEnd ==
    /\ Filling /\ taken = avail
    /\ eof' = TRUE
    /\ UNCHANGED <<input, broken, taken, pending, stage, limit, round, hashed, results, failed>>

(* Any other error of a read ends the process, and so does the rejection  *)
(* the stream's iterator throws.                                           *)
ReadFails ==
    /\ Filling
    /\ stage' = "exit" /\ broken' = TRUE /\ failed' = TRUE
    /\ UNCHANGED <<input, taken, pending, eof, limit, round, hashed, results>>

ReadDone == Reading /\ (eof \/ Len(pending) >= FillSize)

Out == SubSeq(pending, 1, IF Len(pending) < FillSize THEN Len(pending) ELSE FillSize)

(* Mutant: what a chunk holds past the read is dropped. *)
HandOutAll ==
    /\ pending' = <<>>
    /\ eof' = IF cli = "wasm" THEN eof ELSE FALSE

(* Mutant: the bytes handed out stay pending. *)
HandOutKept ==
    /\ UNCHANGED pending
    /\ eof' = IF cli = "wasm" THEN eof ELSE FALSE

(* Only wasm.js remembers that the input ended (this.done). *)
HandOut ==
    /\ pending' = SubSeq(pending, Len(Out) + 1, Len(pending))
    /\ eof' = IF cli = "wasm" THEN eof ELSE FALSE

(* The size a header holds; other bytes taken for a header mean anything,  *)
(* here a size no input holds.                                             *)
HeaderSize(bytes) ==
    IF \E f \in 1 .. Len(frames) : bytes = Bytes(FrameStart(f), FrameStart(f) + HEADER)
    THEN frames[CHOOSE f \in 1 .. Len(frames) :
                   bytes = Bytes(FrameStart(f), FrameStart(f) + HEADER)]
    ELSE avail + 1

ReadHeader ==
    /\ stage = "header" /\ ReadDone /\ Len(Out) = HEADER
    /\ HandOut
    /\ limit' = HeaderSize(Out) /\ round' = 0 /\ hashed' = <<>> /\ stage' = "body"
    /\ UNCHANGED <<input, broken, taken, results, failed>>

(* Mutant: a header cut short is taken for the end of the input. *)
EndOfFramesCut ==
    /\ stage = "header" /\ ReadDone /\ Len(Out) < HEADER
    /\ HandOut
    /\ stage' = "exit" /\ failed' = FALSE
    /\ UNCHANGED <<input, broken, taken, limit, round, hashed, results>>

(* No header ends the run; a part of one fails it. *)
EndOfFrames ==
    /\ stage = "header" /\ ReadDone /\ Len(Out) < HEADER
    /\ HandOut
    /\ stage' = "exit" /\ failed' = (Out # <<>>)
    /\ UNCHANGED <<input, broken, taken, limit, round, hashed, results>>

(* A full read of the payload. *)
ReadBody ==
    /\ stage = "body" /\ ReadDone /\ Len(Out) = FillSize
    /\ HandOut
    /\ hashed' = hashed \o Out /\ round' = round + 1
    /\ limit' = IF limit = Unlimited THEN Unlimited ELSE limit - Len(Out)
    /\ UNCHANGED <<input, broken, taken, stage, results, failed>>

(* Only Go's Digest refuses a payload, a short one. `hash` and `frames` then *)
(* print an error in place of the root and go on.                           *)
Refuses(payload) == cli = "go" /\ Len(payload) < MIN_PAYLOAD

ErrorLine == <<0>>  \* no byte of a stream has this position

Line(payload) == IF Refuses(payload) THEN ErrorLine ELSE payload

PrintResult ==
    /\ results' = Append(results, Line(hashed'))
    /\ stage' = IF mode = "frames" THEN "header" ELSE "exit"

(* A short one is the end of input: of the payload, or too early. *)
ReadLast ==
    /\ stage = "body" /\ ReadDone /\ Len(Out) < FillSize
    /\ HandOut
    /\ hashed' = hashed \o Out
    /\ IF limit = Unlimited THEN PrintResult /\ UNCHANGED failed
       ELSE stage' = "exit" /\ failed' = TRUE /\ UNCHANGED results
    /\ UNCHANGED <<input, broken, taken, limit, round>>

Finish ==
    /\ stage = "body" /\ limit = 0
    /\ UNCHANGED hashed /\ PrintResult
    /\ UNCHANGED <<input, broken, taken, pending, eof, limit, round, failed>>

-----------------------------------------------------------------------------
(* hash_buffer and its callers: a pass to warm up, then iters measured     *)
(* ones.  What has been hashed is as long as the offset.                   *)
PassSize == IF round = 0 /\ args.size > WARM_UP THEN WARM_UP ELSE args.size

WriteLen(off) == Min({args.chunk, args.buf - (off % args.buf), PassSize - off})

WriteRepeated ==
    /\ stage = "pass" /\ Len(hashed) < PassSize
    /\ LET pos == Len(hashed) % args.buf
       IN  hashed' = hashed \o Bytes(pos, pos + WriteLen(Len(hashed)))
    /\ UNCHANGED <<input, broken, taken, pending, eof, stage, limit, round, results, failed>>

(* The result is the last pass's, the first one's is dropped. *)
PassDone ==
    /\ stage = "pass" /\ Len(hashed) >= PassSize /\ ~Refuses(hashed)
    /\ results' = IF round = 0 THEN <<>> ELSE <<hashed>>
    /\ hashed' = <<>> /\ round' = round + 1
    /\ stage' = IF round = args.iters THEN "exit" ELSE stage
    /\ UNCHANGED <<input, broken, taken, pending, eof, limit, failed>>

(* A benchmark fails when the digest is refused. *)
PassRefused ==
    /\ stage = "pass" /\ Len(hashed) >= PassSize /\ Refuses(hashed)
    /\ stage' = "exit" /\ failed' = TRUE
    /\ UNCHANGED <<input, broken, taken, pending, eof, limit, round, hashed, results>>

-----------------------------------------------------------------------------
Step ==
    \/ WriteRepeated \/ PassDone \/ PassRefused
    \/ Read \/ ReadChunk \/ ReadEnd
    \/ ReadHeader \/ EndOfFrames
    \/ ReadBody \/ ReadLast \/ Finish

FramesNext == Step \/ ReadFails

(* The process runs on and its reads return, as input comes from a file;   *)
(* nothing makes one fail.                                                 *)
FramesSpec == FramesInit /\ [][FramesNext]_framesVars /\ WF_framesVars(Step)

-----------------------------------------------------------------------------
FramesTypeOK ==
    /\ taken \in 0 .. avail /\ Len(pending) <= taken
    /\ eof \in BOOLEAN /\ broken \in BOOLEAN /\ failed \in BOOLEAN
    /\ stage \in {"header", "body", "pass", "exit"}
    /\ limit \in Nat \union {Unlimited} /\ round \in Nat
    /\ (cli # "wasm" /\ Reading) => Len(pending) <= FillSize
    /\ (cli # "wasm" /\ stage = "exit" /\ ~broken) => pending = <<>>

(***************************************************************************)
(* Every payload that is hashed is the one its header announces, byte for  *)
(* byte: nothing of a neighbouring frame or header, whatever the lengths   *)
(* the reads and chunks have (main.rs 91-140, wasm.js 54-72); where Go     *)
(* refuses it, its line is the error's and the frames after it keep their  *)
(* lines (main.go 331-337).  A benchmark gives the root of the buffer      *)
(* repeated to its size, however the chunks meet the buffer's end, so that *)
(* its roots compare between CLIs (main.go 9-11).                          *)
(***************************************************************************)
Payload(f) == CASE mode = "hash" -> Bytes(0, avail)
                [] mode = "frames" -> Bytes(FrameStart(f) + HEADER, FrameStart(f + 1))
                [] mode = "bench" -> [k \in 1 .. args.size |-> 1 + ((k - 1) % args.buf)]

PayloadsExact == \A f \in 1 .. Len(results) : results[f] = Line(Payload(f))

(***************************************************************************)
(* A run fails if and only if its input ends inside a frame or cannot be   *)
(* read, or Go refuses a benchmark's payload; and it has a line for each   *)
(* frame before that: a payload cut short is never hashed as a shorter one *)
(* (main.rs 112-114, 136, 147-151, main.go 284-287).                       *)
(***************************************************************************)
BenchRefused == mode = "bench" /\ cli = "go" /\ args.size < MIN_PAYLOAD

CutInputFails ==
    LET ends == {FrameStart(f) : f \in 1 .. Len(frames) + 1}
        whole == {f \in 1 .. Len(frames) : FrameStart(f + 1) <= avail}
    IN  stage = "exit" =>
          /\ failed <=> \/ broken \/ BenchRefused
                        \/ mode = "frames" /\ avail \notin ends
          /\ ~broken => Len(results) = CASE mode = "frames" -> Cardinality(whole)
                                          [] BenchRefused -> 0
                                          [] OTHER -> 1

(* The loops over frames, reads and chunks end, also on input of no bytes  *)
(* and on chunks longer than what is left; but chunks of no bytes, which   *)
(* no CLI refuses, repeat for ever (main.rs 197-214, main.go 275-289).     *)
Endless == mode = "bench" /\ args.chunk = 0 /\ args.size > 0

Exits == IF Endless THEN [](stage # "exit") ELSE <>(stage = "exit")
=============================================================================
