------------------------------ MODULE WasmHasher ------------------------------
(***************************************************************************)
(* The JavaScript side of packages/commp-wasm: class Hasher and the        *)
(* one-shot calls of api.js over the wasm-bindgen class of                 *)
(* inline/commp_bg.js.  The Rust hasher in linear memory is taken for what *)
(* PieceCommitment promises.  Modelled are the ownership of its pointer    *)
(* (free, finalization, reuse by the allocator), the chunked writes, and   *)
(* the cached views of a memory whose buffer is replaced when it grows.    *)
(* JavaScript runs a call to its end before anything else, finalizers      *)
(* included.                                                               *)
(***************************************************************************)
EXTENDS QuadLeaves

CONSTANTS
    Wrappers,       \* hashers create() may return, one call each
    Local,          \* the hasher of a one-shot call
    Pointers,       \* addresses the allocator has for CommPHasher structs
    CHUNK_SIZE,     \* 1 << 20
    PAYLOAD_LEVEL,  \* MAX_PAYLOAD_SIZE = Q * 2^PAYLOAD_LEVEL (47)
    WriteSizes,     \* bound: lengths of the arrays a caller passes
    MaxBase,        \* bound: resets are explored up to this position
    MaxGrowth,      \* bound: times the memory grows
    MaxLost         \* bound: writes on freed hashers that reach Rust

ASSUME WasmAssumption ==
    /\ Local \notin Wrappers
    /\ Pointers \subseteq Nat \ {0}
    /\ PAYLOAD_LEVEL \in Nat /\ PAYLOAD_LEVEL + 2 <= MAX_LEVEL
    /\ CHUNK_SIZE \in 1 .. Q * Pow[PAYLOAD_LEVEL]
    /\ WriteSizes \subseteq 0 .. Q * Pow[PAYLOAD_LEVEL]
    /\ MaxBase \in Nat /\ MaxGrowth \in Nat /\ MaxLost \in Nat

MAX_PAYLOAD_SIZE == Q * Pow[PAYLOAD_LEVEL]
Objects == Wrappers \cup {Local}

VARIABLES
    (* the wasm instance *)
    structs,       \* structs[p]: the CommPHasher at address p, or Freed
    memory,        \* how often memory.buffer has been replaced
    stackPointer,  \* bytes below its initial value
    blocks,        \* allocated buffers: a chunk passed in, a digest passed out
    (* module variables of commp_bg.js *)
    bytesView,     \* the memory cachedUint8ArrayMemory0 was made from
    dataView,      \* the memory cachedDataViewMemory0 was made from
    registry,      \* CommPHasherFinalization: registry[w] is 0 or a pointer
    heap,          \* the slab of thrown objects, past its 132 reserved cells
    heap_next,     \* its first free cell
    (* the objects *)
    ptr,           \* __wbg_ptr, 0 before the constructor and after free()
    life,          \* "new", "held" by the program, or "dropped"
    (* the callers' view *)
    outcome,       \* how the last call on the hasher ended
    answer,        \* the last digest, until the payload changes
    lost,          \* writes on freed hashers that reached Rust
    (* the call in progress *)
    pc,            \* "idle", "chunk", "copy", "write", "check", "hash", "read", "leave"
    self, method,  \* "write", "digest" on a wrapper; "one-shot", "root"
    input, offset,
    got,           \* the commitment Rust returned
    thrown,        \* the cell of the error Rust returned, or 0
    error          \* the exception in flight, or ""

wasm == <<structs, memory, stackPointer, blocks>>
slab == <<heap, heap_next>>
glue == <<bytesView, dataView, registry, slab>>
caller == <<outcome, answer, lost>>
call == <<pc, self, method, input, offset, got, thrown, error>>
vars == <<wasm, glue, ptr, life, caller, call>>

RangeErrorObject == 0  \* in a cell of the slab; a free cell links to the next
Freed == [base |-> -1, size |-> 0, intact |-> FALSE]
Struct(base) == [base |-> base, size |-> 0, intact |-> TRUE]
NoAnswer == [padding |-> 0, height |-> 0, root |-> Junk]
NoInput == [first |-> 0, len |-> 0]

Init ==
    /\ structs = [p \in Pointers |-> Freed] /\ memory = 0 /\ stackPointer = 0
    /\ blocks = 0 /\ heap = <<>> /\ heap_next = 1
    /\ bytesView = -1 /\ dataView = -1 /\ registry = [w \in Objects |-> 0]
    /\ ptr = [w \in Objects |-> 0] /\ life = [w \in Objects |-> "new"]
    /\ outcome = [w \in Wrappers |-> "ok"] /\ answer = [w \in Wrappers |-> NoAnswer]
    /\ lost = 0
    /\ pc = "idle" /\ self = Local /\ method = "" /\ input = NoInput /\ offset = 0
    /\ got = NoAnswer /\ thrown = 0 /\ error = ""

(* Any allocation may grow the memory and so replace its buffer. *)
MayGrow == memory' \in {memory, memory + 1} \cap 0 .. MaxGrowth

(* Mutant: a view is made once. *)
RefreshOnce(view) == IF view = -1 THEN memory ELSE view

(* getUint8ArrayMemory0, getDataViewMemory0: a cached view whose buffer is *)
(* gone is made anew.                                                      *)
Refresh(view) == IF view = memory THEN view ELSE memory

(* addHeapObject, takeObject *)
AddHeapObject(obj) ==
    LET cells == IF heap_next > Len(heap) THEN Append(heap, Len(heap) + 2) ELSE heap
    IN  /\ heap' = [cells EXCEPT ![heap_next] = obj]
        /\ heap_next' = cells[heap_next]

TakeObject(idx) == heap' = [heap EXCEPT ![idx] = heap_next] /\ heap_next' = idx

-----------------------------------------------------------------------------
(* The constructor and free() of commp_bg.js, and the garbage collector.   *)

New(w) ==
    /\ \E p \in Pointers :
          /\ structs[p] = Freed
          /\ structs' = [structs EXCEPT ![p] = Struct(0)]
          /\ ptr' = [ptr EXCEPT ![w] = p]
          /\ registry' = [registry EXCEPT ![w] = p]
    /\ life' = [life EXCEPT ![w] = "held"]
    /\ MayGrow
    /\ UNCHANGED <<stackPointer, blocks, bytesView, dataView, slab>>

(* Mutant: the finalizer is not unregistered. *)
FreeKeepsRegistration(w) ==
    /\ structs' = [structs EXCEPT ![ptr[w]] = Freed]
    /\ ptr' = [ptr EXCEPT ![w] = 0]
    /\ UNCHANGED registry

Free(w) ==
    /\ structs' = [structs EXCEPT ![ptr[w]] = Freed]
    /\ ptr' = [ptr EXCEPT ![w] = 0]
    /\ registry' = [registry EXCEPT ![w] = 0]

Create(w) ==
    /\ pc = "idle" /\ life[w] = "new"
    /\ New(w)
    /\ UNCHANGED <<caller, call>>

Dispose(w) ==
    /\ pc = "idle" /\ life[w] = "held" /\ ptr[w] # 0
    /\ Free(w)
    /\ UNCHANGED <<memory, stackPointer, blocks, bytesView, dataView, slab, life, caller,
                   call>>

Disposed(w) == pc = "idle" /\ life[w] = "held" /\ ptr[w] = 0

(* After free() every call hands Rust a null pointer, and Rust throws an    *)
(* error whose message is read through the bytes view; count() does so for *)
(* a write of more than a chunk. A write of nothing makes no call.         *)
CallDisposed(w) ==
    /\ Disposed(w)
    /\ \E end \in {"Error", "ok"} :
          /\ outcome' = [outcome EXCEPT ![w] = end]
          /\ bytesView' = IF end = "Error" THEN Refresh(bytesView) ELSE bytesView
    /\ UNCHANGED <<wasm, dataView, registry, slab, ptr, life, answer, lost, call>>

(* Another write allocates and fills a buffer for its chunk first, as it   *)
(* does on a live hasher. The null pointer throws before Rust takes the    *)
(* buffer over, and `finally` only restores the stack: it is never freed.  *)
WriteDisposed(w, len) ==
    /\ Disposed(w)
    /\ 0 < len /\ len <= CHUNK_SIZE
    /\ lost < MaxLost
    /\ MayGrow
    /\ blocks' = blocks + 1 /\ lost' = lost + 1
    /\ bytesView' = memory'
    /\ outcome' = [outcome EXCEPT ![w] = "Error"]
    /\ UNCHANGED <<structs, stackPointer, dataView, registry, slab, ptr, life, answer, call>>

(* Unless the memory cannot grow and malloc traps. *)
WriteDisposedTraps(w, len) ==
    /\ Disposed(w)
    /\ 0 < len /\ len <= CHUNK_SIZE
    /\ outcome' = [outcome EXCEPT ![w] = "RuntimeError"]
    /\ UNCHANGED <<wasm, glue, ptr, life, answer, lost, call>>

Drop(w) ==
    /\ pc = "idle" /\ life[w] = "held"
    /\ life' = [life EXCEPT ![w] = "dropped"]
    /\ UNCHANGED <<wasm, glue, ptr, caller, call>>

(* The finalizer of an unreachable wrapper frees what it registered. *)
Finalize(w) ==
    /\ pc = "idle" /\ life[w] = "dropped" /\ registry[w] # 0
    /\ structs' = [structs EXCEPT ![registry[w]] = Freed]
    /\ registry' = [registry EXCEPT ![w] = 0]
    /\ ptr' = [ptr EXCEPT ![w] = 0]
    /\ UNCHANGED <<memory, stackPointer, blocks, bytesView, dataView, slab, life, caller,
                   call>>

-----------------------------------------------------------------------------
(* Hasher.write: the whole write is checked first when it takes chunks. *)

Inner(w) == structs[ptr[w]]
Usable(w) == pc = "idle" /\ life[w] = "held" /\ ptr[w] # 0

(* Mutant: only the chunk is checked, in Rust. *)
TooLongChunk(w, len) == len > CHUNK_SIZE /\ Inner(w).size + CHUNK_SIZE > MAX_PAYLOAD_SIZE

TooLong(w, len) == len > CHUNK_SIZE /\ Inner(w).size + len > MAX_PAYLOAD_SIZE

WriteRefused(w, len) ==
    /\ Usable(w)
    /\ TooLong(w, len)
    /\ outcome' = [outcome EXCEPT ![w] = "RangeError"]
    /\ UNCHANGED <<wasm, glue, ptr, life, answer, lost, call>>

BeginWrite(w, len) ==
    /\ Usable(w)
    /\ ~ TooLong(w, len)
    /\ self' = w /\ method' = "write"
    /\ input' = [first |-> Inner(w).base + Inner(w).size, len |-> len]
    /\ pc' = "chunk"
    /\ UNCHANGED <<wasm, glue, ptr, life, caller, offset, got, thrown, error>>

(* digest() and root() of a whole payload, on a hasher of their own; root  *)
(* of one chunk needs none.                                                *)
BeginOneShot(len) ==
    /\ pc = "idle"
    /\ New(Local)
    /\ self' = Local /\ method' = "one-shot"
    /\ input' = [first |-> 0, len |-> len]
    /\ pc' = "chunk"
    /\ UNCHANGED <<caller, offset, got, thrown, error>>

(* The commitment Rust computes for a hasher. *)
Commitment(s) ==
    LET k == CHOOSE i \in 0 .. MAX_LEVEL :
                /\ s.size <= Q * Pow[i]
                /\ i > 0 => Q * Pow[i - 1] < s.size
    IN  [padding |-> Q * Pow[k] - s.size, height |-> k + 2,
         root |-> IF ~ s.intact THEN Junk
                  ELSE IF s.size = 0 THEN Zero(k + 2)
                  ELSE Extent(k + 2, 2 * s.base, 2 * (s.base + s.size))]

RootOfChunk(len) ==
    /\ pc = "idle" /\ len <= CHUNK_SIZE
    /\ MayGrow
    /\ bytesView' = memory' /\ dataView' = memory'
    /\ self' = Local /\ method' = "root" /\ input' = [first |-> 0, len |-> len]
    /\ got' = Commitment([Struct(0) EXCEPT !.size = len])
    /\ pc' = "leave"
    /\ UNCHANGED <<structs, stackPointer, blocks, registry, slab, ptr, life, caller,
                   offset, thrown, error>>

-----------------------------------------------------------------------------
(* CommPHasher.write of commp_bg.js, for each chunk: room for the input is *)
(* allocated, the chunk copied, Rust called, its verdict read.             *)

(* Mutant: subarray(offset, CHUNK_SIZE), an end in place of a length. *)
ChunkLenToEnd ==
    IF offset >= CHUNK_SIZE THEN 0
    ELSE IF input.len < CHUNK_SIZE THEN input.len ELSE CHUNK_SIZE

ChunkLen == IF input.len - offset < CHUNK_SIZE THEN input.len - offset ELSE CHUNK_SIZE

NextChunk ==
    /\ pc = "chunk" /\ offset < input.len
    /\ MayGrow
    /\ stackPointer' = stackPointer + 16
    /\ blocks' = blocks + 1
    /\ pc' = "copy"
    /\ UNCHANGED <<structs, glue, ptr, life, caller, self, method, input, offset,
                   got, thrown, error>>

(* The memory cannot grow: malloc traps and `finally` restores the stack. *)
MallocTraps ==
    /\ pc = "chunk" /\ offset < input.len
    /\ error' = "RuntimeError"
    /\ pc' = "leave"
    /\ UNCHANGED <<wasm, glue, ptr, life, caller, self, method, input, offset, got,
                   thrown>>

(* Using a view of a replaced buffer throws a TypeError. *)
CopyChunk ==
    /\ pc = "copy"
    /\ bytesView' = Refresh(bytesView)
    /\ IF bytesView' = memory
       THEN pc' = "write" /\ UNCHANGED <<error, stackPointer>>
       ELSE pc' = "leave" /\ error' = "TypeError" /\ stackPointer' = stackPointer - 16
    /\ UNCHANGED <<structs, memory, blocks, dataView, registry, slab, ptr, life,
                   caller, self, method, input, offset, got, thrown>>

(* Rust takes the chunk's buffer over; an error it returns is an object of  *)
(* the slab.                                                               *)
RustWrite ==
    /\ pc = "write"
    /\ LET s == Inner(self)
       IN  IF s.size + ChunkLen > MAX_PAYLOAD_SIZE
           THEN /\ AddHeapObject(RangeErrorObject) /\ thrown' = heap_next
                /\ UNCHANGED structs
           ELSE /\ structs' = [structs EXCEPT ![ptr[self]] =
                     [s EXCEPT !.size = @ + ChunkLen,
                               !.intact = @ /\ input.first + offset = s.base + s.size]]
                /\ UNCHANGED <<slab, thrown>>
    /\ blocks' = blocks - 1
    /\ MayGrow
    /\ pc' = "check"
    /\ UNCHANGED <<stackPointer, bytesView, dataView, registry, ptr, life, caller, self,
                   method, input, offset, got, error>>

(* Mutant: the next chunk overlaps this one. *)
AdvanceOverlaps == offset' = offset + (IF CHUNK_SIZE > 1 THEN CHUNK_SIZE - 1 ELSE 1)

Advance == offset' = offset + CHUNK_SIZE

CheckWrite ==
    /\ pc = "check"
    /\ dataView' = Refresh(dataView)
    /\ IF dataView' # memory THEN error' = "TypeError" /\ UNCHANGED <<slab, thrown>>
       ELSE IF thrown # 0
       THEN /\ error' = IF heap[thrown] = RangeErrorObject THEN "RangeError" ELSE "?"
            /\ TakeObject(thrown) /\ thrown' = 0
       ELSE UNCHANGED <<slab, thrown, error>>
    /\ stackPointer' = stackPointer - 16
    /\ Advance
    /\ pc' = IF error' = "" THEN "chunk" ELSE "leave"
    /\ UNCHANGED <<structs, memory, blocks, bytesView, registry, ptr, life, caller, self,
                   method, input, got>>

WriteDone ==
    /\ pc = "chunk" /\ offset >= input.len /\ method = "write"
    /\ pc' = "leave"
    /\ UNCHANGED <<wasm, glue, ptr, life, caller, self, method, input, offset, got,
                   thrown, error>>

-----------------------------------------------------------------------------
(* digest(): Rust allocates the bytes, which are copied out and freed. *)

EnterDigest ==
    /\ stackPointer' = stackPointer + 16
    /\ pc' = "hash"

BeginDigest(w) ==
    /\ Usable(w)
    /\ self' = w /\ method' = "digest"
    /\ EnterDigest
    /\ UNCHANGED <<structs, memory, blocks, glue, ptr, life, caller, input, offset,
                   got, thrown, error>>

OneShotWritten ==
    /\ pc = "chunk" /\ offset >= input.len /\ method = "one-shot"
    /\ EnterDigest
    /\ UNCHANGED <<structs, memory, blocks, glue, ptr, life, caller, self, method,
                   input, offset, got, thrown, error>>

RustDigest ==
    /\ pc = "hash"
    /\ got' = Commitment(Inner(self))
    /\ MayGrow
    /\ blocks' = blocks + 1
    /\ pc' = "read"
    /\ UNCHANGED <<structs, stackPointer, glue, ptr, life, caller, self, method, input,
                   offset, thrown, error>>

ReadDigest ==
    /\ pc = "read"
    /\ dataView' = Refresh(dataView) /\ bytesView' = Refresh(bytesView)
    /\ error' = IF dataView' = memory /\ bytesView' = memory THEN "" ELSE "TypeError"
    /\ stackPointer' = stackPointer - 16
    /\ blocks' = IF error' = "" THEN blocks - 1 ELSE blocks
    /\ pc' = "leave"
    /\ UNCHANGED <<structs, memory, registry, slab, ptr, life, caller, self, method,
                   input, offset, got, thrown>>

-----------------------------------------------------------------------------
EndCall ==
    /\ pc' = "idle" /\ self' = Local /\ method' = "" /\ input' = NoInput /\ offset' = 0
    /\ got' = NoAnswer /\ thrown' = 0 /\ error' = ""

Leave ==
    /\ pc = "leave" /\ method \in {"write", "digest"}
    /\ outcome' = [outcome EXCEPT ![self] =
                     IF error # "" THEN error
                     ELSE IF method = "write" THEN "ok" ELSE @]
    /\ answer' = [answer EXCEPT ![self] =
                    IF method = "digest" THEN (IF error = "" THEN got ELSE @)
                    ELSE IF input.len = 0 \/ error = "RangeError" THEN @
                    ELSE NoAnswer]
    /\ EndCall
    /\ UNCHANGED <<wasm, glue, ptr, life, lost>>

LeaveRoot ==
    /\ pc = "leave" /\ method = "root"
    /\ EndCall
    /\ UNCHANGED <<wasm, glue, ptr, life, caller>>

(* Mutant: the hasher is only freed when the call succeeds. *)
LeaveOneShotNoFinally ==
    /\ pc = "leave" /\ method = "one-shot"
    /\ IF error = "" THEN Free(Local) ELSE UNCHANGED <<structs, ptr, registry>>
    /\ EndCall
    /\ UNCHANGED <<memory, stackPointer, blocks, bytesView, dataView, slab, life, caller>>

(* `finally` frees the hasher of a one-shot call, however it ended. *)
LeaveOneShot ==
    /\ pc = "leave" /\ method = "one-shot"
    /\ Free(Local)
    /\ EndCall
    /\ UNCHANGED <<memory, stackPointer, blocks, bytesView, dataView, slab, life, caller>>

Reset(w) ==
    /\ Usable(w)
    /\ Inner(w).base + Inner(w).size <= MaxBase
    /\ structs' = [structs EXCEPT ![ptr[w]] = Struct(Inner(w).base + Inner(w).size)]
    /\ outcome' = [outcome EXCEPT ![w] = "ok"] /\ answer' = [answer EXCEPT ![w] = NoAnswer]
    /\ UNCHANGED <<memory, stackPointer, blocks, glue, ptr, life, lost, call>>

CallStep ==
    \/ NextChunk \/ MallocTraps \/ CopyChunk \/ RustWrite \/ CheckWrite \/ WriteDone
    \/ OneShotWritten \/ RustDigest \/ ReadDigest \/ Leave \/ LeaveRoot \/ LeaveOneShot

Next ==
    \/ \E w \in Wrappers :
          \/ Create(w) \/ Dispose(w) \/ CallDisposed(w) \/ Drop(w) \/ Finalize(w)
          \/ BeginDigest(w) \/ Reset(w)
          \/ \E len \in WriteSizes :
                \/ WriteRefused(w, len) \/ BeginWrite(w, len)
                \/ WriteDisposed(w, len) \/ WriteDisposedTraps(w, len)
    \/ \E len \in WriteSizes : BeginOneShot(len) \/ RootOfChunk(len)
    \/ CallStep

Spec == Init /\ [][Next]_vars

-----------------------------------------------------------------------------
Outcomes == {"ok", "RangeError", "RuntimeError", "Error"}
Answers == [padding : Nat, height : Nat, root : Node]

(* No call ends in a TypeError: a view of a replaced buffer is never used  *)
(* (commp_bg.js 26-45).                                                    *)
TypeOK ==
    /\ structs \in [Pointers -> [base : Int, size : 0 .. MAX_PAYLOAD_SIZE, intact : BOOLEAN]]
    /\ memory \in 0 .. MaxGrowth /\ stackPointer \in {0, 16}
    /\ lost \in 0 .. MaxLost /\ blocks \in lost .. lost + 1
    /\ heap \in Seq(Nat) /\ heap_next \in Nat /\ thrown \in Nat
    /\ bytesView \in Int /\ dataView \in Int
    /\ registry \in [Objects -> Pointers \cup {0}]
    /\ ptr \in [Objects -> Pointers \cup {0}]
    /\ life \in [Objects -> {"new", "held", "dropped"}]
    /\ outcome \in [Wrappers -> Outcomes] /\ answer \in [Wrappers -> Answers]
    /\ pc \in {"idle", "chunk", "copy", "write", "check", "hash", "read", "leave"}
    /\ self \in Objects /\ method \in {"", "write", "digest", "one-shot", "root"}
    /\ input \in [first : Nat, len : Nat] /\ offset \in Nat
    /\ got \in Answers /\ error \in {"", "RangeError", "RuntimeError"}

(***************************************************************************)
(* Whatever mix of free(), finalizers and reuse of addresses: a pointer a  *)
(* wrapper still has is an allocated struct, its own and no one else's;    *)
(* the finalizer will free exactly that; and every allocated struct has a  *)
(* finalizer, so none is lost (commp_bg.js 83-109).                        *)
(***************************************************************************)
PointersOwned ==
    /\ \A w \in Objects : registry[w] = ptr[w] /\ (ptr[w] # 0 => Inner(w) # Freed)
    /\ \A v, w \in Objects : ptr[v] = ptr[w] /\ ptr[v] # 0 => v = w
    /\ \A p \in Pointers : structs[p] # Freed => \E w \in Objects : registry[w] = p

(***************************************************************************)
(* However a call ends, the shadow stack is back where it was, the hasher  *)
(* of a one-shot call and every buffer are freed, and the slab holds no    *)
(* object: it is one free cell, reused for ever (api.js 171-178, 199-207,  *)
(* commp_bg.js 6-19, 151-190).  The one exception is in the count: each    *)
(* write of bytes on a hasher that has been freed leaves the chunk's       *)
(* buffer allocated (commp_bg.js 154-156).                                 *)
(***************************************************************************)
CallsCleanUp ==
    pc = "idle" => /\ stackPointer = 0 /\ blocks = lost /\ ptr[Local] = 0
                   /\ heap_next = 1 /\ heap \in {<<>>, <<2>>}

(* What a call returns is the commitment of its payload: of the whole      *)
(* input of a one-shot call, however many chunks it took, and of the bytes *)
(* a wrapper's own writes have put in its hasher since its last reset,     *)
(* whatever other hashers took in (api.js 89-107, 171-208).                *)
ReplyIsCommitment ==
    pc = "leave" /\ error = "" =>
        /\ method \in {"one-shot", "root"} => IsCommitment(got, 0, input.len)
        /\ method = "digest" => IsCommitment(got, Inner(self).base, Inner(self).size)

(***************************************************************************)
(* While it is not freed, each hasher keeps the promise of PieceCommitment *)
(* over all its chunks: a write takes effect at once or, refused, not at   *)
(* all (api.js 64-81).  Only a trap may leave some of the chunks written.  *)
(***************************************************************************)
Written(w) == IF method = "write" /\ self = w THEN input.first - Inner(w).base
                                              ELSE Inner(w).size

Piece(w) == INSTANCE PieceCommitment
               WITH MaxPayload <- MAX_PAYLOAD_SIZE, base <- Inner(w).base,
                    size <- Written(w), outcome <- outcome[w], answer <- answer[w]

PieceSteps ==
    [][\A w \in Wrappers :
         ptr[w] # 0 /\ ptr'[w] # 0 /\ ~ (pc = "leave" /\ error = "RuntimeError")
         => [Piece(w)!Next]_(Piece(w)!vars)]_vars

(* After a trap the hasher still holds a prefix of what it was given, in   *)
(* order (api.js 78-80).                                                    *)
PayloadInOrder == \A p \in Pointers : structs[p] # Freed => structs[p].intact
=============================================================================
