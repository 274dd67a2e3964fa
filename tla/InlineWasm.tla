------------------------------ MODULE InlineWasm ------------------------------
(***************************************************************************)
(* The generated files in packages/commp-wasm/src/inline: how they come    *)
(* from the Rust crate (wasm-pack, then scripts/build-inline-wasm.js), how *)
(* CI compares them with what is committed, and how the two entries of the *)
(* package load them, when WebAssembly may be compiled and when it may     *)
(* not.  The .d.ts files and the entries, whose text does not depend on    *)
(* the crate, are left out.                                                *)
(***************************************************************************)
EXTENDS Naturals, Sequences

CONSTANTS
    Builds,      \* versions of the Rust crate
    Imports,     \* names a binary may import from its glue code
    Interfaces,  \* ways to name what a binary exports to its glue code
    None         \* no build

(* What the glue code calls: commphasher_new, the stack pointer, malloc    *)
(* with the calls that hash, and commphasher_free.                         *)
Exported == {"new", "stack", "hash", "free"}

ASSUME InlineAssumption ==
    /\ None \notin Builds
    /\ \A names \in Interfaces : DOMAIN names = Exported

(* Outputs of wasm-pack, and files of src/inline that hold them: wasm.js   *)
(* has the binary as base64, bg.wasm is the binary, bg.js the glue code.   *)
PkgFiles == {"bg.wasm", "bg.js"}
InlineFiles == {"wasm.js", "bg.js", "bg.wasm"}
Entries == {"node", "workerd"}

VARIABLES
    imports,   \* what the binary of each build imports; never changes
    exports,   \* the names it exports to the glue; never changes
    source,    \* the crate in the working tree
    pkg,       \* pkg-bundler: the build each file is of
    inline,    \* src/inline in the working tree
    commit,    \* the last commit's crate and src/inline
    passed,    \* the last commit CI let pass
    pc,        \* "pack" in build:rust, "generate" in build:inline
    packing,   \* the crate wasm-pack compiles
    todo,      \* files left to write
    held,      \* what the generator read when it started
    runtime    \* a JavaScript program that imports the package

files == <<imports, exports, source, pkg, inline, commit, passed, pc, packing, todo, held>>
vars == <<files, runtime>>

NotImported == [import |-> "none"]

Init ==
    /\ imports \in [Builds -> SUBSET Imports] /\ exports \in [Builds -> Interfaces]
    /\ source \in Builds
    /\ pkg = [f \in PkgFiles |-> None]
    /\ inline = [f \in InlineFiles |-> source]
    /\ commit = [source |-> source, inline |-> inline] /\ passed = commit
    /\ pc = "idle" /\ packing = None /\ todo = <<>> /\ held = pkg
    /\ runtime = NotImported

-----------------------------------------------------------------------------
(* What the generator writes, in its order. *)

(* Mutant: the raw binary is not copied. *)
StepsInlineOnly == <<"wasm.js", "bg.js">>

Steps == <<"wasm.js", "bg.js", "bg.wasm">>

(* The binary is read at the start for the base64, and again from the      *)
(* package directory when the file is copied.                              *)
Written(out, file, read, dir) ==
    [out EXCEPT ![file] = CASE file = "wasm.js" -> read["bg.wasm"]
                            [] file = "bg.js" -> read["bg.js"]
                            [] OTHER -> dir["bg.wasm"]]

(* A whole run of build:wasm on a crate: every file it writes is written   *)
(* once, from what wasm-pack made.                                         *)
Regenerated(crate, out) ==
    LET dir == [f \in PkgFiles |-> crate]
    IN  [file \in InlineFiles |->
            IF \E k \in 1 .. Len(Steps) : Steps[k] = file
            THEN Written(out, file, dir, dir)[file] ELSE out[file]]

-----------------------------------------------------------------------------
EditCrate ==
    /\ source' \in Builds \ {source}
    /\ UNCHANGED <<imports, exports, pkg, inline, commit, passed, pc, packing, todo, held, runtime>>

(* build:rust: wasm-pack compiles, then writes its files one by one. *)
Pack ==
    /\ pc = "idle" /\ pc' = "pack" /\ packing' = source
    /\ \E order \in {<<"bg.wasm", "bg.js">>, <<"bg.js", "bg.wasm">>} : todo' = order
    /\ UNCHANGED <<imports, exports, source, pkg, inline, commit, passed, held, runtime>>

PackFile ==
    /\ pc = "pack" /\ todo # <<>>
    /\ pkg' = [pkg EXCEPT ![Head(todo)] = packing] /\ todo' = Tail(todo)
    /\ UNCHANGED <<imports, exports, source, inline, commit, passed, pc, packing, held, runtime>>

(* && goes on only when wasm-pack succeeded; build:inline alone runs on    *)
(* what there is, and throws when a file is missing.                       *)
StartGenerator ==
    /\ \/ pc = "idle" /\ None \notin {pkg[f] : f \in PkgFiles}
       \/ pc = "pack" /\ todo = <<>>
    /\ pc' = "generate" /\ held' = pkg /\ todo' = Steps /\ packing' = None
    /\ UNCHANGED <<imports, exports, source, pkg, inline, commit, passed, runtime>>

WriteFile ==
    /\ pc = "generate" /\ todo # <<>>
    /\ inline' = Written(inline, Head(todo), held, pkg) /\ todo' = Tail(todo)
    /\ UNCHANGED <<imports, exports, source, pkg, commit, passed, pc, packing, held, runtime>>

(* The command ends: done, failed or interrupted. *)
Stop ==
    /\ pc # "idle" /\ pc' = "idle"
    /\ packing' = None /\ todo' = <<>> /\ held' = [f \in PkgFiles |-> None]
    /\ UNCHANGED <<imports, exports, source, pkg, inline, commit, passed, runtime>>

(* git commit -a, whenever the developer likes. *)
Commit ==
    /\ commit' = [source |-> source, inline |-> inline]
    /\ UNCHANGED <<imports, exports, source, pkg, inline, passed, pc, packing, todo, held, runtime>>

(* CI runs build:wasm on a checkout and fails when git sees a difference.  *)
CI ==
    /\ Regenerated(commit.source, commit.inline) = commit.inline
    /\ passed' = commit
    /\ UNCHANGED <<imports, exports, source, pkg, inline, commit, pc, packing, todo, held, runtime>>

-----------------------------------------------------------------------------
(* Loading. An entry ends up with the code of a build, called by the glue  *)
(* of a build, or with an error.                                           *)
Code(build, glue) == [ok |-> TRUE, build |-> build, glue |-> glue]
Error(what) == [ok |-> FALSE, error |-> what]

(* new WebAssembly.Instance(module, { './commp_bg.js': commp_bg }) needs   *)
(* what the binary imports, and looks at none of its exports.              *)
Instance(binary, glue) ==
    IF imports[binary] \subseteq imports[glue] THEN Code(binary, glue) ELSE Error("link")

(* The node entry compiles the base64 itself. *)
LoadNode(out, mayCompile) ==
    IF mayCompile THEN Instance(out["wasm.js"], out["bg.js"]) ELSE Error("compile")

(* The bundler compiled the binary the workerd entry imports. *)
LoadWorkerd(out, mayCompile) == Instance(out["bg.wasm"], out["bg.js"])

(* The build of the binary and of the glue an entry brings together. *)
Linked(entry, out) ==
    <<IF entry = "node" THEN out["wasm.js"] ELSE out["bg.wasm"], out["bg.js"]>>

(* commp.js catches the error and hands the glue code a Proxy that throws  *)
(* it from every access; commp.workerd.js lets the import throw.           *)
Imported(entry, out, mayCompile) ==
    LET load == IF entry = "node" THEN LoadNode(out, mayCompile)
                ELSE LoadWorkerd(out, mayCompile)
    IN  [import |-> IF load.ok \/ entry = "node" THEN "done" ELSE "threw",
         entry |-> entry, wasm |-> load, mayCompile |-> mayCompile,
         linked |-> Linked(entry, out), hashers |-> 0, reply |-> "none"]

(* A new program imports the package. May it compile: node may, a page     *)
(* with a Content-Security-Policy may not, workerd only while it starts.   *)
Import ==
    /\ \E entry \in Entries, mayCompile \in BOOLEAN :
          runtime' = Imported(entry, inline, mayCompile)
    /\ UNCHANGED files

(* How a call of wasm.<name> may end. A name the binary lacks is           *)
(* undefined, and calling it a TypeError; where the binary has another     *)
(* function of that name (wasm-bindgen numbers its own), anything follows. *)
Access(wasm, function) ==
    IF ~wasm.ok THEN {wasm.error}
    ELSE LET name == exports[wasm.glue][function]
             names == exports[wasm.build]
         IN  IF names[function] = name THEN {"ok"}
             ELSE IF \E other \in Exported : names[other] = name THEN {"ok", "TypeError", "trap"}
             ELSE {"TypeError"}

(* first; second *)
Then(first, second) == IF first # "ok" THEN first ELSE second

(* try { body } finally { last }: what last throws is what is thrown. *)
TryFinally(body, last) == IF last # "ok" THEN last ELSE body

(* root() of one chunk, and each call of a hasher, moves the stack pointer *)
(* and moves it back in a finally.                                         *)
RootOfChunk(stack, hash) == TryFinally(Then(stack, hash), stack)

(* Mutant: the hasher is made inside the try, so that the finally calls    *)
(* free() on undefined.                                                    *)
MakeAndFreeInside(new, stack, hash, free) ==
    TryFinally(Then(new, RootOfChunk(stack, hash)), IF new = "ok" THEN free ELSE "TypeError")

(* digest(), and root() of more than a chunk, make a hasher and free it in *)
(* a finally; the hasher is made before the try.                           *)
MakeAndFree(new, stack, hash, free) == Then(new, TryFinally(RootOfChunk(stack, hash), free))

(* create(): the constructor throws before it has a pointer to register.   *)
Create ==
    /\ runtime.import = "done" /\ runtime.hashers = 0
    /\ \E reply \in Access(runtime.wasm, "new") :
          runtime' = [runtime EXCEPT !.reply = reply,
                                     !.hashers = IF reply = "ok" THEN 1 ELSE 0]
    /\ UNCHANGED files

OneShot ==
    /\ runtime.import = "done"
    /\ \E new \in Access(runtime.wasm, "new"), stack \in Access(runtime.wasm, "stack"),
          hash \in Access(runtime.wasm, "hash"), free \in Access(runtime.wasm, "free") :
          \E reply \in {MakeAndFree(new, stack, hash, free), RootOfChunk(stack, hash)} :
             runtime' = [runtime EXCEPT !.reply = reply]
    /\ UNCHANGED files

Next ==
    \/ EditCrate \/ Pack \/ PackFile \/ StartGenerator \/ WriteFile \/ Stop
    \/ Commit \/ CI
    \/ Import \/ Create \/ OneShot

Spec == Init /\ [][Next]_vars

-----------------------------------------------------------------------------
(***************************************************************************)
(* A commit CI lets pass runs its own crate, with that crate's glue, in    *)
(* both entries, however the files came about: interrupted commands,       *)
(* build:inline on the outputs of another build, commits in between        *)
(* (ci.yml 68-87).                                                         *)
(***************************************************************************)
PassedRunsItsCrate ==
    /\ LoadNode(passed.inline, TRUE) = Code(passed.source, passed.source)
    /\ \A mayCompile \in BOOLEAN :
          LoadWorkerd(passed.inline, mayCompile) = Code(passed.source, passed.source)

(***************************************************************************)
(* An import of the node entry never throws. Where WebAssembly cannot be   *)
(* compiled, or the binary imports what the glue does not give, it is      *)
(* every call that throws, and throws that error, with no hasher left      *)
(* behind; the workerd entry never meets a compile error. Once the code is *)
(* loaded no call throws such an error, and none throws at all if the      *)
(* binary exports what the glue calls (build-inline-wasm.js 8-19,          *)
(* tests/blocked-compile.test.js).                                         *)
(***************************************************************************)
FailsOnFirstUse ==
    runtime # NotImported =>
        /\ runtime.entry = "node" => runtime.import = "done"
        /\ runtime.entry = "workerd" =>
              (runtime.import = "threw" <=>
                  ~(imports[runtime.linked[1]] \subseteq imports[runtime.linked[2]]))
        /\ runtime.reply # "none" =>
              IF runtime.wasm.ok
              THEN /\ runtime.reply \notin {"link", "compile"}
                   /\ exports[runtime.wasm.build] = exports[runtime.wasm.glue] => runtime.reply = "ok"
              ELSE /\ runtime.reply = runtime.wasm.error /\ runtime.hashers = 0
                   /\ runtime.reply = "compile" <=> ~runtime.mayCompile
=============================================================================
