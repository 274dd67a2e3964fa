---------------------------- MODULE InlineWasmProofs ----------------------------
(***************************************************************************)
(* What is proved of InlineWasm, for any builds of the crate, interfaces   *)
(* and interruptions.                                                      *)
(***************************************************************************)
EXTENDS InlineWasm, TLAPS

Files == [InlineFiles -> Builds \union {None}]
Linkings == (Builds \union {None}) \X (Builds \union {None})
Loads == [ok : {TRUE}, build : Builds \union {None}, glue : Builds \union {None}]
            \union [ok : {FALSE}, error : {"link", "compile"}]
Replies == {"ok", "TypeError", "trap", "link", "compile"}
Programs == [import : {"done", "threw"}, entry : Entries, wasm : Loads, mayCompile : BOOLEAN,
             linked : Linkings, hashers : {0, 1}, reply : {"none"} \union Replies]

Types ==
    /\ pkg \in [PkgFiles -> Builds \union {None}] /\ held \in [PkgFiles -> Builds \union {None}]
    /\ inline \in Files /\ source \in Builds /\ packing \in Builds \union {None}
    /\ pc = "pack" => todo \in Seq(PkgFiles)
    /\ pc = "generate" => todo \in Seq(InlineFiles)

(* What passed holds one build in every file. *)
Passed == \A f \in InlineFiles : passed.inline[f] = passed.source

(* What loading ended with for a binary and its glue. *)
Outcome(program) ==
    IF program.entry = "node" /\ ~ program.mayCompile THEN Error("compile")
    ELSE Instance(program.linked[1], program.linked[2])

(* What a call may have ended with. *)
Answered(wasm, reply) ==
    IF ~ wasm.ok THEN reply = wasm.error
    ELSE /\ reply \notin {"link", "compile"}
         /\ exports[wasm.build] = exports[wasm.glue] => reply = "ok"

(* What a program loaded is what its entry loads, and its calls answer so. *)
Loaded ==
    runtime # NotImported =>
        /\ runtime \in Programs
        /\ runtime.wasm = Outcome(runtime)
        /\ runtime.import = "done" <=> runtime.wasm.ok \/ runtime.entry = "node"
        /\ runtime.reply # "none" => runtime.import = "done" /\ Answered(runtime.wasm, runtime.reply)
        /\ runtime.hashers = 1 => runtime.wasm.ok

Inv == Types /\ Passed /\ Loaded

-----------------------------------------------------------------------------
(* One run of the generator leaves the crate's build in every file. *)
LEMMA RegeneratedFiles ==
    ASSUME NEW crate, NEW out, Regenerated(crate, out) = out
    PROVE  \A f \in InlineFiles : out[f] = crate
PROOF
<1> DEFINE dir == [f \in PkgFiles |-> crate]
           new == [file \in InlineFiles |->
                     IF \E k \in 1 .. Len(Steps) : Steps[k] = file
                     THEN Written(out, file, dir, dir)[file] ELSE out[file]]
<1>1. out = new
  BY DEF Regenerated
<1>2. DOMAIN out = InlineFiles
  BY <1>1
<1>3. dir["bg.wasm"] = crate /\ dir["bg.js"] = crate
  BY DEF PkgFiles
<1>4. ASSUME NEW f \in InlineFiles PROVE out[f] = crate
  <2>1. \E k \in 1 .. Len(Steps) : Steps[k] = f
    <3>1. Len(Steps) = 3 /\ Steps[1] = "wasm.js" /\ Steps[2] = "bg.js" /\ Steps[3] = "bg.wasm"
      BY DEF Steps
    <3> QED BY <3>1 DEF InlineFiles
  <2>2. new[f] = Written(out, f, dir, dir)[f]
    BY <2>1
  <2> HIDE DEF dir, new
  <2>3. Written(out, f, dir, dir)[f] = crate
    BY <1>2, <1>3 DEF Written, InlineFiles
  <2> QED BY <1>1, <2>2, <2>3
<1> QED
  BY <1>4

(* Which outcomes loading has. *)
LEMMA LoadFacts ==
    ASSUME NEW entry \in Entries, NEW out \in Files, NEW may \in BOOLEAN
    PROVE  /\ Linked(entry, out) \in Linkings
           /\ Imported(entry, out, may).wasm = Outcome(Imported(entry, out, may))
           /\ Imported(entry, out, may).wasm \in Loads
PROOF
<1> DEFINE program == Imported(entry, out, may)
           binary == IF entry = "node" THEN out["wasm.js"] ELSE out["bg.wasm"]
           glue == out["bg.js"]
           load == IF entry = "node" THEN LoadNode(out, may) ELSE LoadWorkerd(out, may)
<1>1. binary \in Builds \union {None} /\ glue \in Builds \union {None}
  BY DEF Files, InlineFiles
<1>2. Linked(entry, out) = <<binary, glue>>
  BY DEF Linked
<1>3. load = IF entry = "node" /\ ~ may THEN Error("compile") ELSE Instance(binary, glue)
  BY DEF LoadNode, LoadWorkerd
<1>4. /\ program.entry = entry /\ program.mayCompile = may /\ program.wasm = load
      /\ program.linked[1] = binary /\ program.linked[2] = glue
  <2> HIDE DEF load, binary, glue
  <2>1. program.entry = entry /\ program.mayCompile = may /\ program.linked = <<binary, glue>>
    BY <1>2 DEF Imported
  <2>2. program.wasm = load
    BY DEF Imported, load
  <2> QED BY <2>1, <2>2
<1> HIDE DEF program, binary, glue, load
<1>5. load = Outcome(program)
  BY <1>3, <1>4 DEF Outcome
<1>6. Instance(binary, glue) \in Loads /\ Error("compile") \in Loads
  BY <1>1 DEF Instance, Code, Error, Loads
<1>7. load \in Loads
  BY <1>3, <1>6
<1> QED
  BY <1>1, <1>2, <1>4, <1>5, <1>7 DEF Linkings, program

(* What one access of an export ends with. *)
LEMMA AccessFacts ==
    ASSUME NEW wasm \in Loads, NEW function \in Exported, NEW reply \in Access(wasm, function)
    PROVE  Answered(wasm, reply) /\ reply \in Replies
PROOF
<1>1. CASE ~ wasm.ok
  BY <1>1 DEF Access, Answered, Loads, Replies
<1>2. CASE wasm.ok
  <2>1. reply \in {"ok", "TypeError", "trap"}
    BY <1>2 DEF Access
  <2>2. exports[wasm.build] = exports[wasm.glue] => reply = "ok"
    BY <1>2 DEF Access
  <2> QED BY <1>2, <2>1, <2>2 DEF Answered, Replies
<1> QED
  BY <1>1, <1>2

(* A call of the wrapper throws what one of its accesses throws; where all *)
(* throw the same error it is that one.                                    *)
LEMMA CallFacts ==
    ASSUME NEW wasm \in Loads, NEW new \in Access(wasm, "new"), NEW stack \in Access(wasm, "stack"),
           NEW hash \in Access(wasm, "hash"), NEW free \in Access(wasm, "free"),
           NEW reply \in {MakeAndFree(new, stack, hash, free), RootOfChunk(stack, hash)}
    PROVE  Answered(wasm, reply) /\ reply \in Replies
PROOF
<1>1. reply \in {new, stack, hash, free}
  BY DEF MakeAndFree, RootOfChunk, TryFinally, Then
<1>2. /\ Answered(wasm, new) /\ Answered(wasm, stack) /\ Answered(wasm, hash) /\ Answered(wasm, free)
      /\ {new, stack, hash, free} \subseteq Replies
  BY AccessFacts DEF Exported
<1> QED
  BY <1>1, <1>2

LEMMA InitInv == Init => Inv
PROOF
<1> SUFFICES ASSUME Init PROVE Inv
  OBVIOUS
<1>1. Types
  BY DEF Init, Types, Files, PkgFiles
<1>2. Passed
  BY DEF Init, Passed
<1>3. Loaded
  BY DEF Init, Loaded
<1> QED
  BY <1>1, <1>2, <1>3 DEF Inv

(* The files. *)
LEMMA FilesInv ==
    ASSUME Inv, [Next]_vars PROVE Types'
PROOF
<1>0. Types
  BY DEF Inv
<1>1. CASE EditCrate
  BY <1>0, <1>1 DEF EditCrate, Types
<1>2. CASE Pack
  <2>1. \E order \in {<<"bg.wasm", "bg.js">>, <<"bg.js", "bg.wasm">>} : todo' = order
    BY <1>2 DEF Pack
  <2>2. <<"bg.wasm", "bg.js">> \in Seq(PkgFiles) /\ <<"bg.js", "bg.wasm">> \in Seq(PkgFiles)
    BY DEF PkgFiles
  <2>3. todo' \in Seq(PkgFiles)
    BY <2>1, <2>2
  <2> QED BY <1>0, <1>2, <2>3 DEF Pack, Types
<1>3. CASE PackFile
  BY <1>0, <1>3 DEF PackFile, Types
<1>4. CASE StartGenerator
  <2>1. Steps \in Seq(InlineFiles)
    BY DEF Steps, InlineFiles
  <2> QED BY <1>0, <1>4, <2>1 DEF StartGenerator, Types
<1>5. CASE WriteFile
  <2>1. Head(todo) \in InlineFiles /\ todo' \in Seq(InlineFiles)
    BY <1>0, <1>5 DEF WriteFile, Types
  <2>2. inline' \in Files
    BY <1>0, <1>5, <2>1 DEF WriteFile, Types, Written, Files, InlineFiles, PkgFiles
  <2> QED BY <1>0, <1>5, <2>1, <2>2 DEF WriteFile, Types
<1>6. CASE Stop
  BY <1>0, <1>6 DEF Stop, Types
<1>7. CASE Commit \/ CI
  BY <1>0, <1>7 DEF Commit, CI, Types
<1>8. CASE Import \/ Create \/ OneShot \/ UNCHANGED vars
  <2>1. UNCHANGED files
    BY <1>8 DEF Import, Create, OneShot, vars
  <2> QED BY <1>0, <2>1 DEF files, Types
<1> QED
  BY <1>1, <1>2, <1>3, <1>4, <1>5, <1>6, <1>7, <1>8 DEF Next

LEMMA PassedInv ==
    ASSUME Inv, [Next]_vars PROVE Passed'
PROOF
<1>1. CASE CI
  <2>1. passed' = commit /\ Regenerated(commit.source, commit.inline) = commit.inline
    BY <1>1 DEF CI
  <2>2. \A f \in InlineFiles : commit.inline[f] = commit.source
    BY <2>1, RegeneratedFiles
  <2> QED BY <2>1, <2>2 DEF Passed
<1>2. CASE ~ CI
  <2>1. passed' = passed
    BY <1>2 DEF Next, EditCrate, Pack, PackFile, StartGenerator, WriteFile, Stop, Commit,
                Import, Create, OneShot, files, vars
  <2> QED BY <2>1 DEF Inv, Passed
<1> QED
  BY <1>1, <1>2

LEMMA AnswerInv ==
    ASSUME Inv, imports' = imports, exports' = exports, runtime.import = "done",
           NEW hashers \in {0, 1}, hashers = 1 => runtime.wasm.ok,
           NEW reply \in Replies, Answered(runtime.wasm, reply),
           runtime' = [runtime EXCEPT !.reply = reply, !.hashers = hashers]
    PROVE  Loaded'
PROOF
<1>1. runtime # NotImported
  BY DEF NotImported
<1>2. /\ runtime \in Programs
      /\ runtime.wasm = Outcome(runtime)
      /\ runtime.import = "done" <=> runtime.wasm.ok \/ runtime.entry = "node"
  BY <1>1 DEF Inv, Loaded
<1>3. /\ runtime' \in Programs /\ runtime'.import = runtime.import
      /\ runtime'.entry = runtime.entry /\ runtime'.wasm = runtime.wasm
      /\ runtime'.linked = runtime.linked /\ runtime'.mayCompile = runtime.mayCompile
      /\ runtime'.hashers = hashers /\ runtime'.reply = reply
  BY <1>2 DEF Programs
<1>4. runtime'.wasm = Outcome(runtime)'
  BY <1>2, <1>3 DEF Outcome, Instance
<1>5. Answered(runtime.wasm, reply)'
  BY <1>3 DEF Answered
<1> QED
  BY <1>2, <1>3, <1>4, <1>5 DEF Loaded

LEMMA LoadedInv ==
    ASSUME Inv, [Next]_vars PROVE Loaded'
PROOF
<1>0. Types /\ Loaded
  BY DEF Inv
<1>1. imports' = imports /\ exports' = exports
  BY DEF Next, EditCrate, Pack, PackFile, StartGenerator, WriteFile, Stop, Commit, CI,
         Import, Create, OneShot, files, vars
<1>2. CASE Import
  <2>1. PICK entry \in Entries, may \in BOOLEAN : runtime' = Imported(entry, inline, may)
    BY <1>2 DEF Import
  <2> DEFINE program == Imported(entry, inline, may)
  <2>2. /\ Linked(entry, inline) \in Linkings /\ program.wasm = Outcome(program)
        /\ program.wasm \in Loads
    BY <1>0, LoadFacts DEF Types
  <2>3. /\ program \in Programs /\ program.hashers = 0 /\ program.reply = "none"
        /\ program.import = "done" <=> program.wasm.ok \/ program.entry = "node"
    <3> DEFINE load == IF entry = "node" THEN LoadNode(inline, may) ELSE LoadWorkerd(inline, may)
    <3>1. program = [import |-> IF load.ok \/ entry = "node" THEN "done" ELSE "threw",
                     entry |-> entry, wasm |-> load, mayCompile |-> may,
                     linked |-> Linked(entry, inline), hashers |-> 0, reply |-> "none"]
      BY DEF Imported
    <3> HIDE DEF load, program
    <3> QED BY <2>2, <3>1 DEF Programs
  <2>4. runtime' = program /\ Outcome(runtime)' = Outcome(program)
    BY <1>1, <2>1 DEF Outcome, Instance
  <2> HIDE DEF program
  <2> QED BY <2>2, <2>3, <2>4 DEF Loaded
<1>3. CASE Create
  <2>1. PICK reply \in Access(runtime.wasm, "new") :
           /\ runtime.import = "done"
           /\ runtime' = [runtime EXCEPT !.reply = reply, !.hashers = IF reply = "ok" THEN 1 ELSE 0]
    BY <1>3 DEF Create
  <2>2. runtime.wasm \in Loads
    BY <1>0, <2>1 DEF Loaded, NotImported, Programs
  <2>3. Answered(runtime.wasm, reply) /\ reply \in Replies
    BY <2>2, AccessFacts DEF Exported
  <2>4. reply = "ok" => runtime.wasm.ok
    BY <2>2, <2>3 DEF Answered, Loads
  <2> DEFINE hashers == IF reply = "ok" THEN 1 ELSE 0
  <2>5. hashers \in {0, 1} /\ (hashers = 1 => runtime.wasm.ok)
    BY <2>4
  <2>6. runtime' = [runtime EXCEPT !.reply = reply, !.hashers = hashers]
    BY <2>1
  <2> HIDE DEF hashers
  <2> QED BY <1>1, <2>1, <2>3, <2>5, <2>6, AnswerInv
<1>4. CASE OneShot
  <2>1. PICK new \in Access(runtime.wasm, "new"), stack \in Access(runtime.wasm, "stack"),
             hash \in Access(runtime.wasm, "hash"), free \in Access(runtime.wasm, "free") :
           \E reply \in {MakeAndFree(new, stack, hash, free), RootOfChunk(stack, hash)} :
              runtime' = [runtime EXCEPT !.reply = reply]
    BY <1>4 DEF OneShot
  <2>2. PICK reply \in {MakeAndFree(new, stack, hash, free), RootOfChunk(stack, hash)} :
           runtime' = [runtime EXCEPT !.reply = reply]
    BY <2>1
  <2>3. runtime.import = "done" /\ runtime \in Programs
    BY <1>0, <1>4 DEF OneShot, Loaded, NotImported
  <2>4. Answered(runtime.wasm, reply) /\ reply \in Replies
    BY <2>2, <2>3, CallFacts DEF Programs
  <2>5. runtime' = [runtime EXCEPT !.reply = reply, !.hashers = runtime.hashers]
    BY <2>2, <2>3 DEF Programs
  <2>6. runtime.hashers \in {0, 1} /\ (runtime.hashers = 1 => runtime.wasm.ok)
    BY <1>0, <2>3 DEF Loaded, NotImported, Programs
  <2> QED BY <1>1, <2>3, <2>4, <2>5, <2>6, AnswerInv
<1>5. CASE UNCHANGED runtime
  BY <1>0, <1>1, <1>5 DEF Loaded, Outcome, Instance, Answered
<1> QED
  BY <1>2, <1>3, <1>4, <1>5 DEF Next, EditCrate, Pack, PackFile, StartGenerator, WriteFile, Stop,
     Commit, CI, vars

(* Every state of the files and of a program that imports them. *)
THEOREM InlineInductive == Spec => []Inv
PROOF
<1>1. Inv /\ [Next]_vars => Inv'
  BY FilesInv, PassedInv, LoadedInv DEF Inv
<1> QED
  BY <1>1, InitInv, PTL DEF Spec

-----------------------------------------------------------------------------
(***************************************************************************)
(* For any crate and any interruptions, commits and runs of build:inline:  *)
(* what CI lets pass runs the committed crate in both entries.             *)
(***************************************************************************)
THEOREM InlinePassedRunsItsCrate == Spec => []PassedRunsItsCrate
PROOF
<1>1. Inv => PassedRunsItsCrate
  <2> SUFFICES ASSUME Inv PROVE PassedRunsItsCrate
    OBVIOUS
  <2>1. /\ passed.inline["wasm.js"] = passed.source /\ passed.inline["bg.js"] = passed.source
        /\ passed.inline["bg.wasm"] = passed.source
    BY DEF Inv, Passed, InlineFiles
  <2> QED BY <2>1 DEF PassedRunsItsCrate, LoadNode, LoadWorkerd, Instance
<1> QED
  BY <1>1, InlineInductive, PTL

(***************************************************************************)
(* Whatever was imported: the node entry never throws while it is, and     *)
(* where loading failed its calls throw that error, leaving no hasher; the *)
(* workerd entry throws exactly when the binary imports what the glue does *)
(* not give; once loaded a call throws neither error, and nothing at all   *)
(* where the binary exports what the glue calls.                           *)
(***************************************************************************)
THEOREM InlineFailsOnFirstUse == Spec => []FailsOnFirstUse
PROOF
<1>1. Inv => FailsOnFirstUse
  <2> SUFFICES ASSUME Inv, runtime # NotImported PROVE FailsOnFirstUse
    BY DEF FailsOnFirstUse
  <2> DEFINE binary == runtime.linked[1]
             glue == runtime.linked[2]
             may == runtime.mayCompile
             wasm == runtime.wasm
  <2>1. /\ runtime \in Programs /\ wasm = Outcome(runtime)
        /\ runtime.import = "done" <=> wasm.ok \/ runtime.entry = "node"
        /\ runtime.reply # "none" => runtime.import = "done" /\ Answered(wasm, runtime.reply)
        /\ runtime.hashers = 1 => wasm.ok
    BY DEF Inv, Loaded
  <2>2. /\ may \in BOOLEAN /\ runtime.import \in {"done", "threw"}
        /\ runtime.entry \in {"node", "workerd"} /\ runtime.hashers \in {0, 1}
    BY <2>1 DEF Programs, Entries
  <2>3. wasm = IF runtime.entry = "node" /\ ~ may THEN Error("compile")
               ELSE IF imports[binary] \subseteq imports[glue] THEN Code(binary, glue) ELSE Error("link")
    BY <2>1 DEF Outcome, Instance
  <2> HIDE DEF binary, glue, may, wasm
  <2>4. /\ wasm.ok <=> (runtime.entry = "node" => may) /\ imports[binary] \subseteq imports[glue]
        /\ ~ wasm.ok => (wasm.error = "compile" <=> runtime.entry = "node" /\ ~ may)
    BY <2>2, <2>3 DEF Code, Error
  <2>5. runtime.entry = "workerd" => (runtime.import = "threw" <=> ~ (imports[binary] \subseteq imports[glue]))
    BY <2>1, <2>2, <2>4
  <2>6. ASSUME runtime.reply # "none", wasm.ok
        PROVE  /\ runtime.reply \notin {"link", "compile"}
               /\ exports[wasm.build] = exports[wasm.glue] => runtime.reply = "ok"
    BY <2>1, <2>6 DEF Answered
  <2>7. ASSUME runtime.reply # "none", ~ wasm.ok
        PROVE  /\ runtime.reply = wasm.error /\ runtime.hashers = 0
               /\ runtime.reply = "compile" <=> ~ may
    <3>1. runtime.entry = "node" /\ runtime.reply = wasm.error
      BY <2>1, <2>7 DEF Answered
    <3> QED BY <2>1, <2>2, <2>4, <2>7, <3>1
  <2> QED BY <2>1, <2>2, <2>5, <2>6, <2>7 DEF FailsOnFirstUse, binary, glue, may, wasm
<1> QED
  BY <1>1, InlineInductive, PTL
=============================================================================
