------------------------------ MODULE MCInlineWasm ------------------------------
EXTENDS InlineWasm, TLC

CONSTANTS b1, b2, throw

MCBuilds == {b1, b2}
MCImports == {throw}
MCSymmetry == Permutations(MCBuilds)

(* wasm-bindgen numbers some exports, so a name may come to mean another   *)
(* function; others are renamed with their Rust function.                  *)
Named(new, hash, free) == [new |-> new, stack |-> "stack", hash |-> hash, free |-> free]
MCInterfaces == {Named("new", "export", "export2"), Named("create", "export2", "export")}
=============================================================================
