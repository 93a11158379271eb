----------------------------- MODULE MCLifecycle -----------------------------
(* Two maps, and two versions of the canister: one that constructs both maps at *)
(* the top of its module and one that constructs only the first.                *)
EXTENDS Lifecycle
CONSTANTS mapA, mapB
TwoVersions == {{mapA, mapB}, {mapA}}
=============================================================================
