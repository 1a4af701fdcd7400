----------------------------- MODULE MCKpsGraph -----------------------------
(* Two layouts: of the key that is pressed, and of another one. *)
EXTENDS KpsGraph
CONSTANTS k1, k2
MCKeySets == {{k1}, {k2}}
=============================================================================
