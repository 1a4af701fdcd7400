-------------------------- MODULE MCKpsSensitive ---------------------------
(* The keys of KpsSensitive are interchangeable. *)
EXTENDS KpsSensitive, TLC
KeySymmetry == Permutations(Keys)
=============================================================================
