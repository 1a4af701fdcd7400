-------------------------- MODULE MCKpsCalculator --------------------------
(* Values of the constants of KpsCalculator for TLC. *)
EXTENDS KpsCalculator
CONSTANTS k1, k2    \* the keys the vectors are made of
MCVectors == {<<k1, k2>>, <<k2, k2>>}
=============================================================================
