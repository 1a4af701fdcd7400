--------------------------- MODULE MCKeysManager ---------------------------
(* Two layouts, the second sharing a key with the first. *)
EXTENDS KeysManager
CONSTANTS k1, k2
MCLayout == <<<<k1>>, <<k1, k2>>>>
=============================================================================
