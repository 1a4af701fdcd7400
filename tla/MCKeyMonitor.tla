---------------------------- MODULE MCKeyMonitor ----------------------------
(***************************************************************************)
(* The indices of dinput's keyboard for the runs of KeyMonitor: c1 is the   *)
(* one of the key k1, and the others have no virtual key.                   *)
(***************************************************************************)
EXTENDS KeyMonitor

CONSTANTS k1, c1

MCByteOf == [c \in Codes |-> IF c = c1 THEN k1 ELSE "none"]
MCConverted == [c \in Codes |-> IF c = c1 THEN k1 ELSE "none"]
=============================================================================
