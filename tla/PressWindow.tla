---------------------------- MODULE PressWindow ----------------------------
(***************************************************************************)
(* What the frame ("hard") counting method promises, with no incremental   *)
(* counts, objects or locks: a log of presses, and reads that count the    *)
(* presses of the last FrameLength ticks, up to those a switch doubles.    *)
(***************************************************************************)
EXTENDS Integers, Sequences, FiniteSets

CONSTANTS Keys, Vectors, FrameLength

VARIABLES
  now,   \* the clock
  log,   \* the presses since the last reset
  extra, \* per key, the presses counted twice
  ret    \* the number returned last

vars == <<now, log, extra, ret>>

InWindow(k, at) ==
  Cardinality({n \in 1 .. Len(log) : log[n].key = k /\ at - log[n].time <= FrameLength})

InWindowAll(ks, at) ==
  LET f[n \in 0 .. Len(ks)] ==
        IF n = 0 THEN 0 ELSE f[n - 1] + InWindow(ks[n], at) + extra[ks[n]]
  IN  f[Len(ks)]

Zero == [k \in Keys |-> 0]
Init == now = 0 /\ log = <<>> /\ extra = Zero /\ ret = 0

Pass == now' = now + 1 /\ UNCHANGED <<log, extra, ret>>

\* A press is logged at or after the instant it happened, in the order of those.
\* During a switch of the method it may be counted twice.
Press(k, at) ==
  /\ \A n \in 1 .. Len(log) : log[n].time <= at
  /\ log' = Append(log, [key |-> k, time |-> at])
  /\ extra' \in {extra, [extra EXCEPT ![k] = @ + 1]}
  /\ UNCHANGED <<now, ret>>

\* A switch forgets what was counted twice before.
Switch == extra' = Zero /\ UNCHANGED <<now, log, ret>>

Read(k) == ret' = InWindow(k, now) + extra[k] /\ UNCHANGED <<now, log, extra>>

\* Reading several keys is not instantaneous: it started at some earlier instant.
ReadAll(ks) ==
  /\ \E from \in 0 .. now : ret' \in InWindowAll(ks, now) .. InWindowAll(ks, from)
  /\ UNCHANGED <<now, log, extra>>

Reset == log' = <<>> /\ extra' = Zero /\ UNCHANGED <<now, ret>>

Next ==
  \/ Pass
  \/ \E k \in Keys, at \in 0 .. now : Press(k, at)
  \/ Switch
  \/ \E k \in Keys : Read(k)
  \/ \E ks \in Vectors : ReadAll(ks)
  \/ Reset

Spec == Init /\ [][Next]_vars
=============================================================================
