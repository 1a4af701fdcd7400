----------------------------- MODULE RateSearch -----------------------------
(***************************************************************************)
(* The log of kps_interface and the search loop over it of                 *)
(* kps_implement_sensitive (src/source/src/kps_calculator.hpp): the best   *)
(* of the rates "c presses in the last e ticks", looked for from a press   *)
(* back to older ones.  The source has it four times, for the current KPS  *)
(* of a key and of several keys and, twice, for the graph.                 *)
(***************************************************************************)
EXTENDS Integers, Sequences, FiniteSets, FiniteSetsExt

CONSTANTS
  Keys,       \* virtual key codes
  Second,     \* ticks per second
  Considered, \* considered_length in ticks
  MaxLag,     \* bound: ticks between reading the clock and the delivery
  MaxTime,    \* bound: last instant of the clock
  MaxRecords  \* bound: length of the log

ASSUME NumbersAssumption ==
  /\ Second \in Nat \ {0} /\ Considered \in Nat
  /\ MaxLag \in Nat /\ MaxTime \in Nat /\ MaxRecords \in Nat

VARIABLES
  now,     \* the steady clock
  records  \* kps_interface::records

Press == [key : Keys, time : Nat]

Advance ==
  /\ now < MaxTime
  /\ now' = now + 1
  /\ UNCHANGED records

\* The log takes a press whose time was read at or before the present.  One thread
\* delivers, so the times ascend.
Push(k, at) ==
  /\ Len(records) < MaxRecords
  /\ now - at <= MaxLag
  /\ \A n \in 1 .. Len(records) : records[n].time <= at
  /\ records' = Append(records, [key |-> k, time |-> at])
  /\ UNCHANGED now
-----------------------------------------------------------------------------
\* A rate <<n, d>> is n/d presses per second.
Rates == Nat \X (Nat \ {0})
r1 \prec r2 == r1[1] * r2[2] < r2[1] * r1[2]

\* std::min(c * 1.5, c / elapsed) for elapsed = e ticks; c / 0 is infinite.
Rate(c, e) == IF 3 * e <= 2 * Second THEN <<3 * c, 2>> ELSE <<c * Second, e>>

\* The positions the loop may visit: from hi back to the first that is too old at
\* the instant at, or not after lo.
Reach(log, lo, hi, at) ==
  {i \in lo + 1 .. hi : \A j \in i .. hi : at - log[j].time <= Considered}

\* The search.  It stops at the first press of ks whose rate is below that of a
\* newer one, else where its reach ends; the answer is the rate of the oldest
\* press it accepted, and pre the bound for the next search.
Search(log, ks, lo, hi, at) ==
  LET reach == Reach(log, lo, hi, at)
      match == {i \in reach : log[i].key \in ks}
      rate == [i \in match |-> Rate(Cardinality({j \in match : j >= i}), at - log[i].time)]
      drops == {i \in match : \E j \in match : j > i /\ rate[i] \prec rate[j]}
      stop == IF drops # {} THEN Max(drops)
              ELSE IF reach # {} THEN Min(reach) - 1 ELSE hi
      accepted == {i \in match : i > stop}
  IN  [pre |-> stop, rate |-> IF accepted = {} THEN <<0, 1>> ELSE rate[Min(accepted)]]
=============================================================================
