------------------------------ MODULE Induction ------------------------------
(***************************************************************************)
(* Induction over numbers, in the form of facts about sets.  The theorems  *)
(* of the library take the induction formula as an operator, which the     *)
(* installed provers cannot instantiate; that the order of the naturals is *)
(* well-founded, from which these follow, is a statement about sets.       *)
(***************************************************************************)
EXTENDS Integers, WellFoundedInduction, TLAPS

\* Induction.
LEMMA Induct ==
  ASSUME NEW S, 0 \in S, \A n \in Nat : n \in S => n + 1 \in S
  PROVE  Nat \subseteq S
<1> SUFFICES ASSUME NEW m \in Nat, m \notin S PROVE FALSE
  OBVIOUS
<1> DEFINE Out == Nat \ S
<1>1. Out \subseteq Nat /\ Out # {}
  OBVIOUS
<1>2. PICK x \in Out : \A y \in Out : <<y, x>> \notin OpToRel(<, Nat)
  <2> HIDE DEF Out
  <2> QED BY <1>1, NatLessThanWellFounded, WFMin
<1>3. x # 0 /\ x \in Nat
  OBVIOUS
<1>4. x - 1 \in Nat /\ x - 1 < x
  BY <1>3
<1>5. x - 1 \notin Out
  BY <1>1, <1>2, <1>3, <1>4 DEF OpToRel
<1> QED BY <1>3, <1>4, <1>5

\* A set of integers that is bounded has a least and a greatest element.
LEMMA LeastThere ==
  ASSUME NEW S, S \subseteq Int, S # {}, NEW lo \in Int, \A x \in S : lo <= x
  PROVE  \E x \in S : \A y \in S : x <= y
<1> SUFFICES ASSUME \A x \in S : \E y \in S : y < x PROVE FALSE
  OBVIOUS
<1> DEFINE Above == {n \in Nat : \A x \in S : lo + n <= x}
<1>1. 0 \in Above
  OBVIOUS
<1>2. ASSUME NEW n \in Nat, n \in Above PROVE n + 1 \in Above
  <2> SUFFICES ASSUME NEW x \in S PROVE lo + (n + 1) <= x
    OBVIOUS
  <2>1. PICK y \in S : y < x
    OBVIOUS
  <2>2. lo + n <= y
    BY <1>2
  <2> QED BY <2>1, <2>2
<1>3. Nat \subseteq Above
  <2> HIDE DEF Above
  <2> QED BY <1>1, <1>2, Induct
<1>4. PICK x \in S : TRUE
  OBVIOUS
<1>5. (x - lo) + 1 \in Nat /\ x \in Int
  BY <1>4
<1>6. lo + ((x - lo) + 1) <= x
  BY <1>3, <1>5
<1> QED BY <1>5, <1>6

LEMMA GreatestThere ==
  ASSUME NEW S, S \subseteq Int, S # {}, NEW hi \in Int, \A x \in S : x <= hi
  PROVE  \E x \in S : \A y \in S : y <= x
<1> DEFINE T == {x \in Int : -x \in S}
<1>1. \A x \in S : -x \in T
  OBVIOUS
<1>2. T \subseteq Int /\ T # {} /\ -hi \in Int /\ \A x \in T : -hi <= x
  <2>1. T # {}
    BY <1>1
  <2>2. ASSUME NEW x \in T PROVE -hi <= x
    <3>1. -x <= hi
      OBVIOUS
    <3> QED BY <3>1
  <2> QED BY <2>1, <2>2
<1>3. PICK x \in T : \A y \in T : x <= y
  <2> HIDE DEF T
  <2> QED BY <1>2, LeastThere
<1>4. ASSUME NEW y \in S PROVE y <= -x
  <2>1. x <= -y
    BY <1>1, <1>3
  <2> QED BY <2>1
<1> QED BY <1>4

-----------------------------------------------------------------------------
\* Induction between two bounds.
LEMMA InductTo ==
  ASSUME NEW lo \in Int, NEW hi \in Int, NEW S, lo \in S,
         \A i \in lo + 1 .. hi : i - 1 \in S => i \in S
  PROVE  lo .. hi \subseteq S
<1> DEFINE Good == {n \in Nat : lo + n <= hi => lo + n \in S}
<1>1. 0 \in Good
  OBVIOUS
<1>2. ASSUME NEW n \in Nat, n \in Good PROVE n + 1 \in Good
  <2> SUFFICES ASSUME lo + (n + 1) <= hi PROVE lo + (n + 1) \in S
    OBVIOUS
  <2>1. lo + n \in S
    BY <1>2
  <2>2. lo + (n + 1) \in lo + 1 .. hi /\ (lo + (n + 1)) - 1 = lo + n
    OBVIOUS
  <2> QED BY <2>1, <2>2
<1>3. Nat \subseteq Good
  <2> HIDE DEF Good
  <2> QED BY <1>1, <1>2, Induct
<1>4. ASSUME NEW i \in lo .. hi PROVE i \in S
  <2>1. i - lo \in Nat /\ lo + (i - lo) = i /\ i <= hi
    OBVIOUS
  <2> QED BY <1>3, <2>1
<1> QED BY <1>4

\* A function defined by recursion from lo to hi: g[lo] is start, and each further
\* value comes from the one before by step.
Loop(g, lo, hi, start, step) ==
  g = [i \in lo .. hi |-> IF i = lo THEN start ELSE step[<<g[i - 1], i>>]]

\* There is such a function, with the values that step keeps to.
LEMMA LoopRuns ==
  ASSUME NEW lo \in Int, NEW hi \in Int, lo <= hi, NEW S, NEW start \in S, NEW step,
         \A x \in S, i \in lo + 1 .. hi : step[<<x, i>>] \in S
  PROVE  \E g \in [lo .. hi -> S] : Loop(g, lo, hi, start, step)
<1> DEFINE Run(g, n) == g \in [lo .. n -> S] /\ Loop(g, lo, n, start, step)
           Good == {n \in lo .. hi : \E g : Run(g, n)}
<1>1. lo \in Good
  <2> DEFINE g == [i \in lo .. lo |-> start]
  <2>1. g \in [lo .. lo -> S] /\ Loop(g, lo, lo, start, step)
    BY DEF Loop
  <2> QED BY <2>1
<1>2. ASSUME NEW n \in lo + 1 .. hi, n - 1 \in Good PROVE n \in Good
  <2>1. PICK g : Run(g, n - 1)
    BY <1>2
  <2> DEFINE new == step[<<g[n - 1], n>>]
             h == [i \in lo .. n |-> IF i = n THEN new ELSE g[i]]
  <2>2. new \in S
    BY <2>1
  <2>3. \A i \in lo .. n : i # n => i \in lo .. n - 1
    OBVIOUS
  <2>4. h \in [lo .. n -> S]
    BY <2>1, <2>2, <2>3
  <2>5. ASSUME NEW i \in lo .. n
        PROVE  h[i] = IF i = lo THEN start ELSE step[<<h[i - 1], i>>]
    <3>1. CASE i = n
      <4>1. i # lo /\ i - 1 \in lo .. n /\ i - 1 # n
        BY <3>1
      <4>2. h[i - 1] = g[n - 1]
        BY <3>1, <4>1
      <4> QED BY <3>1, <4>1, <4>2
    <3>2. CASE i # n
      <4>1. i \in lo .. n - 1
        BY <3>2
      <4>2. g[i] = IF i = lo THEN start ELSE step[<<g[i - 1], i>>]
        BY <2>1, <4>1 DEF Loop
      <4>3. i # lo => i - 1 \in lo .. n /\ i - 1 # n
        BY <3>2
      <4> QED BY <3>2, <4>2, <4>3
    <3> QED BY <3>1, <3>2
  <2>6. Loop(h, lo, n, start, step)
    <3> HIDE DEF new
    <3>1. h = [i \in lo .. n |-> h[i]]
      OBVIOUS
    <3> HIDE DEF h
    <3> QED BY <2>5, <3>1 DEF Loop
  <2>7. \E g1 : Run(g1, n)
    BY <2>4, <2>6
  <2> HIDE DEF Run
  <2> QED BY <2>7
<1>3. hi \in Good
  <2>1. lo .. hi \subseteq Good
    <3> HIDE DEF Good
    <3> QED BY <1>1, <1>2, InductTo
  <2> QED BY <2>1
<1> QED BY <1>3
=============================================================================
