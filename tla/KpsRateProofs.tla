---------------------------- MODULE KpsRateProofs ----------------------------
(***************************************************************************)
(* Proofs about RateSearch, KpsSensitive and KpsGraph, for any keys, any   *)
(* lengths of seconds, frames and logs: what a search answers, that the    *)
(* bounds handed from search to search hide no press that counts, and that *)
(* neither the two pointers, nor the pivot, nor the stored buckets change  *)
(* what the plot shows.  The loops of the graph are recursive functions;   *)
(* what they compute is proved with Induction.                             *)
(***************************************************************************)
EXTENDS KpsSensitive, KpsGraph, FiniteSetTheorems, SequenceTheorems, Induction

-----------------------------------------------------------------------------
(* Part 1: the search *)

\* A nonempty part of an interval has the greatest and the least element that Max
\* and Min choose.
LEMMA MaxMin ==
  ASSUME NEW lo \in Int, NEW hi \in Int, NEW S, S \subseteq lo .. hi, S # {}
  PROVE  /\ Max(S) \in S /\ \A x \in S : x <= Max(S)
         /\ Min(S) \in S /\ \A x \in S : Min(S) <= x
<1>1. S \subseteq Int /\ \A x \in S : lo <= x /\ x <= hi
  OBVIOUS
<1>2. \E x \in S : \A y \in S : y <= x
  BY <1>1, GreatestThere
<1>3. \E x \in S : \A y \in S : x <= y
  BY <1>1, LeastThere
<1>4. Max(S) \in S /\ \A x \in S : x <= Max(S)
  BY <1>1, <1>2 DEF Max
<1>5. Min(S) \in S /\ \A x \in S : Min(S) <= x
  BY <1>1, <1>3 DEF Min
<1> QED BY <1>4, <1>5

-----------------------------------------------------------------------------
(* Rates *)

r1 \preceq r2 == ~(r2 \prec r1)

\* A rate is a rate, and above zero if presses were counted.
LEMMA RateTyped ==
  ASSUME NEW c \in Nat, NEW e \in Int, 0 <= e
  PROVE  Rate(c, e) \in Rates /\ (c > 0 => Rate(c, e)[1] > 0)
<1>1. Second \in Nat \ {0}
  BY NumbersAssumption
<1>2. c * Second \in Nat /\ (c > 0 => c * Second > 0)
  BY <1>1
<1> QED BY <1>1, <1>2 DEF Rate, Rates

\* Cross products compare as fractions do.
LEMMA CrossTransitive ==
  ASSUME NEW a \in Nat, NEW b \in Nat, NEW c \in Nat,
         NEW p \in Nat \ {0}, NEW q \in Nat \ {0}, NEW r \in Nat \ {0},
         a * q <= b * p, b * r <= c * q
  PROVE  a * r <= c * p
<1>1. (a * q) * r <= (b * p) * r
  OBVIOUS
<1>2. (b * r) * p <= (c * q) * p
  OBVIOUS
<1>3. (b * p) * r = (b * r) * p /\ (a * q) * r = (a * r) * q /\ (c * q) * p = (c * p) * q
  OBVIOUS
<1>4. a * r \in Nat /\ c * p \in Nat
  OBVIOUS
<1>5. (a * r) * q <= (c * p) * q
  BY <1>1, <1>2, <1>3
<1> DEFINE x == a * r
           y == c * p
<1>6. \A u, v \in Nat : u * q <= v * q => u <= v
  <2> SUFFICES ASSUME NEW u \in Nat, NEW v \in Nat, v < u PROVE v * q < u * q
    OBVIOUS
  <2>1. u - v \in Nat \ {0}
    OBVIOUS
  <2>2. (u - v) * q > 0
    BY <2>1
  <2>3. (u - v) * q = u * q - v * q
    OBVIOUS
  <2> QED BY <2>2, <2>3
<1> QED BY <1>4, <1>5, <1>6

\* Not being above is transitive.
LEMMA PrecTransitive ==
  ASSUME NEW r1 \in Rates, NEW r2 \in Rates, NEW r3 \in Rates,
         r1 \preceq r2, r2 \preceq r3
  PROVE  r1 \preceq r3
<1>1. r1[1] * r2[2] <= r2[1] * r1[2]
  BY DEF Rates, \prec, \preceq
<1>2. r2[1] * r3[2] <= r3[1] * r2[2]
  BY DEF Rates, \prec, \preceq
<1>3. r1[1] * r3[2] <= r3[1] * r1[2]
  <2> DEFINE a == r1[1]  b == r2[1]  c == r3[1]
             p == r1[2]  q == r2[2]  r == r3[2]
  <2>1. /\ a \in Nat /\ b \in Nat /\ c \in Nat
        /\ p \in Nat \ {0} /\ q \in Nat \ {0} /\ r \in Nat \ {0}
    BY DEF Rates
  <2>2. a * q <= b * p /\ b * r <= c * q
    BY <1>1, <1>2
  <2> HIDE DEF a, b, c, p, q, r
  <2>3. a * r <= c * p
    BY <2>1, <2>2, CrossTransitive
  <2> QED BY <2>3 DEF a, c, p, r
<1> QED BY <1>3 DEF Rates, \prec, \preceq

\* As time passes the rate of the same presses sinks.
LEMMA RateSinks ==
  ASSUME NEW c \in Nat, NEW e \in Nat, NEW f \in Nat, e <= f
  PROVE  Rate(c, f) \preceq Rate(c, e)
<1> DEFINE s == Second
<1>1. s \in Nat \ {0}
  BY NumbersAssumption
<1> HIDE DEF s
<1>2. CASE 3 * f <= 2 * s
  <2>1. Rate(c, f) = <<3 * c, 2>> /\ Rate(c, e) = <<3 * c, 2>>
    BY <1>1, <1>2 DEF Rate, s
  <2> QED BY <2>1 DEF \preceq, \prec
<1>3. CASE 3 * f > 2 * s /\ 3 * e <= 2 * s
  <2>1. Rate(c, f) = <<c * s, f>> /\ Rate(c, e) = <<3 * c, 2>>
    BY <1>1, <1>3 DEF Rate, s
  <2>2. (c * s) * 2 <= (3 * c) * f
    <3>1. (3 * f - 2 * s) * c >= 0
      <4>1. 3 * f - 2 * s \in Nat
        BY <1>1, <1>3
      <4> QED BY <4>1
    <3>2. (3 * f - 2 * s) * c = (3 * c) * f - (c * s) * 2
      BY <1>1
    <3>3. (c * s) * 2 \in Int /\ (3 * c) * f \in Int
      BY <1>1
    <3> QED BY <3>1, <3>2, <3>3
  <2> QED BY <1>1, <2>1, <2>2 DEF \preceq, \prec
<1>4. CASE 3 * f > 2 * s /\ 3 * e > 2 * s
  <2>1. Rate(c, f) = <<c * s, f>> /\ Rate(c, e) = <<c * s, e>>
    BY <1>1, <1>4 DEF Rate, s
  <2>2. c * s \in Nat
    BY <1>1
  <2>3. (c * s) * e <= (c * s) * f
    BY <2>2
  <2> QED BY <2>1, <2>2, <2>3 DEF \preceq, \prec
<1> QED BY <1>1, <1>2, <1>3, <1>4

-----------------------------------------------------------------------------
(* The search *)

\* The presses of ks among the records i to hi, and the rate they give.
CountFrom(log, ks, i, hi) == Cardinality({j \in i .. hi : log[j].key \in ks})
RateFrom(log, ks, i, hi, at) == Rate(CountFrom(log, ks, i, hi), at - log[i].time)

\* The presses of ks in reach.
Matches(log, ks, lo, hi, at) == {i \in Reach(log, lo, hi, at) : log[i].key \in ks}

\* No record of the log up to hi is younger than the instant at.
NotAfter(log, hi, at) ==
  log \in Seq(Press) /\ hi \in 0 .. Len(log) /\ \A i \in 1 .. hi : log[i].time <= at

\* A count of matching positions is a number.
LEMMA CountTyped ==
  ASSUME NEW log, NEW ks, NEW i \in Int, NEW hi \in Int
  PROVE  /\ IsFiniteSet({j \in i .. hi : log[j].key \in ks})
         /\ CountFrom(log, ks, i, hi) \in Nat
         /\ i <= hi /\ log[i].key \in ks => CountFrom(log, ks, i, hi) > 0
<1> DEFINE T == {j \in i .. hi : log[j].key \in ks}
<1>1. IsFiniteSet(T)
  BY FS_Interval, FS_Subset
<1>2. Cardinality(T) \in Nat /\ (Cardinality(T) = 0 <=> T = {})
  BY <1>1, FS_CardinalityType, FS_EmptySet
<1> QED BY <1>1, <1>2 DEF CountFrom

\* The rate from a position in reach is a rate.
LEMMA RateFromTyped ==
  ASSUME NEW log, NEW ks, NEW hi, NEW at \in Int, NotAfter(log, hi, at), NEW i \in 1 .. hi
  PROVE  /\ RateFrom(log, ks, i, hi, at) \in Rates
         /\ log[i].key \in ks => RateFrom(log, ks, i, hi, at)[1] > 0
<1>1. at - log[i].time \in Int /\ 0 <= at - log[i].time
  <2>1. log[i] \in Press
    BY DEF NotAfter
  <2> QED BY <2>1 DEF NotAfter, Press
<1>2. hi \in Int /\ i \in Int /\ i <= hi
  BY DEF NotAfter
<1> QED BY <1>1, <1>2, CountTyped, RateTyped DEF RateFrom

\* What is in reach, newer records than one that is are too.
LEMMA ReachClosed ==
  ASSUME NEW log, NEW lo \in Nat, NEW hi \in Int, NEW at,
         NEW i \in Reach(log, lo, hi, at), NEW j \in i .. hi
  PROVE  /\ Reach(log, lo, hi, at) \subseteq lo + 1 .. hi
         /\ j \in Reach(log, lo, hi, at)
  BY DEF Reach

\* The search stops in the log, not before its bound, and everything after is in
\* reach.  Its answer is zero without a match, else the rate of the oldest match
\* after the stop, which no newer match exceeds.
LEMMA SearchFacts ==
  ASSUME NEW log, NEW ks, NEW lo \in Nat, NEW hi, NEW at \in Int, NotAfter(log, hi, at)
  PROVE  LET res == Search(log, ks, lo, hi, at)
             matches == Matches(log, ks, lo, hi, at)
         IN  /\ res.pre \in 0 .. hi /\ (lo <= hi => lo <= res.pre)
             /\ res.pre + 1 .. hi \subseteq Reach(log, lo, hi, at)
             /\ matches = {} => res.rate = <<0, 1>>
             /\ matches # {} =>
                  \E m \in matches :
                    /\ m > res.pre
                    /\ res.rate = RateFrom(log, ks, m, hi, at)
                    /\ \A i \in matches : i > res.pre =>
                         m <= i /\ RateFrom(log, ks, i, hi, at) \preceq res.rate
<1> DEFINE reach == Reach(log, lo, hi, at)
           match == {i \in reach : log[i].key \in ks}
           rate == [i \in match |-> Rate(Cardinality({j \in match : j >= i}), at - log[i].time)]
           drops == {i \in match : \E j \in match : j > i /\ rate[i] \prec rate[j]}
           stop == IF drops # {} THEN Max(drops)
                   ELSE IF reach # {} THEN Min(reach) - 1 ELSE hi
           accepted == {i \in match : i > stop}
           answer == IF accepted = {} THEN <<0, 1>> ELSE rate[Min(accepted)]
           res == Search(log, ks, lo, hi, at)
<1>1. res = [pre |-> stop, rate |-> answer]
  BY DEF Search
<1>2. match = Matches(log, ks, lo, hi, at)
  BY DEF Matches
<1>3. hi \in Nat /\ hi \in Int /\ lo + 1 \in Int /\ match \subseteq reach
        /\ reach \subseteq lo + 1 .. hi /\ match \subseteq lo + 1 .. hi
  BY DEF NotAfter, Reach
<1> HIDE DEF reach
<1>4. \A i \in reach : i \in lo + 1 .. hi /\ i .. hi \subseteq reach
  BY <1>3, ReachClosed DEF reach
<1>5. ASSUME NEW i \in match PROVE rate[i] = RateFrom(log, ks, i, hi, at)
  <2>1. i \in reach /\ i .. hi \subseteq reach /\ i \in Int
    BY <1>3, <1>4
  <2>2. {j \in match : j >= i} = {j \in i .. hi : log[j].key \in ks}
    BY <1>3, <2>1
  <2> QED BY <2>2 DEF RateFrom, CountFrom
<1>6. drops \subseteq match /\ drops \subseteq lo + 1 .. hi
  BY <1>3
<1>7. \A i \in match : i \notin drops => \A j \in match : j > i => ~(rate[i] \prec rate[j])
  OBVIOUS
<1> HIDE DEF match, rate
<1>8. ASSUME NEW m \in match, \A i \in match : i <= m PROVE m \notin drops
  <2>1. \A j \in match : m \in Int /\ j \in Int /\ j <= m
    BY <1>3, <1>8
  <2> QED BY <2>1
<1> HIDE DEF drops
<1>9. drops # {} => stop \in drops /\ \A i \in drops : i <= stop
  BY <1>3, <1>6, MaxMin
<1>10. ASSUME drops = {}, reach # {} PROVE stop + 1 \in reach /\ \A i \in reach : stop < i
  <2>1. Min(reach) \in reach /\ \A i \in reach : Min(reach) <= i
    BY <1>3, <1>10, MaxMin
  <2>2. stop = Min(reach) - 1
    BY <1>10
  <2>3. Min(reach) \in lo + 1 .. hi
    BY <1>3, <2>1
  <2> QED BY <1>3, <2>1, <2>2, <2>3
<1>11. drops = {} /\ reach = {} => stop = hi
  OBVIOUS
<1> HIDE DEF stop
<1>12. stop \in 0 .. hi /\ (lo <= hi => lo <= stop)
  <2>1. CASE drops # {}
    <3>1. stop \in lo + 1 .. hi
      BY <1>6, <1>9, <2>1
    <3> QED BY <1>3, <3>1
  <2>2. CASE drops = {} /\ reach # {}
    <3>1. stop + 1 \in lo + 1 .. hi /\ stop \in Int
      <4>1. stop = Min(reach) - 1
        BY <2>2 DEF stop
      <4>2. Min(reach) \in lo + 1 .. hi
        BY <1>3, <2>2, MaxMin
      <4> QED BY <1>3, <4>1, <4>2
    <3> QED BY <1>3, <3>1
  <2>3. CASE drops = {} /\ reach = {}
    BY <1>3, <1>11, <2>3
  <2> QED BY <2>1, <2>2, <2>3
<1>13. stop + 1 .. hi \subseteq reach
  <2>1. CASE drops # {}
    <3>1. stop \in reach
      BY <1>3, <1>6, <1>9, <2>1
    <3> QED BY <1>4, <1>12, <3>1
  <2>2. CASE drops = {} /\ reach # {}
    <3>1. stop + 1 \in reach
      BY <1>10, <2>2
    <3> QED BY <1>4, <3>1
  <2>3. CASE drops = {} /\ reach = {}
    BY <1>3, <1>11, <2>3
  <2> QED BY <2>1, <2>2, <2>3
<1>14. match = {} => answer = <<0, 1>>
  OBVIOUS
<1>15. ASSUME match # {}
       PROVE  \E m \in match : /\ m > stop /\ answer = rate[m]
                               /\ \A i \in match : i > stop => m <= i /\ rate[i] \preceq answer
  <2>1. PICK new \in match : \A i \in match : i <= new
    <3>1. Max(match) \in match /\ \A i \in match : i <= Max(match)
      BY <1>3, <1>15, MaxMin
    <3> QED BY <3>1
  <2>2. new > stop
    <3>1. CASE drops # {}
      <4>1. new # stop /\ stop <= new
        BY <1>6, <1>8, <1>9, <2>1, <3>1
      <4> QED BY <1>3, <1>12, <4>1
    <3>2. CASE drops = {}
      BY <1>3, <1>10, <3>2
    <3> QED BY <3>1, <3>2
  <2>3. accepted # {} /\ accepted \subseteq lo + 1 .. hi
    BY <1>3, <2>2
  <2> DEFINE m == Min(accepted)
  <2>4. m \in accepted /\ \A i \in accepted : m <= i
    <3> HIDE DEF accepted
    <3> QED BY <1>3, <2>3, MaxMin
  <2>5. answer = rate[m]
    BY <2>3
  <2> HIDE DEF m, answer
  <2>6. m \in match /\ m > stop
    BY <2>4
  <2>7. m \notin drops
    <3>1. drops # {} => m > stop
      BY <2>6
    <3> QED BY <1>3, <1>9, <1>12, <2>6, <3>1
  <2>8. ASSUME NEW i \in match, i > stop PROVE m <= i /\ rate[i] \preceq answer
    <3>1. m <= i
      BY <2>4, <2>8
    <3>2. CASE i = m
      <4>1. rate[i] \in Rates
        BY <1>2, <1>3, <1>5, RateFromTyped
      <4> QED BY <2>5, <3>1, <3>2, <4>1 DEF \preceq, \prec, Rates
    <3>3. CASE i # m
      <4>1. i > m
        BY <1>3, <2>6, <3>1, <3>3
      <4> QED BY <1>7, <2>5, <2>6, <2>7, <3>1, <4>1 DEF \preceq
    <3> QED BY <3>2, <3>3
  <2> QED BY <2>5, <2>6, <2>8
<1>16. res.pre = stop /\ res.rate = answer
  BY <1>1
<1> HIDE DEF res, answer, accepted
<1>17. match # {} => \E m \in match : m > res.pre /\ res.rate = RateFrom(log, ks, m, hi, at)
          /\ \A i \in match : i > res.pre => m <= i /\ RateFrom(log, ks, i, hi, at) \preceq res.rate
  BY <1>5, <1>15, <1>16
<1> QED BY <1>2, <1>12, <1>13, <1>14, <1>16, <1>17 DEF reach, res

\* The answer is a rate, and above zero exactly with a match.
LEMMA SearchTyped ==
  ASSUME NEW log, NEW ks, NEW lo \in Nat, NEW hi, NEW at \in Int, NotAfter(log, hi, at)
  PROVE  LET res == Search(log, ks, lo, hi, at)
         IN  /\ res = [pre |-> res.pre, rate |-> res.rate]
             /\ res.rate \in Rates
             /\ res.rate[1] > 0 <=> Matches(log, ks, lo, hi, at) # {}
<1> DEFINE res == Search(log, ks, lo, hi, at)
           matches == Matches(log, ks, lo, hi, at)
<1>1. res = [pre |-> res.pre, rate |-> res.rate]
  BY SMTT(60) DEF Search
<1>2. matches \subseteq 1 .. hi /\ \A m \in matches : log[m].key \in ks
  BY DEF NotAfter, Matches, Reach
<1>3. matches = {} => res.rate = <<0, 1>>
  BY SearchFacts
<1>4. matches # {} => \E m \in matches : res.rate = RateFrom(log, ks, m, hi, at)
  BY SearchFacts
<1> HIDE DEF res, matches
<1>5. res.rate \in Rates /\ (res.rate[1] > 0 <=> matches # {})
  <2>1. CASE matches = {}
    BY <1>3, <2>1 DEF Rates
  <2>2. CASE matches # {}
    <3>1. PICK m \in matches : res.rate = RateFrom(log, ks, m, hi, at)
      BY <1>4, <2>2
    <3>2. m \in 1 .. hi /\ log[m].key \in ks
      BY <1>2
    <3> QED BY <2>2, <3>1, <3>2, RateFromTyped
  <2> QED BY <2>1, <2>2
<1> QED BY <1>1, <1>5, SMTT(60) DEF res, matches

-----------------------------------------------------------------------------
(* The log *)

\* A log ascends by time and holds nothing from the future.
Ascends(log) ==
  /\ \A i, j \in 1 .. Len(log) : i <= j => log[i].time <= log[j].time
  /\ \A i \in 1 .. Len(log) : log[i].time <= now

\* A log with one more press, no older than the others and not from the future.
LEMMA Appended ==
  ASSUME NEW log, log \in Seq(Press), Ascends(log), now \in Int, NEW e \in Press,
         e.time <= now, \A n \in 1 .. Len(log) : log[n].time <= e.time
  PROVE  /\ Append(log, e) \in Seq(Press) /\ Len(Append(log, e)) = Len(log) + 1
         /\ Append(log, e)[Len(log) + 1] = e
         /\ \A n \in 1 .. Len(log) : Append(log, e)[n] = log[n]
         /\ Ascends(Append(log, e))
<1> DEFINE new == Append(log, e)
           size == Len(log)
<1>1. /\ new \in Seq(Press) /\ Len(new) = size + 1 /\ new[size + 1] = e
      /\ \A n \in 1 .. size : new[n] = log[n]
      /\ size \in Nat
  OBVIOUS
<1>2. e.time \in Int
  BY DEF Press
<1>3. \A i \in 1 .. size : log[i].time <= e.time /\ log[i].time <= now
  BY DEF Ascends
<1>4. \A i, j \in 1 .. size : i <= j => log[i].time <= log[j].time
  BY DEF Ascends
<1> HIDE DEF new, size
<1>5. ASSUME NEW i \in 1 .. Len(new), NEW j \in 1 .. Len(new), i <= j
      PROVE  new[i].time <= new[j].time
  <2>1. CASE j \in 1 .. size
    BY <1>1, <1>4, <1>5, <2>1
  <2>2. CASE j = size + 1 /\ i = size + 1
    BY <1>1, <1>2, <2>2
  <2>3. CASE j = size + 1 /\ i \in 1 .. size
    BY <1>1, <1>3, <2>3
  <2> QED BY <1>1, <1>5, <2>1, <2>2, <2>3
<1>6. ASSUME NEW i \in 1 .. Len(new) PROVE new[i].time <= now
  <2>1. CASE i \in 1 .. size
    BY <1>1, <1>3, <2>1
  <2>2. CASE i = size + 1
    BY <1>1, <2>2
  <2> QED BY <1>1, <2>1, <2>2
<1>7. Ascends(new)
  BY <1>5, <1>6 DEF Ascends
<1> QED BY <1>1, <1>7 DEF new, size

\* As a log ascends, what is recent and after the bound is in reach.
LEMMA MatchIsRecent ==
  ASSUME NEW log, log \in Seq(Press), Ascends(log), NEW ks, NEW lo \in Nat,
         NEW hi \in 0 .. Len(log), NEW at \in Int
  PROVE  Matches(log, ks, lo, hi, at) =
           {i \in lo + 1 .. hi : log[i].key \in ks /\ at - log[i].time <= Considered}
<1>1. Considered \in Int /\ Len(log) \in Nat /\ hi \in Int /\ hi <= Len(log)
  BY NumbersAssumption
<1>2. \A i \in 1 .. Len(log) : log[i].time \in Int
  <2> TAKE i \in 1 .. Len(log)
  <2>1. log[i] \in Press
    OBVIOUS
  <2> QED BY <2>1 DEF Press
<1>3. ASSUME NEW i \in lo + 1 .. hi, at - log[i].time <= Considered, NEW j \in i .. hi
      PROVE  at - log[j].time <= Considered
  <2>1. i \in 1 .. Len(log) /\ j \in 1 .. Len(log) /\ i <= j
    BY <1>1
  <2>2. log[i].time <= log[j].time
    BY <2>1 DEF Ascends
  <2> QED BY <1>1, <1>2, <1>3, <2>1, <2>2
<1>4. ASSUME NEW i \in lo + 1 .. hi
      PROVE  i \in Reach(log, lo, hi, at) <=> at - log[i].time <= Considered
  BY <1>1, <1>3 DEF Reach
<1>5. Reach(log, lo, hi, at) \subseteq lo + 1 .. hi
  BY DEF Reach
<1> QED BY <1>4, <1>5 DEF Matches

-----------------------------------------------------------------------------
(* Part 2: the current KPS *)

Newest(k) == records_individual[k][Len(records_individual[k])]

LogsAscend == Ascends(records) /\ \A k \in Keys : Ascends(records_individual[k])

\* The log of a key holds the presses of the key, and the common log all of them.
LogsAgree ==
  /\ \A n \in 1 .. Len(records) : \E i \in 1 .. Len(records_individual[records[n].key]) :
       records_individual[records[n].key][i] = records[n]
  /\ \A k \in Keys : \A i \in 1 .. Len(records_individual[k]) :
       /\ records_individual[k][i].key = k
       /\ \E n \in 1 .. Len(records) : records[n] = records_individual[k][i]

\* While the newest press of a key is recent, the key's bound stays before it.
KeyBoundLow ==
  \A k \in Keys :
    Len(records_individual[k]) > 0 /\ now - Newest(k).time <= Considered
      => pre_farthest[k] < Len(records_individual[k])

\* While a press of the remembered keys is recent, their bound stays before the
\* last such press.
MultiBoundLow ==
  pre_multi_keys # {} =>
    /\ pre_farthest_multi <= Len(records)
    /\ \A n \in Recent(pre_multi_keys) :
         \E i \in n .. Len(records) :
           records[i].key \in pre_multi_keys /\ i > pre_farthest_multi

\* The presses after the bound never again give more than the rate shown.
LastCaps ==
  \A k \in Keys : last[k] # NoRate =>
    \A i \in pre_farthest[k] + 1 .. Len(records_individual[k]) :
      RateFrom(records_individual[k], {k}, i, Len(records_individual[k]), now) \preceq last[k]

SearchIInv ==
  SearchTypeOK /\ LogsAscend /\ LogsAgree /\ KeyBoundLow /\ MultiBoundLow /\ LastCaps

-----------------------------------------------------------------------------
\* No log holds a press from after the present.
LEMMA LogsNotAfter ==
  ASSUME SearchTypeOK, LogsAscend
  PROVE  /\ now \in Int
         /\ Len(records) \in Nat /\ NotAfter(records, Len(records), now)
         /\ \A k \in Keys : /\ Len(records_individual[k]) \in Nat
                            /\ NotAfter(records_individual[k], Len(records_individual[k]), now)
  BY DEF SearchTypeOK, LogsAscend, Ascends, NotAfter

\* What the searches return and leave as bounds.
LEMMA SearchKeyFacts ==
  ASSUME SearchTypeOK, LogsAscend, NEW k \in Keys
  PROVE  LET log == records_individual[k]
             res == SearchKey(k)
             matches == Matches(log, {k}, pre_farthest[k], Len(log), now)
         IN  /\ res.pre \in 0 .. Len(log) /\ res.rate \in Rates
             /\ res.rate[1] > 0 <=> matches # {}
             /\ matches = {} => res.rate = <<0, 1>>
             /\ matches # {} =>
                  \E m \in matches :
                    /\ m > res.pre
                    /\ res.rate = RateFrom(log, {k}, m, Len(log), now)
                    /\ \A i \in matches : i > res.pre =>
                         m <= i /\ RateFrom(log, {k}, i, Len(log), now) \preceq res.rate
             /\ res.pre + 1 .. Len(log) \subseteq Reach(log, pre_farthest[k], Len(log), now)
<1> DEFINE log == records_individual[k]
           lo == pre_farthest[k]
           hi == Len(log)
<1>1. SearchKey(k) = Search(log, {k}, lo, hi, now)
  BY DEF SearchKey, SearchFrom
<1>2. lo \in Nat /\ now \in Int /\ NotAfter(log, hi, now)
  BY LogsNotAfter DEF SearchTypeOK
<1> HIDE DEF log, lo, hi
<1> DEFINE res == Search(log, {k}, lo, hi, now)
           matches == Matches(log, {k}, lo, hi, now)
<1>3. res.pre \in 0 .. hi /\ res.pre + 1 .. hi \subseteq Reach(log, lo, hi, now)
  BY <1>2, SearchFacts
<1>4. res.rate \in Rates /\ (res.rate[1] > 0 <=> matches # {})
  BY <1>2, SearchTyped
<1>5. /\ matches = {} => res.rate = <<0, 1>>
      /\ matches # {} =>
           \E m \in matches :
             /\ m > res.pre
             /\ res.rate = RateFrom(log, {k}, m, hi, now)
             /\ \A i \in matches : i > res.pre =>
                  m <= i /\ RateFrom(log, {k}, i, hi, now) \preceq res.rate
  BY <1>2, SearchFacts
<1> HIDE DEF res, matches
<1>6. SearchKey(k) = res
  BY <1>1 DEF res
<1> QED BY <1>3, <1>4, <1>5, <1>6 DEF log, lo, hi, matches

\* What the search for the remembered keys starts from, and leaves.
LEMMA SearchKeysFacts ==
  ASSUME SearchTypeOK, LogsAscend, NEW ks \in SUBSET Keys
  PROVE  LET res == SearchKeys(ks)
             matches == Matches(records, ks, MultiBound(ks), Len(records), now)
         IN  /\ MultiBound(ks) \in Nat
             /\ res.pre \in 0 .. Len(records) /\ res.rate \in Rates
             /\ res.rate[1] > 0 <=> matches # {}
             /\ matches # {} => \E m \in matches : m > res.pre
<1> DEFINE lo == MultiBound(ks)
           hi == Len(records)
<1>1. SearchKeys(ks) = Search(records, ks, lo, hi, now)
  BY DEF SearchKeys, SearchFrom
<1>2. lo \in Nat /\ now \in Int /\ NotAfter(records, hi, now)
  BY LogsNotAfter DEF SearchTypeOK, MultiBound
<1> HIDE DEF lo, hi
<1> DEFINE res == Search(records, ks, lo, hi, now)
           matches == Matches(records, ks, lo, hi, now)
<1>3. res.pre \in 0 .. hi /\ (matches # {} => \E m \in matches : m > res.pre)
  BY <1>2, SearchFacts
<1>4. res.rate \in Rates /\ (res.rate[1] > 0 <=> matches # {})
  BY <1>2, SearchTyped
<1> HIDE DEF res, matches
<1>5. SearchKeys(ks) = res
  BY <1>1 DEF res
<1> QED BY <1>2, <1>3, <1>4, <1>5 DEF lo, hi, matches

\* The properties follow from the invariant.
LEMMA ShownFollows == SearchIInv => ShownWhileRecent
<1> SUFFICES ASSUME SearchIInv PROVE ShownWhileRecent
  OBVIOUS
<1> USE DEF SearchIInv
<1>1. ASSUME NEW k \in Keys PROVE SearchKey(k).rate[1] > 0 <=> Recent({k}) # {}
  <2> DEFINE log == records_individual[k]
             lo == pre_farthest[k]
             matches == Matches(log, {k}, lo, Len(log), now)
  <2>1. matches = {i \in lo + 1 .. Len(log) : log[i].key \in {k} /\ now - log[i].time <= Considered}
    BY MatchIsRecent, LogsNotAfter DEF SearchTypeOK, LogsAscend
  <2>2. lo \in Nat /\ Len(log) \in Nat
    BY DEF SearchTypeOK
  <2>3. ASSUME matches # {} PROVE Recent({k}) # {}
    <3>1. PICK i \in lo + 1 .. Len(log) : now - log[i].time <= Considered
      BY <2>1, <2>3
    <3>2. i \in 1 .. Len(log)
      BY <2>2
    <3>3. PICK n \in 1 .. Len(records) : records[n] = log[i]
      BY <3>2 DEF LogsAgree
    <3>4. log[i].key = k
      BY <3>2 DEF LogsAgree
    <3> QED BY <3>1, <3>3, <3>4 DEF Recent
  <2>4. ASSUME Recent({k}) # {} PROVE matches # {}
    <3>1. PICK n \in 1 .. Len(records) : records[n].key = k /\ now - records[n].time <= Considered
      BY <2>4 DEF Recent
    <3>2. PICK i \in 1 .. Len(log) : log[i] = records[n]
      BY <3>1 DEF LogsAgree
    <3> DEFINE new == Len(log)
    <3>3. new \in 1 .. Len(log) /\ i <= new
      BY <2>2
    <3>4. now - log[new].time <= Considered
      <4>1. log[i].time <= log[new].time
        BY <3>2, <3>3 DEF LogsAscend, Ascends
      <4>2. log[i] \in Press /\ log[new] \in Press
        BY <3>2, <3>3 DEF SearchTypeOK
      <4> HIDE DEF new, log
      <4>3. log[i].time \in Int /\ log[new].time \in Int
        BY <4>2 DEF Press
      <4>4. now \in Int /\ Considered \in Int
        BY NumbersAssumption DEF SearchTypeOK
      <4>5. now - log[i].time <= Considered
        BY <3>1, <3>2
      <4> QED BY <4>1, <4>3, <4>4, <4>5
    <3>5. lo < new
      BY <2>2, <3>2, <3>4 DEF KeyBoundLow, Newest
    <3>6. log[new].key = k
      BY <3>3 DEF LogsAgree
    <3>7. new \in lo + 1 .. Len(log)
      BY <2>2, <3>3, <3>5
    <3> HIDE DEF new, matches
    <3> QED BY <2>1, <3>4, <3>6, <3>7
  <2>5. SearchKey(k).rate[1] > 0 <=> matches # {}
    BY SearchKeyFacts
  <2> QED BY <2>3, <2>4, <2>5
<1>2. ASSUME NEW ks \in SUBSET Keys PROVE SearchKeys(ks).rate[1] > 0 <=> Recent(ks) # {}
  <2> DEFINE lo == MultiBound(ks)
             matches == Matches(records, ks, lo, Len(records), now)
  <2>1. lo \in Nat /\ (SearchKeys(ks).rate[1] > 0 <=> matches # {})
    BY SearchKeysFacts
  <2>2. matches = {i \in lo + 1 .. Len(records) :
                     records[i].key \in ks /\ now - records[i].time <= Considered}
    BY <2>1, MatchIsRecent, LogsNotAfter DEF SearchTypeOK, LogsAscend
  <2>3. Len(records) \in Nat
    BY DEF SearchTypeOK
  <2>4. matches # {} => Recent(ks) # {}
    BY <2>1, <2>2, <2>3 DEF Recent
  <2>5. ASSUME NEW n \in Recent(ks) PROVE matches # {}
    <3>1. \E i \in n .. Len(records) : records[i].key \in ks /\ i > lo
      <4>1. CASE pre_multi_keys = ks /\ ks # {}
        BY <2>5, <4>1 DEF MultiBoundLow, MultiBound
      <4>2. CASE ks = {}
        BY <4>2 DEF Recent
      <4>3. CASE pre_multi_keys # ks
        BY <2>3, <2>5, <4>3 DEF MultiBound, Recent
      <4> QED BY <4>1, <4>2, <4>3
    <3>2. PICK i \in n .. Len(records) : records[i].key \in ks /\ i > lo
      BY <3>1
    <3>3. /\ n \in 1 .. Len(records) /\ i \in 1 .. Len(records) /\ n <= i
          /\ now - records[n].time <= Considered
      BY <2>3 DEF Recent
    <3>4. records[n].time <= records[i].time
      BY <3>3 DEF LogsAscend, Ascends
    <3>5. records[n] \in Press /\ records[i] \in Press
      BY <3>3 DEF SearchTypeOK
    <3>6. records[n].time \in Int /\ records[i].time \in Int /\ now \in Int /\ Considered \in Int
      BY <3>5, NumbersAssumption, SMTT(60) DEF Press, SearchTypeOK
    <3>7. now - records[i].time <= Considered
      BY <3>3, <3>4, <3>6
    <3> QED BY <2>1, <2>2, <2>3, <3>2, <3>3, <3>7
  <2> QED BY <2>1, <2>4, <2>5
<1> QED BY <1>1, <1>2 DEF ShownWhileRecent

\* Without a press the rate of a key does not rise.
LEMMA CapFollows == SearchIInv => NoRiseWithoutPress
<1> SUFFICES ASSUME SearchIInv, NEW k \in Keys, last[k] # NoRate
             PROVE  SearchKey(k).rate \preceq last[k]
  BY DEF NoRiseWithoutPress, \preceq
<1> USE DEF SearchIInv
<1> DEFINE log == records_individual[k]
           res == SearchKey(k)
           matches == Matches(log, {k}, pre_farthest[k], Len(log), now)
<1>1. last[k] \in Rates
  BY DEF SearchTypeOK
<1>2. CASE matches = {}
  <2>1. res.rate = <<0, 1>>
    BY <1>2, SearchKeyFacts
  <2> QED BY <1>1, <2>1 DEF Rates, \preceq, \prec
<1>3. CASE matches # {}
  <2>1. PICK m \in matches : res.rate = RateFrom(log, {k}, m, Len(log), now)
    BY <1>3, SearchKeyFacts
  <2>2. m \in pre_farthest[k] + 1 .. Len(log)
    BY DEF Matches, Reach
  <2> QED BY <2>1, <2>2 DEF LastCaps
<1> QED BY <1>2, <1>3

-----------------------------------------------------------------------------
(* The steps *)

\* The first state.
LEMMA SearchInitIInv == SearchInit => SearchIInv
<1> SUFFICES ASSUME SearchInit PROVE SearchIInv
  OBVIOUS
<1>1. SearchTypeOK
  BY NumbersAssumption DEF SearchInit, SearchTypeOK
<1>2. LogsAscend /\ LogsAgree /\ KeyBoundLow /\ MultiBoundLow /\ LastCaps
  BY DEF SearchInit, LogsAscend, Ascends, LogsAgree, KeyBoundLow, MultiBoundLow, LastCaps
<1> QED BY <1>1, <1>2 DEF SearchIInv

\* Presses only get older.
LEMMA SearchTickStep == SearchIInv /\ SearchTick => SearchIInv'
<1> SUFFICES ASSUME SearchIInv, SearchTick PROVE SearchIInv'
  OBVIOUS
<1> USE DEF SearchIInv
<1>1. /\ now' = now + 1 /\ now \in Nat
      /\ UNCHANGED <<records, records_individual, pre_farthest, pre_multi_keys,
                     pre_farthest_multi, last>>
  BY DEF SearchTick, Advance, bounds, SearchTypeOK
<1>2. SearchTypeOK'
  BY <1>1 DEF SearchTypeOK
<1>3. \A n \in 1 .. Len(records) : records[n].time \in Int
  <2> TAKE n \in 1 .. Len(records)
  <2>1. records[n] \in Press
    BY DEF SearchTypeOK
  <2> QED BY <2>1 DEF Press
<1>4. ASSUME NEW k \in Keys, NEW n \in 1 .. Len(records_individual[k])
      PROVE  records_individual[k][n].time \in Int
  <2>1. records_individual[k][n] \in Press
    BY DEF SearchTypeOK
  <2> QED BY <2>1 DEF Press
<1>5. LogsAscend'
  <2>1. \A n \in 1 .. Len(records) : records[n].time <= now + 1
    BY <1>1, <1>3 DEF LogsAscend, Ascends
  <2>2. ASSUME NEW k \in Keys, NEW n \in 1 .. Len(records_individual[k])
        PROVE  records_individual[k][n].time <= now + 1
    <3>1. records_individual[k][n].time <= now
      BY DEF LogsAscend, Ascends
    <3> QED BY <1>1, <1>4, <3>1
  <2> QED BY <1>1, <2>1, <2>2 DEF LogsAscend, Ascends
<1>6. LogsAgree'
  BY <1>1 DEF LogsAgree
<1>7. KeyBoundLow'
  <2> SUFFICES ASSUME NEW k \in Keys, Len(records_individual[k]) > 0,
                      (now + 1) - Newest(k).time <= Considered
               PROVE  pre_farthest[k] < Len(records_individual[k])
    BY <1>1 DEF KeyBoundLow, Newest
  <2>1. Newest(k).time \in Int /\ Considered \in Int
    BY <1>4, NumbersAssumption DEF Newest, SearchTypeOK
  <2>2. now - Newest(k).time <= Considered
    BY <1>1, <2>1
  <2> QED BY <2>2 DEF KeyBoundLow
<1>8. MultiBoundLow'
  <2>1. Recent(pre_multi_keys)' \subseteq Recent(pre_multi_keys)
    BY <1>1, <1>3, NumbersAssumption DEF Recent
  <2> QED BY <1>1, <2>1 DEF MultiBoundLow
<1>9. LastCaps'
  <2> SUFFICES ASSUME NEW k \in Keys, last[k] # NoRate,
                      NEW i \in pre_farthest[k] + 1 .. Len(records_individual[k])
               PROVE  RateFrom(records_individual[k], {k}, i, Len(records_individual[k]), now + 1)
                        \preceq last[k]
    BY <1>1 DEF LastCaps
  <2> DEFINE log == records_individual[k]
             c == CountFrom(log, {k}, i, Len(log))
             e == now - log[i].time
  <2>1. i \in 1 .. Len(log) /\ i \in Int /\ Len(log) \in Int
    BY DEF SearchTypeOK
  <2>2. c \in Nat /\ e \in Nat /\ (now + 1) - log[i].time = e + 1
    <3>1. log[i].time \in Int /\ log[i].time <= now
      BY <1>4, <2>1 DEF LogsAscend, Ascends
    <3>2. c \in Nat
      BY <2>1, CountTyped
    <3> HIDE DEF c
    <3> QED BY <1>1, <3>1, <3>2
  <2>3. Rate(c, e) \preceq last[k]
    BY DEF LastCaps, RateFrom
  <2>4. last[k] \in Rates
    BY DEF SearchTypeOK
  <2> HIDE DEF c, e
  <2>5. Rate(c, e + 1) \preceq Rate(c, e) /\ Rate(c, e) \in Rates /\ Rate(c, e + 1) \in Rates
    BY <2>2, RateSinks, RateTyped
  <2>6. Rate(c, e + 1) \preceq last[k]
    BY <2>3, <2>4, <2>5, PrecTransitive
  <2> QED BY <2>2, <2>6 DEF RateFrom, c, log
<1> QED BY <1>2, <1>5, <1>6, <1>7, <1>8, <1>9

\* A new press is newer than every bound, and what was shown for its key is past.
LEMMA SearchNotifyStep ==
  ASSUME SearchIInv, NEW k \in Keys, NEW at \in 0 .. now, SearchNotify(k, at) PROVE SearchIInv'
<1> USE DEF SearchIInv
<1> DEFINE e == [key |-> k, time |-> at]
           own == records_individual[k]
<1>1. /\ records' = Append(records, e)
      /\ records_individual' = [records_individual EXCEPT ![k] = Append(own, e)]
      /\ last' = [last EXCEPT ![k] = NoRate]
      /\ UNCHANGED <<now, pre_farthest, pre_multi_keys, pre_farthest_multi>>
      /\ \A n \in 1 .. Len(records) : records[n].time <= at
  BY DEF SearchNotify, Push, bounds
<1>2. /\ now \in Int /\ e \in Press /\ e.time <= now /\ e.key = k /\ e.time = at
      /\ records \in Seq(Press) /\ own \in Seq(Press) /\ Ascends(records) /\ Ascends(own)
      /\ Len(records) \in Nat /\ Len(own) \in Nat
  <2>1. /\ now \in Int /\ records \in Seq(Press) /\ own \in Seq(Press)
        /\ Len(records) \in Nat /\ Len(own) \in Nat
    BY DEF SearchTypeOK
  <2>2. at \in Nat /\ at <= now
    BY <2>1
  <2>3. Ascends(records) /\ Ascends(own)
    BY DEF LogsAscend
  <2>4. e \in Press /\ e.key = k /\ e.time = at
    BY <2>2 DEF Press
  <2> QED BY <2>1, <2>2, <2>3, <2>4
<1>3. \A n \in 1 .. Len(own) : own[n].time <= at
  BY <1>1 DEF LogsAgree
<1> HIDE DEF e
<1> DEFINE new == Append(records, e)
           newOwn == Append(own, e)
<1>4. /\ new \in Seq(Press) /\ Len(new) = Len(records) + 1 /\ new[Len(records) + 1] = e
      /\ \A n \in 1 .. Len(records) : new[n] = records[n]
      /\ Ascends(new)
  BY <1>1, <1>2, Appended
<1>5. /\ newOwn \in Seq(Press) /\ Len(newOwn) = Len(own) + 1 /\ newOwn[Len(own) + 1] = e
      /\ \A n \in 1 .. Len(own) : newOwn[n] = own[n]
      /\ Ascends(newOwn)
  BY <1>2, <1>3, Appended
<1> HIDE DEF new, newOwn
<1>6. records' = new /\ now' = now
  BY <1>1 DEF new
<1>7. \A q \in Keys : records_individual'[q] = IF q = k THEN newOwn ELSE records_individual[q]
  BY <1>1 DEF newOwn, SearchTypeOK
<1>8. SearchTypeOK'
  <2>1. records_individual' \in [Keys -> Seq(Press)]
    BY <1>1, <1>5 DEF newOwn, SearchTypeOK
  <2>2. ASSUME NEW q \in Keys PROVE pre_farthest[q] <= Len(records_individual'[q])
    <3>1. pre_farthest[q] \in Nat /\ pre_farthest[q] <= Len(records_individual[q])
      BY DEF SearchTypeOK
    <3> QED BY <1>2, <1>5, <1>7, <3>1
  <2>3. last' \in [Keys -> Rates \union {NoRate}]
    BY <1>1 DEF SearchTypeOK
  <2> QED BY <1>1, <1>4, <1>6, <2>1, <2>2, <2>3 DEF SearchTypeOK
<1>9. LogsAscend'
  BY <1>4, <1>5, <1>6, <1>7 DEF LogsAscend, Ascends
<1>10. LogsAgree'
  <2>1. ASSUME NEW n \in 1 .. Len(new)
        PROVE  \E i \in 1 .. Len(records_individual'[new[n].key]) :
                 records_individual'[new[n].key][i] = new[n]
    <3>1. CASE n = Len(records) + 1
      <4>1. new[n] = e /\ new[n].key = k /\ Len(own) + 1 \in 1 .. Len(newOwn)
        BY <1>2, <1>4, <1>5, <3>1
      <4> QED BY <1>5, <1>7, <4>1
    <3>2. CASE n \in 1 .. Len(records)
      <4> DEFINE q == records[n].key
      <4>1. new[n] = records[n] /\ q \in Keys
        <5>1. records[n] \in Press
          BY <1>2, <3>2
        <5> QED BY <1>4, <3>2, <5>1 DEF Press
      <4>2. PICK i \in 1 .. Len(records_individual[q]) : records_individual[q][i] = records[n]
        BY <3>2 DEF LogsAgree
      <4>3. CASE q = k
        <5>1. i \in 1 .. Len(newOwn) /\ newOwn[i] = records[n]
          BY <1>2, <1>5, <4>2, <4>3
        <5> QED BY <1>7, <4>1, <4>3, <5>1
      <4>4. CASE q # k
        BY <1>7, <4>1, <4>2, <4>4
      <4> QED BY <4>3, <4>4
    <3> QED BY <1>2, <1>4, <3>1, <3>2
  <2>2. ASSUME NEW q \in Keys, NEW i \in 1 .. Len(records_individual'[q])
        PROVE  /\ records_individual'[q][i].key = q
               /\ \E n \in 1 .. Len(new) : new[n] = records_individual'[q][i]
    <3>1. CASE q = k /\ i = Len(own) + 1
      <4>1. records_individual'[q][i] = e /\ Len(records) + 1 \in 1 .. Len(new)
        BY <1>2, <1>4, <1>5, <1>7, <3>1
      <4> QED BY <1>2, <1>4, <3>1, <4>1
    <3>2. CASE ~(q = k /\ i = Len(own) + 1)
      <4>1. i \in 1 .. Len(records_individual[q])
            /\ records_individual'[q][i] = records_individual[q][i]
        <5>1. CASE q = k
          <6>1. i \in 1 .. Len(newOwn) /\ i # Len(own) + 1
            BY <1>7, <3>2, <5>1
          <6> QED BY <1>2, <1>5, <1>7, <5>1, <6>1
        <5>2. CASE q # k
          BY <1>7, <5>2
        <5> QED BY <5>1, <5>2
      <4>2. records_individual[q][i].key = q
        BY <4>1 DEF LogsAgree
      <4>3. PICK n \in 1 .. Len(records) : records[n] = records_individual[q][i]
        BY <4>1 DEF LogsAgree
      <4>4. n \in 1 .. Len(new) /\ new[n] = records[n]
        BY <1>2, <1>4, SMTT(60)
      <4> QED BY <4>1, <4>2, <4>3, <4>4
    <3> QED BY <3>1, <3>2
  <2>3. \A n \in 1 .. Len(records') : \E i \in 1 .. Len(records_individual'[records'[n].key]) :
          records_individual'[records'[n].key][i] = records'[n]
    BY <1>6, <2>1
  <2>4. \A q \in Keys : \A i \in 1 .. Len(records_individual'[q]) :
          /\ records_individual'[q][i].key = q
          /\ \E n \in 1 .. Len(records') : records'[n] = records_individual'[q][i]
    BY <1>6, <2>2
  <2> QED BY <2>3, <2>4 DEF LogsAgree
<1>11. KeyBoundLow'
  <2> SUFFICES ASSUME NEW q \in Keys, Len(records_individual'[q]) > 0,
                      now - records_individual'[q][Len(records_individual'[q])].time <= Considered
               PROVE  pre_farthest[q] < Len(records_individual'[q])
    BY <1>1 DEF KeyBoundLow, Newest
  <2>1. CASE q = k
    <3>1. pre_farthest[k] \in Nat /\ pre_farthest[k] <= Len(own)
      BY DEF SearchTypeOK
    <3> QED BY <1>2, <1>5, <1>7, <2>1, <3>1
  <2>2. CASE q # k
    BY <1>7, <2>2 DEF KeyBoundLow, Newest
  <2> QED BY <2>1, <2>2
<1>12. MultiBoundLow'
  <2> SUFFICES ASSUME pre_multi_keys # {}
               PROVE  /\ pre_farthest_multi <= Len(new)
                      /\ \A n \in Recent(pre_multi_keys)' :
                           \E i \in n .. Len(new) :
                             new[i].key \in pre_multi_keys /\ i > pre_farthest_multi
    BY <1>1, <1>6 DEF MultiBoundLow
  <2>1. pre_farthest_multi \in Nat /\ pre_farthest_multi <= Len(records)
    BY DEF SearchTypeOK, MultiBoundLow
  <2>2. ASSUME NEW n \in Recent(pre_multi_keys)'
        PROVE  \E i \in n .. Len(new) : new[i].key \in pre_multi_keys /\ i > pre_farthest_multi
    <3>1. n \in 1 .. Len(new) /\ new[n].key \in pre_multi_keys /\ now - new[n].time <= Considered
      BY <1>1, <1>6, <2>2 DEF Recent
    <3>2. CASE n = Len(records) + 1
      <4>1. n \in n .. Len(new) /\ n > pre_farthest_multi
        BY <1>2, <1>4, <2>1, <3>2
      <4> QED BY <3>1, <4>1
    <3>3. CASE n \in 1 .. Len(records)
      <4>1. n \in Recent(pre_multi_keys)
        BY <1>4, <3>1, <3>3 DEF Recent
      <4>2. PICK i \in n .. Len(records) : records[i].key \in pre_multi_keys /\ i > pre_farthest_multi
        BY <4>1 DEF MultiBoundLow
      <4>3. i \in n .. Len(new) /\ new[i] = records[i]
        BY <1>2, <1>4, <3>3
      <4> QED BY <4>2, <4>3
    <3> QED BY <1>2, <1>4, <3>1, <3>2, <3>3
  <2> QED BY <1>2, <1>4, <2>1, <2>2
<1>13. LastCaps'
  <2> SUFFICES ASSUME NEW q \in Keys, last'[q] # NoRate
               PROVE  \A i \in pre_farthest[q] + 1 .. Len(records_individual'[q]) :
                        RateFrom(records_individual'[q], {q}, i, Len(records_individual'[q]), now)
                          \preceq last'[q]
    BY <1>1 DEF LastCaps
  <2>1. q # k /\ last'[q] = last[q]
    BY <1>1 DEF SearchTypeOK
  <2> QED BY <1>7, <2>1 DEF LastCaps
<1> QED BY <1>8, <1>9, <1>10, <1>11, <1>12, <1>13

\* A search keeps the newest press of its key after the bound while it is recent,
\* and leaves after it only presses whose rate its answer is not below.
LEMMA SearchCalcKeyStep ==
  ASSUME SearchIInv, NEW k \in Keys, CalcKey(k) PROVE SearchIInv'
<1> USE DEF SearchIInv
<1> DEFINE log == records_individual[k]
           lo == pre_farthest[k]
           hi == Len(log)
           res == SearchKey(k)
           reach == Reach(log, lo, hi, now)
           matches == Matches(log, {k}, lo, hi, now)
<1>1. /\ pre_farthest' = [pre_farthest EXCEPT ![k] = res.pre]
      /\ last' = [last EXCEPT ![k] = res.rate]
      /\ UNCHANGED <<now, records, records_individual, pre_multi_keys, pre_farthest_multi>>
  BY DEF CalcKey, Remembered
<1>2. res.pre \in 0 .. hi /\ res.rate \in Rates /\ hi \in Nat /\ lo \in Nat
  <2>1. hi \in Nat /\ lo \in Nat
    BY DEF SearchTypeOK
  <2>2. res.pre \in 0 .. hi /\ res.rate \in Rates
    BY SearchKeyFacts
  <2> QED BY <2>1, <2>2
<1>3. SearchTypeOK'
  <2>1. pre_farthest' \in [Keys -> Nat] /\ last' \in [Keys -> Rates \union {NoRate}]
    BY <1>1, <1>2 DEF SearchTypeOK
  <2>2. \A q \in Keys : pre_farthest'[q] <= Len(records_individual[q])
    BY <1>1, <1>2 DEF SearchTypeOK
  <2> QED BY <1>1, <2>1, <2>2 DEF SearchTypeOK
<1>4. LogsAscend' /\ LogsAgree'
  <2>1. LogsAscend'
    BY <1>1 DEF LogsAscend, Ascends
  <2>2. LogsAgree'
    BY <1>1 DEF LogsAgree
  <2> QED BY <2>1, <2>2
<1>5. KeyBoundLow'
  <2> SUFFICES ASSUME NEW q \in Keys, Len(records_individual[q]) > 0,
                      now - Newest(q).time <= Considered
               PROVE  pre_farthest'[q] < Len(records_individual[q])
    BY <1>1 DEF KeyBoundLow, Newest
  <2>1. CASE q # k
    BY <1>1, <2>1 DEF KeyBoundLow, SearchTypeOK
  <2>2. CASE q = k
    <3>1. lo < hi /\ hi \in 1 .. hi
      BY <1>2, <2>2 DEF KeyBoundLow
    <3>2. matches = {i \in lo + 1 .. hi : log[i].key \in {k} /\ now - log[i].time <= Considered}
      <4>1. log \in Seq(Press) /\ Ascends(log) /\ now \in Int /\ hi \in 0 .. Len(log)
        BY <1>2, LogsNotAfter DEF SearchTypeOK, LogsAscend
      <4> HIDE DEF log, lo
      <4> QED BY <1>2, <4>1, MatchIsRecent
    <3>3. hi \in matches
      <4>1. log[hi].key = k
        BY <3>1 DEF LogsAgree
      <4>2. now - log[hi].time <= Considered
        BY <2>2 DEF Newest
      <4>3. hi \in lo + 1 .. hi
        BY <1>2, <3>1
      <4> HIDE DEF matches, hi
      <4> QED BY <3>2, <4>1, <4>2, <4>3
    <3>4. \E m \in matches : m > res.pre
      BY <3>3, SearchKeyFacts
    <3>5. \A m \in matches : m \in Int /\ m <= hi
      BY <1>2, <3>2
    <3>6. res.pre < hi
      <4> HIDE DEF matches, hi, res
      <4> QED BY <1>2, <3>4, <3>5
    <3>7. pre_farthest'[q] = res.pre
      BY <1>1, <2>2 DEF SearchTypeOK
    <3> QED BY <2>2, <3>6, <3>7
  <2> QED BY <2>1, <2>2
<1>6. MultiBoundLow'
  BY <1>1 DEF MultiBoundLow, Recent
<1>7. LastCaps'
  <2> SUFFICES ASSUME NEW q \in Keys, last'[q] # NoRate,
                      NEW i \in pre_farthest'[q] + 1 .. Len(records_individual[q])
               PROVE  RateFrom(records_individual[q], {q}, i, Len(records_individual[q]), now)
                        \preceq last'[q]
    BY <1>1 DEF LastCaps
  <2>1. CASE q # k
    BY <1>1, <2>1 DEF LastCaps, SearchTypeOK
  <2>2. CASE q = k
    <3>1. pre_farthest'[q] = res.pre /\ last'[q] = res.rate
      BY <1>1, <2>2 DEF SearchTypeOK
    <3>2. i \in res.pre + 1 .. hi /\ i \in 1 .. hi /\ i > res.pre
      BY <1>2, <2>2, <3>1
    <3>3. i \in reach /\ log[i].key = k
      <4>1. res.pre + 1 .. hi \subseteq reach
        BY SearchKeyFacts
      <4> QED BY <3>2, <4>1 DEF LogsAgree
    <3>4. i \in matches
      BY <3>3 DEF Matches
    <3>5. RateFrom(log, {k}, i, hi, now) \preceq res.rate
      BY <3>2, <3>4, SearchKeyFacts
    <3> QED BY <2>2, <3>1, <3>5
  <2> QED BY <2>1, <2>2
<1> QED BY <1>3, <1>4, <1>5, <1>6, <1>7

\* So does a search for several keys.
LEMMA SearchCalcKeysStep ==
  ASSUME SearchIInv, NEW ks \in SUBSET Keys, CalcKeys(ks) PROVE SearchIInv'
<1> USE DEF SearchIInv
<1> DEFINE res == SearchKeys(ks)
           lo == MultiBound(ks)
           hi == Len(records)
           matches == Matches(records, ks, lo, hi, now)
<1>1. /\ pre_multi_keys' = ks /\ pre_farthest_multi' = res.pre
      /\ UNCHANGED <<now, records, records_individual, pre_farthest, last>>
  BY DEF CalcKeys, RememberedMulti
<1>2. res.pre \in 0 .. hi /\ hi \in Nat /\ lo \in Nat
  BY SearchKeysFacts DEF SearchTypeOK
<1>3. SearchTypeOK'
  BY <1>1, <1>2 DEF SearchTypeOK
<1>4. LogsAscend' /\ LogsAgree' /\ KeyBoundLow' /\ LastCaps'
  <2>1. LogsAscend'
    BY <1>1 DEF LogsAscend, Ascends
  <2>2. LogsAgree'
    BY <1>1 DEF LogsAgree
  <2>3. KeyBoundLow'
    BY <1>1 DEF KeyBoundLow, Newest
  <2>4. LastCaps'
    BY <1>1 DEF LastCaps
  <2> QED BY <2>1, <2>2, <2>3, <2>4
<1>5. MultiBoundLow'
  <2> SUFFICES ASSUME NEW n \in Recent(ks)
               PROVE  \E i \in n .. hi : records[i].key \in ks /\ i > res.pre
    <3>1. Recent(ks)' = Recent(ks)
      BY <1>1 DEF Recent
    <3>2. Len(records') = hi /\ res.pre <= hi
      BY <1>1, <1>2
    <3> QED BY <1>1, <3>1, <3>2 DEF MultiBoundLow
  <2>1. matches # {}
    <3>1. SearchKeys(ks).rate[1] > 0
      BY ShownFollows DEF ShownWhileRecent
    <3> QED BY <3>1, SearchKeysFacts
  <2>2. PICK m \in matches : m > res.pre
    BY <2>1, SearchKeysFacts
  <2>3. matches = {i \in lo + 1 .. hi : records[i].key \in ks /\ now - records[i].time <= Considered}
    BY <1>2, MatchIsRecent, LogsNotAfter DEF SearchTypeOK, LogsAscend
  <2>4. m \in 1 .. hi /\ records[m].key \in ks
    BY <1>2, <2>3
  <2>5. n \in 1 .. hi /\ records[n].key \in ks
    BY DEF Recent
  <2>6. CASE n <= m
    <3>1. m \in n .. hi
      BY <1>2, <2>4, <2>5, <2>6
    <3> QED BY <2>2, <2>4, <3>1
  <2>7. CASE m < n
    <3>1. n \in n .. hi /\ n > res.pre
      BY <1>2, <2>2, <2>4, <2>5, <2>7
    <3> QED BY <2>5, <3>1
  <2> QED BY <2>4, <2>5, <2>6, <2>7
<1> QED BY <1>3, <1>4, <1>5

\* clear_implement.
LEMMA SearchClearStep == SearchIInv /\ SearchClear => SearchIInv'
<1> SUFFICES ASSUME SearchIInv, SearchClear PROVE SearchIInv'
  OBVIOUS
<1>1. SearchTypeOK'
  BY DEF SearchIInv, SearchTypeOK, SearchClear, ClearedBounds
<1>2. LogsAscend' /\ LogsAgree' /\ KeyBoundLow' /\ MultiBoundLow' /\ LastCaps'
  BY DEF SearchClear, LogsAscend, Ascends, LogsAgree, KeyBoundLow, MultiBoundLow, LastCaps
<1> QED BY <1>1, <1>2 DEF SearchIInv

-----------------------------------------------------------------------------
\* The inductive invariant of the sensitive search.
THEOREM SearchInvariant == SearchSpec => []SearchIInv
<1>1. SearchInit => SearchIInv
  BY SearchInitIInv
<1>2. SearchIInv /\ [SearchNext]_searchVars => SearchIInv'
  <2> SUFFICES ASSUME SearchIInv, [SearchNext]_searchVars PROVE SearchIInv'
    OBVIOUS
  <2>1. ASSUME NEW k \in Keys, NEW at \in 0 .. now, SearchNotify(k, at) PROVE SearchIInv'
    BY <2>1, SearchNotifyStep
  <2>2. ASSUME NEW k \in Keys, CalcKey(k) PROVE SearchIInv'
    BY <2>2, SearchCalcKeyStep
  <2>3. ASSUME NEW ks \in SUBSET Keys, CalcKeys(ks) PROVE SearchIInv'
    BY <2>3, SearchCalcKeysStep
  <2>4. CASE UNCHANGED searchVars
    <3> USE <2>4 DEF searchVars, bounds, SearchIInv
    <3>1. SearchTypeOK'
      BY DEF SearchTypeOK
    <3>2. LogsAscend'
      BY DEF LogsAscend, Ascends
    <3>3. LogsAgree'
      BY DEF LogsAgree
    <3>4. KeyBoundLow' /\ MultiBoundLow'
      BY DEF KeyBoundLow, Newest, MultiBoundLow, Recent
    <3>5. LastCaps'
      BY DEF LastCaps
    <3> QED BY <3>1, <3>2, <3>3, <3>4, <3>5
  <2> QED BY <2>1, <2>2, <2>3, <2>4, SearchTickStep, SearchClearStep DEF SearchNext
<1> QED BY <1>1, <1>2, PTL DEF SearchSpec

\* The bounds stay in their logs and every remembered rate is one.
THEOREM SearchTypeCorrect == SearchSpec => []SearchTypeOK
<1>1. SearchIInv => SearchTypeOK
  BY DEF SearchIInv
<1> QED BY <1>1, SearchInvariant, PTL

\* The sensitive method shows a rate above zero exactly while a press is recent.
THEOREM SearchShowsRecent == SearchSpec => []ShownWhileRecent
  BY ShownFollows, SearchInvariant, PTL

\* A rate of a key that was shown does not rise without a press of the key.
THEOREM SearchNeverRises == SearchSpec => []NoRiseWithoutPress
  BY CapFollows, SearchInvariant, PTL

-----------------------------------------------------------------------------
(* Part 3: the plot *)

\* The plot of the frame method as a recount.
Recount(ks, b) ==
  Max({FrameBefore(ks, Left(b))} \union {FrameTo(ks, t) : t \in Within(b)})

Shown(plot, ks) ==
  \A b \in 1 .. Buckets :
    /\ plot[b][1] > 0 => Shows(ks, b) # {}
    /\ Shows(ks, b) \ late # {} => plot[b][1] > 0

Past ==
  /\ now \in Nat \ {0} /\ records \in Seq(Press) /\ Ascends(records)
  /\ cache_stamp \in Nat /\ record_stamp \in Nat /\ cache_stamp <= Present

Reaching == IF method = "hard" THEN FrameLength ELSE Considered

\* The pivot has passed only records that are too old for the first bucket.
PivotOld ==
  /\ recent_pivot \in 0 .. Len(records)
  /\ \A i \in 1 .. recent_pivot : records[i].time < Present - Span(Reaching)

\* The plot returned last is right as long as it may be returned again.
CacheShown ==
  Hit(cache_keys) /\ ~tied =>
    IF method = "hard" THEN \A b \in 1 .. Buckets : cache[b] = <<Recount(cache_keys, b), 1>>
    ELSE Shown(cache, cache_keys)

\* A search bucket: the position it handed on, and its rate.
Values == [pre : 0 .. Len(records), rate : Rates]

NotLate == (1 .. Len(records)) \ late

\* The bound hides no press from a search at the instant t: as long as one of ks before
\* t is recent, it stays before one of ks at least as new.
LeavesLast(ks, bound, t) ==
  \A n \in NotLate : records[n].key \in ks /\ records[n].time < t /\ t - records[n].time <= Considered =>
    \E m \in n .. Len(records) : records[m].key \in ks /\ records[m].time < t /\ m > bound

\* What a bucket that ends at t holds.
BucketRight(value, ks, t) ==
  /\ value.rate[1] > 0 =>
       \E n \in 1 .. Len(records) : /\ records[n].key \in ks /\ records[n].time < t
                                    /\ (t - Second) - records[n].time <= Considered
  /\ (\E n \in NotLate : /\ records[n].key \in ks /\ records[n].time < t
                         /\ (t - Second) - records[n].time <= Considered)
       => value.rate[1] > 0
  /\ LeavesLast(ks, value.pre, t)

MapRight ==
  /\ DOMAIN cache_map # {} => method = "sensitive"
  /\ \A t \in DOMAIN cache_map :
       /\ t \in Int /\ t <= cache_stamp - Second
       /\ cache_map[t] \in Values
       /\ BucketRight(cache_map[t], cache_keys, t)
  /\ DOMAIN cache_map # {} =>
       \A c \in 1 .. Buckets - 1 :
         LET t == cache_stamp - (Buckets - c) * Second IN
           t \in DOMAIN cache_map /\ cache_map[t].rate = cache[c]

PlotIInv == TypeOK /\ Past /\ PivotOld /\ CacheShown /\ MapRight

-----------------------------------------------------------------------------
(* Seconds *)

\* Division as rounding down.
LEMMA DivFacts ==
  ASSUME NEW a \in Nat, NEW d \in Nat \ {0}
  PROVE  a \div d \in Nat /\ (a \div d) * d <= a /\ a < (a \div d) * d + d
<1>1. a = d * (a \div d) + (a % d) /\ a % d \in 0 .. d - 1 /\ a \div d \in Int
  OBVIOUS
<1>2. a \div d >= 0
  OBVIOUS
<1>3. (a \div d) * d \in Int /\ (a \div d) * d = d * (a \div d)
  BY <1>1
<1> QED BY <1>1, <1>2, <1>3

\* Present is the first whole second not before the clock.
LEMMA PresentFacts ==
  ASSUME now \in Nat
  PROVE  Present \in Nat /\ now <= Present /\ Present < now + Second
<1>1. Second \in Nat \ {0} /\ now + Second - 1 \in Nat
  BY NumbersAssumption
<1> DEFINE q == (now + Second - 1) \div Second
<1>2. q \in Nat /\ q * Second <= now + Second - 1 /\ now + Second - 1 < q * Second + Second
  BY <1>1, DivFacts
<1>3. Present = q * Second
  BY DEF Present
<1> HIDE DEF q
<1>4. q * Second \in Nat
  BY <1>1, <1>2
<1> QED BY <1>1, <1>2, <1>3, <1>4

\* The seconds plotted follow each other up to the present.
LEMMA BucketFacts ==
  ASSUME now \in Nat
  PROVE  /\ \A b \in Int : Left(b) \in Int /\ Right(b) \in Int /\ Left(b + 1) = Right(b)
         /\ \A b \in Int : Right(b) = Left(b) + Second /\ Right(b) = Present - (Buckets - b) * Second
         /\ \A b, c \in Int : b < c => Right(b) <= Right(c) - Second
         /\ Left(1) = Present - Buckets * Second
         /\ Right(Buckets) = Present
<1>1. Second \in Nat \ {0} /\ Buckets \in Nat \ {0} /\ Present \in Nat
  BY NumbersAssumption, PlotAssumption, PresentFacts
<1>2. \A m, n \in Int : m * Second \in Int /\ (m + 1) * Second = m * Second + Second
  BY <1>1
<1>3. ASSUME NEW b \in Int
      PROVE  /\ Left(b) = Present - ((Buckets - b) * Second + Second)
             /\ Right(b) = Present - (Buckets - b) * Second
             /\ Left(b + 1) = Present - (Buckets - b) * Second
             /\ (Buckets - b) * Second \in Int
  <2>1. Buckets - b \in Int /\ Buckets - b + 1 = (Buckets - b) + 1 /\ Buckets - (b + 1) + 1 = Buckets - b
    BY <1>1
  <2>2. (Buckets - b) * Second \in Int
        /\ ((Buckets - b) + 1) * Second = (Buckets - b) * Second + Second
    BY <1>2, <2>1
  <2>3. Left(b) = Present - ((Buckets - b) * Second + Second)
    BY <2>1, <2>2 DEF Left
  <2>4. Left(b + 1) = Present - (Buckets - b) * Second
    BY <2>1, <2>2 DEF Left
  <2>5. Right(b) = Present - (Buckets - b) * Second
    BY <1>1, <2>2, <2>3 DEF Right
  <2> QED BY <2>2, <2>3, <2>4, <2>5
<1>4. ASSUME NEW b \in Int, NEW c \in Int, b < c PROVE Right(b) <= Right(c) - Second
  <2> DEFINE x == Buckets - b
             y == Buckets - c
  <2>1. x \in Int /\ y \in Int /\ x - y - 1 \in Nat
    BY <1>1, <1>4
  <2>2. (x - y - 1) * Second >= 0
    BY <1>1, <2>1
  <2>3. (x - y - 1) * Second = x * Second - y * Second - Second
    BY <1>1, <2>1
  <2>4. Right(b) = Present - x * Second /\ Right(c) = Present - y * Second
    BY <1>3
  <2>5. x * Second \in Int /\ y * Second \in Int
    BY <1>2, <2>1
  <2> HIDE DEF x, y
  <2> QED BY <1>1, <2>2, <2>3, <2>4, <2>5
<1>5. Left(1) = Present - Buckets * Second
  BY <1>1 DEF Left
<1>6. Right(Buckets) = Present
  BY <1>1, <1>3
<1>7. ASSUME NEW b \in Int
      PROVE  /\ Left(b) \in Int /\ Right(b) \in Int /\ Left(b + 1) = Right(b)
             /\ Right(b) = Left(b) + Second
  <2> DEFINE p == (Buckets - b) * Second
  <2>1. /\ Left(b) = Present - (p + Second) /\ Right(b) = Present - p
        /\ Left(b + 1) = Present - p /\ p \in Int
    BY <1>3
  <2> HIDE DEF p
  <2> QED BY <1>1, <2>1
<1> QED BY <1>3, <1>4, <1>5, <1>6, <1>7

\* The clock does not go back, and neither does the present.
LEMMA PresentAscends ==
  ASSUME now \in Nat, now' = now + 1 PROVE Present' \in Nat /\ Present <= Present'
<1> DEFINE a == now + Second - 1
           q == a \div Second
           r == (a + 1) \div Second
<1>1. Second \in Nat \ {0} /\ a \in Nat /\ a + 1 \in Nat
  BY NumbersAssumption
<1>2. Present = q * Second
  BY DEF Present
<1>3. Present' = r * Second
  <2>1. now' + Second - 1 = a + 1
    BY <1>1
  <2> QED BY <2>1 DEF Present
<1> HIDE DEF a
<1>4. /\ q \in Nat /\ r \in Nat /\ q * Second <= a /\ a < q * Second + Second
      /\ r * Second <= a + 1 /\ a + 1 < r * Second + Second
  BY <1>1, DivFacts
<1> HIDE DEF q, r
<1>5. q <= r
  <2> SUFFICES ASSUME r < q PROVE FALSE
    BY <1>4
  <2>1. q - r - 1 \in Nat
    BY <1>4
  <2>2. (q - r - 1) * Second >= 0 /\ (q - r - 1) * Second = q * Second - r * Second - Second
    BY <1>1, <1>4, <2>1
  <2>3. q * Second \in Int /\ r * Second \in Int
    BY <1>1, <1>4
  <2> QED BY <1>1, <1>4, <2>2, <2>3
<1>6. r - q \in Nat /\ (r - q) * Second >= 0 /\ (r - q) * Second = r * Second - q * Second
  BY <1>1, <1>4, <1>5
<1>7. q * Second \in Nat /\ r * Second \in Nat
  BY <1>1, <1>4
<1> QED BY <1>2, <1>3, <1>6, <1>7

-----------------------------------------------------------------------------
(* Positions *)

\* The times of a log are numbers.
LEMMA TimesTyped ==
  ASSUME NEW log \in Seq(Press)
  PROVE  /\ Len(log) \in Nat
         /\ \A i \in 1 .. Len(log) : log[i] \in Press /\ log[i].time \in Nat /\ log[i].time \in Int
<1>1. ASSUME NEW i \in 1 .. Len(log) PROVE log[i] \in Press /\ log[i].time \in Nat
  <2>1. log[i] \in Press
    OBVIOUS
  <2> QED BY <2>1 DEF Press
<1> QED BY <1>1

\* Position p parts the records before the instant t from the others.
Parts(p, t) ==
  /\ p \in 0 .. Len(records)
  /\ \A i \in 1 .. p : records[i].time < t
  /\ \A i \in p + 1 .. Len(records) : t <= records[i].time

\* Until stops at the end of the log or at the first record that is not before t.
LEMMA UntilTyped ==
  ASSUME records \in Seq(Press), NEW p \in 0 .. Len(records), NEW t \in Int
  PROVE  LET q == Until(p, t)
         IN  /\ q \in p .. Len(records)
             /\ q < Len(records) => t <= records[q + 1].time
             /\ \A i \in p + 1 .. q : records[i].time < t
<1> DEFINE size == Len(records)
           S == {q \in p .. size : q = size \/ records[q + 1].time >= t}
           q == Until(p, t)
<1>1. size \in Nat /\ p \in Int /\ size \in Int /\ \A i \in 1 .. size : records[i].time \in Int
  BY TimesTyped
<1>2. S \subseteq p .. size /\ size \in S
  BY <1>1
<1>3. q = Min(S)
  BY DEF Until
<1> HIDE DEF S, q
<1>4. q \in S /\ \A x \in S : q <= x
  BY <1>1, <1>2, <1>3, MaxMin
<1>5. q \in p .. size /\ (q = size \/ t <= records[q + 1].time)
  BY <1>1, <1>4 DEF S
<1>6. ASSUME NEW i \in p + 1 .. q PROVE records[i].time < t
  <2>1. i - 1 \notin S /\ i - 1 \in p .. size /\ i - 1 # size /\ (i - 1) + 1 = i /\ i \in 1 .. size
    <3>1. i - 1 < q /\ i - 1 \in p .. size /\ i - 1 # size /\ (i - 1) + 1 = i /\ i \in 1 .. size
      BY <1>1, <1>5
    <3>2. i - 1 \notin S
      BY <1>1, <1>4, <1>5, <3>1
    <3> QED BY <3>1, <3>2
  <2>2. ~(records[i].time >= t)
    BY <2>1 DEF S
  <2> QED BY <1>1, <2>1, <2>2
<1> QED BY <1>1, <1>5, <1>6 DEF q

\* From a position that has only earlier records before it, Until parts the log.
LEMMA UntilParts ==
  ASSUME records \in Seq(Press), Ascends(records), NEW p \in 0 .. Len(records), NEW t \in Int,
         \A i \in 1 .. p : records[i].time < t
  PROVE  Parts(Until(p, t), t)
<1> DEFINE size == Len(records)
           q == Until(p, t)
<1>1. size \in Nat /\ \A i \in 1 .. size : records[i].time \in Int
  BY TimesTyped
<1>2. /\ q \in p .. size
      /\ q < size => t <= records[q + 1].time
      /\ \A i \in p + 1 .. q : records[i].time < t
  BY UntilTyped
<1> HIDE DEF q
<1>3. ASSUME NEW i \in 1 .. q PROVE records[i].time < t
  <2>1. i \in 1 .. p \/ i \in p + 1 .. q
    BY <1>1, <1>2
  <2> QED BY <1>2, <2>1
<1>4. ASSUME NEW i \in q + 1 .. size PROVE t <= records[i].time
  <2>1. q < size /\ q + 1 \in 1 .. size /\ i \in 1 .. size /\ q + 1 <= i
    BY <1>1, <1>2
  <2>2. records[q + 1].time <= records[i].time
    BY <2>1 DEF Ascends
  <2> QED BY <1>1, <1>2, <2>1, <2>2
<1>5. q \in 0 .. size
  BY <1>1, <1>2
<1>6. Parts(q, t)
  BY <1>3, <1>4, <1>5 DEF Parts
<1> QED BY <1>6 DEF q

\* A later instant parts the log further on.
LEMMA PartsAscend ==
  ASSUME records \in Seq(Press), NEW p, NEW q, NEW t \in Int, NEW u \in Int,
         Parts(p, t), Parts(q, u), t <= u
  PROVE  p <= q
<1> SUFFICES ASSUME q < p PROVE FALSE
  BY TimesTyped DEF Parts
<1>1. p \in 1 .. p /\ p \in q + 1 .. Len(records) /\ p \in 1 .. Len(records)
  BY TimesTyped DEF Parts
<1>2. records[p].time < t /\ u <= records[p].time
  BY <1>1 DEF Parts
<1> QED BY <1>1, <1>2, TimesTyped

-----------------------------------------------------------------------------
(* Counts *)

\* The presses between two positions are finitely many.
LEMMA MatchingTyped ==
  ASSUME NEW ks, NEW i \in Int, NEW j \in Int
  PROVE  /\ IsFiniteSet({n \in i + 1 .. j : records[n].key \in ks})
         /\ Matching(ks, i, j) \in Nat
<1>1. IsFiniteSet({n \in i + 1 .. j : records[n].key \in ks})
  <2>1. IsFiniteSet(i + 1 .. j)
    BY FS_Interval
  <2> QED BY <2>1, FS_Subset
<1> QED BY <1>1, FS_CardinalityType DEF Matching

\* A stretch counts as much as its two parts.
LEMMA MatchingParts ==
  ASSUME NEW ks, NEW i \in Int, NEW j \in Int, NEW m \in Int, i <= j, j <= m
  PROVE  Matching(ks, i, m) = Matching(ks, i, j) + Matching(ks, j, m)
<1> DEFINE low == {n \in i + 1 .. j : records[n].key \in ks}
           high == {n \in j + 1 .. m : records[n].key \in ks}
           all == {n \in i + 1 .. m : records[n].key \in ks}
<1>1. all = low \union high /\ low \intersect high = {}
  OBVIOUS
<1>2. /\ IsFiniteSet(low) /\ IsFiniteSet(high)
      /\ Matching(ks, i, m) = Cardinality(all) /\ Matching(ks, i, j) = Cardinality(low)
      /\ Matching(ks, j, m) = Cardinality(high)
      /\ Cardinality(low) \in Nat /\ Cardinality(high) \in Nat
  BY MatchingTyped DEF Matching
<1> HIDE DEF low, high, all
<1>3. Cardinality(all) = Cardinality(low) + Cardinality(high) - Cardinality(low \intersect high)
  BY <1>1, <1>2, FS_Union
<1> QED BY <1>1, <1>2, <1>3, FS_EmptySet

\* The presses of ks among the first m records that a frame up to the instant at
\* holds.
Frame(ks, m, at) == {n \in 1 .. m : records[n].key \in ks /\ at - records[n].time <= FrameLength}
InFrame(ks, m, at) == Cardinality(Frame(ks, m, at))

\* The presses of a frame are finitely many.
LEMMA FrameTyped ==
  ASSUME NEW ks, NEW m \in Int, NEW at \in Int
  PROVE  IsFiniteSet(Frame(ks, m, at)) /\ InFrame(ks, m, at) \in Nat
<1>1. IsFiniteSet(Frame(ks, m, at))
  <2>1. IsFiniteSet(1 .. m)
    BY FS_Interval
  <2>2. Frame(ks, m, at) \in SUBSET (1 .. m)
    BY DEF Frame
  <2> QED BY <2>1, <2>2, FS_Subset
<1> QED BY <1>1, FS_CardinalityType DEF InFrame

Windows == [left : 0 .. Len(records), right : 0 .. Len(records), count : Int]

\* A window on the log whose left end has passed only what is too old at the instant at.
Fits(w, ks, at) ==
  /\ w \in Windows /\ w.left <= w.right /\ w.count = Matching(ks, w.left, w.right)
  /\ \A i \in 1 .. w.left : records[i].time < at - FrameLength

\* Whatever the window, Trim and Take keep it in the log.
LEMMA WindowTyped ==
  ASSUME records \in Seq(Press), NEW w \in Windows, NEW ks, NEW at \in Int
  PROVE  /\ Trim(w, at, ks) \in Windows /\ Trim(w, at, ks).right = w.right
         /\ \A to \in 0 .. Len(records) : Take(w, to, ks) \in Windows
<1>1. /\ w.left \in 0 .. Len(records) /\ w.right \in 0 .. Len(records) /\ w.count \in Int
      /\ FrameLength \in Int /\ Len(records) \in Int /\ w.left \in Int /\ w.right \in Int
      /\ at - FrameLength \in Int
  BY PlotAssumption, TimesTyped DEF Windows
<1> DEFINE to == Min({w.right, TrimLeft(w, at)})
<1>2. TrimLeft(w, at) \in 0 .. Len(records)
  <2>1. Until(w.left, at - FrameLength) \in w.left .. Len(records)
    BY <1>1, UntilTyped
  <2> QED BY <1>1, <2>1 DEF TrimLeft
<1>3. to \in 0 .. Len(records)
  <2> DEFINE S == {w.right, TrimLeft(w, at)}
  <2>1. S \subseteq 0 .. Len(records) /\ S # {} /\ 0 \in Int
    BY <1>1, <1>2
  <2> HIDE DEF S
  <2>2. Min(S) \in S
    BY <1>1, <2>1, MaxMin
  <2> QED BY <2>1, <2>2 DEF S
<1>4. Trim(w, at, ks) = [w EXCEPT !.left = to, !.count = @ - Matching(ks, w.left, to)]
  BY DEF Trim
<1> HIDE DEF to
<1>5. Matching(ks, w.left, to) \in Int
  <2>1. to \in Int
    BY <1>3
  <2>2. Matching(ks, w.left, to) \in Nat
    BY <1>1, <2>1, MatchingTyped
  <2> QED BY <2>2
<1>6. Trim(w, at, ks) \in Windows /\ Trim(w, at, ks).right = w.right
  <2> DEFINE c == Matching(ks, w.left, to)
  <2>1. c \in Int
    BY <1>5
  <2>2. Trim(w, at, ks) = [w EXCEPT !.left = to, !.count = @ - c]
    BY <1>4
  <2> HIDE DEF c, to
  <2>3. Trim(w, at, ks) = [left |-> to, right |-> w.right, count |-> w.count - c]
    BY <2>2 DEF Windows
  <2>4. w.count - c \in Int
    BY <1>1, <2>1
  <2> QED BY <1>1, <1>3, <2>3, <2>4 DEF Windows
<1>7. ASSUME NEW end \in 0 .. Len(records) PROVE Take(w, end, ks) \in Windows
  <2> DEFINE c == Matching(ks, w.right, end)
  <2>1. end \in Int
    OBVIOUS
  <2>2. c \in Nat
    BY <1>1, <2>1, MatchingTyped
  <2>3. Take(w, end, ks) = [w EXCEPT !.right = end, !.count = @ + c]
    BY DEF Take
  <2> HIDE DEF c
  <2>4. Take(w, end, ks) = [left |-> w.left, right |-> end, count |-> w.count + c]
    BY <2>3 DEF Windows
  <2>5. w.count + c \in Int
    BY <1>1, <2>2
  <2> QED BY <1>1, <2>4, <2>5 DEF Windows
<1> QED BY <1>6, <1>7

\* Trim leaves in the window exactly what the frame up to the instant at holds.
LEMMA TrimFits ==
  ASSUME records \in Seq(Press), Ascends(records), NEW ks, NEW at \in Int, NEW w, Fits(w, ks, at)
  PROVE  LET r == Trim(w, at, ks)
         IN  Fits(r, ks, at) /\ r.right = w.right /\ r.count = InFrame(ks, w.right, at)
<1> DEFINE size == Len(records)
           end == Until(w.left, at - FrameLength)
           to == Min({w.right, TrimLeft(w, at)})
           r == Trim(w, at, ks)
<1>1. /\ size \in Int /\ size \in Nat /\ FrameLength \in Int
      /\ \A i \in 1 .. size : records[i].time \in Int
      /\ w.left \in 0 .. size /\ w.right \in 0 .. size /\ w.left <= w.right
      /\ w.left \in Int /\ w.right \in Int
      /\ w.count = Matching(ks, w.left, w.right)
      /\ \A i \in 1 .. w.left : records[i].time < at - FrameLength
  BY PlotAssumption, TimesTyped DEF Windows, Fits
<1>2. Parts(end, at - FrameLength) /\ end \in w.left .. size
  <2>1. at - FrameLength \in Int
    BY <1>1
  <2> QED BY <1>1, <2>1, UntilParts, UntilTyped
<1>3. to \in {w.right, end} /\ to <= w.right /\ to <= end
  <2> DEFINE S == {w.right, end}
  <2>1. S \subseteq 0 .. size /\ S # {} /\ 0 \in Int
    BY <1>1, <1>2
  <2> HIDE DEF end, S
  <2>2. Min(S) \in S /\ \A x \in S : Min(S) <= x
    BY <1>1, <2>1, MaxMin
  <2>3. to = Min(S)
    BY DEF TrimLeft, end, S
  <2> HIDE DEF to
  <2> QED BY <2>2, <2>3 DEF S
<1>4. r = [w EXCEPT !.left = to, !.count = @ - Matching(ks, w.left, to)]
  BY DEF Trim
<1> HIDE DEF to, end
<1>5. to \in 0 .. size /\ to \in Int /\ w.left <= to
  BY <1>1, <1>2, <1>3
<1>6. r \in Windows /\ r.right = w.right /\ r.left = to
      /\ r.count = w.count - Matching(ks, w.left, to)
  <2>1. r \in Windows
    BY WindowTyped DEF Fits
  <2> QED BY <1>4, <2>1 DEF Fits, Windows
<1>7. r.count = Matching(ks, to, w.right)
  <2>1. Matching(ks, w.left, w.right) = Matching(ks, w.left, to) + Matching(ks, to, w.right)
    BY <1>1, <1>3, <1>5, MatchingParts
  <2>2. Matching(ks, w.left, to) \in Nat /\ Matching(ks, to, w.right) \in Nat
    BY <1>1, <1>5, MatchingTyped
  <2> QED BY <1>1, <1>6, <2>1, <2>2
<1>8. \A i \in 1 .. to : records[i].time < at - FrameLength
  <2> TAKE i \in 1 .. to
  <2>1. i \in 1 .. end
    BY <1>1, <1>2, <1>3, <1>5
  <2> QED BY <1>2, <2>1 DEF Parts
<1>9. ASSUME NEW i \in to + 1 .. w.right PROVE at - records[i].time <= FrameLength
  <2>1. to = end /\ i \in end + 1 .. size /\ i \in 1 .. size
    BY <1>1, <1>3, <1>5
  <2>2. at - FrameLength <= records[i].time
    BY <1>2, <2>1 DEF Parts
  <2>3. records[i].time \in Int
    BY <1>1, <2>1
  <2> QED BY <1>1, <2>2, <2>3
<1>10. ASSUME NEW i \in 1 .. to PROVE ~(at - records[i].time <= FrameLength)
  <2>1. i \in 1 .. size /\ records[i].time < at - FrameLength
    BY <1>1, <1>5, <1>8
  <2>2. records[i].time \in Int
    BY <1>1, <2>1
  <2> QED BY <1>1, <2>1, <2>2
<1>11. {n \in to + 1 .. w.right : records[n].key \in ks} = Frame(ks, w.right, at)
  <2>1. \A n \in 1 .. w.right : n \in to + 1 .. w.right \/ n \in 1 .. to
    BY <1>1, <1>5
  <2>2. to + 1 .. w.right \subseteq 1 .. w.right
    BY <1>1, <1>5
  <2> QED BY <1>9, <1>10, <2>1, <2>2 DEF Frame
<1>12. r.count = InFrame(ks, w.right, at)
  BY <1>7, <1>11 DEF Matching, InFrame
<1>13. Fits(r, ks, at)
  BY <1>3, <1>6, <1>7, <1>8 DEF Fits
<1> QED BY <1>6, <1>12, <1>13

\* Take keeps the count and the left end.
LEMMA TakeFits ==
  ASSUME records \in Seq(Press), NEW ks, NEW at \in Int, NEW w, Fits(w, ks, at),
         NEW to \in 0 .. Len(records), w.right <= to, NEW u \in Int, at <= u
  PROVE  Fits(Take(w, to, ks), ks, u) /\ Take(w, to, ks).right = to
<1> DEFINE r == Take(w, to, ks)
<1>1. /\ w \in Windows /\ w.left \in Int /\ w.right \in Int /\ w.left <= w.right
      /\ w.count = Matching(ks, w.left, w.right) /\ Len(records) \in Int
      /\ FrameLength \in Int /\ w.left \in 0 .. Len(records)
  BY PlotAssumption, TimesTyped DEF Windows, Fits
<1>2. r \in Windows
  BY <1>1, WindowTyped
<1>3. r.left = w.left /\ r.right = to /\ r.count = w.count + Matching(ks, w.right, to)
  BY <1>1 DEF Take, Windows
<1>4. r.count = Matching(ks, w.left, to)
  BY <1>1, <1>3, MatchingParts
<1>5. ASSUME NEW i \in 1 .. w.left PROVE records[i].time < u - FrameLength
  <2>1. records[i].time < at - FrameLength /\ i \in 1 .. Len(records)
    BY <1>1 DEF Fits
  <2>2. records[i].time \in Int
    BY <2>1, TimesTyped
  <2> QED BY <1>1, <2>1, <2>2
<1>6. w.left <= to
  BY <1>1
<1> QED BY <1>2, <1>3, <1>4, <1>5, <1>6 DEF Fits

-----------------------------------------------------------------------------
(* A bucket of the frame method *)

\* A greatest element is the one that Max chooses.
LEMMA MaxIs ==
  ASSUME NEW S, S \subseteq Int, NEW m \in S, \A x \in S : x <= m PROVE Max(S) = m
<1>1. Max(S) \in S /\ \A x \in S : Max(S) >= x
  BY DEF Max
<1>2. Max(S) >= m /\ Max(S) <= m /\ Max(S) \in Int /\ m \in Int
  BY <1>1
<1> QED BY <1>2

Counted == [win : Windows, best : Int]

\* One record more keeps the types of a bucket.
LEMMA HardPressTyped ==
  ASSUME records \in Seq(Press), NEW old \in Counted, NEW i \in 1 .. Len(records), NEW b, NEW ks
  PROVE  HardPress(old, i, b, ks) \in Counted
<1> DEFINE win == Trim(Take(old.win, i, ks), records[i].time, ks)
           top == IF Left(b) <= records[i].time THEN Max({old.best, win.count}) ELSE old.best
<1>1. old.win \in Windows /\ old.best \in Int /\ records[i].time \in Int /\ i \in 0 .. Len(records)
  BY TimesTyped DEF Counted
<1>2. win \in Windows
  BY <1>1, WindowTyped
<1>3. HardPress(old, i, b, ks) = [win |-> win, best |-> top]
  BY DEF HardPress
<1> HIDE DEF win
<1>4. Max({old.best, win.count}) \in Int
  <2>1. win.count \in Int
    BY <1>2 DEF Windows
  <2>2. \E m \in {old.best, win.count} : \A x \in {old.best, win.count} : x <= m
    BY <1>1, <2>1
  <2> QED BY <1>1, <2>1, <2>2, MaxIs
<1>5. top \in Int
  BY <1>1, <1>4
<1> HIDE DEF top
<1> QED BY <1>2, <1>3, <1>5 DEF Counted

\* HardBucket is its loop's last value.
LEMMA HardBucketRuns ==
  ASSUME records \in Seq(Press), now \in Nat, NEW w \in Windows, NEW b \in Int, NEW ks
  PROVE  \E f \in [w.right .. Until(w.right, Right(b)) -> Counted] :
           /\ f[w.right] = [win |-> Trim(w, Left(b), ks), best |-> Trim(w, Left(b), ks).count]
           /\ \A i \in w.right + 1 .. Until(w.right, Right(b)) :
                f[i] = HardPress(f[i - 1], i, b, ks)
           /\ HardBucket(w, b, ks) = f[Until(w.right, Right(b))]
<1> DEFINE lo == w.right
           hi == Until(w.right, Right(b))
           start == [win |-> Trim(w, Left(b), ks), best |-> Trim(w, Left(b), ks).count]
           step == [p \in Counted \X (lo + 1 .. hi) |-> HardPress(p[1], p[2], b, ks)]
           f[i \in w.right .. Until(w.right, Right(b))] ==
             IF i = w.right
             THEN [win |-> Trim(w, Left(b), ks), best |-> Trim(w, Left(b), ks).count]
             ELSE HardPress(f[i - 1], i, b, ks)
<1>1. /\ lo \in Int /\ lo \in 0 .. Len(records) /\ Len(records) \in Int
      /\ Left(b) \in Int /\ Right(b) \in Int
  <2>1. Left(b) \in Int /\ Right(b) \in Int
    BY BucketFacts
  <2>2. Len(records) \in Int /\ lo \in 0 .. Len(records)
    BY TimesTyped DEF Windows
  <2> HIDE DEF lo, hi, start, step, f
  <2> QED BY <2>1, <2>2
<1>2. hi \in Int /\ lo <= hi /\ hi <= Len(records)
  <2>1. hi \in lo .. Len(records)
    BY <1>1, UntilTyped
  <2> QED BY <1>1, <2>1
<1>3. start \in Counted
  <2>1. Trim(w, Left(b), ks) \in Windows
    BY <1>1, WindowTyped
  <2> QED BY <2>1 DEF Windows, Counted
<1>4. HardBucket(w, b, ks) = f[hi]
  BY DEF HardBucket
<1> HIDE DEF lo, hi, start
<1>5. \A x \in Counted, i \in lo + 1 .. hi :
        step[<<x, i>>] = HardPress(x, i, b, ks) /\ step[<<x, i>>] \in Counted
  <2> TAKE x \in Counted, i \in lo + 1 .. hi
  <2>1. i \in 1 .. Len(records)
    BY <1>1, <1>2
  <2>2. HardPress(x, i, b, ks) \in Counted
    BY <2>1, HardPressTyped
  <2> QED BY <2>2
<1> HIDE DEF step
<1>6. PICK g \in [lo .. hi -> Counted] : Loop(g, lo, hi, start, step)
  BY <1>1, <1>2, <1>3, <1>5, LoopRuns
<1>7. g = [i \in lo .. hi |-> IF i = lo THEN start ELSE HardPress(g[i - 1], i, b, ks)]
  <2>1. \A i \in lo .. hi : i # lo => i - 1 \in lo .. hi /\ i \in lo + 1 .. hi
    BY <1>1, <1>2
  <2>2. \A i \in lo .. hi : i # lo => step[<<g[i - 1], i>>] = HardPress(g[i - 1], i, b, ks)
    BY <1>5, <1>6, <2>1
  <2> QED BY <1>6, <2>2 DEF Loop
<1>8. f = [i \in lo .. hi |-> IF i = lo THEN start ELSE HardPress(f[i - 1], i, b, ks)]
  BY <1>7 DEF lo, hi, start
<1> HIDE DEF f
<1>9. /\ lo \in lo .. hi /\ hi \in lo .. hi
      /\ \A i \in lo + 1 .. hi : i \in lo .. hi /\ i # lo /\ i \in 1 .. Len(records)
  BY <1>1, <1>2
<1>10. f[lo] = start /\ \A i \in lo + 1 .. hi : f[i] = HardPress(f[i - 1], i, b, ks)
  BY <1>8, <1>9
<1>11. \A i \in lo .. hi : f[i] \in Counted
  <2> DEFINE S == {i \in lo .. hi : f[i] \in Counted}
  <2>1. lo \in S
    BY <1>3, <1>9, <1>10
  <2>2. ASSUME NEW i \in lo + 1 .. hi, i - 1 \in S PROVE i \in S
    BY <1>9, <1>10, <2>2, HardPressTyped
  <2>3. lo .. hi \subseteq S
    <3> HIDE DEF S
    <3> QED BY <1>1, <1>2, <2>1, <2>2, InductTo
  <2> QED BY <2>3
<1>12. f \in [lo .. hi -> Counted]
  <2>1. f = [i \in lo .. hi |-> f[i]]
    BY <1>8
  <2> QED BY <1>11, <2>1
<1> QED BY <1>4, <1>10, <1>12 DEF lo, hi, start

\* A bucket of the frame method has its types.
LEMMA HardBucketTyped ==
  ASSUME records \in Seq(Press), now \in Nat, NEW w \in Windows, NEW b \in Int, NEW ks
  PROVE  HardBucket(w, b, ks) \in Counted
<1> DEFINE hi == Until(w.right, Right(b))
<1>1. PICK f \in [w.right .. hi -> Counted] :
        /\ f[w.right] = [win |-> Trim(w, Left(b), ks), best |-> Trim(w, Left(b), ks).count]
        /\ \A i \in w.right + 1 .. hi : f[i] = HardPress(f[i - 1], i, b, ks)
        /\ HardBucket(w, b, ks) = f[hi]
  BY HardBucketRuns
<1>2. w.right \in 0 .. Len(records) /\ Right(b) \in Int /\ Len(records) \in Int
  BY BucketFacts, TimesTyped DEF Windows
<1>3. hi \in w.right .. Len(records)
  BY <1>2, UntilTyped
<1> QED BY <1>1, <1>2, <1>3

\* The counts a bucket takes the largest of: of the frame before its left end, and of
\* the frames that end with its records up to position i.
Counts(ks, lo, i, at) ==
  {InFrame(ks, lo, at)} \union {InFrame(ks, j, records[j].time) : j \in lo + 1 .. i}

Largest(m, S) == m \in S /\ \A x \in S : x <= m

\* The counts of the frames of a bucket are numbers.
LEMMA CountsTyped ==
  ASSUME records \in Seq(Press), NEW ks, NEW lo \in Nat, NEW i \in 0 .. Len(records),
         NEW at \in Int
  PROVE  Counts(ks, lo, i, at) \subseteq Nat
<1>1. InFrame(ks, lo, at) \in Nat
  BY FrameTyped
<1>2. ASSUME NEW j \in lo + 1 .. i PROVE InFrame(ks, j, records[j].time) \in Nat
  <2>1. j \in Int /\ j \in 1 .. Len(records)
    BY TimesTyped
  <2>2. records[j].time \in Int
    BY <2>1, TimesTyped
  <2> QED BY <2>1, <2>2, FrameTyped
<1> QED BY <1>1, <1>2 DEF Counts

\* One record more: the window holds the frame that ends with it.
LEMMA HardPressRight ==
  ASSUME records \in Seq(Press), Ascends(records), NEW old \in Counted, NEW b, NEW ks,
         NEW lo \in Nat, NEW i \in lo + 1 .. Len(records),
         Left(b) \in Int, Left(b) <= records[i].time,
         NEW at \in Int, at <= records[i].time, Fits(old.win, ks, at), old.win.right = i - 1,
         Largest(old.best, Counts(ks, lo, i - 1, Left(b)))
  PROVE  LET new == HardPress(old, i, b, ks)
         IN  /\ Fits(new.win, ks, records[i].time) /\ new.win.right = i
             /\ Largest(new.best, Counts(ks, lo, i, Left(b)))
<1> DEFINE left == Left(b)
           u == records[i].time
           took == Take(old.win, i, ks)
           win == Trim(took, u, ks)
           new == HardPress(old, i, b, ks)
           c == InFrame(ks, i, u)
<1>1. i \in 1 .. Len(records) /\ i \in 0 .. Len(records) /\ i \in Int /\ i - 1 <= i
  BY TimesTyped
<1>2. u \in Int
  BY <1>1, TimesTyped
<1> HIDE DEF u
<1>3. Fits(took, ks, u) /\ took.right = i
  BY <1>1, <1>2, TakeFits DEF u
<1>4. Fits(win, ks, u) /\ win.right = i /\ win.count = c
  BY <1>2, <1>3, TrimFits
<1>5. c \in Nat /\ old.best \in Int
  BY <1>1, <1>2, FrameTyped DEF Counted
<1>6. new.win = win /\ new.best = Max({old.best, c})
  BY <1>4 DEF HardPress, u
<1> HIDE DEF took, win, new, c
<1>7. Counts(ks, lo, i, left) = Counts(ks, lo, i - 1, left) \union {c}
  <2>1. lo + 1 .. i = (lo + 1 .. i - 1) \union {i}
    BY <1>1
  <2> DEFINE cs == {InFrame(ks, j, records[j].time) : j \in lo + 1 .. i - 1}
  <2>2. {InFrame(ks, j, records[j].time) : j \in lo + 1 .. i} = cs \union {c}
    BY <2>1 DEF c, u
  <2> HIDE DEF cs
  <2> QED BY <2>2 DEF Counts, cs
<1>8. i - 1 \in 0 .. Len(records)
  BY <1>1
<1>9. Counts(ks, lo, i - 1, left) \subseteq Nat
  BY <1>8, CountsTyped
<1> DEFINE cs == Counts(ks, lo, i - 1, left)
<1>10. Largest(new.best, cs \union {c})
  <2> DEFINE two == {old.best, c}
             m == Max(two)
  <2>1. old.best \in cs /\ \A x \in cs : x \in Int /\ x <= old.best
    BY <1>9 DEF Largest
  <2>2. two \subseteq Int /\ old.best \in two /\ c \in two /\ \A x \in two : x = old.best \/ x = c
    BY <1>5
  <2> HIDE DEF cs, two
  <2>3. m \in {old.best, c} /\ old.best <= m /\ c <= m
    <3>1. CASE old.best <= c
      <4>1. \A x \in two : x <= c
        BY <1>5, <2>2, <3>1
      <4>2. m = c
        BY <2>2, <4>1, MaxIs
      <4> QED BY <1>5, <3>1, <4>2
    <3>2. CASE c < old.best
      <4>1. \A x \in two : x <= old.best
        BY <1>5, <2>2, <3>2
      <4>2. m = old.best
        BY <2>2, <4>1, MaxIs
      <4> QED BY <1>5, <3>2, <4>2
    <3> QED BY <1>5, <3>1, <3>2
  <2>4. new.best = m
    BY <1>6 DEF two
  <2> HIDE DEF m
  <2>5. m \in Int /\ m \in cs \union {c}
    BY <1>5, <2>1, <2>3
  <2>6. ASSUME NEW x \in cs \union {c} PROVE x <= m
    <3>1. CASE x \in cs
      BY <1>5, <2>1, <2>3, <2>5, <3>1
    <3>2. CASE x = c
      BY <2>3, <3>2
    <3> QED BY <3>1, <3>2
  <2> QED BY <2>4, <2>5, <2>6 DEF Largest
<1> QED BY <1>4, <1>6, <1>7, <1>10 DEF u, new

\* The count of the frame before the left end of a bucket, and of a frame that ends
\* in it.
LEMMA FrameBeforeIs ==
  ASSUME records \in Seq(Press), NEW ks, NEW p, NEW t \in Int, Parts(p, t)
  PROVE  FrameBefore(ks, t) = InFrame(ks, p, t)
<1>1. \A n \in 1 .. Len(records) : records[n].time \in Int
  BY TimesTyped
<1>2. p \in 0 .. Len(records) /\ p \in Int /\ Len(records) \in Int
  BY TimesTyped DEF Parts
<1>3. ASSUME NEW n \in 1 .. Len(records) PROVE n \in 1 .. p <=> records[n].time < t
  BY <1>1, <1>2 DEF Parts
<1>4. {n \in 1 .. Len(records) : records[n].key \in ks
          /\ (records[n].time < t /\ t - records[n].time <= FrameLength)}
        = {n \in 1 .. p : records[n].key \in ks /\ t - records[n].time <= FrameLength}
  BY <1>2, <1>3
<1> QED BY <1>4 DEF FrameBefore, Presses, InFrame, Frame

\* The frame that ends at t, as a count up to the position that parts the log after t.
LEMMA FrameToIs ==
  ASSUME records \in Seq(Press), NEW ks, NEW p, NEW t \in Int, Parts(p, t + 1)
  PROVE  FrameTo(ks, t) = InFrame(ks, p, t)
<1>1. \A n \in 1 .. Len(records) : records[n].time \in Int
  BY TimesTyped
<1>2. p \in 0 .. Len(records) /\ p \in Int /\ Len(records) \in Int
  BY TimesTyped DEF Parts
<1>3. ASSUME NEW n \in 1 .. Len(records) PROVE n \in 1 .. p <=> records[n].time <= t
  BY <1>1, <1>2 DEF Parts
<1>4. {n \in 1 .. Len(records) : records[n].key \in ks
          /\ (records[n].time <= t /\ t - records[n].time <= FrameLength)}
        = {n \in 1 .. p : records[n].key \in ks /\ t - records[n].time <= FrameLength}
  BY <1>2, <1>3
<1> QED BY <1>4 DEF FrameTo, Presses, InFrame, Frame

\* The frames that end in a bucket end, as far as they count, with its records.
LEMMA RecountIs ==
  ASSUME records \in Seq(Press), Ascends(records), now \in Nat, NEW ks, NEW b \in Int,
         NEW lo, NEW hi, Parts(lo, Left(b)), Parts(hi, Right(b)),
         NEW m, Largest(m, Counts(ks, lo, hi, Left(b)))
  PROVE  Recount(ks, b) = m
<1> DEFINE size == Len(records)
           left == Left(b)
           right == Right(b)
           T == {FrameBefore(ks, left)} \union {FrameTo(ks, t) : t \in Within(b)}
           C == Counts(ks, lo, hi, left)
<1>1. left \in Int /\ right \in Int /\ size \in Int /\ lo \in 0 .. size /\ hi \in 0 .. size
  BY BucketFacts, TimesTyped DEF Parts
<1>2. \A n \in 1 .. size : records[n].time \in Int
  BY TimesTyped
<1>3. C \subseteq Nat
  BY <1>1, CountsTyped
<1>4. m \in C /\ \A x \in C : x <= m
  BY DEF Largest
<1>5. FrameBefore(ks, left) = InFrame(ks, lo, left) /\ InFrame(ks, lo, left) \in C
  BY <1>1, FrameBeforeIs DEF Counts
<1>6. Within(b) = {t \in left .. right - 1 : \E n \in 1 .. size : records[n].time = t}
  BY DEF Within
<1>7. ASSUME NEW t \in Within(b)
      PROVE  /\ FrameTo(ks, t) \in C
             /\ \A j \in 1 .. size : records[j].time = t => InFrame(ks, j, t) <= FrameTo(ks, t)
  <2>1. t \in Int /\ left <= t /\ t < right
    BY <1>1, <1>6
  <2>2. PICK n \in 1 .. size : records[n].time = t
    BY <1>6
  <2> DEFINE p == Until(0, t + 1)
  <2>3. Parts(p, t + 1)
    BY <1>1, <2>1, UntilParts
  <2> HIDE DEF p
  <2>4. \A j \in 1 .. size : records[j].time = t => j <= p
    BY <1>1, <2>1, <2>3 DEF Parts
  <2>5. p \in 1 .. size /\ n <= p
    BY <1>1, <2>2, <2>3, <2>4 DEF Parts
  <2>6. records[p].time = t
    <3>1. records[p].time < t + 1
      BY <2>3, <2>5 DEF Parts
    <3>2. records[n].time <= records[p].time
      BY <2>5 DEF Ascends
    <3> QED BY <1>2, <2>1, <2>2, <2>5, <3>1, <3>2
  <2>7. FrameTo(ks, t) = InFrame(ks, p, t)
    BY <2>1, <2>3, FrameToIs
  <2>8. p \in lo + 1 .. hi
    <3>1. ~(p \in 1 .. lo)
      BY <1>1, <2>1, <2>6 DEF Parts
    <3>2. ~(p \in hi + 1 .. size)
      BY <1>1, <2>1, <2>6 DEF Parts
    <3> QED BY <1>1, <2>5, <3>1, <3>2
  <2>9. FrameTo(ks, t) \in C
    BY <2>6, <2>7, <2>8 DEF Counts
  <2>10. ASSUME NEW j \in 1 .. size, records[j].time = t PROVE InFrame(ks, j, t) <= FrameTo(ks, t)
    <3>1. j <= p
      BY <2>4, <2>10
    <3>2. Frame(ks, j, t) \in SUBSET Frame(ks, p, t)
      BY <1>1, <2>5, <3>1 DEF Frame
    <3>3. IsFiniteSet(Frame(ks, p, t))
      BY <2>1, <2>5, FrameTyped
    <3> QED BY <2>7, <3>2, <3>3, FS_Subset DEF InFrame
  <2> QED BY <2>9, <2>10
<1>8. T \subseteq C
  BY <1>5, <1>7
<1>9. m \in T
  <2>1. CASE m = InFrame(ks, lo, left)
    BY <1>5, <2>1
  <2>2. ASSUME NEW j \in lo + 1 .. hi, m = InFrame(ks, j, records[j].time) PROVE m \in T
    <3> DEFINE t == records[j].time
    <3>1. j \in 1 .. size /\ j \in lo + 1 .. size /\ j \in 1 .. hi
      BY <1>1
    <3>2. t \in Int /\ left <= t /\ t < right
      BY <1>2, <3>1 DEF Parts
    <3>3. t \in Within(b)
      <4>1. t \in left .. right - 1
        BY <1>1, <3>2
      <4> QED BY <1>6, <3>1, <4>1
    <3>4. FrameTo(ks, t) \in C /\ m <= FrameTo(ks, t)
      BY <1>7, <2>2, <3>1, <3>3
    <3>5. m = FrameTo(ks, t)
      <4>1. FrameTo(ks, t) <= m
        BY <1>4, <3>4
      <4>2. m \in Int /\ FrameTo(ks, t) \in Int
        BY <1>3, <1>4, <3>4
      <4> HIDE DEF t
      <4> QED BY <3>4, <4>1, <4>2
    <3> QED BY <3>3, <3>5
  <2> QED BY <1>4, <2>1, <2>2 DEF Counts
<1>10. Max(T) = m
  <2> HIDE DEF T, C
  <2>1. T \subseteq Int /\ \A x \in T : x <= m
    BY <1>3, <1>4, <1>8
  <2> QED BY <1>9, <2>1, MaxIs
<1> QED BY <1>10 DEF Recount

\* A window that fits an instant does so at a later one with no record in between.
LEMMA FitsLater ==
  ASSUME records \in Seq(Press), NEW w, NEW ks, NEW at \in Int, NEW u \in Int, at <= u,
         Fits(w, ks, at)
  PROVE  Fits(w, ks, u)
<1>1. ASSUME NEW i \in 1 .. w.left PROVE records[i].time < u - FrameLength
  <2>1. w.left \in 0 .. Len(records) /\ Len(records) \in Nat /\ FrameLength \in Int
    BY PlotAssumption, TimesTyped DEF Fits, Windows
  <2>2. i \in 1 .. Len(records) /\ records[i].time < at - FrameLength
    BY <2>1 DEF Fits
  <2>3. records[i].time \in Int
    BY <2>2, TimesTyped
  <2> QED BY <2>1, <2>2, <2>3
<1> QED BY <1>1 DEF Fits

\* A bucket of the frame method is the recount, and leaves the window ready for the next.
LEMMA HardBucketRight ==
  ASSUME records \in Seq(Press), Ascends(records), now \in Nat, NEW ks, NEW b \in Int,
         NEW w, Fits(w, ks, Left(b)), Parts(w.right, Left(b))
  PROVE  LET res == HardBucket(w, b, ks)
         IN  /\ Fits(res.win, ks, Right(b)) /\ Parts(res.win.right, Right(b))
             /\ res.best = Recount(ks, b) /\ res.best \in Nat
             /\ res \in Counted
<1> DEFINE lo == w.right
           left == Left(b)
           right == Right(b)
           hi == Until(w.right, Right(b))
           size == Len(records)
<1>1. /\ w \in Windows /\ lo \in 0 .. size /\ size \in Int /\ lo \in Int /\ lo \in Nat
      /\ left \in Int /\ right \in Int /\ left <= right
  BY BucketFacts, TimesTyped, NumbersAssumption DEF Fits, Windows
<1>2. \A n \in 1 .. size : records[n].time \in Int
  BY TimesTyped
<1>3. Parts(hi, right) /\ hi \in lo .. size
  <2>1. ASSUME NEW i \in 1 .. lo PROVE records[i].time < right
    <3>1. records[i].time < left /\ i \in 1 .. size
      BY <1>1 DEF Parts
    <3> QED BY <1>1, <1>2, <3>1
  <2> QED BY <1>1, <2>1, UntilParts, UntilTyped
<1>4. PICK f \in [lo .. hi -> Counted] :
        /\ f[lo] = [win |-> Trim(w, left, ks), best |-> Trim(w, left, ks).count]
        /\ \A i \in lo + 1 .. hi : f[i] = HardPress(f[i - 1], i, b, ks)
        /\ HardBucket(w, b, ks) = f[hi]
  <2>1. w \in Windows
    BY <1>1
  <2> QED BY <2>1, HardBucketRuns
<1> HIDE DEF hi
<1> DEFINE Good(i) == /\ f[i].win.right = i /\ Largest(f[i].best, Counts(ks, lo, i, left))
                      /\ Fits(f[i].win, ks, IF i = lo THEN left ELSE records[i].time)
           S == {i \in lo .. hi : Good(i)}
<1>5. lo \in S
  <2>1. LET r == Trim(w, left, ks)
        IN  Fits(r, ks, left) /\ r.right = lo /\ r.count = InFrame(ks, lo, left)
    BY <1>1, TrimFits
  <2>2. Counts(ks, lo, lo, left) = {InFrame(ks, lo, left)}
    <3>1. lo + 1 .. lo = {}
      BY <1>1
    <3> QED BY <3>1 DEF Counts
  <2>3. InFrame(ks, lo, left) \in Nat
    BY <1>1, FrameTyped
  <2>4. Largest(InFrame(ks, lo, left), {InFrame(ks, lo, left)})
    BY <2>3 DEF Largest
  <2>5. lo \in lo .. hi
    BY <1>1, <1>3
  <2>6. Good(lo)
    BY <1>4, <2>1, <2>2, <2>4
  <2> HIDE DEF Good
  <2> QED BY <2>5, <2>6
<1>6. ASSUME NEW i \in lo + 1 .. hi, i - 1 \in S PROVE i \in S
  <2> DEFINE at == IF i - 1 = lo THEN left ELSE records[i - 1].time
             old == f[i - 1]
  <2>1. i \in lo + 1 .. size /\ i \in 1 .. size /\ i - 1 \in lo .. hi /\ i \in lo .. hi
    BY <1>1, <1>3
  <2>2. left <= records[i].time /\ records[i].time \in Int
    BY <1>2, <2>1 DEF Parts
  <2>3. at \in Int /\ at <= records[i].time
    <3>1. CASE i - 1 = lo
      BY <1>1, <2>2, <3>1
    <3>2. CASE i - 1 # lo
      <4>1. i - 1 \in 1 .. size /\ i - 1 <= i
        BY <1>1, <2>1, <3>2
      <4>2. records[i - 1].time <= records[i].time
        BY <2>1, <4>1 DEF Ascends
      <4> QED BY <1>2, <3>2, <4>1, <4>2
    <3> QED BY <3>1, <3>2
  <2>4. /\ old \in Counted /\ old.win.right = i - 1 /\ Fits(old.win, ks, at)
        /\ Largest(old.best, Counts(ks, lo, i - 1, left))
    BY <1>4, <1>6, <2>1
  <2> HIDE DEF at, old
  <2>5. LET new == HardPress(old, i, b, ks)
        IN  /\ Fits(new.win, ks, records[i].time) /\ new.win.right = i
            /\ Largest(new.best, Counts(ks, lo, i, left))
    <3>1. lo \in Nat /\ left \in Int
      BY <1>1
    <3>2. i \in lo + 1 .. Len(records)
      BY <2>1
    <3> HIDE DEF lo
    <3> QED BY <2>2, <2>3, <2>4, <3>1, <3>2, HardPressRight
  <2>6. f[i] = HardPress(old, i, b, ks) /\ i # lo
    BY <1>1, <1>4, <2>1 DEF old
  <2>7. Good(i)
    BY <2>5, <2>6
  <2> HIDE DEF Good
  <2> QED BY <2>1, <2>7
<1>7. hi \in S
  <2>1. lo .. hi \subseteq S
    <3>1. hi \in Int
      BY <1>3
    <3> HIDE DEF S
    <3> QED BY <1>1, <1>5, <1>6, <3>1, InductTo
  <2> QED BY <1>1, <1>3, <2>1
<1> DEFINE at == IF hi = lo THEN left ELSE records[hi].time
<1>8. at \in Int /\ at <= right
  <2>1. CASE hi = lo
    BY <1>1, <2>1
  <2>2. CASE hi # lo
    <3>1. hi \in 1 .. hi /\ hi \in 1 .. size
      BY <1>1, <1>3, <2>2
    <3>2. records[hi].time < right
      BY <1>3, <3>1 DEF Parts
    <3> QED BY <1>1, <1>2, <2>2, <3>1, <3>2
  <2> QED BY <2>1, <2>2
<1>9. f[hi].win.right = hi /\ Fits(f[hi].win, ks, at) /\ Largest(f[hi].best, Counts(ks, lo, hi, left))
  BY <1>7
<1> HIDE DEF at
<1>10. Fits(f[hi].win, ks, right)
  BY <1>1, <1>8, <1>9, FitsLater
<1>11. f[hi].best = Recount(ks, b)
  BY <1>1, <1>3, <1>9, RecountIs
<1>12. f[hi].best \in Nat
  <2>1. hi \in 0 .. size
    BY <1>1, <1>3
  <2>2. Counts(ks, lo, hi, left) \subseteq Nat
    BY <1>1, <2>1, CountsTyped
  <2> QED BY <1>9, <2>2 DEF Largest
<1>13. f[hi] \in Counted
  <2>1. hi \in lo .. hi
    BY <1>1, <1>3
  <2> QED BY <1>4, <2>1
<1> QED BY <1>3, <1>4, <1>9, <1>10, <1>11, <1>12, <1>13

-----------------------------------------------------------------------------
(* The plot of the frame method *)

\* Advancing the pivot keeps everything that reaches into the first bucket.
LEMMA PivotParts ==
  ASSUME records \in Seq(Press), Ascends(records), now \in Nat, NEW reach \in Nat,
         recent_pivot \in 0 .. Len(records),
         \A i \in 1 .. recent_pivot : records[i].time < Present - Span(reach)
  PROVE  /\ Left(1) - reach \in Int /\ Present - Span(reach) = Left(1) - reach
         /\ Parts(Pivot(reach), Left(1) - reach)
<1>1. Buckets * Second \in Int /\ Present \in Int /\ Left(1) = Present - Buckets * Second
  BY BucketFacts, PresentFacts, NumbersAssumption, PlotAssumption
<1> DEFINE span == Buckets * Second
<1>2. Span(reach) = span + reach
  BY DEF Span
<1>3. span \in Int /\ Present \in Int /\ Left(1) = Present - span
  BY <1>1
<1> HIDE DEF span
<1>4. Left(1) - reach \in Int /\ Present - Span(reach) = Left(1) - reach
  BY <1>2, <1>3
<1>5. \A i \in 1 .. recent_pivot : records[i].time < Left(1) - reach
  BY <1>4
<1>6. Parts(Until(recent_pivot, Left(1) - reach), Left(1) - reach)
  BY <1>4, <1>5, UntilParts
<1>7. Pivot(reach) = Until(recent_pivot, Left(1) - reach)
  BY <1>4 DEF Pivot
<1> QED BY <1>4, <1>6, <1>7

\* From the pivot on, the first record of a bucket is found.
LEMMA PivotUntil ==
  ASSUME records \in Seq(Press), Ascends(records), now \in Nat, NEW reach \in Nat,
         recent_pivot \in 0 .. Len(records),
         \A i \in 1 .. recent_pivot : records[i].time < Present - Span(reach),
         NEW b \in 1 .. Buckets
  PROVE  Parts(Until(Pivot(reach), Left(b)), Left(b)) /\ Pivot(reach) <= Until(Pivot(reach), Left(b))
<1>1. /\ Left(1) - reach \in Int /\ Parts(Pivot(reach), Left(1) - reach)
  BY PivotParts
<1>2. Left(1) \in Int /\ Left(b) \in Int /\ Left(1) <= Left(b)
  <2>1. Buckets \in Nat /\ b \in Int /\ Second \in Nat /\ 1 \in Int
    BY PlotAssumption, NumbersAssumption
  <2>2. Left(1) \in Int /\ Left(b) \in Int /\ Right(1) = Left(1) + Second /\ Right(b) = Left(b) + Second
    BY <2>1, BucketFacts
  <2>3. 1 < b => Right(1) <= Right(b) - Second
    BY <2>1, BucketFacts
  <2>4. b = 1 \/ 1 < b
    BY <2>1
  <2> QED BY <2>1, <2>2, <2>3, <2>4
<1>3. Pivot(reach) \in 0 .. Len(records) /\ \A i \in 1 .. Pivot(reach) : records[i].time < Left(1) - reach
  BY <1>1 DEF Parts
<1>4. ASSUME NEW i \in 1 .. Pivot(reach) PROVE records[i].time < Left(b)
  <2>1. i \in 1 .. Len(records) /\ records[i].time < Left(1) - reach
    BY <1>3, TimesTyped
  <2>2. records[i].time \in Int
    BY <2>1, TimesTyped
  <2> QED BY <1>2, <2>1, <2>2
<1>5. Until(Pivot(reach), Left(b)) \in Pivot(reach) .. Len(records)
  BY <1>2, <1>3, UntilTyped
<1>6. Pivot(reach) <= Until(Pivot(reach), Left(b))
  BY <1>5
<1> QED BY <1>2, <1>3, <1>4, <1>6, UntilParts

\* The first frame ends at the left end of the first bucket.
LEMMA HardStartRight ==
  ASSUME records \in Seq(Press), Ascends(records), now \in Nat, NEW ks,
         recent_pivot \in 0 .. Len(records),
         \A i \in 1 .. recent_pivot : records[i].time < Present - Span(FrameLength)
  PROVE  Fits(HardStart(ks), ks, Left(1)) /\ Parts(HardStart(ks).right, Left(1))
<1> DEFINE p == Pivot(FrameLength)
           start == [left |-> p, right |-> p, count |-> 0]
           to == Until(p, Left(1))
<1>1. FrameLength \in Nat /\ 1 \in 1 .. Buckets /\ Left(1) \in Int
  BY PlotAssumption, BucketFacts
<1>2. Parts(p, Left(1) - FrameLength)
  BY <1>1, PivotParts
<1>3. Parts(to, Left(1)) /\ p <= to
  BY <1>1, PivotUntil
<1>4. HardStart(ks) = Take(start, to, ks)
  BY DEF HardStart
<1> HIDE DEF p, to
<1>5. Fits(start, ks, Left(1))
  <2>1. p \in 0 .. Len(records) /\ \A i \in 1 .. p : records[i].time < Left(1) - FrameLength
    BY <1>2 DEF Parts
  <2>2. Matching(ks, p, p) = 0
    <3>1. {n \in p + 1 .. p : records[n].key \in ks} = {}
      BY <2>1
    <3> QED BY <3>1, FS_EmptySet DEF Matching
  <2> QED BY <2>1, <2>2 DEF Fits, Windows
<1>6. to \in 0 .. Len(records) /\ start.right <= to
  BY <1>3 DEF Parts
<1> HIDE DEF start
<1>7. Fits(Take(start, to, ks), ks, Left(1)) /\ Take(start, to, ks).right = to
  BY <1>1, <1>5, <1>6, TakeFits
<1> QED BY <1>3, <1>4, <1>7

HardState == [win : Windows, plot : Seq(Int \X {1})]

\* HardPlot is its loop's last plot.
LEMMA HardPlotRuns ==
  ASSUME records \in Seq(Press), now \in Nat, NEW ks, HardStart(ks) \in Windows
  PROVE  \E f \in [0 .. Buckets -> HardState] :
           /\ f[0] = [win |-> HardStart(ks), plot |-> <<>>]
           /\ \A b \in 1 .. Buckets : f[b] = HardNext(f[b - 1], b, ks)
           /\ HardPlot(ks) = f[Buckets].plot
<1> DEFINE start == [win |-> HardStart(ks), plot |-> <<>>]
           step == [p \in HardState \X (0 + 1 .. Buckets) |-> HardNext(p[1], p[2], ks)]
           f[b \in 0 .. Buckets] ==
             IF b = 0 THEN [win |-> HardStart(ks), plot |-> <<>>] ELSE HardNext(f[b - 1], b, ks)
<1>1. Buckets \in Int /\ 0 <= Buckets /\ 0 \in Int
  BY PlotAssumption
<1>2. start \in HardState
  BY DEF HardState
<1>3. HardPlot(ks) = f[Buckets].plot
  BY DEF HardPlot
<1> HIDE DEF start
<1>4. ASSUME NEW x \in HardState, NEW b \in Int PROVE HardNext(x, b, ks) \in HardState
  <2> DEFINE res == HardBucket(x.win, b, ks)
  <2>1. x.win \in Windows /\ x.plot \in Seq(Int \X {1})
    BY DEF HardState
  <2>2. res \in Counted
    BY <2>1, HardBucketTyped
  <2>3. HardNext(x, b, ks) = [win |-> res.win, plot |-> Append(x.plot, <<res.best, 1>>)]
    BY DEF HardNext
  <2> HIDE DEF res
  <2>4. res.win \in Windows /\ <<res.best, 1>> \in Int \X {1}
    BY <2>2 DEF Counted
  <2> QED BY <2>1, <2>3, <2>4 DEF HardState
<1>5. \A x \in HardState, b \in 0 + 1 .. Buckets :
        step[<<x, b>>] = HardNext(x, b, ks) /\ step[<<x, b>>] \in HardState
  BY <1>4
<1> HIDE DEF step
<1>6. PICK g \in [0 .. Buckets -> HardState] : Loop(g, 0, Buckets, start, step)
  BY <1>1, <1>2, <1>5, LoopRuns
<1>7. g = [b \in 0 .. Buckets |-> IF b = 0 THEN start ELSE HardNext(g[b - 1], b, ks)]
  <2>1. \A b \in 0 .. Buckets : b # 0 => b - 1 \in 0 .. Buckets /\ b \in 0 + 1 .. Buckets
    BY <1>1
  <2>2. \A b \in 0 .. Buckets : b # 0 => step[<<g[b - 1], b>>] = HardNext(g[b - 1], b, ks)
    BY <1>5, <1>6, <2>1
  <2> QED BY <1>6, <2>2 DEF Loop
<1>8. f = [b \in 0 .. Buckets |-> IF b = 0 THEN start ELSE HardNext(f[b - 1], b, ks)]
  BY <1>7 DEF start
<1> HIDE DEF f
<1>9. f[0] = start /\ \A b \in 1 .. Buckets : f[b] = HardNext(f[b - 1], b, ks)
  <2>1. \A b \in 1 .. Buckets : b \in 0 .. Buckets /\ b # 0
    BY <1>1
  <2> QED BY <1>1, <1>8, <2>1
<1>10. \A b \in 0 .. Buckets : f[b] \in HardState
  <2> DEFINE S == {b \in 0 .. Buckets : f[b] \in HardState}
  <2>1. 0 \in S
    BY <1>1, <1>2, <1>9
  <2>2. ASSUME NEW b \in 0 + 1 .. Buckets, b - 1 \in S PROVE b \in S
    BY <1>1, <1>4, <1>9, <2>2
  <2>3. 0 .. Buckets \subseteq S
    <3> HIDE DEF S
    <3> QED BY <1>1, <2>1, <2>2, InductTo
  <2> QED BY <2>3
<1>11. f \in [0 .. Buckets -> HardState]
  <2>1. f = [b \in 0 .. Buckets |-> f[b]]
    BY <1>8
  <2> QED BY <1>10, <2>1
<1> QED BY <1>3, <1>9, <1>11 DEF start

\* The plot of the frame method is the recount.
LEMMA HardPlotRight ==
  ASSUME records \in Seq(Press), Ascends(records), now \in Nat, NEW ks,
         recent_pivot \in 0 .. Len(records),
         \A i \in 1 .. recent_pivot : records[i].time < Present - Span(FrameLength)
  PROVE  /\ HardPlot(ks) = [b \in 1 .. Buckets |-> <<Recount(ks, b), 1>>]
         /\ \A b \in 1 .. Buckets : Recount(ks, b) \in Nat
<1>1. Fits(HardStart(ks), ks, Left(1)) /\ Parts(HardStart(ks).right, Left(1))
  BY HardStartRight
<1>2. PICK f \in [0 .. Buckets -> HardState] :
        /\ f[0] = [win |-> HardStart(ks), plot |-> <<>>]
        /\ \A b \in 1 .. Buckets : f[b] = HardNext(f[b - 1], b, ks)
        /\ HardPlot(ks) = f[Buckets].plot
  <2>1. HardStart(ks) \in Windows
    BY <1>1 DEF Fits
  <2> QED BY <2>1, HardPlotRuns
<1>3. Buckets \in Nat /\ Buckets \in Int
  BY PlotAssumption
<1> DEFINE Good(b) ==
      /\ Fits(f[b].win, ks, Left(b + 1)) /\ Parts(f[b].win.right, Left(b + 1))
      /\ Len(f[b].plot) = b
      /\ \A c \in 1 .. b : f[b].plot[c] = <<Recount(ks, c), 1>> /\ Recount(ks, c) \in Nat
           S == {b \in 0 .. Buckets : Good(b)}
<1>4. 0 \in S
  <2>1. Good(0)
    BY <1>1, <1>2
  <2> HIDE DEF Good
  <2> QED BY <1>3, <2>1
<1>5. ASSUME NEW b \in 0 + 1 .. Buckets, b - 1 \in S PROVE b \in S
  <2> DEFINE old == f[b - 1]
             res == HardBucket(old.win, b, ks)
  <2>1. b \in 1 .. Buckets /\ b \in Int /\ b - 1 \in 0 .. Buckets /\ b \in 0 .. Buckets /\ (b - 1) + 1 = b
    BY <1>3
  <2>2. Good(b - 1)
    BY <1>5
  <2>3. /\ Fits(old.win, ks, Left(b)) /\ Parts(old.win.right, Left(b))
        /\ Len(old.plot) = b - 1 /\ old.plot \in Seq(Int \X {1})
        /\ \A c \in 1 .. b - 1 : old.plot[c] = <<Recount(ks, c), 1>> /\ Recount(ks, c) \in Nat
    <3>1. old \in HardState
      BY <1>2, <2>1
    <3> QED BY <2>1, <2>2, <3>1 DEF HardState
  <2> HIDE DEF old
  <2>4. /\ Fits(res.win, ks, Right(b)) /\ Parts(res.win.right, Right(b))
        /\ res.best = Recount(ks, b) /\ res.best \in Nat
    BY <2>1, <2>3, HardBucketRight
  <2> HIDE DEF res
  <2>5. f[b] = [win |-> res.win, plot |-> Append(old.plot, <<res.best, 1>>)]
    BY <1>2, <2>1 DEF HardNext, old, res
  <2>6. Right(b) = Left(b + 1)
    BY <2>1, BucketFacts
  <2> DEFINE plot == Append(old.plot, <<res.best, 1>>)
  <2>7. /\ Len(plot) = b /\ plot[b] = <<res.best, 1>>
        /\ \A c \in 1 .. b - 1 : plot[c] = old.plot[c]
    <3>1. <<res.best, 1>> \in Int \X {1}
      BY <2>4
    <3> DEFINE e == <<res.best, 1>>
    <3> HIDE DEF e
    <3>2. e \in Int \X {1}
      BY <3>1 DEF e
    <3>3. Len(Append(old.plot, e)) = b /\ Append(old.plot, e)[b] = e
          /\ \A c \in 1 .. b - 1 : Append(old.plot, e)[c] = old.plot[c]
      BY <2>1, <2>3, <3>2
    <3> QED BY <3>3 DEF e
  <2> HIDE DEF plot
  <2>8. \A c \in 1 .. b : plot[c] = <<Recount(ks, c), 1>> /\ Recount(ks, c) \in Nat
    <3> TAKE c \in 1 .. b
    <3>1. c = b \/ c \in 1 .. b - 1
      BY <2>1
    <3> QED BY <2>3, <2>4, <2>7, <3>1
  <2>9. Good(b)
    BY <2>4, <2>5, <2>6, <2>7, <2>8 DEF plot
  <2> HIDE DEF Good
  <2> QED BY <2>1, <2>9
<1>6. Buckets \in S
  <2>1. 0 .. Buckets \subseteq S
    <3> HIDE DEF S
    <3>1. 0 \in Int
      OBVIOUS
    <3> QED BY <1>3, <1>4, <1>5, <3>1, InductTo
  <2> QED BY <1>3, <2>1
<1>7. /\ HardPlot(ks) \in Seq(Int \X {1}) /\ Len(HardPlot(ks)) = Buckets
      /\ \A c \in 1 .. Buckets : HardPlot(ks)[c] = <<Recount(ks, c), 1>> /\ Recount(ks, c) \in Nat
  <2>1. f[Buckets] \in HardState
    BY <1>2, <1>3
  <2> QED BY <1>2, <1>6, <2>1 DEF HardState
<1>8. HardPlot(ks) = [b \in 1 .. Buckets |-> HardPlot(ks)[b]]
  BY <1>7
<1> QED BY <1>7, <1>8

-----------------------------------------------------------------------------
(* A bucket of the sensitive method *)

\* A search over the records up to hi, at an instant at or after them.
LEMMA SearchAt ==
  ASSUME records \in Seq(Press), Ascends(records), NEW ks, NEW lo \in Nat,
         NEW hi \in 0 .. Len(records), NEW at \in Int, \A i \in 1 .. hi : records[i].time <= at
  PROVE  LET res == Search(records, ks, lo, hi, at)
             matches == {n \in lo + 1 .. hi : records[n].key \in ks /\ at - records[n].time <= Considered}
         IN  /\ res.pre \in 0 .. hi /\ res.rate \in Rates /\ res = [pre |-> res.pre, rate |-> res.rate]
             /\ res.rate[1] > 0 <=> matches # {}
             /\ matches # {} => \E m \in matches : m > res.pre
<1> DEFINE res == Search(records, ks, lo, hi, at)
           matches == Matches(records, ks, lo, hi, at)
<1>1. NotAfter(records, hi, at)
  BY DEF NotAfter
<1>2. matches = {n \in lo + 1 .. hi : records[n].key \in ks /\ at - records[n].time <= Considered}
  BY MatchIsRecent
<1>3. res.pre \in 0 .. hi /\ (matches # {} => \E m \in matches : m > res.pre)
  BY <1>1, SearchFacts
<1>4. res = [pre |-> res.pre, rate |-> res.rate] /\ res.rate \in Rates
      /\ (res.rate[1] > 0 <=> matches # {})
  BY <1>1, SearchTyped
<1> HIDE DEF res, matches
<1> QED BY <1>2, <1>3, <1>4 DEF res

\* The better of two rates is one of them, and above zero if one of them is.
LEMMA BestFacts ==
  ASSUME NEW r1 \in Rates, NEW r2 \in Rates
  PROVE  /\ Best(r1, r2) \in Rates
         /\ r1[1] > 0 \/ r2[1] > 0 => Best(r1, r2)[1] > 0
<1>1. /\ r1[1] \in Nat /\ r2[1] \in Nat /\ r1[2] \in Nat \ {0} /\ r2[2] \in Nat \ {0}
  BY DEF Rates
<1>2. Best(r1, r2) = IF r1[1] * r2[2] < r2[1] * r1[2] THEN r2 ELSE r1
  BY DEF Best, \prec
<1>3. ASSUME r1[1] = 0, r2[1] > 0 PROVE r1[1] * r2[2] < r2[1] * r1[2]
  <2>1. r1[1] * r2[2] = 0 /\ r2[1] * r1[2] > 0
    BY <1>1, <1>3
  <2> QED BY <2>1
<1>4. ASSUME r1[1] > 0, r2[1] = 0 PROVE ~(r1[1] * r2[2] < r2[1] * r1[2])
  <2> DEFINE x == r1[1] * r2[2]
             y == r2[1] * r1[2]
  <2>1. x \in Nat /\ x > 0 /\ y = 0
    BY <1>1, <1>4
  <2> HIDE DEF x, y
  <2>2. ~(x < y)
    BY <2>1
  <2> QED BY <2>2 DEF x, y
<1>5. CASE r1[1] * r2[2] < r2[1] * r1[2]
  <2>1. Best(r1, r2) = r2
    BY <1>2, <1>5
  <2>2. r1[1] > 0 => r2[1] > 0
    BY <1>1, <1>4, <1>5
  <2> QED BY <2>1, <2>2
<1>6. CASE ~(r1[1] * r2[2] < r2[1] * r1[2])
  <2>1. Best(r1, r2) = r1
    BY <1>2, <1>6
  <2>2. r2[1] > 0 => r1[1] > 0
    BY <1>1, <1>3, <1>6
  <2> QED BY <2>1, <2>2
<1> QED BY <1>5, <1>6

\* One press more: it is above zero, and the bound stays before it.
LEMMA FreshPressFacts ==
  ASSUME records \in Seq(Press), Ascends(records), NEW old \in Values,
         NEW i \in 1 .. Len(records), NEW ks
  PROVE  LET new == FreshPress(old, i, ks)
         IN  /\ new \in Values
             /\ records[i].key \notin ks => new = old
             /\ records[i].key \in ks /\ old.pre < i => new.pre < i /\ new.rate[1] > 0
<1> DEFINE res == Search(records, ks, old.pre, i, records[i].time)
           new == FreshPress(old, i, ks)
<1>1. old.pre \in Nat /\ old.pre \in 0 .. Len(records) /\ old.rate \in Rates
      /\ Considered \in Nat /\ Len(records) \in Nat
  BY NumbersAssumption, TimesTyped DEF Values
<1>2. i \in 0 .. Len(records) /\ records[i].time \in Int
      /\ \A j \in 1 .. i : records[j].time <= records[i].time
  BY <1>1, TimesTyped DEF Ascends
<1> DEFINE matches == {n \in old.pre + 1 .. i :
                         records[n].key \in ks /\ records[i].time - records[n].time <= Considered}
<1>3. /\ res.pre \in 0 .. i /\ res.rate \in Rates
      /\ res.rate[1] > 0 <=> matches # {}
      /\ matches # {} => \E m \in matches : m > res.pre
  BY <1>1, <1>2, SearchAt, ZenonT(60)
<1> HIDE DEF res
<1>4. CASE records[i].key \notin ks
  BY <1>4 DEF FreshPress
<1>5. CASE records[i].key \in ks
  <2>1. new = [pre |-> res.pre, rate |-> Best(old.rate, res.rate)]
    BY <1>5 DEF FreshPress, res
  <2> HIDE DEF new
  <2>2. new \in Values
    <3>1. res.pre \in 0 .. Len(records) /\ Best(old.rate, res.rate) \in Rates
      BY <1>1, <1>2, <1>3, BestFacts
    <3> QED BY <2>1, <3>1 DEF Values
  <2>3. ASSUME old.pre < i PROVE new.pre < i /\ new.rate[1] > 0
    <3>1. i \in old.pre + 1 .. i
      BY <1>1, <2>3
    <3>2. records[i].time - records[i].time <= Considered
      BY <1>1, <1>2
    <3>3. matches # {}
      BY <1>5, <3>1, <3>2
    <3>4. \A m \in matches : m \in Int /\ m <= i
      BY <1>1
    <3> HIDE DEF matches
    <3>5. res.rate[1] > 0 /\ res.pre < i
      BY <1>1, <1>3, <3>3, <3>4
    <3>6. Best(old.rate, res.rate)[1] > 0
      BY <1>1, <1>3, <3>5, BestFacts
    <3> QED BY <2>1, <3>5, <3>6
  <2> QED BY <1>5, <2>2, <2>3 DEF new
<1> QED BY <1>4, <1>5

\* The values of the loop of FreshBucket.
FreshLoop(f, ks, pre, crt, b) ==
  /\ f \in [crt .. Until(crt, Right(b)) -> Values]
  /\ f[crt] = Search(records, ks, pre, crt, Left(b))
  /\ \A i \in crt + 1 .. Until(crt, Right(b)) : f[i] = FreshPress(f[i - 1], i, ks)
  /\ FreshBucket(crt, pre, b, ks) = f[Until(crt, Right(b))]

\* FreshBucket is its loop's last value.
LEMMA FreshBucketRuns ==
  ASSUME records \in Seq(Press), Ascends(records), now \in Nat, NEW ks, NEW b \in Int,
         NEW crt, NEW pre \in Nat, Parts(crt, Left(b))
  PROVE  \E f : FreshLoop(f, ks, pre, crt, b)
<1> DEFINE lo == crt
           hi == Until(crt, Right(b))
           start == Search(records, ks, pre, crt, Left(b))
           step == [p \in Values \X (lo + 1 .. hi) |-> FreshPress(p[1], p[2], ks)]
           f[i \in crt .. Until(crt, Right(b))] ==
             IF i = crt THEN Search(records, ks, pre, crt, Left(b)) ELSE FreshPress(f[i - 1], i, ks)
<1>1. /\ lo \in Int /\ lo \in 0 .. Len(records) /\ Len(records) \in Int
      /\ Left(b) \in Int /\ Right(b) \in Int
  <2>1. Left(b) \in Int /\ Right(b) \in Int
    BY BucketFacts
  <2>2. Len(records) \in Int /\ lo \in 0 .. Len(records)
    BY TimesTyped DEF Parts
  <2> HIDE DEF lo, hi, start, step, f
  <2> QED BY <2>1, <2>2
<1>2. hi \in Int /\ lo <= hi /\ hi <= Len(records)
  <2>1. hi \in lo .. Len(records)
    BY <1>1, UntilTyped
  <2> QED BY <1>1, <2>1
<1>3. start \in Values
  <2>1. \A i \in 1 .. crt : records[i].time <= Left(b)
    <3> TAKE i \in 1 .. crt
    <3>1. i \in 1 .. Len(records) /\ records[i].time < Left(b)
      BY <1>1 DEF Parts
    <3>2. records[i].time \in Int
      BY <3>1, TimesTyped
    <3> QED BY <1>1, <3>1, <3>2
  <2>2. start.pre \in 0 .. crt /\ start.rate \in Rates /\ start = [pre |-> start.pre, rate |-> start.rate]
    BY <1>1, <2>1, SearchAt
  <2> HIDE DEF start
  <2>3. start.pre \in 0 .. Len(records)
    BY <1>1, <2>2
  <2> QED BY <2>2, <2>3 DEF Values
<1>4. FreshBucket(crt, pre, b, ks) = f[hi]
  BY DEF FreshBucket
<1> HIDE DEF lo, hi, start
<1>5. \A x \in Values, i \in lo + 1 .. hi :
        step[<<x, i>>] = FreshPress(x, i, ks) /\ step[<<x, i>>] \in Values
  <2> TAKE x \in Values, i \in lo + 1 .. hi
  <2>1. i \in 1 .. Len(records)
    BY <1>1, <1>2
  <2>2. FreshPress(x, i, ks) \in Values
    BY <2>1, FreshPressFacts
  <2> QED BY <2>2
<1> HIDE DEF step
<1>6. PICK g \in [lo .. hi -> Values] : Loop(g, lo, hi, start, step)
  BY <1>1, <1>2, <1>3, <1>5, LoopRuns
<1>7. g = [i \in lo .. hi |-> IF i = lo THEN start ELSE FreshPress(g[i - 1], i, ks)]
  <2>1. \A i \in lo .. hi : i # lo => i - 1 \in lo .. hi /\ i \in lo + 1 .. hi
    BY <1>1, <1>2
  <2>2. \A i \in lo .. hi : i # lo => step[<<g[i - 1], i>>] = FreshPress(g[i - 1], i, ks)
    BY <1>5, <1>6, <2>1
  <2> QED BY <1>6, <2>2 DEF Loop
<1>8. f = [i \in lo .. hi |-> IF i = lo THEN start ELSE FreshPress(f[i - 1], i, ks)]
  BY <1>7 DEF lo, hi, start
<1> HIDE DEF f
<1>9. /\ lo \in lo .. hi /\ hi \in lo .. hi
      /\ \A i \in lo + 1 .. hi : i \in lo .. hi /\ i # lo /\ i \in 1 .. Len(records)
  BY <1>1, <1>2
<1>10. f[lo] = start /\ \A i \in lo + 1 .. hi : f[i] = FreshPress(f[i - 1], i, ks)
  BY <1>8, <1>9
<1>11. \A i \in lo .. hi : f[i] \in Values
  <2> DEFINE S == {i \in lo .. hi : f[i] \in Values}
  <2>1. lo \in S
    BY <1>3, <1>9, <1>10
  <2>2. ASSUME NEW i \in lo + 1 .. hi, i - 1 \in S PROVE i \in S
    BY <1>9, <1>10, <2>2, FreshPressFacts
  <2>3. lo .. hi \subseteq S
    <3> HIDE DEF S
    <3> QED BY <1>1, <1>2, <2>1, <2>2, InductTo
  <2> QED BY <2>3
<1>12. f \in [lo .. hi -> Values]
  <2>1. f = [i \in lo .. hi |-> f[i]]
    BY <1>8
  <2> QED BY <1>11, <2>1
<1>13. FreshLoop(f, ks, pre, crt, b)
  BY <1>4, <1>10, <1>12 DEF lo, hi, start, FreshLoop
<1> QED BY <1>13

\* A fresh bucket is above zero exactly if a press accounts for that, and hands on a
\* bound that hides none.
LEMMA FreshBucketRight ==
  ASSUME records \in Seq(Press), Ascends(records), now \in Nat, NEW ks, NEW b \in Int,
         NEW crt, NEW pre \in Nat, Parts(crt, Left(b)), LeavesLast(ks, pre, Left(b))
  PROVE  /\ FreshBucket(crt, pre, b, ks) \in Values
         /\ BucketRight(FreshBucket(crt, pre, b, ks), ks, Right(b))
<1>0. PICK f : FreshLoop(f, ks, pre, crt, b)
  BY FreshBucketRuns
<1>5. /\ f \in [crt .. Until(crt, Right(b)) -> Values]
      /\ f[crt] = Search(records, ks, pre, crt, Left(b))
      /\ \A i \in crt + 1 .. Until(crt, Right(b)) : f[i] = FreshPress(f[i - 1], i, ks)
      /\ FreshBucket(crt, pre, b, ks) = f[Until(crt, Right(b))]
  BY <1>0 DEF FreshLoop
<1> DEFINE size == Len(records)
           left == Left(b)
           right == Right(b)
           hi == Until(crt, Right(b))
           start == Search(records, ks, pre, crt, Left(b))
<1>1. /\ size \in Int /\ crt \in 0 .. size /\ crt \in Int /\ left \in Int /\ right \in Int
      /\ left <= right /\ right - Second = left /\ Second \in Nat /\ Considered \in Nat
  <2>1. size \in Int /\ crt \in 0 .. size
    BY TimesTyped DEF Parts
  <2>2. left \in Int /\ right \in Int /\ right = left + Second
    BY BucketFacts
  <2>3. Second \in Nat /\ Considered \in Nat
    BY NumbersAssumption
  <2> HIDE DEF left, right, size
  <2> QED BY <2>1, <2>2, <2>3
<1>2. \A n \in 1 .. size : records[n].time \in Int
  BY TimesTyped
<1>3. \A i \in 1 .. crt : records[i].time <= left /\ records[i].time < left
  <2> TAKE i \in 1 .. crt
  <2>1. i \in 1 .. size /\ records[i].time < left
    BY <1>1 DEF Parts
  <2> QED BY <1>1, <1>2, <2>1
<1>4. Parts(hi, right) /\ hi \in crt .. size
  <2>1. ASSUME NEW i \in 1 .. crt PROVE records[i].time < right
    <3>1. records[i].time < left /\ i \in 1 .. size
      BY <1>1, <1>3
    <3> QED BY <1>1, <1>2, <3>1, SMTT(60)
  <2> QED BY <1>1, <2>1, UntilParts, UntilTyped
<1>17. /\ f \in [crt .. hi -> Values]
       /\ f[crt] = start
       /\ \A i \in crt + 1 .. hi : f[i] = FreshPress(f[i - 1], i, ks)
       /\ FreshBucket(crt, pre, b, ks) = f[hi]
  <2> HIDE DEF left, right, size
  <2> QED BY <1>5
<1> HIDE DEF hi
<1>18. \A i \in crt .. hi : f[i] \in Values
  BY <1>17
<1> DEFINE Near(n) == records[n].key \in ks /\ left - records[n].time <= Considered
           Good(i) ==
             /\ f[i].pre <= i
             /\ f[i].rate[1] > 0 => \E n \in 1 .. i : Near(n)
             /\ \A n \in NotLate : n <= i /\ Near(n) =>
                  /\ f[i].rate[1] > 0
                  /\ \E m \in n .. i : records[m].key \in ks /\ m > f[i].pre
           S == {i \in crt .. hi : Good(i)}
<1>6. crt \in S
  <2> DEFINE matches == {n \in pre + 1 .. crt : records[n].key \in ks /\ left - records[n].time <= Considered}
  <2>1. /\ start.pre \in 0 .. crt
        /\ start.rate[1] > 0 <=> matches # {}
        /\ matches # {} => \E m \in matches : m > start.pre
    <3>1. \A i \in 1 .. crt : records[i].time <= left
      BY <1>3
    <3>2. crt \in 0 .. Len(records) /\ left \in Int
      BY <1>1
    <3> QED BY <3>1, <3>2, SearchAt
  <2>2. start.rate[1] > 0 => \E n \in 1 .. crt : Near(n)
    BY <1>1, <2>1
  <2>3. ASSUME NEW n \in NotLate, n <= crt, Near(n)
        PROVE  /\ start.rate[1] > 0
               /\ \E m \in n .. crt : records[m].key \in ks /\ m > start.pre
    <3>1. n \in 1 .. crt /\ n \in 1 .. size
      BY <1>1, <2>3 DEF NotLate
    <3>2. records[n].time < left
      BY <1>3, <3>1
    <3>3. PICK m \in n .. size : records[m].key \in ks /\ records[m].time < left /\ m > pre
      BY <2>3, <3>2 DEF LeavesLast
    <3>4. m \in 1 .. size /\ m \in n .. crt /\ m \in pre + 1 .. crt
      <4>1. m \in 1 .. size
        BY <1>1, <3>1
      <4>2. ~(m \in crt + 1 .. size)
        BY <1>1, <1>2, <3>3, <4>1 DEF Parts
      <4> QED BY <1>1, <3>1, <3>3, <4>1, <4>2
    <3>5. left - records[m].time <= Considered
      <4>1. records[n].time <= records[m].time
        BY <1>1, <3>1, <3>4 DEF Ascends
      <4>2. left - records[n].time <= Considered
        BY <2>3
      <4>3. records[n].time \in Int /\ records[m].time \in Int /\ left \in Int /\ Considered \in Int
        BY <1>1, <1>2, <3>1, <3>4
      <4> HIDE DEF left
      <4> QED BY <4>1, <4>2, <4>3
    <3>6. matches # {}
      BY <3>3, <3>4, <3>5
    <3>7. PICK j \in matches : j > start.pre
      BY <2>1, <3>6
    <3>8. CASE n <= j
      <4>1. j \in n .. crt /\ records[j].key \in ks
        BY <1>1, <3>1, <3>8
      <4> QED BY <2>1, <3>6, <3>7, <4>1
    <3>9. CASE j < n
      <4>0. j \in Int /\ start.pre \in Int /\ n \in Int
        BY <1>1, <2>1, <3>1
      <4>1. n \in n .. crt /\ n > start.pre
        <5> HIDE DEF start, matches
        <5> QED BY <3>1, <3>7, <3>9, <4>0
      <4> QED BY <2>1, <2>3, <3>6, <4>1
    <3> QED BY <1>1, <3>1, <3>8, <3>9
  <2> HIDE DEF matches, start
  <2>4. crt \in crt .. hi /\ start.pre <= crt
    BY <1>1, <1>4, <2>1
  <2>5. Good(crt)
    BY <1>17, <2>2, <2>3, <2>4 DEF start
  <2> HIDE DEF Good
  <2> QED BY <2>4, <2>5
<1>7. ASSUME NEW i \in crt + 1 .. hi, i - 1 \in S PROVE i \in S
  <2> DEFINE old == f[i - 1]
             new == f[i]
  <2>1. /\ i \in 1 .. size /\ i - 1 \in crt .. hi /\ i \in crt .. hi /\ i \in crt + 1 .. size
        /\ i \in Int
    BY <1>1, <1>4
  <2>2. old \in Values /\ new = FreshPress(old, i, ks) /\ old.pre <= i - 1 /\ old.pre \in Int
    <3>1. f[i - 1] \in Values /\ f[i] = FreshPress(f[i - 1], i, ks) /\ Good(i - 1)
      BY <1>17, <1>18, <1>7, <2>1
    <3> QED BY <3>1 DEF Values
  <2>3. /\ old.rate[1] > 0 => \E n \in 1 .. i - 1 : Near(n)
        /\ \A n \in NotLate : n <= i - 1 /\ Near(n) =>
             /\ old.rate[1] > 0
             /\ \E m \in n .. i - 1 : records[m].key \in ks /\ m > old.pre
    BY <1>7
  <2>4. \A n \in NotLate : n \in Int
    BY DEF NotLate
  <2> HIDE DEF old, new
  <2>5. CASE records[i].key \notin ks
    <3>1. new = old
      BY <2>1, <2>2, <2>5, FreshPressFacts
    <3>2. new.pre <= i
      BY <2>1, <2>2, <3>1
    <3>3. new.rate[1] > 0 => \E n \in 1 .. i : Near(n)
      <4>1. 1 .. i - 1 \subseteq 1 .. i
        BY <2>1
      <4> QED BY <2>3, <3>1, <4>1
    <3>4. ASSUME NEW n \in NotLate, n <= i, Near(n)
          PROVE  /\ new.rate[1] > 0
                 /\ \E m \in n .. i : records[m].key \in ks /\ m > new.pre
      <4>1. n <= i - 1
        <5>1. n # i
          BY <2>5, <3>4
        <5> QED BY <2>1, <2>4, <3>4, <5>1
      <4>2. n .. i - 1 \subseteq n .. i
        BY <2>1, <2>4
      <4> QED BY <2>3, <3>1, <3>4, <4>1, <4>2
    <3>5. Good(i)
      BY <3>2, <3>3, <3>4 DEF new
    <3> HIDE DEF Good
    <3> QED BY <2>1, <3>5
  <2>6. CASE records[i].key \in ks
    <3>1. old.pre < i
      BY <2>1, <2>2
    <3>2. new.pre < i /\ new.rate[1] > 0 /\ new \in Values
      BY <2>1, <2>2, <2>6, <3>1, FreshPressFacts
    <3>3. Near(i)
      <4>1. left <= records[i].time /\ records[i].time \in Int
        BY <1>2, <2>1 DEF Parts
      <4> QED BY <1>1, <2>6, <4>1
    <3>4. i \in 1 .. i /\ new.pre <= i
      BY <2>1, <3>2 DEF Values
    <3>5. ASSUME NEW n \in NotLate, n <= i, Near(n)
          PROVE  \E m \in n .. i : records[m].key \in ks /\ m > new.pre
      <4>1. i \in n .. i /\ i > new.pre
        BY <2>1, <2>4, <3>2, <3>5 DEF Values
      <4> QED BY <2>6, <4>1
    <3>6. Good(i)
      BY <3>2, <3>3, <3>4, <3>5 DEF new
    <3> HIDE DEF Good
    <3> QED BY <2>1, <3>6
  <2> QED BY <2>5, <2>6
<1>8. hi \in S
  <2>1. crt .. hi \subseteq S
    <3>1. hi \in Int
      BY <1>4
    <3> HIDE DEF S
    <3> QED BY <1>1, <1>6, <1>7, <3>1, InductTo
  <2> QED BY <1>1, <1>4, <2>1
<1> DEFINE v == f[hi]
<1>9. v \in Values
  BY <1>18, <1>8
<1>10. Good(hi) /\ hi \in 0 .. size
  BY <1>1, <1>4, <1>8
<1>11. \A n \in 1 .. size : n <= hi <=> records[n].time < right
  BY <1>1, <1>2, <1>4, <1>10 DEF Parts
<1>12. /\ v.rate[1] > 0 => \E n \in 1 .. hi : Near(n)
       /\ \A n \in NotLate : n <= hi /\ Near(n) =>
            /\ v.rate[1] > 0
            /\ \E m \in n .. hi : records[m].key \in ks /\ m > v.pre
  BY <1>10
<1> HIDE DEF v
<1>13. v.rate[1] > 0 => \E n \in 1 .. size : /\ records[n].key \in ks /\ records[n].time < right
                                             /\ (right - Second) - records[n].time <= Considered
  <2> SUFFICES ASSUME v.rate[1] > 0
               PROVE  \E n \in 1 .. size : /\ records[n].key \in ks /\ records[n].time < right
                                           /\ (right - Second) - records[n].time <= Considered
    OBVIOUS
  <2>1. PICK n \in 1 .. hi : Near(n)
    BY <1>12
  <2>2. n \in 1 .. size /\ n <= hi
    BY <1>1, <1>10
  <2>3. records[n].time < right
    BY <1>11, <2>2
  <2>4. right - Second = left
    BY <1>1
  <2> QED BY <2>1, <2>2, <2>3, <2>4
<1>14. ASSUME NEW n \in NotLate, records[n].key \in ks, records[n].time < right,
              (right - Second) - records[n].time <= Considered
       PROVE  v.rate[1] > 0
  BY <1>1, <1>11, <1>12, <1>14 DEF NotLate
<1>15. LeavesLast(ks, v.pre, right)
  <2> SUFFICES ASSUME NEW n \in NotLate, records[n].key \in ks, records[n].time < right,
                      right - records[n].time <= Considered
               PROVE  \E m \in n .. size : records[m].key \in ks /\ records[m].time < right /\ m > v.pre
    BY DEF LeavesLast
  <2>1. n \in 1 .. size /\ records[n].time \in Int
    BY <1>2 DEF NotLate
  <2>2. n <= hi /\ Near(n)
    BY <1>1, <1>11, <2>1
  <2>3. PICK m \in n .. hi : records[m].key \in ks /\ m > v.pre
    BY <1>12, <2>2
  <2>4. m \in n .. size /\ m \in 1 .. size /\ m <= hi
    BY <1>1, <1>10, <2>1
  <2> QED BY <1>11, <2>3, <2>4
<1>16. BucketRight(v, ks, right)
  BY <1>13, <1>14, <1>15 DEF BucketRight
<1> QED BY <1>17, <1>9, <1>16 DEF v

-----------------------------------------------------------------------------
(* The plot of the sensitive method *)

\* What every invariant below starts from when the method is the sensitive one.
Ready ==
  /\ records \in Seq(Press) /\ Ascends(records) /\ now \in Nat
  /\ recent_pivot \in 0 .. Len(records)
  /\ \A i \in 1 .. recent_pivot : records[i].time < Present - Span(Considered)
  /\ MapRight

\* A stored bucket that may be used holds what it would hold if computed now.
LEMMA KeptRight ==
  ASSUME Ready, NEW ks, NEW t \in DOMAIN Kept(ks)
  PROVE  Kept(ks)[t] \in Values /\ BucketRight(Kept(ks)[t], ks, t)
<1>1. Kept(ks) = <<>> \/ (Kept(ks) = cache_map /\ ks = cache_keys)
  BY DEF Kept
<1>2. CASE Kept(ks) = <<>>
  BY <1>2
<1>3. CASE Kept(ks) = cache_map /\ ks = cache_keys
  BY <1>3 DEF Ready, MapRight
<1> QED BY <1>1, <1>2, <1>3

\* A fresh bucket has its types.
LEMMA FreshBucketTyped ==
  ASSUME records \in Seq(Press), Ascends(records), now \in Nat, NEW ks, NEW b \in Int,
         NEW crt, Parts(crt, Left(b)), NEW pre \in Nat
  PROVE  FreshBucket(crt, pre, b, ks) \in Values
<1>1. PICK f : FreshLoop(f, ks, pre, crt, b)
  BY FreshBucketRuns
<1>2. crt \in 0 .. Len(records) /\ Right(b) \in Int
  BY BucketFacts DEF Parts
<1>3. Until(crt, Right(b)) \in crt .. Len(records)
  BY <1>2, UntilTyped
<1>4. Until(crt, Right(b)) \in crt .. Until(crt, Right(b))
  BY <1>2, <1>3, TimesTyped
<1> QED BY <1>1, <1>4 DEF FreshLoop

\* The value of one more bucket.
OneMore(before, b, ks) ==
  IF Reused(ks, Right(b)) THEN Kept(ks)[Right(b)]
  ELSE FreshBucket(Until(Pivot(Considered), Left(b)), Farthest(before, Pivot(Considered)), b, ks)

\* One more bucket has its types.
LEMMA OneMoreTyped ==
  ASSUME Ready, NEW ks, NEW before \in Seq(Values), NEW b \in 1 .. Buckets
  PROVE  /\ Farthest(before, Pivot(Considered)) \in Nat
         /\ OneMore(before, b, ks) \in Values
         /\ SensitiveNext(before, b, ks) = Append(before, OneMore(before, b, ks))
         /\ SensitiveNext(before, b, ks) \in Seq(Values)
<1> DEFINE pivot == Pivot(Considered)
<1>1. Considered \in Nat /\ b \in Int
  BY NumbersAssumption
<1>2. Parts(Until(pivot, Left(b)), Left(b)) /\ pivot \in Nat
  <2>1. Parts(Until(pivot, Left(b)), Left(b))
    BY <1>1, PivotUntil DEF Ready
  <2>2. Parts(pivot, Left(1) - Considered)
    BY <1>1, PivotParts DEF Ready
  <2> QED BY <2>1, <2>2, TimesTyped DEF Parts, Ready
<1> HIDE DEF pivot
<1>3. Farthest(before, pivot) \in Nat
  <2>1. CASE before = <<>>
    BY <1>2, <2>1 DEF Farthest
  <2>2. CASE before # <<>>
    <3>1. before[Len(before)] \in Values
      BY <2>2
    <3> QED BY <2>2, <3>1, TimesTyped DEF Farthest, Values
  <2> QED BY <2>1, <2>2
<1>4. FreshBucket(Until(pivot, Left(b)), Farthest(before, pivot), b, ks) \in Values
  BY <1>1, <1>2, <1>3, FreshBucketTyped DEF Ready
<1>5. OneMore(before, b, ks) \in Values
  <2>1. CASE Reused(ks, Right(b))
    BY <2>1, KeptRight DEF Reused, OneMore
  <2>2. CASE ~Reused(ks, Right(b))
    BY <1>4, <2>2 DEF OneMore, pivot
  <2> QED BY <2>1, <2>2
<1>6. SensitiveNext(before, b, ks) = Append(before, OneMore(before, b, ks))
  BY DEF SensitiveNext, OneMore
<1> QED BY <1>3, <1>5, <1>6 DEF pivot

\* The values of the loop of SensitiveBuckets.
BucketsLoop(f, ks) ==
  /\ f \in [0 .. Buckets -> Seq(Values)]
  /\ f[0] = <<>>
  /\ \A b \in 1 .. Buckets : f[b] = SensitiveNext(f[b - 1], b, ks)
  /\ SensitiveBuckets(ks) = f[Buckets]

\* SensitiveBuckets is its loop's last value.
LEMMA BucketsRun ==
  ASSUME Ready, NEW ks
  PROVE  \E f : BucketsLoop(f, ks)
<1> DEFINE step == [p \in Seq(Values) \X (0 + 1 .. Buckets) |-> SensitiveNext(p[1], p[2], ks)]
           f[b \in 0 .. Buckets] == IF b = 0 THEN <<>> ELSE SensitiveNext(f[b - 1], b, ks)
           start == <<>>
<1>1. Buckets \in Int /\ 0 <= Buckets /\ 0 \in Int
  BY PlotAssumption
<1>2. start \in Seq(Values)
  OBVIOUS
<1>3. SensitiveBuckets(ks) = f[Buckets]
  BY DEF SensitiveBuckets
<1> HIDE DEF start
<1>4. ASSUME NEW x \in Seq(Values), NEW b \in 1 .. Buckets PROVE SensitiveNext(x, b, ks) \in Seq(Values)
  BY OneMoreTyped
<1>5. \A x \in Seq(Values), b \in 0 + 1 .. Buckets :
        step[<<x, b>>] = SensitiveNext(x, b, ks) /\ step[<<x, b>>] \in Seq(Values)
  BY <1>4
<1> HIDE DEF step
<1>6. PICK g \in [0 .. Buckets -> Seq(Values)] : Loop(g, 0, Buckets, start, step)
  BY <1>1, <1>2, <1>5, LoopRuns
<1>7. g = [b \in 0 .. Buckets |-> IF b = 0 THEN start ELSE SensitiveNext(g[b - 1], b, ks)]
  <2>1. \A b \in 0 .. Buckets : b # 0 => b - 1 \in 0 .. Buckets /\ b \in 0 + 1 .. Buckets
    BY <1>1
  <2>2. \A b \in 0 .. Buckets : b # 0 => step[<<g[b - 1], b>>] = SensitiveNext(g[b - 1], b, ks)
    BY <1>5, <1>6, <2>1
  <2> QED BY <1>6, <2>2 DEF Loop
<1>8. f = [b \in 0 .. Buckets |-> IF b = 0 THEN start ELSE SensitiveNext(f[b - 1], b, ks)]
  BY <1>7 DEF start
<1> HIDE DEF f
<1>9. f[0] = start /\ \A b \in 1 .. Buckets : f[b] = SensitiveNext(f[b - 1], b, ks)
  <2>1. \A b \in 1 .. Buckets : b \in 0 .. Buckets /\ b # 0
    BY <1>1
  <2> QED BY <1>1, <1>8, <2>1
<1>10. \A b \in 0 .. Buckets : f[b] \in Seq(Values)
  <2> DEFINE S == {b \in 0 .. Buckets : f[b] \in Seq(Values)}
  <2>1. 0 \in S
    BY <1>1, <1>2, <1>9
  <2>2. ASSUME NEW b \in 0 + 1 .. Buckets, b - 1 \in S PROVE b \in S
    <3>1. b \in 1 .. Buckets /\ b \in 0 .. Buckets /\ f[b - 1] \in Seq(Values)
      BY <1>1, <2>2
    <3>2. f[b] = SensitiveNext(f[b - 1], b, ks)
      BY <1>9, <3>1
    <3>3. SensitiveNext(f[b - 1], b, ks) \in Seq(Values)
      BY <1>4, <3>1
    <3> QED BY <3>1, <3>2, <3>3
  <2>3. 0 .. Buckets \subseteq S
    <3> HIDE DEF S
    <3> QED BY <1>1, <2>1, <2>2, InductTo
  <2> QED BY <2>3
<1>11. f \in [0 .. Buckets -> Seq(Values)]
  <2>1. f = [b \in 0 .. Buckets |-> f[b]]
    BY <1>8
  <2> QED BY <1>10, <2>1
<1>12. BucketsLoop(f, ks)
  BY <1>3, <1>9, <1>11 DEF start, BucketsLoop
<1> QED BY <1>12

\* The first bucket's search leaves every press that can matter: what the pivot has
\* passed is too old.
LEMMA PivotLeaves ==
  ASSUME Ready, NEW ks
  PROVE  LeavesLast(ks, Pivot(Considered), Left(1))
<1> DEFINE pivot == Pivot(Considered)
           left == Left(1)
<1>1. Considered \in Int /\ left \in Int /\ Parts(pivot, left - Considered)
  <2>1. Considered \in Nat
    BY NumbersAssumption
  <2>2. Left(1) \in Int
    BY BucketFacts DEF Ready
  <2> QED BY <2>1, <2>2, PivotParts DEF Ready
<1> HIDE DEF pivot, left
<1>2. ASSUME NEW n \in NotLate, left - records[n].time <= Considered PROVE n > pivot
  <2>1. n \in 1 .. Len(records) /\ records[n].time \in Int
    BY TimesTyped DEF NotLate, Ready
  <2>2. pivot \in 0 .. Len(records) /\ (n \in 1 .. pivot => records[n].time < left - Considered)
    BY <1>1 DEF Parts
  <2>3. ~(n \in 1 .. pivot)
    BY <1>1, <1>2, <2>1, <2>2
  <2> QED BY <2>1, <2>2, <2>3
<1>3. ASSUME NEW n \in NotLate, records[n].key \in ks, records[n].time < left,
             left - records[n].time <= Considered
      PROVE  \E m \in n .. Len(records) : records[m].key \in ks /\ records[m].time < left /\ m > pivot
  <2>1. n \in n .. Len(records)
    BY TimesTyped DEF NotLate, Ready
  <2> QED BY <1>2, <1>3, <2>1
<1>4. LeavesLast(ks, pivot, left)
  BY <1>3 DEF LeavesLast
<1> QED BY <1>4 DEF pivot, left

\* Every bucket of the plot is right.
LEMMA SensitiveRight ==
  ASSUME Ready, NEW ks
  PROVE  LET value == SensitiveBuckets(ks)
         IN  /\ value \in Seq(Values) /\ Len(value) = Buckets
             /\ \A c \in 1 .. Buckets :
                  /\ value[c] \in Values /\ BucketRight(value[c], ks, Right(c))
                  /\ Reused(ks, Right(c)) => value[c] = Kept(ks)[Right(c)]
<1>1. PICK f : BucketsLoop(f, ks)
  BY BucketsRun
<1>2. /\ f \in [0 .. Buckets -> Seq(Values)]
      /\ f[0] = <<>>
      /\ \A b \in 1 .. Buckets : f[b] = SensitiveNext(f[b - 1], b, ks)
      /\ SensitiveBuckets(ks) = f[Buckets]
  BY <1>1 DEF BucketsLoop
<1>3. Buckets \in Nat /\ Buckets \in Int /\ 0 \in Int
  BY PlotAssumption
<1> DEFINE Fine(v, c) == /\ BucketRight(v, ks, Right(c))
                         /\ Reused(ks, Right(c)) => v = Kept(ks)[Right(c)]
           Good(b) == /\ Len(f[b]) = b
                      /\ \A c \in 1 .. b : Fine(f[b][c], c)
           S == {b \in 0 .. Buckets : Good(b)}
<1>4. 0 \in S
  <2>1. Good(0)
    BY <1>2
  <2> HIDE DEF Good
  <2> QED BY <1>3, <2>1
<1>5. ASSUME NEW b \in 0 + 1 .. Buckets, b - 1 \in S PROVE b \in S
  <2> DEFINE old == f[b - 1]
             one == OneMore(old, b, ks)
             far == Farthest(old, Pivot(Considered))
  <2>1. b \in 1 .. Buckets /\ b \in Int /\ b - 1 \in 0 .. Buckets /\ b \in 0 .. Buckets
    BY <1>3
  <2>2. old \in Seq(Values) /\ Len(old) = b - 1 /\ \A c \in 1 .. b - 1 : Fine(old[c], c)
    BY <1>2, <1>5, <2>1
  <2> HIDE DEF old, one, far
  <2>3. far \in Nat /\ one \in Values /\ f[b] = Append(old, one)
    BY <1>2, <2>1, <2>2, OneMoreTyped DEF far, one, old
  <2>4. LeavesLast(ks, far, Left(b))
    <3>1. CASE old = <<>>
      <4>1. b = 1 /\ far = Pivot(Considered)
        BY <2>1, <2>2, <3>1 DEF far, Farthest
      <4> QED BY <4>1, PivotLeaves
    <3>2. CASE old # <<>>
      <4>1. Len(old) \in 1 .. b - 1 /\ far = old[Len(old)].pre /\ Len(old) = b - 1
        BY <2>1, <2>2, <3>2 DEF far, Farthest
      <4>2. Fine(old[b - 1], b - 1)
        BY <2>1, <2>2, <4>1
      <4>3. Right(b - 1) = Left(b)
        <5>1. now \in Nat /\ b - 1 \in Int /\ (b - 1) + 1 = b
          BY <2>1 DEF Ready
        <5> QED BY <5>1, BucketFacts
      <4> QED BY <4>1, <4>2, <4>3 DEF BucketRight
    <3> QED BY <3>1, <3>2
  <2>5. Fine(one, b)
    <3>1. CASE Reused(ks, Right(b))
      <4>1. one = Kept(ks)[Right(b)] /\ Right(b) \in DOMAIN Kept(ks)
        BY <3>1 DEF one, OneMore, Reused
      <4> QED BY <4>1, KeptRight
    <3>2. CASE ~Reused(ks, Right(b))
      <4> DEFINE crt == Until(Pivot(Considered), Left(b))
      <4>1. one = FreshBucket(crt, far, b, ks)
        BY <3>2 DEF one, OneMore, far
      <4>2. Parts(crt, Left(b))
        BY <2>1, PivotUntil, NumbersAssumption DEF Ready
      <4> HIDE DEF crt
      <4>3. BucketRight(FreshBucket(crt, far, b, ks), ks, Right(b))
        BY <2>1, <2>3, <2>4, <4>2, FreshBucketRight DEF Ready
      <4> QED BY <3>2, <4>1, <4>3
    <3> QED BY <3>1, <3>2
  <2> HIDE DEF Fine
  <2>6. Len(f[b]) = b /\ f[b][b] = one /\ \A c \in 1 .. b - 1 : f[b][c] = old[c]
    BY <2>1, <2>2, <2>3
  <2>7. \A c \in 1 .. b : Fine(f[b][c], c)
    <3> TAKE c \in 1 .. b
    <3>1. c = b \/ c \in 1 .. b - 1
      BY <2>1
    <3> QED BY <2>2, <2>5, <2>6, <3>1
  <2>8. Good(b)
    BY <2>6, <2>7
  <2> HIDE DEF Good
  <2> QED BY <2>1, <2>8
<1>6. Buckets \in S
  <2>1. 0 .. Buckets \subseteq S
    <3> HIDE DEF S
    <3> QED BY <1>3, <1>4, <1>5, InductTo
  <2> QED BY <1>3, <2>1
<1> DEFINE value == SensitiveBuckets(ks)
<1>7. value \in Seq(Values) /\ Len(value) = Buckets /\ \A c \in 1 .. Buckets : Fine(value[c], c)
  BY <1>2, <1>3, <1>6
<1> HIDE DEF value
<1>8. \A c \in 1 .. Buckets : value[c] \in Values
  BY <1>7
<1> QED BY <1>7, <1>8 DEF value

-----------------------------------------------------------------------------
(* What the plot says *)

\* A recount is above zero exactly if there is a press to count.
LEMMA RecountShows ==
  ASSUME records \in Seq(Press), Ascends(records), now \in Nat, NEW ks, NEW b \in Int,
         method = "hard", Recount(ks, b) \in Nat
  PROVE  Recount(ks, b) > 0 <=> Shows(ks, b) # {}
<1> DEFINE size == Len(records)
           left == Left(b)
           right == Right(b)
           Of(t, u) == u <= t /\ t - u <= FrameLength
           Before(t) == {n \in 1 .. size : records[n].key \in ks /\ (records[n].time < t /\ t - records[n].time <= FrameLength)}
           To(t) == {n \in 1 .. size : records[n].key \in ks /\ (records[n].time <= t /\ t - records[n].time <= FrameLength)}
           T == {FrameBefore(ks, left)} \union {FrameTo(ks, t) : t \in Within(b)}
<1>1. /\ left \in Int /\ right \in Int /\ left <= right /\ size \in Nat /\ FrameLength \in Nat
      /\ \A n \in 1 .. size : records[n].time \in Int
  <2>1. left \in Int /\ right \in Int /\ right = left + Second
    BY BucketFacts
  <2> HIDE DEF left, right
  <2> QED BY <2>1, NumbersAssumption, PlotAssumption, TimesTyped
<1>2. \A S \in SUBSET (1 .. size) : Cardinality(S) \in Nat /\ (Cardinality(S) > 0 <=> S # {})
  <2> TAKE S \in SUBSET (1 .. size)
  <2>1. IsFiniteSet(1 .. size)
    BY <1>1, FS_Interval
  <2>2. IsFiniteSet(S)
    BY <2>1, FS_Subset
  <2>3. Cardinality(S) \in Nat
    BY <2>2, FS_CardinalityType
  <2>4. Cardinality(S) = 0 <=> S = {}
    BY <2>2, FS_EmptySet
  <2> DEFINE c == Cardinality(S)
  <2> HIDE DEF c
  <2>5. c \in Nat /\ (c = 0 <=> S = {})
    BY <2>3, <2>4 DEF c
  <2>6. c > 0 <=> S # {}
    <3>1. c > 0 <=> c # 0
      <4>1. c \in Nat
        BY <2>5
      <4> QED BY <4>1
    <3>2. c = 0 <=> S = {}
      BY <2>5
    <3> QED BY <3>1, <3>2, Zenon
  <2> QED BY <2>5, <2>6 DEF c
<1>3. /\ FrameBefore(ks, left) = Cardinality(Before(left))
      /\ \A t : FrameTo(ks, t) = Cardinality(To(t))
  BY DEF FrameBefore, FrameTo, Presses
<1>4. /\ FrameBefore(ks, left) \in Nat /\ (FrameBefore(ks, left) > 0 <=> Before(left) # {})
      /\ \A t : FrameTo(ks, t) \in Nat /\ (FrameTo(ks, t) > 0 <=> To(t) # {})
  BY <1>2, <1>3
<1>5. Within(b) = {t \in left .. right - 1 : \E n \in 1 .. size : records[n].time = t}
  BY DEF Within
<1>6. Shows(ks, b) = {n \in 1 .. size : /\ records[n].key \in ks /\ records[n].time < right
                                        /\ left - records[n].time <= FrameLength}
  BY DEF Shows
<1>7. Recount(ks, b) \in T /\ \A x \in T : x <= Recount(ks, b)
  <2>1. T \subseteq Nat
    BY <1>4
  <2>2. Recount(ks, b) = Max(T)
    BY DEF Recount
  <2>3. \E x \in T : \A y \in T : y <= x
    <3> DEFINE C == {0} \union T
    <3>1. \A x \in T : x <= size
      <4>1. \A S \in SUBSET (1 .. size) : Cardinality(S) <= size
        <5> TAKE S \in SUBSET (1 .. size)
        <5>1. IsFiniteSet(1 .. size) /\ Cardinality(1 .. size) = size
          <6>1. size \in Int /\ 1 \in Int /\ size >= 0
            BY <1>1
          <6> HIDE DEF size
          <6>2. IsFiniteSet(1 .. size) /\ Cardinality(1 .. size) = IF 1 > size THEN 0 ELSE size - 1 + 1
            BY <6>1, FS_Interval
          <6>3. (IF 1 > size THEN 0 ELSE size - 1 + 1) = size
            BY <6>1
          <6> QED BY <6>2, <6>3
        <5> QED BY <5>1, FS_Subset
      <4> QED BY <1>3, <4>1
    <3>2. T # {} /\ T \subseteq Int
      BY <2>1
    <3> HIDE DEF T
    <3>3. size \in Int
      BY <1>1
    <3> HIDE DEF size
    <3> QED BY <3>1, <3>2, <3>3, GreatestThere
  <2> HIDE DEF T
  <2>4. Max(T) \in T /\ \A x \in T : Max(T) >= x
    BY <2>3, <2>1 DEF Max
  <2> QED BY <2>1, <2>2, <2>4
<1> HIDE DEF left, right, size
<1>8. ASSUME Recount(ks, b) > 0 PROVE Shows(ks, b) # {}
  <2>1. CASE Recount(ks, b) = FrameBefore(ks, left)
    <3>1. PICK n \in Before(left) : TRUE
      BY <1>4, <1>8, <2>1
    <3> QED BY <1>1, <1>6, <3>1, SMTT(60)
  <2>2. ASSUME NEW t \in Within(b), Recount(ks, b) = FrameTo(ks, t) PROVE Shows(ks, b) # {}
    <3>1. PICK n \in To(t) : TRUE
      BY <1>4, <1>8, <2>2
    <3>2. t \in Int /\ left <= t /\ t < right
      BY <1>1, <1>5
    <3> QED BY <1>1, <1>6, <3>1, <3>2, SMTT(60)
  <2> QED BY <1>7, <2>1, <2>2
<1>9. ASSUME Shows(ks, b) # {} PROVE Recount(ks, b) > 0
  <2>1. PICK n \in 1 .. size : /\ records[n].key \in ks /\ records[n].time < right
                               /\ left - records[n].time <= FrameLength
    BY <1>6, <1>9
  <2> DEFINE t == records[n].time
  <2>2. t \in Int
    BY <1>1
  <2>3. CASE t < left
    <3>1. n \in Before(left)
      BY <2>1, <2>3
    <3>2. FrameBefore(ks, left) > 0 /\ FrameBefore(ks, left) \in Nat
      BY <1>4, <3>1
    <3>3. FrameBefore(ks, left) <= Recount(ks, b)
      BY <1>7
    <3> QED BY <3>2, <3>3
  <2>4. CASE left <= t
    <3>1. t \in Within(b)
      BY <1>1, <1>5, <2>1, <2>2, <2>4
    <3>2. n \in To(t)
      BY <1>1, <2>1, <2>2
    <3>3. FrameTo(ks, t) > 0 /\ FrameTo(ks, t) \in Nat
      BY <1>4, <3>2
    <3>4. FrameTo(ks, t) <= Recount(ks, b)
      BY <1>7, <3>1
    <3> QED BY <3>3, <3>4
  <2> QED BY <1>1, <2>2, <2>3, <2>4
<1> QED BY <1>8, <1>9

\* What the invariant gives each method.
LEMMA HardReady ==
  ASSUME PlotIInv, method = "hard", NEW ks
  PROVE  /\ Plotted(ks) = [plot |-> HardPlot(ks), pivot |-> Pivot(FrameLength), map |-> cache_map]
         /\ HardPlot(ks) = [b \in 1 .. Buckets |-> <<Recount(ks, b), 1>>]
         /\ \A b \in 1 .. Buckets : Recount(ks, b) \in Nat
<1>1. \A i \in 1 .. recent_pivot : records[i].time < Present - Span(FrameLength)
  BY DEF PlotIInv, PivotOld, Reaching
<1>2. records \in Seq(Press) /\ Ascends(records) /\ now \in Nat /\ recent_pivot \in 0 .. Len(records)
  BY DEF PlotIInv, Past, PivotOld
<1> QED BY <1>1, <1>2, HardPlotRight DEF Plotted

\* The invariant is what the lemmas on sensitive buckets start from.
LEMMA SensitiveReady ==
  ASSUME PlotIInv, method = "sensitive"
  PROVE  Ready
<1>1. \A i \in 1 .. recent_pivot : records[i].time < Present - Span(Considered)
  BY DEF PlotIInv, PivotOld, Reaching
<1> QED BY <1>1 DEF PlotIInv, Past, PivotOld, Ready

\* A plot of right buckets shows what it should.
LEMMA SensitiveShown ==
  ASSUME PlotIInv, method = "sensitive", NEW ks
  PROVE  LET value == SensitiveBuckets(ks)
         IN  Shown([b \in 1 .. Buckets |-> value[b].rate], ks)
<1> DEFINE value == SensitiveBuckets(ks)
<1>1. \A c \in 1 .. Buckets : BucketRight(value[c], ks, Right(c))
  BY SensitiveReady, SensitiveRight
<1> HIDE DEF value
<1>2. ASSUME NEW b \in 1 .. Buckets
      PROVE  /\ value[b].rate[1] > 0 => Shows(ks, b) # {}
             /\ Shows(ks, b) \ late # {} => value[b].rate[1] > 0
  <2>1. Right(b) - Second = Left(b)
    <3>1. b \in Int /\ now \in Nat /\ Second \in Int
      BY NumbersAssumption DEF PlotIInv, Past
    <3>2. Left(b) \in Int /\ Right(b) = Left(b) + Second
      BY <3>1, BucketFacts
    <3> QED BY <3>1, <3>2
  <2>2. Shows(ks, b) = {n \in 1 .. Len(records) : /\ records[n].key \in ks /\ records[n].time < Right(b)
                                                  /\ Left(b) - records[n].time <= Considered}
    BY DEF Shows
  <2>3. BucketRight(value[b], ks, Right(b))
    BY <1>1
  <2> QED BY <2>1, <2>2, <2>3 DEF BucketRight, NotLate
<1>3. Shown([b \in 1 .. Buckets |-> value[b].rate], ks)
  BY <1>2 DEF Shown
<1> QED BY <1>3 DEF value

\* A plot returned again was computed for these keys.
LEMMA HitKeys ==
  ASSUME NEW ks, Hit(ks) PROVE ks = cache_keys /\ Hit(cache_keys) /\ cache_stamp = Present
BY DEF Hit

\* The plot of the frame method is the recount, computed now or returned again.
LEMMA RecountFollows == PlotIInv => PlotIsRecount
<1> SUFFICES ASSUME PlotIInv, method = "hard", ~tied, NEW ks \in KeySets
             PROVE  \A b \in 1 .. Buckets : Plot(ks)[b] = <<Recount(ks, b), 1>>
  BY DEF PlotIsRecount, Recount
<1>1. CASE Hit(ks)
  <2>1. Plot(ks) = cache /\ ks = cache_keys /\ Hit(cache_keys)
    BY <1>1, HitKeys DEF Plot
  <2>2. CacheShown
    BY DEF PlotIInv
  <2> QED BY <2>1, <2>2 DEF CacheShown
<1>2. CASE ~Hit(ks)
  <2>1. Plot(ks) = [b \in 1 .. Buckets |-> <<Recount(ks, b), 1>>]
    <3>1. Plot(ks) = Plotted(ks).plot
      BY <1>2 DEF Plot
    <3>2. Plotted(ks).plot = HardPlot(ks)
      BY DEF Plotted
    <3> QED BY <3>1, <3>2, HardReady
  <2> QED BY <2>1
<1> QED BY <1>1, <1>2

\* The plot shows the presses it should, computed now or returned again.
LEMMA ShownFollowsPlot == PlotIInv => PlotShowsPresses
<1> SUFFICES ASSUME PlotIInv, ~tied, NEW ks \in KeySets
             PROVE  Shown(Plot(ks), ks)
  BY DEF PlotShowsPresses, Shown
<1>1. method \in {"hard", "sensitive"}
  BY PlotAssumption DEF PlotIInv, TypeOK
<1>2. CASE method = "hard"
  <2>1. \A b \in 1 .. Buckets : Plot(ks)[b] = <<Recount(ks, b), 1>>
    BY <1>2, RecountFollows DEF PlotIsRecount, Recount
  <2>2. \A b \in 1 .. Buckets : Recount(ks, b) \in Nat
    BY <1>2, HardReady
  <2>3. \A b \in 1 .. Buckets : Recount(ks, b) > 0 <=> Shows(ks, b) # {}
    <3> TAKE b \in 1 .. Buckets
    <3>1. b \in Int /\ Recount(ks, b) \in Nat
      BY <2>2
    <3> QED BY <1>2, <3>1, RecountShows DEF PlotIInv, Past
  <2> QED BY <2>1, <2>3 DEF Shown
<1>3. CASE method = "sensitive"
  <2>1. CASE Hit(ks)
    <3>1. Plot(ks) = cache /\ ks = cache_keys /\ Hit(cache_keys)
      BY <2>1, HitKeys DEF Plot
    <3>2. CacheShown
      BY DEF PlotIInv
    <3> QED BY <1>3, <3>1, <3>2 DEF CacheShown
  <2>2. CASE ~Hit(ks)
    <3>1. Plot(ks) = [b \in 1 .. Buckets |-> SensitiveBuckets(ks)[b].rate]
      BY <1>3, <2>2 DEF Plot, Plotted
    <3> QED BY <1>3, <3>1, SensitiveShown
  <2> QED BY <2>1, <2>2
<1> QED BY <1>1, <1>2, <1>3

\* Two seconds with the same end are one.
LEMMA RightOnce ==
  ASSUME now \in Nat, NEW b \in Int, NEW c \in Int, Right(b) = Right(c)
  PROVE  b = c
<1>1. Second \in Nat \ {0} /\ Right(b) \in Int /\ Right(c) \in Int
  BY BucketFacts, NumbersAssumption
<1>2. b < c => Right(b) <= Right(c) - Second
  BY BucketFacts
<1>3. c < b => Right(c) <= Right(b) - Second
  BY BucketFacts
<1> QED BY <1>1, <1>2, <1>3

\* A stored second is plotted as it was.
LEMMA StableFollows == PlotIInv => PastIsStable
<1> SUFFICES ASSUME PlotIInv, DOMAIN cache_map # {}, ~Evicted, NEW b \in 1 .. Buckets, NEW c \in 1 .. Buckets,
                    Right(b) = cache_stamp - (Buckets - c) * Second, Right(b) < cache_stamp
             PROVE  Plot(cache_keys)[b] = cache[c]
  BY DEF PastIsStable
<1> DEFINE back == (Buckets - c) * Second
           t == cache_stamp - back
<1>1. Kept(cache_keys) = cache_map /\ DOMAIN cache_map # {}
  BY DEF Kept
<1>2. MapRight /\ now \in Nat /\ method = "sensitive"
  BY <1>1 DEF PlotIInv, Past, MapRight
<1>3. CASE Hit(cache_keys)
  <2>1. cache_stamp = Present /\ Plot(cache_keys) = cache
    BY <1>3 DEF Hit, Plot
  <2>2. b \in Int /\ c \in Int
    OBVIOUS
  <2>3. Right(c) = Present - (Buckets - c) * Second
    BY <1>2, <2>2, BucketFacts
  <2>4. b = c
    BY <1>2, <2>1, <2>2, <2>3, RightOnce
  <2> QED BY <2>1, <2>4
<1>4. CASE ~Hit(cache_keys)
  <2>1. Plot(cache_keys) = [a \in 1 .. Buckets |-> SensitiveBuckets(cache_keys)[a].rate]
    BY <1>2, <1>4 DEF Plot, Plotted
  <2>2. c \in 1 .. Buckets - 1
    <3>1. c # Buckets
      <4> SUFFICES ASSUME c = Buckets PROVE FALSE
        OBVIOUS
      <4>1. (Buckets - c) * Second = 0 /\ cache_stamp \in Nat
        BY PlotAssumption, NumbersAssumption DEF PlotIInv, Past
      <4> QED BY <4>1
    <3> QED BY <3>1, PlotAssumption
  <2>3. Right(b) \in DOMAIN cache_map /\ cache_map[Right(b)].rate = cache[c]
    BY <1>1, <1>2, <2>2 DEF MapRight
  <2>4. Reused(cache_keys, Right(b))
    BY <1>1, <2>3 DEF Reused
  <2>5. SensitiveBuckets(cache_keys)[b] = cache_map[Right(b)]
    BY <1>1, <1>2, <2>4, SensitiveReady, SensitiveRight
  <2> QED BY <2>1, <2>3, <2>5
<1> QED BY <1>3, <1>4

-----------------------------------------------------------------------------
(* The steps *)

\* As long as the second, the log and the method stay, the plot stays.
LEMMA SameSecond ==
  ASSUME records' = records, Present' = Present, method' = method, late' = late, cache_keys' = cache_keys
  PROVE  /\ \A b : Left(b)' = Left(b) /\ Right(b)' = Right(b)
         /\ \A b : Recount(cache_keys, b)' = Recount(cache_keys, b)
         /\ \A b : Shows(cache_keys, b)' = Shows(cache_keys, b)
<1>1. \A b : Left(b)' = Left(b) /\ Right(b)' = Right(b)
  BY DEF Left, Right
<1>2. \A b : Recount(cache_keys, b)' = Recount(cache_keys, b)
  <2> TAKE b
  <2>1. Within(b)' = Within(b)
    BY <1>1 DEF Within
  <2>2. \A t : FrameTo(cache_keys, t)' = FrameTo(cache_keys, t)
    BY DEF FrameTo, Presses
  <2>3. FrameBefore(cache_keys, Left(b))' = FrameBefore(cache_keys, Left(b))
    BY <1>1 DEF FrameBefore, Presses
  <2>4. {FrameTo(cache_keys, t) : t \in Within(b)}' = {FrameTo(cache_keys, t) : t \in Within(b)}
    BY <2>1, <2>2
  <2> QED BY <2>3, <2>4 DEF Recount
<1>3. \A b : Shows(cache_keys, b)' = Shows(cache_keys, b)
  BY <1>1 DEF Shows
<1> QED BY <1>1, <1>2, <1>3

\* The first state.
LEMMA PlotInit == Init => PlotIInv
<1> SUFFICES ASSUME Init PROVE PlotIInv
  OBVIOUS
<1>1. /\ now = 1 /\ records = <<>> /\ method \in Methods
      /\ recent_pivot = 0 /\ cache = NoPlot /\ cache_keys = {}
      /\ cache_stamp = 0 /\ record_stamp = 0 /\ cache_map = <<>>
      /\ tied = FALSE /\ late = {}
  BY DEF Init
<1>2. Present \in Nat /\ now <= Present
  BY <1>1, PresentFacts
<1>3. TypeOK
  <2>1. NoPlot \in [1 .. Buckets -> Rates]
    BY DEF NoPlot, Rates
  <2>2. records \in Seq(Press) /\ Len(records) = 0 /\ DOMAIN cache_map = {}
    BY <1>1
  <2>3. /\ now \in Nat /\ method \in Methods /\ recent_pivot \in 0 .. Len(records)
        /\ cache_keys \in KeySets \union {{}} /\ cache_stamp \in Nat /\ record_stamp \in Nat
        /\ late \subseteq DOMAIN records
    BY <1>1, <2>2
  <2>4. tied \in BOOLEAN
    BY <1>1
  <2>5. cache \in [1 .. Buckets -> Rates]
    BY <1>1, <2>1
  <2> HIDE <1>1
  <2> QED BY <2>2, <2>3, <2>4, <2>5 DEF TypeOK
<1>4. Past
  BY <1>1, <1>2 DEF Past, Ascends
<1>5. PivotOld
  BY <1>1 DEF PivotOld
<1>6. CacheShown
  BY <1>1 DEF CacheShown, Hit
<1>7. MapRight
  BY <1>1 DEF MapRight
<1> QED BY <1>3, <1>4, <1>5, <1>6, <1>7 DEF PlotIInv

\* The clock.
LEMMA PlotTickStep == PlotIInv /\ Tick => PlotIInv'
<1> SUFFICES ASSUME PlotIInv, Tick PROVE PlotIInv'
  OBVIOUS
<1>1. /\ now' = now + 1
      /\ records' = records /\ method' = method /\ tied' = tied /\ late' = late
      /\ recent_pivot' = recent_pivot /\ cache' = cache /\ cache_keys' = cache_keys
      /\ cache_stamp' = cache_stamp /\ record_stamp' = record_stamp /\ cache_map' = cache_map
  BY DEF Tick, Advance, caches
<1>2. TypeOK /\ Past /\ PivotOld /\ CacheShown /\ MapRight
  BY DEF PlotIInv
<1>3. now \in Nat /\ Present \in Nat /\ Present' \in Nat /\ Present <= Present'
  BY <1>1, <1>2, PresentAscends, PresentFacts DEF Past
<1>4. TypeOK'
  BY <1>1, <1>2 DEF TypeOK
<1>5. Past'
  <2>1. Ascends(records)'
    <3>1. \A i \in 1 .. Len(records) : records[i].time \in Int /\ records[i].time <= now
      BY <1>2, TimesTyped DEF Past, Ascends
    <3>2. \A i \in 1 .. Len(records) : records[i].time <= now'
      BY <1>1, <1>3, <3>1
    <3> QED BY <1>1, <1>2, <3>2 DEF Past, Ascends
  <2>2. cache_stamp <= Present'
    BY <1>2, <1>3 DEF Past
  <2> QED BY <1>1, <1>2, <1>3, <2>1, <2>2 DEF Past
<1>6. PivotOld'
  <2>1. Reaching \in Nat /\ Reaching' = Reaching /\ Span(Reaching) \in Int
    <3>1. Reaching \in Nat /\ Reaching' = Reaching
      BY <1>1, PlotAssumption, NumbersAssumption DEF Reaching
    <3>2. Buckets * Second \in Int
      BY PlotAssumption, NumbersAssumption
    <3> QED BY <3>1, <3>2 DEF Span
  <2>2. ASSUME NEW i \in 1 .. recent_pivot PROVE records[i].time < Present' - Span(Reaching)
    <3>1. records[i].time < Present - Span(Reaching) /\ i \in 1 .. Len(records)
      BY <1>2, TimesTyped DEF PivotOld, Past
    <3>2. records[i].time \in Int
      BY <1>2, <3>1, TimesTyped DEF Past
    <3> HIDE DEF Reaching
    <3> QED BY <1>3, <2>1, <3>1, <3>2
  <2>3. Span(Reaching)' = Span(Reaching)
    BY <2>1 DEF Span
  <2> QED BY <1>1, <1>2, <2>1, <2>2, <2>3 DEF PivotOld
<1>7. CacheShown'
  <2> SUFFICES ASSUME Hit(cache_keys)', ~tied
               PROVE  IF method = "hard"
                      THEN \A b \in 1 .. Buckets : cache[b] = <<Recount(cache_keys, b)', 1>>
                      ELSE Shown(cache, cache_keys)'
    BY <1>1 DEF CacheShown
  <2>1. cache_stamp = Present'
    BY <1>1 DEF Hit
  <2>2. Present' = Present
    <3>1. cache_stamp <= Present
      BY <1>2 DEF Past
    <3> QED BY <1>3, <2>1, <3>1
  <2>3. Hit(cache_keys)
    BY <1>1, <2>2 DEF Hit
  <2>4. /\ \A b : Recount(cache_keys, b)' = Recount(cache_keys, b)
        /\ \A b : Shows(cache_keys, b)' = Shows(cache_keys, b)
    BY <1>1, <2>2, SameSecond
  <2>5. CASE method = "hard"
    BY <1>2, <2>3, <2>4, <2>5 DEF CacheShown
  <2>6. CASE method # "hard"
    <3>1. Shown(cache, cache_keys)
      BY <1>2, <2>3, <2>6 DEF CacheShown
    <3>2. Shown(cache, cache_keys)'
      BY <1>1, <2>4, <3>1 DEF Shown
    <3> QED BY <2>6, <3>2
  <2> QED BY <2>5, <2>6
<1>8. MapRight'
  <2>1. ASSUME NEW t \in DOMAIN cache_map PROVE BucketRight(cache_map[t], cache_keys, t)'
    <3>1. BucketRight(cache_map[t], cache_keys, t)
      BY <1>2 DEF MapRight
    <3> QED BY <1>1, <3>1 DEF BucketRight, LeavesLast, NotLate
  <2>2. Values' = Values
    BY <1>1 DEF Values
  <2> QED BY <1>1, <1>2, <2>1, <2>2 DEF MapRight
<1> QED BY <1>4, <1>5, <1>6, <1>7, <1>8 DEF PlotIInv

\* notify_key_down: a press before a stored second is one of late.
LEMMA PlotNotifyStep ==
  PlotIInv /\ (\E k \in Keys, at \in 1 .. now : Notify(k, at)) => PlotIInv'
<1> SUFFICES ASSUME PlotIInv, NEW k \in Keys, NEW at \in 1 .. now, Notify(k, at) PROVE PlotIInv'
  OBVIOUS
<1> DEFINE e == [key |-> k, time |-> at]
<1>1. /\ now' = now /\ records' = Append(records, e) /\ method' = method
      /\ tied' = (tied \/ at = record_stamp)
      /\ late' = IF DOMAIN cache_map # {} /\ at < cache_stamp - Second
                 THEN late \union {Len(records) + 1} ELSE late
      /\ recent_pivot' = recent_pivot /\ cache' = cache /\ cache_keys' = cache_keys
      /\ cache_stamp' = cache_stamp /\ record_stamp' = record_stamp /\ cache_map' = cache_map
      /\ \A n \in 1 .. Len(records) : records[n].time <= at
  BY DEF Notify, Push, caches
<1>2. TypeOK /\ Past /\ PivotOld /\ CacheShown /\ MapRight
  BY DEF PlotIInv
<1>3. now \in Nat /\ records \in Seq(Press) /\ Len(records) \in Nat /\ e \in Press /\ at \in Nat
  BY <1>2, TimesTyped DEF Past, Press
<1> HIDE DEF e
<1>4. /\ records' \in Seq(Press) /\ Len(records)' = Len(records) + 1 /\ records'[Len(records) + 1] = e
      /\ \A n \in 1 .. Len(records) : records'[n] = records[n]
      /\ Ascends(records)'
  <2>1. e.time <= now /\ \A n \in 1 .. Len(records) : records[n].time <= e.time
    BY <1>1, <1>3 DEF e
  <2>2. Ascends(records) /\ now \in Int
    BY <1>2, <1>3 DEF Past
  <2>3. /\ Append(records, e) \in Seq(Press) /\ Len(Append(records, e)) = Len(records) + 1
        /\ Append(records, e)[Len(records) + 1] = e
        /\ \A n \in 1 .. Len(records) : Append(records, e)[n] = records[n]
        /\ Ascends(Append(records, e))
    BY <1>3, <2>1, <2>2, Appended
  <2> QED BY <1>1, <2>3 DEF Ascends
<1>5. TypeOK'
  <2>1. recent_pivot \in 0 .. Len(records)' /\ \A p \in 0 .. Len(records) : p \in 0 .. Len(records)'
    BY <1>2, <1>3, <1>4 DEF TypeOK
  <2>2. late' \subseteq DOMAIN records'
    <3>1. DOMAIN records = 1 .. Len(records) /\ DOMAIN records' = 1 .. Len(records)'
      BY <1>3, <1>4
    <3>2. late \subseteq 1 .. Len(records)
      BY <1>2, <3>1 DEF TypeOK
    <3>3. 1 .. Len(records) \subseteq 1 .. Len(records)' /\ Len(records) + 1 \in 1 .. Len(records)'
      BY <1>3, <1>4
    <3> QED BY <1>1, <3>1, <3>2, <3>3
  <2>3. tied' \in BOOLEAN
    BY <1>1
  <2> QED BY <1>1, <1>2, <1>3, <1>4, <2>1, <2>2, <2>3 DEF TypeOK
<1>6. Present' = Present
  BY <1>1 DEF Present
<1>7. Past'
  BY <1>1, <1>2, <1>4, <1>6 DEF Past
<1>8. PivotOld'
  <2>1. Span(Reaching)' = Span(Reaching)
    BY <1>1 DEF Span, Reaching
  <2>2. recent_pivot \in 0 .. Len(records)'
    BY <1>2, <1>3, <1>4 DEF PivotOld
  <2>3. ASSUME NEW i \in 1 .. recent_pivot PROVE records'[i].time < Present - Span(Reaching)
    <3>1. i \in 1 .. Len(records)
      BY <1>2, <1>3 DEF PivotOld
    <3> QED BY <1>2, <1>4, <3>1 DEF PivotOld
  <2> QED BY <1>1, <1>6, <2>1, <2>2, <2>3 DEF PivotOld
<1>9. CacheShown'
  <2> SUFFICES ASSUME Hit(cache_keys)' PROVE tied'
    BY DEF CacheShown
  <2>1. record_stamp = records'[Len(records)'].time
    BY <1>1 DEF Hit
  <2>2. record_stamp = at
    BY <1>4, <2>1 DEF e
  <2> QED BY <1>1, <2>2
<1>10. MapRight'
  <2>1. Values \subseteq Values'
    BY <1>3, <1>4 DEF Values
  <2>2. ASSUME NEW t \in DOMAIN cache_map
        PROVE  BucketRight(cache_map[t], cache_keys, t)'
    <3>1. t \in Int /\ t <= cache_stamp - Second /\ BucketRight(cache_map[t], cache_keys, t)
      BY <1>2 DEF MapRight
    <3>2. ASSUME NEW n \in NotLate', records'[n].time < t PROVE n \in NotLate
      <4>1. n \in 1 .. Len(records) + 1 /\ n \notin late'
        BY <1>4 DEF NotLate
      <4>2. n \notin late
        BY <1>1, <4>1
      <4>3. n # Len(records) + 1
        <5> SUFFICES ASSUME n = Len(records) + 1 PROVE FALSE
          OBVIOUS
        <5>1. at < t
          BY <1>4, <3>2 DEF e
        <5>2. cache_stamp \in Int /\ Second \in Int /\ at \in Int
          BY <1>2, <1>3, NumbersAssumption DEF Past
        <5>3. at < cache_stamp - Second
          BY <3>1, <5>1, <5>2
        <5> QED BY <1>1, <4>1, <5>3
      <4> QED BY <1>3, <4>1, <4>2, <4>3 DEF NotLate
    <3> DEFINE v == cache_map[t]
               ks == cache_keys
    <3>3. v' = v /\ ks' = ks
      BY <1>1
    <3>4. Len(records)' \in Nat /\ Len(records) <= Len(records)'
      BY <1>3, <1>4
    <3>5. \A n \in 1 .. Len(records) : n \in 1 .. Len(records)' /\ records'[n] = records[n]
      BY <1>3, <1>4
    <3>6. \A n \in NotLate' : records'[n].time < t => n \in NotLate /\ n \in 1 .. Len(records) /\ records'[n] = records[n]
      BY <1>4, <3>2 DEF NotLate
    <3> HIDE DEF v, ks
    <3>7. BucketRight(v, ks, t)
      BY <3>1 DEF v, ks
    <3>8. v.rate[1] > 0 => \E n \in 1 .. Len(records)' : /\ records'[n].key \in ks /\ records'[n].time < t
                                                         /\ (t - Second) - records'[n].time <= Considered
      BY <3>5, <3>7 DEF BucketRight
    <3>9. (\E n \in NotLate' : /\ records'[n].key \in ks /\ records'[n].time < t
                               /\ (t - Second) - records'[n].time <= Considered)
            => v.rate[1] > 0
      BY <3>6, <3>7 DEF BucketRight
    <3>10. ASSUME NEW n \in NotLate', records'[n].key \in ks, records'[n].time < t,
                 t - records'[n].time <= Considered
          PROVE  \E m \in n .. Len(records)' : records'[m].key \in ks /\ records'[m].time < t /\ m > v.pre
      <4>1. n \in NotLate /\ records'[n] = records[n] /\ n \in 1 .. Len(records)
        BY <3>6, <3>10
      <4>2. PICK m \in n .. Len(records) : records[m].key \in ks /\ records[m].time < t /\ m > v.pre
        BY <3>7, <3>10, <4>1 DEF BucketRight, LeavesLast
      <4>3. m \in 1 .. Len(records) /\ m \in n .. Len(records)'
        BY <1>3, <3>4, <4>1
      <4> QED BY <3>5, <4>2, <4>3
    <3>11. BucketRight(v, ks, t)'
      BY <3>3, <3>8, <3>9, <3>10 DEF BucketRight, LeavesLast
    <3> QED BY <3>11 DEF v, ks
  <2>3. \A t \in DOMAIN cache_map : /\ t \in Int /\ t <= cache_stamp - Second
                                    /\ cache_map[t] \in Values' /\ BucketRight(cache_map[t], cache_keys, t)'
    BY <1>2, <2>1, <2>2 DEF MapRight
  <2> QED BY <1>1, <1>2, <2>3 DEF MapRight
<1> QED BY <1>5, <1>7, <1>8, <1>9, <1>10 DEF PlotIInv

\* What a plot that is computed leaves behind when nothing else changes.
Computed(ks) ==
  /\ PlotIInv /\ ks \in KeySets
  /\ now' = now /\ records' = records /\ method' = method /\ late' = late
  /\ recent_pivot' = Plotted(ks).pivot /\ cache' = Plotted(ks).plot /\ cache_map' = Plotted(ks).map
  /\ cache_keys' = ks
  /\ cache_stamp' = Present
  /\ record_stamp' = (IF records = <<>> THEN record_stamp ELSE records[Len(records)].time)
  /\ tied' = FALSE

\* A plot computed now belongs to the present second.
LEMMA ComputedPast ==
  ASSUME NEW ks, Computed(ks)
  PROVE  Past' /\ Present' = Present
<1>1. Past
  BY DEF Computed, PlotIInv
<1>2. Present' = Present
  BY DEF Computed, Present
<1>3. record_stamp' \in Nat
  <2>1. CASE records = <<>>
    BY <1>1, <2>1 DEF Computed, Past
  <2>2. CASE records # <<>>
    <3>1. records \in Seq(Press) /\ Len(records) \in 1 .. Len(records)
      BY <1>1, <2>2 DEF Past
    <3> QED BY <2>2, <3>1, TimesTyped DEF Computed
  <2> QED BY <2>1, <2>2
<1>4. Present \in Nat /\ Present <= Present
  BY <1>1, PresentFacts DEF Past
<1>5. Ascends(records)'
  BY <1>1 DEF Computed, Past, Ascends
<1> QED BY <1>1, <1>2, <1>3, <1>4, <1>5 DEF Computed, Past

\* The pivot ends at what is too old for the first bucket.
LEMMA PivotStep ==
  ASSUME NEW ks, Computed(ks), NEW reach \in Nat, reach = Reaching, Plotted(ks).pivot = Pivot(reach)
  PROVE  PivotOld'
<1>1. /\ records \in Seq(Press) /\ Ascends(records) /\ now \in Nat
      /\ recent_pivot \in 0 .. Len(records)
      /\ \A i \in 1 .. recent_pivot : records[i].time < Present - Span(reach)
  BY DEF Computed, PlotIInv, Past, PivotOld
<1>2. Present - Span(reach) = Left(1) - reach /\ Parts(Pivot(reach), Left(1) - reach)
  BY <1>1, PivotParts
<1>3. /\ Pivot(reach) \in 0 .. Len(records)
      /\ \A i \in 1 .. Pivot(reach) : records[i].time < Present - Span(reach)
  BY <1>2 DEF Parts
<1>4. Present' = Present /\ Reaching' = Reaching /\ Span(Reaching)' = Span(Reaching)
  BY ComputedPast DEF Computed, Reaching, Span
<1> QED BY <1>3, <1>4 DEF Computed, PivotOld

\* calc_kps_recent of the frame method.
LEMMA HardStep ==
  ASSUME NEW ks, Computed(ks), method = "hard"
  PROVE  PlotIInv'
<1>1. /\ PlotIInv /\ ks \in KeySets
      /\ now' = now /\ records' = records /\ method' = method /\ late' = late
      /\ recent_pivot' = Pivot(FrameLength) /\ cache' = HardPlot(ks) /\ cache_map' = cache_map
      /\ cache_keys' = ks /\ cache_stamp' = Present /\ tied' = FALSE
  BY HardReady DEF Computed
<1>2. TypeOK /\ MapRight
  BY <1>1 DEF PlotIInv
<1>3. /\ HardPlot(ks) = [b \in 1 .. Buckets |-> <<Recount(ks, b), 1>>]
      /\ \A b \in 1 .. Buckets : Recount(ks, b) \in Nat
  BY <1>1, HardReady
<1>4. DOMAIN cache_map = {}
  BY <1>2 DEF MapRight
<1>5. Past' /\ Present' = Present
  BY ComputedPast
<1>6. PivotOld'
  <2>1. Plotted(ks).pivot = Pivot(FrameLength) /\ FrameLength = Reaching /\ FrameLength \in Nat
    BY <1>1, HardReady, PlotAssumption DEF Reaching
  <2> QED BY <2>1, PivotStep
<1>7. TypeOK'
  <2>1. HardPlot(ks) \in [1 .. Buckets -> Rates]
    BY <1>3 DEF Rates
  <2>2. now' \in Nat /\ records' \in Seq(Press) /\ cache_stamp' \in Nat /\ record_stamp' \in Nat
    BY <1>5 DEF Past
  <2>3. recent_pivot' \in 0 .. Len(records')
    BY <1>6 DEF PivotOld
  <2>4. method' \in Methods /\ late' \subseteq DOMAIN records' /\ cache_keys' \in KeySets \union {{}}
    BY <1>1, <1>2 DEF TypeOK
  <2>5. tied' \in BOOLEAN
    BY <1>1
  <2>6. cache' \in [1 .. Buckets -> Rates] /\ DOMAIN cache_map' = {}
    BY <1>1, <1>4, <2>1
  <2> QED BY <2>2, <2>3, <2>4, <2>5, <2>6 DEF TypeOK
<1>8. CacheShown'
  <2>1. \A b : Left(b)' = Left(b) /\ Right(b)' = Right(b)
    BY <1>5 DEF Left, Right
  <2>2. \A b : Within(b)' = Within(b)
    BY <1>1, <2>1 DEF Within
  <2>3. \A b : Recount(cache_keys, b)' = Recount(ks, b)
    <3> TAKE b
    <3>1. \A t : FrameTo(cache_keys, t)' = FrameTo(ks, t)
      BY <1>1 DEF FrameTo, Presses
    <3>2. FrameBefore(cache_keys, Left(b))' = FrameBefore(ks, Left(b))
      BY <1>1, <2>1 DEF FrameBefore, Presses
    <3>3. {FrameTo(cache_keys, t) : t \in Within(b)}' = {FrameTo(ks, t) : t \in Within(b)}
      BY <2>2, <3>1
    <3> QED BY <3>2, <3>3 DEF Recount
  <2> QED BY <1>1, <1>3, <2>3 DEF CacheShown
<1>9. MapRight'
  BY <1>1, <1>4 DEF MapRight
<1> QED BY <1>5, <1>6, <1>7, <1>8, <1>9 DEF PlotIInv

\* What is stored of a sensitive plot: the buckets that have passed, and what was
\* stored before.
LEMMA StoredRight ==
  ASSUME PlotIInv, method = "sensitive", NEW ks
  PROVE  LET value == SensitiveBuckets(ks)
             map == Plotted(ks).map
         IN  /\ \A t \in DOMAIN map :
                  /\ t \in Int /\ t <= Present - Second
                  /\ map[t] \in Values /\ BucketRight(map[t], ks, t)
             /\ \A c \in 1 .. Buckets - 1 :
                  Right(c) \in DOMAIN map /\ map[Right(c)] = value[c]
<1> DEFINE value == SensitiveBuckets(ks)
           map == Plotted(ks).map
           new == {b \in 1 .. Buckets : Stored(b)}
           ends == {Right(b) : b \in new}
<1>1. map = [t \in DOMAIN Kept(ks) \union ends |->
               IF t \in ends THEN value[CHOOSE b \in new : Right(b) = t] ELSE Kept(ks)[t]]
  BY DEF Plotted
<1>2. Ready /\ now \in Nat
  BY SensitiveReady DEF Ready
<1>3. \A c \in 1 .. Buckets : value[c] \in Values /\ BucketRight(value[c], ks, Right(c))
  BY <1>2, SensitiveRight
<1>4. Present \in Nat /\ Second \in Nat \ {0} /\ Buckets \in Nat \ {0} /\ cache_stamp \in Nat /\ cache_stamp <= Present
  BY <1>2, PresentFacts, NumbersAssumption, PlotAssumption DEF PlotIInv, Past
<1>5. \A b \in new : b \in 1 .. Buckets - 1 /\ b \in 1 .. Buckets /\ Right(b) \in Int /\ Right(b) <= Present - Second
  <2> TAKE b \in new
  <2>1. b \in 1 .. Buckets /\ b \in Int /\ Right(b) < Present /\ Right(b) \in Int /\ Buckets \in Int
    BY <1>2, <1>4, BucketFacts DEF Stored
  <2>2. Right(Buckets) = Present
    BY <1>2, BucketFacts
  <2>3. b # Buckets
    BY <1>4, <2>1, <2>2
  <2>4. b < Buckets
    BY <2>1, <2>3
  <2>5. Right(b) <= Right(Buckets) - Second
    BY <1>2, <2>1, <2>4, BucketFacts
  <2> QED BY <1>4, <2>1, <2>2, <2>4, <2>5
<1>6. \A c \in 1 .. Buckets - 1 : c \in new
  <2> TAKE c \in 1 .. Buckets - 1
  <2>1. c \in 1 .. Buckets /\ c \in Int /\ c < Buckets /\ Buckets \in Int
    BY <1>4
  <2>2. Right(c) <= Right(Buckets) - Second /\ Right(Buckets) = Present /\ Right(c) \in Int
    BY <1>2, <2>1, BucketFacts
  <2>3. Present > Right(c)
    BY <1>4, <2>2
  <2> QED BY <2>1, <2>3 DEF Stored
<1> HIDE DEF value, map, new
<1>7. ASSUME NEW t \in ends
      PROVE  /\ t \in Int /\ t <= Present - Second /\ t \in DOMAIN map
             /\ \E b \in new : Right(b) = t /\ map[t] = value[b]
  <2> DEFINE b == CHOOSE b \in new : Right(b) = t
  <2>1. b \in new /\ Right(b) = t
    OBVIOUS
  <2>2. t \in DOMAIN map /\ map[t] = value[b]
    BY <1>1
  <2> QED BY <1>5, <2>1, <2>2
<1>8. ASSUME NEW t \in DOMAIN map
      PROVE  /\ t \in Int /\ t <= Present - Second
             /\ map[t] \in Values /\ BucketRight(map[t], ks, t)
  <2>1. CASE t \in ends
    <3>1. t \in Int /\ t <= Present - Second
      BY <1>7, <2>1
    <3>2. PICK b \in new : Right(b) = t /\ map[t] = value[b]
      BY <1>7, <2>1
    <3>3. b \in 1 .. Buckets
      BY <1>5
    <3> QED BY <1>3, <3>1, <3>2, <3>3
  <2>2. CASE t \notin ends
    <3>1. t \in DOMAIN Kept(ks) /\ map[t] = Kept(ks)[t]
      BY <1>1, <1>8, <2>2
    <3>2. map[t] \in Values /\ BucketRight(map[t], ks, t)
      BY <1>2, <3>1, KeptRight
    <3>3. t \in Int /\ t <= cache_stamp - Second
      <4>1. Kept(ks) = <<>> \/ Kept(ks) = cache_map
        BY DEF Kept
      <4>2. t \in DOMAIN cache_map
        BY <3>1, <4>1
      <4> QED BY <4>2 DEF PlotIInv, MapRight
    <3> QED BY <1>4, <3>2, <3>3
  <2> QED BY <2>1, <2>2
<1>9. ASSUME NEW c \in 1 .. Buckets - 1
      PROVE  Right(c) \in DOMAIN map /\ map[Right(c)] = value[c]
  <2>1. Right(c) \in ends
    BY <1>6
  <2>2. PICK b \in new : Right(b) = Right(c) /\ map[Right(c)] = value[b]
    BY <1>7, <2>1
  <2>3. b \in Int /\ c \in Int
    BY <1>5
  <2>4. b = c
    BY <1>2, <2>2, <2>3, RightOnce
  <2> QED BY <1>7, <2>1, <2>2, <2>4
<1> QED BY <1>8, <1>9 DEF value, map

\* calc_kps_recent of the sensitive method.
LEMMA SensitiveStep ==
  ASSUME NEW ks, Computed(ks), method = "sensitive"
  PROVE  PlotIInv'
<1> DEFINE value == SensitiveBuckets(ks)
           map == Plotted(ks).map
<1>1. /\ PlotIInv /\ ks \in KeySets
      /\ now' = now /\ records' = records /\ method' = method /\ late' = late
      /\ cache' = [b \in 1 .. Buckets |-> value[b].rate] /\ cache_map' = map
      /\ cache_keys' = ks /\ cache_stamp' = Present /\ tied' = FALSE
      /\ Plotted(ks).pivot = Pivot(Considered)
  BY DEF Computed, Plotted
<1>2. TypeOK /\ MapRight /\ now \in Nat /\ Present \in Nat /\ Second \in Nat
  BY <1>1, PresentFacts, NumbersAssumption DEF PlotIInv, Past
<1>3. \A c \in 1 .. Buckets : value[c] \in Values
  BY <1>1, SensitiveReady, SensitiveRight
<1>4. /\ \A t \in DOMAIN map : /\ t \in Int /\ t <= Present - Second
                               /\ map[t] \in Values /\ BucketRight(map[t], ks, t)
      /\ \A c \in 1 .. Buckets - 1 : Right(c) \in DOMAIN map /\ map[Right(c)] = value[c]
  BY <1>1, StoredRight
<1>5. Shown([b \in 1 .. Buckets |-> value[b].rate], ks)
  BY <1>1, SensitiveShown
<1> HIDE DEF value, map
<1>6. Past' /\ Present' = Present
  BY ComputedPast
<1>7. PivotOld'
  <2>1. Considered = Reaching /\ Considered \in Nat
    BY NumbersAssumption DEF Reaching
  <2> QED BY <1>1, <2>1, PivotStep
<1>8. TypeOK'
  <2>1. cache' \in [1 .. Buckets -> Rates]
    BY <1>1, <1>3 DEF Values
  <2>2. now' \in Nat /\ records' \in Seq(Press) /\ cache_stamp' \in Nat /\ record_stamp' \in Nat
    BY <1>6 DEF Past
  <2>3. recent_pivot' \in 0 .. Len(records')
    BY <1>7 DEF PivotOld
  <2>4. method' \in Methods /\ late' \subseteq DOMAIN records' /\ cache_keys' \in KeySets \union {{}}
    BY <1>1, <1>2 DEF TypeOK
  <2>5. tied' \in BOOLEAN
    BY <1>1
  <2>6. ASSUME NEW t \in DOMAIN cache_map'
        PROVE  t <= cache_stamp' /\ cache_map'[t].rate \in Rates /\ cache_map'[t].pre \in 0 .. Len(records')
    <3>1. t \in Int /\ t <= Present - Second /\ map[t] \in Values
      BY <1>1, <1>4, <2>6
    <3> QED BY <1>1, <1>2, <3>1 DEF Values
  <2> QED BY <2>1, <2>2, <2>3, <2>4, <2>5, <2>6 DEF TypeOK
<1>9. \A b : Left(b)' = Left(b) /\ Right(b)' = Right(b)
  BY <1>6 DEF Left, Right
<1>10. CacheShown'
  <2>1. \A b : Shows(cache_keys, b)' = Shows(ks, b)
    BY <1>1, <1>9 DEF Shows
  <2>2. Shown(cache, cache_keys)'
    BY <1>1, <1>5, <2>1 DEF Shown
  <2> QED BY <1>1, <2>2 DEF CacheShown
<1>11. MapRight'
  <2>1. ASSUME NEW t \in DOMAIN map
        PROVE  /\ t \in Int /\ t <= cache_stamp' - Second
               /\ cache_map'[t] \in Values' /\ BucketRight(cache_map[t], cache_keys, t)'
    <3>1. t \in Int /\ t <= Present - Second /\ map[t] \in Values /\ BucketRight(map[t], ks, t)
      BY <1>4
    <3>2. Values' = Values
      BY <1>1 DEF Values
    <3>3. BucketRight(cache_map[t], cache_keys, t)'
      BY <1>1, <3>1 DEF BucketRight, LeavesLast, NotLate
    <3> QED BY <1>1, <3>1, <3>2, <3>3
  <2>2. ASSUME NEW c \in 1 .. Buckets - 1
        PROVE  LET t == cache_stamp' - (Buckets - c) * Second IN
                 t \in DOMAIN cache_map' /\ cache_map'[t].rate = cache'[c]
    <3>1. c \in Int /\ c \in 1 .. Buckets
      BY PlotAssumption
    <3>2. cache_stamp' - (Buckets - c) * Second = Right(c)
      BY <1>1, <1>2, <3>1, BucketFacts
    <3>3. Right(c) \in DOMAIN cache_map' /\ cache_map'[Right(c)].rate = cache'[c]
      BY <1>1, <1>4, <3>1
    <3> QED BY <3>2, <3>3
  <2>3. method' = "sensitive"
    BY <1>1
  <2> QED BY <1>1, <2>1, <2>2, <2>3 DEF MapRight
<1> QED BY <1>6, <1>7, <1>8, <1>10, <1>11 DEF PlotIInv

\* calc_kps_recent: the plot returned last changes nothing.
LEMMA PlotCalcStep ==
  PlotIInv /\ (\E ks \in KeySets : CalcRecent(ks)) => PlotIInv' \/ UNCHANGED vars
<1> SUFFICES ASSUME PlotIInv, NEW ks \in KeySets, CalcRecent(ks) PROVE PlotIInv' \/ UNCHANGED vars
  OBVIOUS
<1>1. CASE Hit(ks)
  BY <1>1 DEF CalcRecent, caches, vars
<1>2. CASE ~Hit(ks)
  <2>1. Computed(ks)
    BY <1>2 DEF CalcRecent, Computed
  <2>2. method \in {"hard", "sensitive"}
    BY PlotAssumption DEF PlotIInv, TypeOK
  <2> QED BY <2>1, <2>2, HardStep, SensitiveStep
<1> QED BY <1>1, <1>2

\* clear_implement: without records nothing is returned again.
LEMMA PlotClearStep == PlotIInv /\ Clear => PlotIInv'
<1> SUFFICES ASSUME PlotIInv, Clear PROVE PlotIInv'
  OBVIOUS
<1>1. /\ records' = <<>> /\ recent_pivot' = 0 /\ cache_map' = <<>> /\ late' = {}
      /\ now' = now /\ method' = method /\ cache' = cache /\ cache_keys' = cache_keys
      /\ cache_stamp' = cache_stamp /\ record_stamp' = record_stamp /\ tied' = tied
  BY DEF Clear, ClearedPivot, ClearedMap
<1>2. TypeOK /\ Past
  BY DEF PlotIInv
<1>3. Len(records)' = 0 /\ records' \in Seq(Press) /\ DOMAIN cache_map' = {} /\ late' \subseteq DOMAIN records'
  BY <1>1
<1>4. TypeOK'
  <2>1. recent_pivot' \in 0 .. Len(records')
    BY <1>1, <1>3
  <2> QED BY <1>1, <1>2, <1>3, <2>1 DEF TypeOK
<1>5. Past'
  <2>1. Present' = Present
    BY <1>1 DEF Present
  <2> QED BY <1>1, <1>2, <1>3, <2>1 DEF Past, Ascends
<1>6. PivotOld'
  BY <1>1, <1>3 DEF PivotOld
<1>7. CacheShown'
  BY <1>1 DEF CacheShown, Hit
<1>8. MapRight'
  BY <1>3 DEF MapRight
<1> QED BY <1>4, <1>5, <1>6, <1>7, <1>8 DEF PlotIInv

\* A new object has stored nothing, and no second of the clock is the first.
LEMMA PlotChangeStep ==
  PlotIInv /\ (\E type \in Methods : Change(type)) => PlotIInv'
<1> SUFFICES ASSUME PlotIInv, NEW type \in Methods, Change(type) PROVE PlotIInv'
  OBVIOUS
<1>1. /\ method' = type /\ recent_pivot' = 0 /\ cache' = NoPlot /\ cache_keys' = {}
      /\ cache_stamp' = 0 /\ record_stamp' = 0 /\ cache_map' = <<>>
      /\ tied' = FALSE /\ late' = {} /\ now' = now /\ records' = records
  BY DEF Change
<1>2. TypeOK /\ Past
  BY DEF PlotIInv
<1>3. Present' = Present /\ Present \in Nat \ {0}
  <2>1. now \in Nat \ {0} /\ Present \in Nat /\ now <= Present
    BY <1>2, PresentFacts DEF Past
  <2>2. Present' = Present
    BY <1>1 DEF Present
  <2> QED BY <2>1, <2>2
<1>4. TypeOK'
  <2>1. NoPlot \in [1 .. Buckets -> Rates]
    BY DEF NoPlot, Rates
  <2>2. recent_pivot' \in 0 .. Len(records') /\ now' \in Nat /\ records' \in Seq(Press)
    BY <1>1, <1>2, TimesTyped DEF Past
  <2>3. DOMAIN cache_map' = {} /\ late' \subseteq DOMAIN records' /\ method' \in Methods
    BY <1>1
  <2>4. cache_keys' \in KeySets \union {{}} /\ cache_stamp' \in Nat /\ record_stamp' \in Nat /\ tied' \in BOOLEAN
    BY <1>1
  <2>5. cache' \in [1 .. Buckets -> Rates]
    BY <1>1, <2>1
  <2> HIDE <1>1
  <2> QED BY <2>2, <2>3, <2>4, <2>5 DEF TypeOK
<1>5. Past'
  BY <1>1, <1>2, <1>3 DEF Past, Ascends
<1>6. PivotOld'
  BY <1>1, <1>2, TimesTyped DEF PivotOld, Past
<1>7. CacheShown'
  <2>1. ~Hit(cache_keys)'
    BY <1>1, <1>3 DEF Hit
  <2> QED BY <2>1 DEF CacheShown
<1>8. MapRight'
  BY <1>1 DEF MapRight
<1> QED BY <1>4, <1>5, <1>6, <1>7, <1>8 DEF PlotIInv

\* The invariant of calc_kps_recent: the pivot has passed only what is too old, the plot
\* returned again is right as long as nothing says otherwise, and every stored bucket
\* holds what it would hold if computed now, with a bound that hides no press.
THEOREM PlotInvariant == Spec => []PlotIInv
<1>1. PlotIInv /\ UNCHANGED vars => PlotIInv'
  <2> SUFFICES ASSUME PlotIInv, UNCHANGED vars PROVE PlotIInv'
    OBVIOUS
  <2>1. /\ now' = now /\ records' = records /\ method' = method /\ tied' = tied /\ late' = late
        /\ recent_pivot' = recent_pivot /\ cache' = cache /\ cache_keys' = cache_keys
        /\ cache_stamp' = cache_stamp /\ record_stamp' = record_stamp /\ cache_map' = cache_map
    BY DEF vars, caches
  <2>2. TypeOK /\ Past /\ PivotOld /\ CacheShown /\ MapRight
    BY DEF PlotIInv
  <2>3. Present' = Present
    BY <2>1 DEF Present
  <2>4. TypeOK'
    BY <2>1, <2>2 DEF TypeOK
  <2>5. Past'
    BY <2>1, <2>2, <2>3 DEF Past, Ascends
  <2>6. PivotOld'
    BY <2>1, <2>2, <2>3 DEF PivotOld, Span, Reaching
  <2>7. CacheShown'
    <3>1. Hit(cache_keys)' = Hit(cache_keys)
      BY <2>1, <2>3 DEF Hit
    <3>2. /\ \A b : Recount(cache_keys, b)' = Recount(cache_keys, b)
          /\ \A b : Shows(cache_keys, b)' = Shows(cache_keys, b)
      BY <2>1, <2>3, SameSecond
    <3>3. Shown(cache, cache_keys)' <=> Shown(cache, cache_keys)
      BY <2>1, <3>2 DEF Shown
    <3> QED BY <2>1, <2>2, <3>1, <3>2, <3>3 DEF CacheShown
  <2>8. MapRight'
    BY <2>1, <2>2 DEF MapRight, BucketRight, LeavesLast, NotLate, Values
  <2> QED BY <2>4, <2>5, <2>6, <2>7, <2>8 DEF PlotIInv
<1>2. PlotIInv /\ [Next]_vars => PlotIInv'
  BY <1>1, PlotTickStep, PlotNotifyStep, PlotCalcStep, PlotClearStep, PlotChangeStep DEF Next
<1> QED BY <1>2, PlotInit, PTL DEF Spec

\* The state of calc_kps_recent keeps its types: recent_pivot and every stored bound stay
\* within the log, also across clear and a change of the method.
THEOREM PlotTypeCorrect == Spec => []TypeOK
<1>1. PlotIInv => TypeOK
  BY DEF PlotIInv
<1> QED BY <1>1, PlotInvariant, PTL

\* The plot of the frame method is the recount of the whole log, unless a press came with
\* the very time of the newest press plotted.
THEOREM PlotRecounts == Spec => []PlotIsRecount
BY RecountFollows, PlotInvariant, PTL

\* A second is plotted above zero exactly if a press accounts for that, whatever was
\* taken from cache_map and however the bounds of the searches were handed on.
THEOREM PlotShows == Spec => []PlotShowsPresses
BY ShownFollowsPlot, PlotInvariant, PTL

\* A second of the sensitive plot that has passed is plotted as it was.
THEOREM PlotStable == Spec => []PastIsStable
BY StableFollows, PlotInvariant, PTL
==============================================================================
