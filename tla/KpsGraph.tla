------------------------------ MODULE KpsGraph ------------------------------
(***************************************************************************)
(* calc_kps_recent of both implementations                                 *)
(* (src/source/src/kps_calculator.hpp): the plot of the last Buckets       *)
(* seconds, computed whenever the window is painted, with the caches that  *)
(* keep it cheap.  Every method runs under kps_interface::m and is one     *)
(* step.  A position p of the source, an index from 0, is here the number  *)
(* of records before it.                                                   *)
(***************************************************************************)
EXTENDS RateSearch

CONSTANTS
  KeySets,     \* the sets of keys shown, one per layout
  Buckets,     \* history_count
  FrameLength, \* frame_length of the hard implementation, in ticks
  MaxCache,    \* bound of cache_map above which it is emptied
  Methods      \* implementations in use

ASSUME PlotAssumption ==
  /\ Buckets \in Nat \ {0} /\ FrameLength \in Nat /\ MaxCache \in Nat
  /\ Methods \subseteq {"hard", "sensitive"}

VARIABLES
  method,         \* type of the implementation object
  recent_pivot,   \* records too old to matter
  cache,          \* the plot returned last
  cache_keys,     \* the keys it was computed for
  cache_stamp,    \* the second it was computed in
  record_stamp,   \* time of the newest record then
  cache_map,      \* sensitive: cache_map and cache_farthest, by the bucket's end
  tied,           \* history: a press arrived since with the time record_stamp
  late            \* history: presses delivered after their bucket was stored

caches == <<recent_pivot, cache, cache_keys, cache_stamp, record_stamp, cache_map>>
vars == <<now, records, method, caches, tied, late>>

NoPlot == [b \in 1 .. Buckets |-> <<0, 1>>]

TypeOK ==
  /\ now \in Nat
  /\ records \in Seq(Press)
  /\ method \in Methods
  /\ recent_pivot \in 0 .. Len(records)
  /\ cache \in [1 .. Buckets -> Rates]
  /\ cache_keys \in KeySets \union {{}}
  /\ cache_stamp \in Nat /\ record_stamp \in Nat
  /\ \A t \in DOMAIN cache_map :
       /\ t <= cache_stamp
       /\ cache_map[t].rate \in Rates
       /\ cache_map[t].pre \in 0 .. Len(records)
  /\ tied \in BOOLEAN
  /\ late \subseteq DOMAIN records

-----------------------------------------------------------------------------
\* The clock rounded up to a whole second, and the seconds plotted before it.
Present == ((now + Second - 1) \div Second) * Second
Left(b) == Present - (Buckets - b + 1) * Second
Right(b) == Left(b) + Second

\* The first position from p on that is the end of the log or fails to be before t.
Until(p, t) ==
  Min({q \in p .. Len(records) : q = Len(records) \/ records[q + 1].time >= t})

\* The loop that advances recent_pivot past what is too old for the first bucket.
Span(reach) == Buckets * Second + reach
Pivot_TooFar(reach) == Until(recent_pivot, Present - Span(reach) + Second)
Pivot(reach) == Until(recent_pivot, Present - Span(reach))

Matching(ks, i, j) == Cardinality({n \in i + 1 .. j : records[n].key \in ks})

\* Two pointers: right takes one more record in, left drops what is more than a
\* frame before the instant at.
TrimLeft_Closed(w, at) == Until(w.left, at - FrameLength + 1)
TrimLeft(w, at) == Until(w.left, at - FrameLength)
Trim(w, at, ks) ==
  LET to == Min({w.right, TrimLeft(w, at)})
  IN  [w EXCEPT !.left = to, !.count = @ - Matching(ks, w.left, to)]
Take(w, to, ks) == [w EXCEPT !.right = to, !.count = @ + Matching(ks, w.right, to)]

\* One record of a bucket: the frame moves up to it.
HardPress(old, i, b, ks) ==
  LET win == Trim(Take(old.win, i, ks), records[i].time, ks)
  IN  [win |-> win,
       best |-> IF Left(b) <= records[i].time THEN Max({old.best, win.count}) ELSE old.best]

\* A bucket from its records, starting with the frame that ends at its left end.
HardBucket(w, b, ks) ==
  LET f[i \in w.right .. Until(w.right, Right(b))] ==
        IF i = w.right
        THEN [win |-> Trim(w, Left(b), ks), best |-> Trim(w, Left(b), ks).count]
        ELSE HardPress(f[i - 1], i, b, ks)
  IN  f[Until(w.right, Right(b))]

\* One bucket more.
HardNext(old, b, ks) ==
  LET res == HardBucket(old.win, b, ks)
  IN  [win |-> res.win, plot |-> Append(old.plot, <<res.best, 1>>)]

HardStart(ks) ==
  Take([left |-> Pivot(FrameLength), right |-> Pivot(FrameLength), count |-> 0],
       Until(Pivot(FrameLength), Left(1)), ks)

HardPlot(ks) ==
  LET f[b \in 0 .. Buckets] ==
        IF b = 0 THEN [win |-> HardStart(ks), plot |-> <<>>] ELSE HardNext(f[b - 1], b, ks)
  IN  f[Buckets].plot

-----------------------------------------------------------------------------
\* What a sensitive search may use of the buckets stored before.
Kept_AnyKeys(ks) == cache_map
Evicted == Cardinality(DOMAIN cache_map) > MaxCache
Kept(ks) == IF ks # cache_keys \/ Evicted THEN <<>> ELSE cache_map

\* Whether a bucket is taken from the store.
Reused_Never(ks, t) == FALSE
Reused(ks, t) == t \in DOMAIN Kept(ks)

Best(r1, r2) == IF r1 \prec r2 THEN r2 ELSE r1

\* One record of a bucket: a search from it, if it is a press of ks.
FreshPress(old, i, ks) ==
  IF records[i].key \notin ks THEN old
  ELSE LET res == Search(records, ks, old.pre, i, records[i].time)
       IN  [pre |-> res.pre, rate |-> Best(old.rate, res.rate)]

\* A bucket from its records: a search at its left end, then one at each press.
\* crt is the position reached, pre (crt_pre_farthest) the bound handed on.
FreshBucket(crt, pre, b, ks) ==
  LET f[i \in crt .. Until(crt, Right(b))] ==
        IF i = crt THEN Search(records, ks, pre, crt, Left(b)) ELSE FreshPress(f[i - 1], i, ks)
  IN  f[Until(crt, Right(b))]

\* How far back the search of the last bucket went, or where the first one may go.
Farthest(buckets, pivot) == IF buckets = <<>> THEN pivot ELSE buckets[Len(buckets)].pre

\* One bucket more, the stored one or a fresh one; its search starts with the
\* position of the first record that is not before it, stored buckets or not.
SensitiveNext(before, b, ks) ==
  LET pivot == Pivot(Considered)
  IN  Append(before,
        IF Reused(ks, Right(b)) THEN Kept(ks)[Right(b)]
        ELSE FreshBucket(Until(pivot, Left(b)), Farthest(before, pivot), b, ks))

\* All buckets, the oldest first.
SensitiveBuckets(ks) ==
  LET f[b \in 0 .. Buckets] == IF b = 0 THEN <<>> ELSE SensitiveNext(f[b - 1], b, ks)
  IN  f[Buckets]

\* The buckets that are stored: those that have passed.
Stored_Current(b) == TRUE
Stored(b) == Present > Right(b)

\* The plot, and what is stored of it.
Plotted(ks) ==
  IF method = "hard"
  THEN [plot |-> HardPlot(ks), pivot |-> Pivot(FrameLength), map |-> cache_map]
  ELSE LET value == SensitiveBuckets(ks)
           new == {b \in 1 .. Buckets : Stored(b)}
           ends == {Right(b) : b \in new}
       IN  [plot |-> [b \in 1 .. Buckets |-> value[b].rate],
            pivot |-> Pivot(Considered),
            map |-> [t \in DOMAIN Kept(ks) \union ends |->
                       IF t \in ends THEN value[CHOOSE b \in new : Right(b) = t]
                       ELSE Kept(ks)[t]]]

\* The plot returned last is returned again.
Hit_AnyRecord(ks) == cache_stamp = Present /\ ks = cache_keys
Hit(ks) ==
  /\ records # <<>> /\ record_stamp = records[Len(records)].time
  /\ cache_stamp = Present
  /\ ks = cache_keys

\* What calc_kps_recent returns now.
Plot(ks) == IF Hit(ks) THEN cache ELSE Plotted(ks).plot
-----------------------------------------------------------------------------
Init ==
  /\ now = 1
  /\ records = <<>>
  /\ method \in Methods
  /\ recent_pivot = 0 /\ cache = NoPlot /\ cache_keys = {}
  /\ cache_stamp = 0 /\ record_stamp = 0 /\ cache_map = <<>>
  /\ tied = FALSE /\ late = {}

Tick == Advance /\ UNCHANGED <<method, caches, tied, late>>

\* notify_key_down
Notify(k, at) ==
  /\ Push(k, at)
  /\ tied' = (tied \/ at = record_stamp)
  /\ late' = IF DOMAIN cache_map # {} /\ at < cache_stamp - Second
             THEN late \union {Len(records) + 1} ELSE late
  /\ UNCHANGED <<method, caches>>

\* calc_kps_recent
CalcRecent(ks) ==
  /\ IF Hit(ks) THEN UNCHANGED <<caches, tied>>
     ELSE /\ LET new == Plotted(ks) IN
               recent_pivot' = new.pivot /\ cache' = new.plot /\ cache_map' = new.map
          /\ cache_keys' = ks
          /\ cache_stamp' = Present
          /\ record_stamp' = IF records = <<>> THEN record_stamp ELSE records[Len(records)].time
          /\ tied' = FALSE
  /\ UNCHANGED <<now, records, method, late>>

\* What clear_implement resets; the plot returned last stays.
ClearedMap_Kept == cache_map
ClearedMap == <<>>
ClearedPivot_Kept == recent_pivot
ClearedPivot == 0

Clear ==
  /\ records' = <<>>
  /\ recent_pivot' = ClearedPivot
  /\ cache_map' = ClearedMap
  /\ late' = {}
  /\ UNCHANGED <<now, method, cache, cache_keys, cache_stamp, record_stamp, tied>>

\* change_implement_type makes a new object for the log there is.
Change(type) ==
  /\ method' = type
  /\ recent_pivot' = 0 /\ cache' = NoPlot /\ cache_keys' = {}
  /\ cache_stamp' = 0 /\ record_stamp' = 0 /\ cache_map' = <<>>
  /\ tied' = FALSE /\ late' = {}
  /\ UNCHANGED <<now, records>>

Next ==
  \/ Tick
  \/ \E k \in Keys, at \in 1 .. now : Notify(k, at)
  \/ \E ks \in KeySets : CalcRecent(ks)
  \/ Clear
  \/ \E type \in Methods : Change(type)

Spec == Init /\ [][Next]_vars
-----------------------------------------------------------------------------
(* Properties *)

Presses(ks, Test(_)) ==
  Cardinality({n \in 1 .. Len(records) : records[n].key \in ks /\ Test(records[n].time)})

\* The presses in the frame that ends at t, and in the one that ends just before t.
FrameTo(ks, t) == Presses(ks, LAMBDA u : u <= t /\ t - u <= FrameLength)
FrameBefore(ks, t) == Presses(ks, LAMBDA u : u < t /\ t - u <= FrameLength)
Within(b) == {t \in Left(b) .. Right(b) - 1 : \E n \in 1 .. Len(records) : records[n].time = t}

\* The plot of the frame method is a recount of the whole log: in each second the
\* largest number of presses in a frame that ends in it.  Neither the two pointers
\* nor the pivot nor the plot returned again change that, unless a press came with
\* the very time of the newest press plotted.
PlotIsRecount ==
  (method = "hard" /\ ~tied) =>
    \A ks \in KeySets :
      LET plot == Plot(ks) IN
        \A b \in 1 .. Buckets :
          plot[b] = <<Max({FrameBefore(ks, Left(b))} \union {FrameTo(ks, t) : t \in Within(b)}), 1>>

\* The past does not change: while the same keys are shown, nothing was reset and
\* the store is not about to be emptied for its size, a second of the sensitive plot
\* that had passed is plotted as it was, although older seconds, whose searches
\* bounded the later ones, have left the plot.  Once the store exceeds MaxCache it
\* is emptied (cache_map.size() > 3600u): the seconds still plotted are searched
\* again from the pivot, and the next plot may show other values for them.
PastIsStable ==
  (DOMAIN cache_map # {} /\ ~Evicted) =>
    LET plot == Plot(cache_keys) IN
      \A b, c \in 1 .. Buckets :
        (Right(b) = cache_stamp - (Buckets - c) * Second /\ Right(b) < cache_stamp)
          => plot[b] = cache[c]

\* The presses of ks that the second b can show.
Shows(ks, b) ==
  {n \in 1 .. Len(records) :
     /\ records[n].key \in ks
     /\ records[n].time < Right(b)
     /\ Left(b) - records[n].time <= (IF method = "hard" THEN FrameLength ELSE Considered)}

\* A second is plotted above zero exactly if a press in it, or shortly before it,
\* accounts for that.  Left out are presses delivered when their second was
\* stored already, and those with the time of the newest press plotted.
PlotShowsPresses ==
  ~tied =>
    \A ks \in KeySets :
      LET plot == Plot(ks) IN
        \A b \in 1 .. Buckets :
          /\ plot[b][1] > 0 => Shows(ks, b) # {}
          /\ Shows(ks, b) \ late # {} => plot[b][1] > 0
=============================================================================
