---------------------------- MODULE KpsSensitive ----------------------------
(***************************************************************************)
(* kps_implement_sensitive (src/source/src/kps_calculator.hpp): the current *)
(* KPS as the best of the rates "c presses in the last e seconds", searched *)
(* from the newest press back, with a lower bound remembered from the       *)
(* previous search.  Every method runs under kps_interface::m and is one    *)
(* step.  Indices here count from 1, so the source's index pre_farthest, a  *)
(* count of skipped records, is the last position the search ignores.       *)
(***************************************************************************)
EXTENDS RateSearch

VARIABLES
  records_individual, \* kps_interface::records_individual, per key
  pre_farthest,   \* per key, over the individual log
  pre_multi_keys, \* the key set of the previous multi-key search
  pre_farthest_multi, \* over records; left uninitialized by the constructor
  last            \* history: per key, the rate returned since its last press

bounds == <<pre_farthest, pre_multi_keys, pre_farthest_multi>>
searchVars == <<now, records, records_individual, bounds, last>>

NoRate == <<>>

SearchTypeOK ==
  /\ now \in Nat
  /\ records \in Seq(Press)
  /\ records_individual \in [Keys -> Seq(Press)]
  /\ pre_farthest \in [Keys -> Nat]
  /\ \A k \in Keys : pre_farthest[k] <= Len(records_individual[k])
  /\ pre_multi_keys \subseteq Keys
  /\ pre_farthest_multi \in Nat
  /\ last \in [Keys -> Rates \union {NoRate}]

-----------------------------------------------------------------------------
SearchFrom(log, ks, lo) == Search(log, ks, lo, Len(log), now)
SearchKey(k) == SearchFrom(records_individual[k], {k}, pre_farthest[k])

\* The remembered bound is for the same set of keys only.
MultiBound_AnyKeys(ks) == pre_farthest_multi
MultiBound(ks) == IF pre_multi_keys = ks THEN pre_farthest_multi ELSE 0
SearchKeys(ks) == SearchFrom(records, ks, MultiBound(ks))
-----------------------------------------------------------------------------
\* pre_farthest_multi has no initializer: any value a size_t left there.
SearchInit ==
  /\ now = 0
  /\ records = <<>>
  /\ records_individual = [k \in Keys |-> <<>>]
  /\ pre_farthest = [k \in Keys |-> 0]
  /\ pre_multi_keys = {}
  /\ pre_farthest_multi \in 0 .. MaxRecords + 1
  /\ last = [k \in Keys |-> NoRate]

SearchTick == Advance /\ UNCHANGED <<records_individual, bounds, last>>

\* notify_key_down; on_key_down of this implementation does nothing.
SearchNotify(k, at) ==
  /\ Push(k, at)
  /\ records_individual' =
       [records_individual EXCEPT ![k] = Append(@, [key |-> k, time |-> at])]
  /\ last' = [last EXCEPT ![k] = NoRate]
  /\ UNCHANGED bounds

\* The bound stored by the single-key search.
Remembered_Forgotten(k) == 0
Remembered_PastStop(k) == SearchKey(k).pre + 1
Remembered(k) == SearchKey(k).pre

\* calc_kps_now(key)
CalcKey(k) ==
  /\ pre_farthest' = [pre_farthest EXCEPT ![k] = Remembered(k)]
  /\ last' = [last EXCEPT ![k] = SearchKey(k).rate]
  /\ UNCHANGED <<now, records, records_individual, pre_multi_keys, pre_farthest_multi>>

\* The bound stored by the multi-key search.
RememberedMulti(ks) == SearchKeys(ks).pre

\* calc_kps_now(vector), of the set of its elements.
CalcKeys(ks) ==
  /\ pre_multi_keys' = ks
  /\ pre_farthest_multi' = RememberedMulti(ks)
  /\ UNCHANGED <<now, records, records_individual, pre_farthest, last>>

\* clear_implement on the single-key bounds.
ClearedBounds_Kept == pre_farthest
ClearedBounds == [k \in Keys |-> 0]

\* kps_implement_base::clear
SearchClear ==
  /\ records' = <<>>
  /\ records_individual' = [k \in Keys |-> <<>>]
  /\ pre_farthest' = ClearedBounds
  /\ pre_farthest_multi' = 0
  /\ pre_multi_keys' = {}
  /\ last' = [k \in Keys |-> NoRate]
  /\ UNCHANGED now

SearchNext ==
  \/ SearchTick
  \/ \E k \in Keys, at \in 0 .. now : SearchNotify(k, at)
  \/ \E k \in Keys : CalcKey(k)
  \/ \E ks \in SUBSET Keys : CalcKeys(ks)
  \/ SearchClear

SearchSpec == SearchInit /\ [][SearchNext]_searchVars
-----------------------------------------------------------------------------
(* Properties *)

Recent(ks) ==
  {n \in 1 .. Len(records) : records[n].key \in ks /\ now - records[n].time <= Considered}

\* Whatever searches ran before, a rate above zero is shown exactly while a press
\* is at most considered_length old: neither the bound a key remembers nor the one
\* all sets of keys share, uninitialized at first, hides the newest press, also
\* not after a reset or a pause.
ShownWhileRecent ==
  /\ \A k \in Keys : SearchKey(k).rate[1] > 0 <=> Recent({k}) # {}
  /\ \A ks \in SUBSET Keys : SearchKeys(ks).rate[1] > 0 <=> Recent(ks) # {}

\* What the bound is for (line 288): a rate that was shown does not rise again
\* without a press, as older bursts would make it once the newest presses age.
NoRiseWithoutPress ==
  \A k \in Keys : last[k] # NoRate => ~(last[k] \prec SearchKey(k).rate)
=============================================================================
