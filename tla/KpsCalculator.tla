--------------------------- MODULE KpsCalculator ---------------------------
(***************************************************************************)
(* kps_interface, kps_implement_hard and kps_calculator                    *)
(* (src/source/src/kps_calculator.hpp): the press log, the callback slot,  *)
(* the running one-second counts and the replacement of the implementation *)
(* object while monitor threads keep delivering presses.                   *)
(*                                                                         *)
(* Locks.  I is kps_interface::m, C is kps_calculator::m.  A body that runs *)
(* entirely under I is one step.  C is held from ChangeBegin to ChangeSwap *)
(* (pc # "idle"), I and C during a total (total # <<>>).  Monitor threads  *)
(* take I only, after they have read the clock.                            *)
(*                                                                         *)
(* The search of kps_implement_sensitive is in KpsSensitive; here such an  *)
(* object only occupies the callback slot.                                 *)
(***************************************************************************)
EXTENDS Integers, Sequences, FiniteSets

CONSTANTS
  Keys,          \* virtual key codes
  Threads,       \* threads of the monitor that call notify_key_down
  Addrs,         \* addresses an implementation object can be allocated at
  Offered,       \* types the user may switch to, a subset of Types
  Vectors,       \* key vectors passed to the vector form of calc_kps_now
  FrameLength,   \* frame_length, in clock ticks
  MaxTime,       \* bound: last instant of the clock
  MaxRecords     \* bound: presses in flight plus records in the log

Types == {"hard", "sensitive"}

ASSUME AddrsAssumption == "none" \notin Addrs
ASSUME OfferedAssumption == Offered \subseteq Types
ASSUME VectorsAssumption == Vectors \subseteq Seq(Keys)
ASSUME NumbersAssumption == FrameLength \in Nat /\ MaxTime \in Nat /\ MaxRecords \in Nat

VARIABLES
  now,         \* the steady clock
  records,     \* kps_interface::records (records_individual is its split by key)
  stamped,     \* stamped[t]: presses t has given a time and not yet delivered
  callback,    \* the object kps_interface::callback is bound to, "none" if empty
  callback_id, \* kps_interface::callback_id
  live,        \* addresses that hold a constructed implementation object
  obj,         \* the members of the object at each address
  implement,   \* kps_calculator::implement
  next,        \* the object make_shared is constructing
  pc,          \* progress of change_implement_type
  total,       \* the accumulate loop of the vector form; <<>> when not running
  ret,         \* the number calc_kps_now returned last
  overlap      \* history: presses delivered to the object under construction
               \* before it counted the log

vars == <<now, records, stamped, callback, callback_id, live, obj, implement,
          next, pc, total, ret, overlap>>

Press == [key : Keys, time : Nat]
Object == [type : Types, start : Nat, sum : [Keys -> Nat]]
Total == [left : Seq(Keys), done : Seq(Keys), acc : Int, from : Nat]

Zero == [k \in Keys |-> 0]
Fresh(type) == [type |-> type, start |-> 0, sum |-> Zero]

\* The positions i+1 .. j of the log that hold a record of k.
Positions(log, i, j, k) == {n \in i + 1 .. j : log[n].key = k}
Count(log, i, j, k) == Cardinality(Positions(log, i, j, k))
CountFrom(i, k) == Count(records, i, Len(records), k)

\* The condition of the loop that advances start_index.
Expired_NotStrict(p) == now - p.time >= FrameLength
Expired(p) == now - p.time > FrameLength

TypeOK ==
  /\ now \in Nat
  /\ records \in Seq(Press)
  /\ stamped \in [Threads -> SUBSET Press]
  /\ callback \in Addrs \union {"none"}
  /\ callback_id \in Addrs
  /\ live \in SUBSET Addrs
  /\ obj \in [Addrs -> Object]
  /\ implement \in Addrs
  /\ next \in Addrs
  /\ pc \in {"idle", "registered", "constructed"}
  /\ total \in Seq(Total) /\ Len(total) <= 1
  /\ ret \in Int
  /\ overlap \in [Keys -> Nat]

-----------------------------------------------------------------------------
\* The constructor of kps_calculator has run change_implement_type(hard)
\* before any thread can reach the object.
Init ==
  /\ now = 0
  /\ records = <<>>
  /\ stamped = [t \in Threads |-> {}]
  /\ implement \in Addrs
  /\ callback = implement
  /\ callback_id = implement
  /\ live = {implement}
  /\ obj = [a \in Addrs |-> Fresh("hard")]
  /\ next = implement
  /\ pc = "idle"
  /\ total = <<>>
  /\ ret = 0
  /\ overlap = Zero

LockIFree == total = <<>>
LockCFree == pc = "idle" /\ total = <<>>

Tick ==
  /\ now < MaxTime
  /\ now' = now + 1
  /\ UNCHANGED <<records, stamped, callback, callback_id, live, obj, implement,
                 next, pc, total, ret, overlap>>

\* A monitor thread reads the clock once for all the keys it found pressed; it
\* does so before it asks for any lock.
Stamp(t, ks) ==
  /\ stamped[t] = {}
  /\ ks # {}
  /\ Len(records) + Cardinality(ks)
       + Cardinality(UNION {{u} \X stamped[u] : u \in Threads}) <= MaxRecords
  /\ stamped' = [stamped EXCEPT ![t] = {[key |-> k, time |-> now] : k \in ks}]
  /\ UNCHANGED <<now, records, callback, callback_id, live, obj, implement,
                 next, pc, total, ret, overlap>>

\* on_key_down of the object the callback is bound to.
CountPress(o, k) ==
  IF o.type = "hard" THEN [o EXCEPT !.sum[k] = @ + 1] ELSE o

\* The log with p pushed at its end.
Pushed_Front(p) == <<p>> \o records
Pushed(p) == Append(records, p)

\* notify_key_down: both logs and the callback in one critical section.
Notify(t) ==
  /\ LockIFree
  /\ \E p \in stamped[t] :
       /\ stamped' = [stamped EXCEPT ![t] = @ \ {p}]
       /\ records' = Pushed(p)
       /\ obj' = IF callback = "none" THEN obj
                 ELSE [obj EXCEPT ![callback] = CountPress(@, p.key)]
       /\ overlap' = IF pc = "registered" /\ obj[next].type = "hard"
                     THEN [overlap EXCEPT ![p.key] = @ + 1] ELSE overlap
  /\ UNCHANGED <<now, callback, callback_id, live, implement, next, pc, total, ret>>

-----------------------------------------------------------------------------
\* Member values after the loop that drops the expired prefix: start_index
\* moves to e, and each record passed over leaves its key's sum.
Dropped_SumKept(o, e) == [o EXCEPT !.start = e]
Dropped(o, e) ==
  [type |-> o.type, start |-> e,
   sum |-> [k \in Keys |-> o.sum[k] - Count(records, o.start, e, k)]]

\* Where the loop stops: before the first record from o.start on that has not
\* expired (a set of one element).
Stops(o) ==
  {e \in o.start .. o.start + Len(records) :
     /\ \A n \in o.start + 1 .. e : n <= Len(records) /\ Expired(records[n])
     /\ e < Len(records) => ~Expired(records[e + 1])}

\* calc_kps_now(key), hard: C, then I, around the loop and the read of sum.
CalcNow(k) ==
  /\ LockCFree
  /\ obj[implement].type = "hard"
  /\ \E e \in Stops(obj[implement]) :
       LET o == Dropped(obj[implement], e) IN
         /\ obj' = [obj EXCEPT ![implement] = o]
         /\ ret' = o.sum[k]
  /\ UNCHANGED <<now, records, stamped, callback, callback_id, live, implement,
                 next, pc, total, overlap>>

\* calc_kps_now(vector): std::accumulate evaluates the single-key form for each
\* element under one hold of C and I, each evaluation with a clock of its own.
TotalBegin(ks) ==
  /\ LockCFree
  /\ obj[implement].type = "hard"
  /\ total' = <<[left |-> ks, done |-> <<>>, acc |-> 0, from |-> now]>>
  /\ UNCHANGED <<now, records, stamped, callback, callback_id, live, obj,
                 implement, next, pc, ret, overlap>>

TotalStep ==
  /\ total # <<>>
  /\ total[1].left # <<>>
  /\ \E e \in Stops(obj[implement]) :
       LET o == Dropped(obj[implement], e)
           k == Head(total[1].left)
       IN /\ obj' = [obj EXCEPT ![implement] = o]
          /\ total' = <<[left |-> Tail(total[1].left),
                         done |-> Append(total[1].done, k),
                         acc |-> total[1].acc + o.sum[k],
                         from |-> total[1].from]>>
  /\ UNCHANGED <<now, records, stamped, callback, callback_id, live, implement,
                 next, pc, ret, overlap>>

TotalEnd ==
  /\ total # <<>>
  /\ total[1].left = <<>>
  /\ ret' = total[1].acc
  /\ total' = <<>>
  /\ UNCHANGED <<now, records, stamped, callback, callback_id, live, obj,
                 implement, next, pc, overlap>>

\* clear_implement.
Cleared_StartKept(o) == [o EXCEPT !.sum = Zero]
Cleared(o) == Fresh(o.type)

\* kps_calculator::clear: both logs and the implementation's members.
Clear ==
  /\ LockCFree
  /\ records' = <<>>
  /\ obj' = [obj EXCEPT ![implement] = Cleared(@)]
  /\ overlap' = Zero
  /\ UNCHANGED <<now, stamped, callback, callback_id, live, implement, next, pc,
                 total, ret>>

-----------------------------------------------------------------------------
\* register_callback: the slot after it, whatever it held.
Registered_IfEmpty(a) == IF callback = "none" THEN a ELSE callback
Registered(a) == a

\* change_implement_type, first half of make_shared: the new object exists and
\* its constructor has registered its callback, under I.
ChangeBegin(type, a) ==
  /\ LockCFree
  /\ a \notin live
  /\ live' = live \union {a}
  /\ obj' = [obj EXCEPT ![a] = Fresh(type)]
  /\ next' = a
  /\ callback' = Registered(a)
  /\ callback_id' = a
  /\ overlap' = Zero
  /\ pc' = IF type = "hard" THEN "registered" ELSE "constructed"
  /\ UNCHANGED <<now, records, stamped, implement, total, ret>>

\* Members after the constructor's loop over the log.
Counted_Nothing(o) == o
Counted(o) == [o EXCEPT !.sum = [k \in Keys |-> o.sum[k] + CountFrom(0, k)]]

\* The second critical section of kps_implement_hard's constructor adds every
\* record in the log to sum.
ChangeCount ==
  /\ pc = "registered"
  /\ LockIFree
  /\ obj' = [obj EXCEPT ![next] = Counted(@)]
  /\ pc' = "constructed"
  /\ UNCHANGED <<now, records, stamped, callback, callback_id, live, implement,
                 next, total, ret, overlap>>

\* unregister_callback(id): only the owner of the slot empties it.  (The line
\* meant to reset callback_id resets the parameter instead.)
Unregistered_AnyId(id) == "none"
Unregistered(id) == IF callback_id = id THEN "none" ELSE callback

\* The assignment to implement destroys the object it held, whose destructor
\* unregisters under I; C is released.
ChangeSwap ==
  /\ pc = "constructed"
  /\ LockIFree
  /\ implement' = next
  /\ callback' = Unregistered(implement)
  /\ live' = live \ {implement}
  /\ obj' = [obj EXCEPT ![implement] = Fresh("hard")]
  /\ pc' = "idle"
  /\ UNCHANGED <<now, records, stamped, callback_id, next, total, ret, overlap>>

-----------------------------------------------------------------------------
Change ==
  \/ \E type \in Offered, a \in Addrs : ChangeBegin(type, a)
  \/ ChangeCount
  \/ ChangeSwap

Calc ==
  \/ \E k \in Keys : CalcNow(k)
  \/ \E ks \in Vectors : TotalBegin(ks)
  \/ TotalStep
  \/ TotalEnd

Next ==
  \/ Tick
  \/ \E t \in Threads : \E ks \in SUBSET Keys : Stamp(t, ks)
  \/ \E t \in Threads : Notify(t)
  \/ Calc
  \/ Clear
  \/ Change

Spec == Init /\ [][Next]_vars
-----------------------------------------------------------------------------
(* Properties *)

\* The slot is bound to a constructed object: a press can never call into a
\* destroyed implementation, whatever the interleaving of presses and switches.
NoDanglingCallback == callback # "none" => callback \in live

\* A switch never leaves the calculator deaf: outside change_implement_type the
\* slot belongs to the implementation in use, although the old object
\* unregisters after the new one has registered.
CallbackIsImplement == pc = "idle" => callback = implement

\* Presses always have a living object to go to, and outside a switch it is the one in
\* use (register_callback and unregister_callback, which the two objects call crosswise).
SlotOwned == NoDanglingCallback /\ CallbackIsImplement

\* The running counts are the log's tail from start_index, plus the presses that
\* reached a new object between its registration and its count of the log.
SumAccounted ==
  callback # "none" =>
    LET o == obj[callback] IN
      o.type = "hard" =>
        \A k \in Keys :
          o.sum[k] = overlap[k]
                       + (IF pc = "registered" THEN 0 ELSE CountFrom(o.start, k))

\* The comment on sum (line 181): it is the number of presses of each key that
\* the current KPS is computed from.
SumExact ==
  (pc = "idle" /\ obj[implement].type = "hard") =>
    \A k \in Keys : obj[implement].sum[k] = CountFrom(obj[implement].start, k)

\* The comment on records (line 30): they ascend by time.
RecordsOrdered ==
  \A i, j \in 1 .. Len(records) : i < j => records[i].time <= records[j].time

InWindow(k, at) ==
  Cardinality({n \in 1 .. Len(records) :
                 records[n].key = k /\ at - records[n].time <= FrameLength})

\* A number returned for one key is the number of its presses in the last
\* second, up to the presses counted twice by a switch.
ReadsWindow ==
  [][\A k \in Keys : CalcNow(k) => ret' = InWindow(k, now) + overlap[k]]_vars

SumOf(ks, Op(_)) ==
  LET f[n \in 0 .. Len(ks)] == IF n = 0 THEN 0 ELSE f[n - 1] + Op(ks[n])
  IN  f[Len(ks)]

\* A total is torn across clock readings by no more than the presses that leave
\* the window while it is computed, and no press enters meanwhile.
TotalBetween ==
  [][TotalEnd =>
       LET ks == total[1].done IN
         /\ ret' <= SumOf(ks, LAMBDA k : InWindow(k, total[1].from) + overlap[k])
         /\ ret' >= SumOf(ks, LAMBDA k : InWindow(k, now) + overlap[k])]_vars

\* With one delivering thread the calculator, its incremental counts, objects and
\* locks, implements the press window: every number returned is one that a recount
\* of the whole log would give.
Window == INSTANCE PressWindow WITH log <- records, extra <- overlap
ImplementsWindow == Window!Spec
=============================================================================
