----------------------- MODULE KpsCalculatorProofs -------------------------
(***************************************************************************)
(* Theorems about KpsCalculator for any keys, threads, addresses, vectors  *)
(* and bounds: the object life cycle, the accounting of the running counts *)
(* and, for one delivering thread, the order of the log, the numbers read  *)
(* for one key and for several, and that every step is one of PressWindow. *)
(***************************************************************************)
EXTENDS KpsCalculator, FiniteSetTheorems, SequenceTheorems, Induction

-----------------------------------------------------------------------------
(* Counting records *)

\* A count of a stretch of a log is a natural number.
LEMMA CountNat ==
  ASSUME NEW log, NEW i \in Nat, NEW j \in Nat, NEW k
  PROVE  /\ IsFiniteSet(Positions(log, i, j, k))
         /\ Count(log, i, j, k) \in Nat
<1>1. IsFiniteSet(i + 1 .. j)
  BY FS_Interval
<1>2. IsFiniteSet(Positions(log, i, j, k))
  BY <1>1, FS_Subset DEF Positions
<1> QED
  BY <1>2, FS_CardinalityType DEF Count

\* An empty stretch counts nothing.
LEMMA CountEmpty ==
  ASSUME NEW log, NEW i \in Nat, NEW k
  PROVE  Count(log, i, i, k) = 0
<1>1. Positions(log, i, i, k) = {}
  BY DEF Positions
<1> QED
  BY <1>1, FS_EmptySet DEF Count

\* A record appended to a log is counted under its key.
LEMMA CountAppend ==
  ASSUME NEW log \in Seq(Press), NEW p \in Press,
         NEW i \in Nat, i <= Len(log), NEW k
  PROVE  Count(Append(log, p), i, Len(log) + 1, k) =
           Count(log, i, Len(log), k) + (IF p.key = k THEN 1 ELSE 0)
<1> DEFINE old == Positions(log, i, Len(log), k)
           new == Positions(Append(log, p), i, Len(log) + 1, k)
<1>1. Len(log) \in Nat
  OBVIOUS
<1>2. IsFiniteSet(old) /\ Cardinality(old) \in Nat
  BY <1>1, CountNat, FS_CardinalityType
<1>3. \A n \in 1 .. Len(log) : Append(log, p)[n] = log[n]
  OBVIOUS
<1>4. Append(log, p)[Len(log) + 1] = p
  OBVIOUS
<1>5. CASE p.key = k
  <2>1. new = old \union {Len(log) + 1}
    BY <1>1, <1>3, <1>4, <1>5 DEF Positions
  <2>2. Len(log) + 1 \notin old
    BY <1>1 DEF Positions
  <2>3. Cardinality(new) = Cardinality(old) + 1
    BY <1>2, <2>1, <2>2, FS_AddElement
  <2> QED
    BY <2>3, <1>5 DEF Count
<1>6. CASE p.key # k
  <2>1. new = old
    BY <1>1, <1>3, <1>4, <1>6 DEF Positions
  <2> QED
    BY <2>1, <1>2, <1>6 DEF Count
<1> QED
  BY <1>5, <1>6

\* A stretch counts as much as its two parts.
LEMMA CountSplit ==
  ASSUME NEW log, NEW i \in Nat, NEW e \in Nat, NEW j \in Nat,
         i <= e, e <= j, NEW k
  PROVE  Count(log, i, j, k) = Count(log, i, e, k) + Count(log, e, j, k)
<1> DEFINE left == Positions(log, i, e, k)
           right == Positions(log, e, j, k)
           all == Positions(log, i, j, k)
<1>1. IsFiniteSet(left) /\ IsFiniteSet(right)
  BY CountNat
<1>2. all = left \union right
  BY DEF Positions
<1>3. left \intersect right = {}
  BY DEF Positions
<1> HIDE DEF left, right, all
<1>4. Cardinality(all) = Cardinality(left) + Cardinality(right) - Cardinality(left \intersect right)
  BY <1>1, <1>2, FS_Union
<1>5. Cardinality(left) \in Nat /\ Cardinality(right) \in Nat
  BY <1>1, FS_CardinalityType
<1>6. Cardinality(all) = Cardinality(left) + Cardinality(right)
  BY <1>3, <1>4, <1>5, FS_EmptySet
<1> QED
  BY <1>6 DEF Count, left, right, all

-----------------------------------------------------------------------------
(* The inductive invariant *)

\* Which objects exist and who owns the callback slot, at each point of
\* change_implement_type; a total runs only while nobody is inside it.
Lifecycle ==
  /\ callback_id = callback
  /\ pc = "idle" => live = {implement} /\ callback = implement
  /\ pc # "idle" => /\ implement # next
                    /\ live = {implement, next}
                    /\ callback = next
                    /\ obj[next].start = 0
  /\ pc = "registered" => obj[next].type = "hard"
  /\ total # <<>> => pc = "idle" /\ obj[implement].type = "hard"

\* start_index never passes the end of the log.
StartInLog == \A a \in live : obj[a].start <= Len(records)

IInv == TypeOK /\ Lifecycle /\ StartInLog /\ SumAccounted

\* The invariant holds initially: one object, empty logs, zero counts.
LEMMA InitIInv == Init => IInv
<1> SUFFICES ASSUME Init PROVE IInv
  OBVIOUS
<1> USE DEF Init, Fresh, Zero
<1>1. TypeOK
  BY DEF TypeOK, Object, Types
<1>2. Lifecycle
  BY DEF Lifecycle
<1>3. StartInLog
  BY DEF StartInLog
<1>4. SumAccounted
  <2>1. \A k \in Keys : CountFrom(0, k) = 0
    BY CountEmpty DEF CountFrom
  <2> QED
    BY <2>1 DEF SumAccounted
<1> QED
  BY <1>1, <1>2, <1>3, <1>4 DEF IInv

\* Dropping the expired prefix keeps the accounting, so no count goes negative.
LEMMA DropKeeps ==
  ASSUME IInv, pc = "idle", obj[implement].type = "hard",
         NEW e \in Stops(obj[implement])
  PROVE  LET o == Dropped(obj[implement], e) IN
           /\ e \in Nat /\ e <= Len(records)
           /\ o \in Object
           /\ o.type = "hard"
           /\ o.start = e
           /\ \A k \in Keys : o.sum[k] = overlap[k] + CountFrom(e, k)
<1> DEFINE b == obj[implement]
           o == Dropped(b, e)
<1>1. b \in Object /\ b.start \in Nat /\ b.sum \in [Keys -> Nat] /\ Len(records) \in Nat
  BY DEF IInv, TypeOK, Object
<1>2. b.start <= Len(records)
  BY DEF IInv, StartInLog, Lifecycle
<1>3. e \in b.start .. b.start + Len(records)
  BY DEF Stops
<1>4. \A n \in b.start + 1 .. e : n <= Len(records)
  BY DEF Stops
<1>5. e \in Nat /\ b.start <= e /\ e <= Len(records)
  <2>1. e \in Nat /\ b.start <= e
    BY <1>1, <1>3
  <2>2. e = b.start \/ e \in b.start + 1 .. e
    BY <1>1, <2>1
  <2> QED
    BY <1>2, <1>4, <2>1, <2>2
<1>6. ASSUME NEW k \in Keys
      PROVE  /\ b.sum[k] - Count(records, b.start, e, k) = overlap[k] + CountFrom(e, k)
             /\ overlap[k] + CountFrom(e, k) \in Nat
  <2>1. b.sum[k] = overlap[k] + CountFrom(b.start, k)
    BY AddrsAssumption DEF IInv, Lifecycle, SumAccounted, TypeOK
  <2>2. CountFrom(b.start, k) = Count(records, b.start, e, k) + CountFrom(e, k)
    BY <1>1, <1>5, CountSplit DEF CountFrom
  <2>3. Count(records, b.start, e, k) \in Nat /\ CountFrom(e, k) \in Nat
    BY <1>1, <1>5, CountNat DEF CountFrom
  <2>4. overlap[k] \in Nat
    BY DEF IInv, TypeOK
  <2> QED
    BY <2>1, <2>2, <2>3, <2>4
<1> DEFINE s == [k \in Keys |-> b.sum[k] - Count(records, b.start, e, k)]
<1>7. o = [type |-> b.type, start |-> e, sum |-> s]
  BY <1>1 DEF Dropped, Object
<1>8. s \in [Keys -> Nat] /\ \A k \in Keys : s[k] = overlap[k] + CountFrom(e, k)
  BY <1>6
<1> HIDE DEF s, o
<1>9. o \in Object /\ o.type = b.type /\ o.start = e /\ o.sum = s
  BY <1>1, <1>5, <1>7, <1>8 DEF Object
<1> QED
  BY <1>5, <1>8, <1>9 DEF o

\* Steps that touch neither the log, the objects, the slot nor the switch.
LEMMA QuietStep ==
  ASSUME IInv, TypeOK',
         UNCHANGED <<records, callback, callback_id, live, obj, implement, next, pc, overlap>>,
         total' # <<>> => pc = "idle" /\ obj[implement].type = "hard"
  PROVE  IInv'
<1>1. Lifecycle'
  BY DEF IInv, Lifecycle
<1>2. StartInLog'
  BY DEF IInv, StartInLog
<1>3. SumAccounted'
  BY DEF IInv, SumAccounted, CountFrom
<1> QED
  BY <1>1, <1>2, <1>3 DEF IInv

\* Steps that drop the expired prefix of the object in use.
LEMMA DropStep ==
  ASSUME IInv, TypeOK', pc = "idle", obj[implement].type = "hard",
         NEW e \in Stops(obj[implement]),
         obj' = [obj EXCEPT ![implement] = Dropped(obj[implement], e)],
         UNCHANGED <<records, callback, callback_id, live, implement, next, pc, overlap>>
  PROVE  IInv'
<1> DEFINE o == Dropped(obj[implement], e)
<1>1. /\ e \in Nat /\ e <= Len(records)
      /\ o \in Object
      /\ o.type = "hard"
      /\ o.start = e
      /\ \A k \in Keys : o.sum[k] = overlap[k] + CountFrom(e, k)
  BY DropKeeps
<1> HIDE DEF o
<1>2. obj' = [obj EXCEPT ![implement] = o] /\ obj \in [Addrs -> Object] /\ implement \in Addrs
  BY DEF o, IInv, TypeOK
<1>3. obj'[implement] = o
  BY <1>2
<1>4. live = {implement} /\ callback = implement
  BY DEF IInv, Lifecycle
<1>5. Lifecycle'
  BY <1>1, <1>3 DEF IInv, Lifecycle
<1>6. StartInLog'
  BY <1>1, <1>3, <1>4 DEF StartInLog
<1>7. SumAccounted'
  BY <1>1, <1>3, <1>4 DEF SumAccounted, CountFrom
<1> QED
  BY <1>5, <1>6, <1>7 DEF IInv

LEMMA TickStep == ASSUME IInv, Tick PROVE IInv'
<1>1. TypeOK'
  BY DEF IInv, TypeOK, Tick
<1> QED
  BY <1>1, QuietStep DEF Tick, IInv, Lifecycle

LEMMA StampStep ==
  ASSUME IInv, NEW t \in Threads, NEW ks \in SUBSET Keys, Stamp(t, ks)
  PROVE  IInv'
<1>1. {[key |-> k, time |-> now] : k \in ks} \in SUBSET Press
  BY DEF IInv, TypeOK, Press
<1>2. TypeOK'
  BY <1>1 DEF IInv, TypeOK, Stamp
<1> QED
  BY <1>2, QuietStep DEF Stamp, IInv, Lifecycle

LEMMA CalcNowStep == ASSUME IInv, NEW k \in Keys, CalcNow(k) PROVE IInv'
<1>1. PICK e \in Stops(obj[implement]) :
        /\ obj' = [obj EXCEPT ![implement] = Dropped(obj[implement], e)]
        /\ ret' = Dropped(obj[implement], e).sum[k]
  BY DEF CalcNow
<1>2. pc = "idle" /\ obj[implement].type = "hard"
  BY DEF CalcNow, LockCFree
<1>3. Dropped(obj[implement], e) \in Object
  BY <1>2, DropKeeps
<1>4. ret' \in Int
  BY <1>1, <1>3 DEF Object
<1>5. TypeOK'
  BY <1>1, <1>3, <1>4 DEF IInv, TypeOK, CalcNow
<1> QED
  BY <1>1, <1>2, <1>5, DropStep DEF CalcNow

LEMMA TotalBeginStep == ASSUME IInv, NEW ks \in Vectors, TotalBegin(ks) PROVE IInv'
<1>1. [left |-> ks, done |-> <<>>, acc |-> 0, from |-> now] \in Total
  BY VectorsAssumption DEF IInv, TypeOK, Total
<1>2. TypeOK'
  BY <1>1 DEF IInv, TypeOK, TotalBegin
<1> QED
  BY <1>2, QuietStep DEF TotalBegin, LockCFree, IInv

LEMMA TotalStepStep == ASSUME IInv, TotalStep PROVE IInv'
<1>1. pc = "idle" /\ obj[implement].type = "hard"
  BY DEF TotalStep, IInv, Lifecycle
<1>2. PICK e \in Stops(obj[implement]) :
        /\ obj' = [obj EXCEPT ![implement] = Dropped(obj[implement], e)]
        /\ total' = <<[left |-> Tail(total[1].left),
                       done |-> Append(total[1].done, Head(total[1].left)),
                       acc |-> total[1].acc + Dropped(obj[implement], e).sum[Head(total[1].left)],
                       from |-> total[1].from]>>
  BY DEF TotalStep
<1>3. Dropped(obj[implement], e) \in Object
  BY <1>1, DropKeeps
<1>4. total[1] \in Total
  BY DEF IInv, TypeOK, TotalStep
<1> DEFINE r == total'[1]
<1>5. /\ Tail(total[1].left) \in Seq(Keys)
      /\ Head(total[1].left) \in Keys
  BY <1>4 DEF Total, TotalStep
<1>6. Append(total[1].done, Head(total[1].left)) \in Seq(Keys)
  BY <1>4, <1>5 DEF Total
<1>7. total[1].acc + Dropped(obj[implement], e).sum[Head(total[1].left)] \in Int
  BY <1>3, <1>4, <1>5 DEF Total, Object
<1>8. total' \in Seq(Total) /\ Len(total') <= 1
  BY <1>2, <1>4, <1>5, <1>6, <1>7 DEF Total
<1>9. TypeOK'
  BY <1>2, <1>3, <1>8 DEF IInv, TypeOK, TotalStep
<1> QED
  BY <1>1, <1>2, <1>9, DropStep DEF TotalStep

LEMMA TotalEndStep == ASSUME IInv, TotalEnd PROVE IInv'
<1>1. total[1] \in Total
  BY DEF IInv, TypeOK, TotalEnd
<1>2. total[1].acc \in Int
  BY <1>1 DEF Total
<1>3. TypeOK'
  BY <1>2 DEF IInv, TypeOK, TotalEnd
<1> QED
  BY <1>3, QuietStep DEF TotalEnd

\* on_key_down adds one to the count of its key, for a hard object only.
LEMMA CountPressFacts ==
  ASSUME NEW o \in Object, NEW k \in Keys
  PROVE  /\ CountPress(o, k) \in Object
         /\ CountPress(o, k).type = o.type
         /\ CountPress(o, k).start = o.start
         /\ \A j \in Keys : CountPress(o, k).sum[j] =
              o.sum[j] + (IF o.type = "hard" /\ j = k THEN 1 ELSE 0)
<1>1. o.sum \in [Keys -> Nat]
  BY DEF Object
<1>2. CASE o.type = "hard"
  <2>1. CountPress(o, k) = [o EXCEPT !.sum = [o.sum EXCEPT ![k] = o.sum[k] + 1]]
    BY <1>2 DEF CountPress, Object
  <2> QED
    BY <1>1, <1>2, <2>1 DEF Object
<1>3. CASE o.type # "hard"
  BY <1>1, <1>3 DEF CountPress
<1> QED
  BY <1>2, <1>3

LEMMA NotifyStep == ASSUME IInv, NEW t \in Threads, Notify(t) PROVE IInv'
<1>0. TypeOK /\ Lifecycle /\ StartInLog /\ SumAccounted
  BY DEF IInv
<1>1. PICK p \in stamped[t] :
        /\ stamped' = [stamped EXCEPT ![t] = @ \ {p}]
        /\ records' = Append(records, p)
        /\ obj' = IF callback = "none" THEN obj
                  ELSE [obj EXCEPT ![callback] = CountPress(@, p.key)]
        /\ overlap' = IF pc = "registered" /\ obj[next].type = "hard"
                      THEN [overlap EXCEPT ![p.key] = @ + 1] ELSE overlap
  BY DEF Notify, Pushed
<1>2. p \in Press /\ p.key \in Keys
  BY <1>0 DEF TypeOK, Press
<1>3. callback \in Addrs /\ callback # "none"
  BY <1>0, AddrsAssumption DEF TypeOK, Lifecycle
<1> DEFINE b == obj[callback]
           o == CountPress(b, p.key)
<1>4. b \in Object /\ b.start \in Nat /\ b.start <= Len(records)
  BY <1>0, <1>3 DEF TypeOK, Object, Lifecycle, StartInLog
<1>5. /\ o \in Object /\ o.type = b.type /\ o.start = b.start
      /\ \A j \in Keys : o.sum[j] =
           b.sum[j] + (IF b.type = "hard" /\ j = p.key THEN 1 ELSE 0)
  BY <1>2, <1>4, CountPressFacts
<1> HIDE DEF o
<1>6. obj' = [obj EXCEPT ![callback] = o]
  BY <1>1, <1>3 DEF o
<1>7. Len(records') = Len(records) + 1 /\ records' \in Seq(Press) /\ Len(records) \in Nat
  BY <1>0, <1>1, <1>2 DEF TypeOK
<1>8. obj \in [Addrs -> Object]
  BY <1>0 DEF TypeOK
<1>9. TypeOK'
  <2>1. stamped' \in [Threads -> SUBSET Press]
    BY <1>0, <1>1 DEF TypeOK
  <2>2. overlap' \in [Keys -> Nat]
    BY <1>0, <1>1, <1>2 DEF TypeOK
  <2>3. obj' \in [Addrs -> Object]
    BY <1>5, <1>6, <1>8
  <2> QED
    BY <1>0, <1>7, <2>1, <2>2, <2>3 DEF TypeOK, Notify
<1>10. \A a \in Addrs : obj'[a].type = obj[a].type /\ obj'[a].start = obj[a].start
  BY <1>5, <1>6, <1>8
<1>11. next \in Addrs /\ implement \in Addrs /\ live \in SUBSET Addrs
  BY <1>0 DEF TypeOK
<1>12. Lifecycle'
  BY <1>0, <1>10, <1>11 DEF Lifecycle, Notify
<1>13. StartInLog'
  <2> SUFFICES ASSUME NEW a \in live PROVE obj'[a].start <= Len(records')
    BY DEF StartInLog, Notify
  <2>1. obj[a] \in Object /\ obj[a].start \in Nat
    BY <1>8, <1>11 DEF Object
  <2> QED
    BY <1>0, <1>7, <1>10, <1>11, <2>1 DEF StartInLog
<1>14. SumAccounted'
  <2> SUFFICES ASSUME b.type = "hard", NEW k \in Keys
               PROVE  o.sum[k] = overlap'[k] +
                        (IF pc = "registered" THEN 0 ELSE Count(records', b.start, Len(records'), k))
    BY <1>3, <1>5, <1>6, <1>8 DEF SumAccounted, CountFrom, Notify
  <2>1. b.sum[k] = overlap[k] +
          (IF pc = "registered" THEN 0 ELSE CountFrom(b.start, k))
    BY <1>0, <1>3 DEF SumAccounted
  <2>2. Count(records', b.start, Len(records'), k) =
          CountFrom(b.start, k) + (IF p.key = k THEN 1 ELSE 0)
    BY <1>0, <1>1, <1>2, <1>4, <1>7, CountAppend DEF CountFrom, TypeOK
  <2>3. CountFrom(b.start, k) \in Nat /\ overlap[k] \in Nat
    BY <1>0, <1>4, <1>7, CountNat DEF CountFrom, TypeOK
  <2>4. o.sum[k] = b.sum[k] + (IF p.key = k THEN 1 ELSE 0)
    BY <1>5
  <2>5. CASE pc = "registered"
    <3>1. overlap' = [overlap EXCEPT ![p.key] = @ + 1]
      BY <1>0, <1>1, <2>5 DEF Lifecycle
    <3> QED
      BY <1>0, <1>2, <2>1, <2>3, <2>4, <2>5, <3>1 DEF TypeOK
  <2>6. CASE pc # "registered"
    <3>1. overlap' = overlap
      BY <1>1, <2>6
    <3> QED
      BY <2>1, <2>2, <2>3, <2>4, <2>6, <3>1
  <2> QED
    BY <2>5, <2>6
<1> QED
  BY <1>9, <1>12, <1>13, <1>14 DEF IInv

\* The members of a cleared or new object.
LEMMA FreshFacts ==
  ASSUME NEW type \in Types
  PROVE  /\ Fresh(type) \in Object
         /\ Fresh(type).type = type
         /\ Fresh(type).start = 0
         /\ \A k \in Keys : Fresh(type).sum[k] = 0
BY DEF Fresh, Zero, Object

LEMMA ClearStep == ASSUME IInv, Clear PROVE IInv'
<1>0. TypeOK /\ Lifecycle /\ pc = "idle" /\ total = <<>>
  BY DEF IInv, Clear, LockCFree
<1> DEFINE o == Fresh(obj[implement].type)
<1>1. obj[implement] \in Object /\ obj[implement].type \in Types
  BY <1>0 DEF TypeOK, Object
<1>2. o \in Object /\ o.start = 0 /\ \A k \in Keys : o.sum[k] = 0
  BY <1>1, FreshFacts
<1>3. obj' = [obj EXCEPT ![implement] = o]
  BY DEF Clear, Cleared
<1> HIDE DEF o
<1>4. obj'[implement] = o
  BY <1>0, <1>3 DEF TypeOK
<1>5. records' = <<>> /\ overlap' = [k \in Keys |-> 0]
  BY DEF Clear, Zero
<1>6. TypeOK'
  BY <1>0, <1>2, <1>3, <1>5 DEF TypeOK, Clear
<1>7. Lifecycle'
  BY <1>0, <1>4 DEF Lifecycle, Clear
<1>8. StartInLog'
  BY <1>0, <1>2, <1>4, <1>5 DEF StartInLog, Lifecycle, Clear
<1>9. SumAccounted'
  <2>1. \A k \in Keys : CountFrom(0, k)' = 0
    BY <1>5, CountEmpty DEF CountFrom
  <2>2. callback' = implement /\ pc' = "idle"
    BY <1>0 DEF Clear, Lifecycle
  <2> QED
    BY <1>2, <1>4, <1>5, <2>1, <2>2 DEF SumAccounted
<1> QED
  BY <1>6, <1>7, <1>8, <1>9 DEF IInv

LEMMA ChangeBeginStep ==
  ASSUME IInv, NEW type \in Offered, NEW a \in Addrs, ChangeBegin(type, a)
  PROVE  IInv'
<1>0. TypeOK /\ Lifecycle /\ StartInLog /\ pc = "idle" /\ total = <<>>
  BY DEF IInv, ChangeBegin, LockCFree
<1>1. live = {implement} /\ a # implement /\ implement \in Addrs
  BY <1>0 DEF Lifecycle, ChangeBegin, TypeOK
<1> DEFINE o == Fresh(type)
<1>2. type \in Types
  BY OfferedAssumption
<1>3. o \in Object /\ o.type = type /\ o.start = 0 /\ \A k \in Keys : o.sum[k] = 0
  BY <1>2, FreshFacts
<1>4. obj' = [obj EXCEPT ![a] = o] /\ obj \in [Addrs -> Object]
  BY <1>0 DEF ChangeBegin, TypeOK
<1> HIDE DEF o
<1>5. obj'[a] = o /\ obj'[implement] = obj[implement]
  BY <1>1, <1>4
<1>6. overlap' = [k \in Keys |-> 0]
  BY DEF ChangeBegin, Zero
<1>7. TypeOK'
  <2>1. pc' \in {"registered", "constructed"}
    BY DEF ChangeBegin
  <2>2. obj' \in [Addrs -> Object]
    BY <1>3, <1>4
  <2> QED
    BY <1>0, <1>6, <2>1, <2>2 DEF TypeOK, ChangeBegin, Registered
<1>8. Lifecycle'
  BY <1>0, <1>1, <1>3, <1>5 DEF Lifecycle, ChangeBegin, Registered
<1>9. StartInLog'
  <2>1. Len(records) \in Nat
    BY <1>0 DEF TypeOK
  <2> QED
    BY <1>0, <1>1, <1>3, <1>5, <2>1 DEF StartInLog, ChangeBegin
<1>10. SumAccounted'
  BY <1>3, <1>5, <1>6 DEF SumAccounted, ChangeBegin, Registered
<1> QED
  BY <1>7, <1>8, <1>9, <1>10 DEF IInv

LEMMA ChangeCountStep == ASSUME IInv, ChangeCount PROVE IInv'
<1>0. TypeOK /\ Lifecycle /\ StartInLog /\ SumAccounted /\ pc = "registered"
  BY DEF IInv, ChangeCount
<1> DEFINE b == obj[next]
           s == [k \in Keys |-> b.sum[k] + CountFrom(0, k)]
           o == [b EXCEPT !.sum = s]
<1>1. /\ b \in Object /\ b.type = "hard" /\ b.start = 0 /\ next \in Addrs
      /\ callback = next /\ live = {implement, next} /\ implement # next
      /\ implement \in Addrs
  BY <1>0 DEF TypeOK, Lifecycle
<1>2. \A k \in Keys : CountFrom(0, k) \in Nat /\ b.sum[k] \in Nat
  BY <1>0, <1>1, CountNat DEF CountFrom, TypeOK, Object
<1>3. s \in [Keys -> Nat] /\ \A k \in Keys : s[k] = b.sum[k] + CountFrom(0, k)
  BY <1>2
<1>4. obj' = [obj EXCEPT ![next] = o] /\ obj \in [Addrs -> Object]
  BY <1>0 DEF ChangeCount, Counted, TypeOK
<1> HIDE DEF s
<1>5. o \in Object /\ o.type = "hard" /\ o.start = 0 /\ o.sum = s
  BY <1>1, <1>3 DEF Object
<1> HIDE DEF o
<1>6. obj'[next] = o /\ obj'[implement] = obj[implement]
  BY <1>1, <1>4
<1>7. TypeOK'
  BY <1>0, <1>4, <1>5 DEF TypeOK, ChangeCount
<1>8. Lifecycle'
  BY <1>0, <1>1, <1>5, <1>6 DEF Lifecycle, ChangeCount
<1>9. StartInLog'
  <2>1. Len(records) \in Nat
    BY <1>0 DEF TypeOK
  <2> QED
    BY <1>0, <1>1, <1>5, <1>6, <2>1 DEF StartInLog, ChangeCount
<1>10. SumAccounted'
  <2>1. \A k \in Keys : b.sum[k] = overlap[k]
    BY <1>0, <1>1, AddrsAssumption DEF SumAccounted, TypeOK
  <2>2. \A k \in Keys : s[k] = overlap[k] + CountFrom(0, k)
    BY <1>3, <2>1
  <2> QED
    BY <1>1, <1>5, <1>6, <2>2 DEF SumAccounted, ChangeCount, CountFrom
<1> QED
  BY <1>7, <1>8, <1>9, <1>10 DEF IInv

LEMMA ChangeSwapStep == ASSUME IInv, ChangeSwap PROVE IInv'
<1>0. TypeOK /\ Lifecycle /\ StartInLog /\ SumAccounted /\ pc = "constructed"
  BY DEF IInv, ChangeSwap
<1>1. /\ callback = next /\ callback_id = next /\ implement # next
      /\ live = {implement, next} /\ implement \in Addrs /\ next \in Addrs
      /\ total = <<>>
  BY <1>0 DEF TypeOK, Lifecycle
<1>2. implement' = next /\ callback' = next /\ live' = {next}
  BY <1>1 DEF ChangeSwap, Unregistered
<1>3. Fresh("hard") \in Object
  BY FreshFacts DEF Types
<1>4. obj'[next] = obj[next] /\ obj' \in [Addrs -> Object]
  BY <1>0, <1>1, <1>3 DEF ChangeSwap, TypeOK
<1>5. TypeOK'
  BY <1>0, <1>1, <1>2, <1>4 DEF TypeOK, ChangeSwap
<1>6. Lifecycle'
  BY <1>1, <1>2 DEF Lifecycle, ChangeSwap
<1>7. StartInLog'
  BY <1>0, <1>1, <1>2, <1>4 DEF StartInLog, ChangeSwap
<1>8. SumAccounted'
  BY <1>0, <1>1, <1>2, <1>4 DEF SumAccounted, ChangeSwap, CountFrom
<1> QED
  BY <1>5, <1>6, <1>7, <1>8 DEF IInv

\* Every step, the stuttering one included, preserves the invariant.
LEMMA NextIInv == IInv /\ [Next]_vars => IInv'
<1> SUFFICES ASSUME IInv, [Next]_vars PROVE IInv'
  OBVIOUS
<1>1. CASE Tick
  BY <1>1, TickStep
<1>2. ASSUME NEW t \in Threads, NEW ks \in SUBSET Keys, Stamp(t, ks) PROVE IInv'
  BY <1>2, StampStep
<1>3. ASSUME NEW t \in Threads, Notify(t) PROVE IInv'
  BY <1>3, NotifyStep
<1>4. CASE Calc
  BY <1>4, CalcNowStep, TotalBeginStep, TotalStepStep, TotalEndStep DEF Calc
<1>5. CASE Clear
  BY <1>5, ClearStep
<1>6. CASE Change
  BY <1>6, ChangeBeginStep, ChangeCountStep, ChangeSwapStep DEF Change
<1>7. CASE UNCHANGED vars
  <2>1. TypeOK'
    BY <1>7 DEF vars, IInv, TypeOK
  <2> QED
    BY <1>7, <2>1, QuietStep DEF vars, IInv, Lifecycle
<1> QED
  BY <1>1, <1>2, <1>3, <1>4, <1>5, <1>6, <1>7 DEF Next

\* The whole invariant holds in every reachable state.
LEMMA Invariance == Spec => []IInv
  BY InitIInv, NextIInv, PTL DEF Spec
-----------------------------------------------------------------------------
(* Theorems *)

\* Every variable keeps its type; in particular no running count of any object
\* ever goes negative, although counts are decremented long after they were
\* incremented and by a different object's idea of the log.
THEOREM TypeCorrect == Spec => []TypeOK
<1>1. IInv => TypeOK
  BY DEF IInv
<1> QED
  BY <1>1, Invariance, PTL

\* For any number of threads and switches the callback is bound to an object
\* that exists, and outside a switch to the implementation in use.
THEOREM CallbackFollows == Spec => []SlotOwned
<1>1. IInv => NoDanglingCallback
  BY DEF IInv, Lifecycle, NoDanglingCallback, TypeOK
<1>2. IInv => CallbackIsImplement
  BY DEF IInv, Lifecycle, CallbackIsImplement
<1>3. IInv => SlotOwned
  BY <1>1, <1>2 DEF SlotOwned
<1> QED
  BY <1>3, Invariance, PTL

\* The running counts differ from a recount of the log by exactly the presses
\* delivered between the registration and the count of a new object: none is
\* ever lost, and nothing else is counted twice.
THEOREM CountsAccounted == Spec => []SumAccounted
<1>1. IInv => SumAccounted
  BY DEF IInv
<1> QED
  BY <1>1, Invariance, PTL

-----------------------------------------------------------------------------
(* One delivering thread *)

\* With at most one monitor thread (every monitor but the hook monitor).
OneThread == \A t, u \in Threads : t = u

\* Times in the order log, presses being delivered, now; the presses a thread
\* is delivering share one reading of the clock; what lies before start_index
\* has expired.
Chronology ==
  /\ RecordsOrdered
  /\ \A n \in 1 .. Len(records) : records[n].time <= now
  /\ \A t \in Threads : \A p \in stamped[t] :
       /\ p.time <= now
       /\ \A q \in stamped[t] : p.time = q.time
       /\ \A n \in 1 .. Len(records) : records[n].time <= p.time
  /\ \A a \in live : \A n \in 1 .. obj[a].start : Expired(records[n])

LEMMA InitChronology == Init => Chronology
<1> SUFFICES ASSUME Init PROVE Chronology
  OBVIOUS
<1>1. records = <<>> /\ \A t \in Threads : stamped[t] = {}
  BY DEF Init
<1>2. \A a \in live : obj[a].start = 0
  BY DEF Init, Fresh
<1> QED
  BY <1>1, <1>2 DEF Chronology, RecordsOrdered

\* A step that leaves the log and the presses being delivered alone, and moves
\* no start_index forward, keeps the chronology.
LEMMA SameLogChronology ==
  ASSUME IInv, Chronology, UNCHANGED <<now, records, stamped>>,
         \A a \in live' : \/ a \in live /\ obj'[a].start = obj[a].start
                          \/ obj'[a].start = 0
  PROVE  Chronology'
<1>1. RecordsOrdered'
  BY DEF Chronology, RecordsOrdered
<1>2. \A a \in live' : \A n \in 1 .. obj'[a].start : Expired(records[n])
  BY DEF Chronology
<1> QED
  BY <1>1, <1>2 DEF Chronology, Expired

LEMMA DropChronology ==
  ASSUME IInv, Chronology, pc = "idle", obj[implement].type = "hard",
         NEW e \in Stops(obj[implement]),
         obj' = [obj EXCEPT ![implement] = Dropped(obj[implement], e)],
         UNCHANGED <<now, records, stamped, live, implement>>
  PROVE  Chronology'
<1> DEFINE b == obj[implement]
<1>1. live = {implement} /\ implement \in Addrs /\ obj \in [Addrs -> Object]
  BY DEF IInv, TypeOK, Lifecycle
<1>2. obj'[implement].start = e /\ e \in Nat
  BY <1>1, DropKeeps
<1>3. b.start \in Nat
  BY <1>1 DEF Object
<1>4. \A n \in b.start + 1 .. e : Expired(records[n])
  BY DEF Stops
<1>5. \A n \in 1 .. b.start : Expired(records[n])
  BY <1>1 DEF Chronology
<1>6. \A n \in 1 .. e : Expired(records[n])
  BY <1>2, <1>3, <1>4, <1>5
<1>7. RecordsOrdered'
  BY DEF Chronology, RecordsOrdered
<1>8. \A a \in live' : \A n \in 1 .. obj'[a].start : Expired(records[n])
  BY <1>1, <1>2, <1>6
<1> QED
  BY <1>7, <1>8 DEF Chronology, Expired

LEMMA TickChronology == ASSUME IInv, Chronology, Tick PROVE Chronology'
<1>1. now \in Nat /\ now' = now + 1 /\ FrameLength \in Nat
  BY NumbersAssumption DEF IInv, TypeOK, Tick
<1>2. \A n \in 1 .. Len(records) : records[n].time \in Nat
  <2>1. \A n \in 1 .. Len(records) : records[n] \in Press
    BY DEF IInv, TypeOK
  <2> QED
    BY <2>1 DEF Press
<1>3. \A t \in Threads : \A p \in stamped[t] : p.time \in Nat
  BY DEF IInv, TypeOK, Press
<1>4. RecordsOrdered'
  BY DEF Chronology, RecordsOrdered, Tick
<1>5. \A n \in 1 .. Len(records) : records[n].time <= now'
  BY <1>1, <1>2 DEF Chronology
<1>6. \A t \in Threads : \A p \in stamped[t] : p.time <= now'
  BY <1>1, <1>3 DEF Chronology
<1>7. ASSUME NEW a \in live, NEW n \in 1 .. obj[a].start
      PROVE  now' - records[n].time > FrameLength
  <2>1. now - records[n].time > FrameLength
    BY <1>7 DEF Chronology, Expired
  <2>2. obj[a].start \in Nat /\ obj[a].start <= Len(records) /\ Len(records) \in Nat
    BY DEF IInv, TypeOK, StartInLog, Object
  <2>3. records[n].time \in Nat
    BY <1>2, <2>2
  <2> QED
    BY <1>1, <2>1, <2>3
<1> QED
  BY <1>4, <1>5, <1>6, <1>7 DEF Chronology, Expired, Tick

LEMMA StampChronology ==
  ASSUME IInv, Chronology, NEW t \in Threads, NEW ks \in SUBSET Keys, Stamp(t, ks)
  PROVE  Chronology'
<1>1. now \in Nat /\ stamped \in [Threads -> SUBSET Press]
  BY DEF IInv, TypeOK
<1>2. stamped' = [stamped EXCEPT ![t] = {[key |-> k, time |-> now] : k \in ks}]
  BY DEF Stamp
<1>4. \A p \in stamped'[t] : p.time = now
  BY <1>1, <1>2
<1>5. \A u \in Threads : u # t => stamped'[u] = stamped[u]
  BY <1>1, <1>2
<1>6. RecordsOrdered'
  BY DEF Chronology, RecordsOrdered, Stamp
<1>7. ASSUME NEW u \in Threads, NEW p \in stamped'[u]
      PROVE  /\ p.time <= now
             /\ \A q \in stamped'[u] : p.time = q.time
             /\ \A n \in 1 .. Len(records) : records[n].time <= p.time
  <2>1. CASE u = t
    BY <1>1, <1>4, <1>7, <2>1 DEF Chronology
  <2>2. CASE u # t
    BY <1>5, <1>7, <2>2 DEF Chronology
  <2> QED
    BY <2>1, <2>2
<1> QED
  BY <1>6, <1>7 DEF Chronology, Expired, Stamp

LEMMA NotifyChronology ==
  ASSUME OneThread, IInv, Chronology, NEW t \in Threads, Notify(t)
  PROVE  Chronology'
<1>1. PICK p \in stamped[t] :
        /\ stamped' = [stamped EXCEPT ![t] = @ \ {p}]
        /\ records' = Append(records, p)
        /\ obj' = IF callback = "none" THEN obj
                  ELSE [obj EXCEPT ![callback] = CountPress(@, p.key)]
  BY DEF Notify, Pushed
<1>2. /\ records \in Seq(Press) /\ p \in Press /\ Len(records) \in Nat
      /\ obj \in [Addrs -> Object] /\ live \in SUBSET Addrs
      /\ stamped \in [Threads -> SUBSET Press]
  BY DEF IInv, TypeOK
<1>3. /\ Len(records') = Len(records) + 1
      /\ \A n \in 1 .. Len(records) : records'[n] = records[n]
      /\ records'[Len(records) + 1] = p
  BY <1>1, <1>2
<1>4. \A n \in 1 .. Len(records') : n \in 1 .. Len(records) \/ n = Len(records) + 1
  BY <1>2, <1>3
<1>5. p.time \in Nat /\ p.time <= now /\ \A n \in 1 .. Len(records) : records[n].time <= p.time
  BY <1>2 DEF Chronology, Press
<1>6. RecordsOrdered'
  <2> SUFFICES ASSUME NEW i \in 1 .. Len(records'), NEW j \in 1 .. Len(records'), i < j
               PROVE  records'[i].time <= records'[j].time
    BY DEF RecordsOrdered
  <2>1. i \in 1 .. Len(records)
    BY <1>2, <1>3
  <2>2. CASE j \in 1 .. Len(records)
    BY <1>3, <2>1, <2>2 DEF Chronology, RecordsOrdered
  <2>3. CASE j = Len(records) + 1
    BY <1>3, <1>5, <2>1, <2>3
  <2> QED
    BY <1>4, <2>2, <2>3
<1>7. \A n \in 1 .. Len(records') : records'[n].time <= now
  BY <1>3, <1>4, <1>5 DEF Chronology
<1>8. ASSUME NEW u \in Threads, NEW r \in stamped'[u]
      PROVE  /\ r.time <= now
             /\ \A q \in stamped'[u] : r.time = q.time
             /\ \A n \in 1 .. Len(records') : records'[n].time <= r.time
  <2>1. u = t
    BY DEF OneThread
  <2>2. stamped'[u] \subseteq stamped[t] /\ r \in stamped[t]
    BY <1>1, <1>2, <1>8, <2>1
  <2>3. /\ r.time <= now /\ r.time = p.time
        /\ \A q \in stamped[t] : r.time = q.time
        /\ \A n \in 1 .. Len(records) : records[n].time <= r.time
    BY <2>2 DEF Chronology
  <2>4. \A n \in 1 .. Len(records') : records'[n].time <= r.time
    BY <1>3, <1>4, <1>5, <2>3
  <2> QED
    BY <2>2, <2>3, <2>4
<1>9. ASSUME NEW a \in live, NEW n \in 1 .. obj'[a].start
      PROVE  now - records'[n].time > FrameLength
  <2>1. obj'[a].start = obj[a].start
    <3>1. callback = "none" \/ CountPress(obj[callback], p.key).start = obj[callback].start
      BY <1>2, CountPressFacts DEF IInv, TypeOK, Press
    <3> QED
      BY <1>1, <1>2, <3>1
  <2>2. obj[a].start \in Nat /\ obj[a].start <= Len(records)
    BY <1>2 DEF Object, IInv, StartInLog
  <2>3. n \in 1 .. Len(records) /\ n \in 1 .. obj[a].start
    BY <1>2, <1>9, <2>1, <2>2
  <2> QED
    BY <1>3, <2>3 DEF Chronology, Expired
<1> QED
  BY <1>6, <1>7, <1>8, <1>9 DEF Chronology, Expired, Notify

LEMMA ClearChronology == ASSUME IInv, Chronology, Clear PROVE Chronology'
<1>1. records' = <<>> /\ UNCHANGED <<now, stamped, live, implement>>
  BY DEF Clear
<1>2. live = {implement} /\ implement \in Addrs /\ obj \in [Addrs -> Object]
  BY DEF IInv, TypeOK, Lifecycle, Clear, LockCFree
<1>3. obj'[implement].start = 0
  BY <1>2, FreshFacts DEF Clear, Cleared, Object
<1> QED
  BY <1>1, <1>2, <1>3 DEF Chronology, RecordsOrdered

LEMMA ChangeChronology == ASSUME IInv, Chronology, Change PROVE Chronology'
<1>0. UNCHANGED <<now, records, stamped>>
  BY DEF Change, ChangeBegin, ChangeCount, ChangeSwap
<1>1. obj \in [Addrs -> Object] /\ live \in SUBSET Addrs /\ next \in Addrs /\ implement \in Addrs
  BY DEF IInv, TypeOK
<1>2. ASSUME NEW type \in Offered, NEW a \in Addrs, ChangeBegin(type, a)
      PROVE  Chronology'
  <2>1. Fresh(type).start = 0
    BY DEF Fresh
  <2>2. obj' = [obj EXCEPT ![a] = Fresh(type)] /\ live' = live \union {a}
    BY <1>2 DEF ChangeBegin
  <2>3. \A c \in live' : \/ c \in live /\ obj'[c].start = obj[c].start
                         \/ obj'[c].start = 0
    BY <1>1, <2>1, <2>2
  <2> QED
    BY <1>0, <2>3, SameLogChronology
<1>3. CASE ChangeCount
  <2>1. obj' = [obj EXCEPT ![next] = Counted(@)] /\ live' = live
    BY <1>3 DEF ChangeCount
  <2>2. Counted(obj[next]).start = obj[next].start
    BY <1>1 DEF Counted, Object
  <2>3. \A c \in live' : c \in live /\ obj'[c].start = obj[c].start
    BY <1>1, <2>1, <2>2
  <2> QED
    BY <1>0, <2>3, SameLogChronology
<1>4. CASE ChangeSwap
  <2>1. obj' = [obj EXCEPT ![implement] = Fresh("hard")] /\ live' = live \ {implement}
    BY <1>4 DEF ChangeSwap
  <2>2. \A c \in live' : c \in live /\ obj'[c].start = obj[c].start
    BY <1>1, <2>1
  <2> QED
    BY <1>0, <2>2, SameLogChronology
<1> QED
  BY <1>2, <1>3, <1>4 DEF Change

LEMMA CalcChronology == ASSUME IInv, Chronology, Calc PROVE Chronology'
<1>0. UNCHANGED <<now, records, stamped, live, implement>>
  BY DEF Calc, CalcNow, TotalBegin, TotalStep, TotalEnd
<1>1. ASSUME NEW k \in Keys, CalcNow(k) PROVE Chronology'
  BY <1>0, <1>1, DropChronology DEF CalcNow, LockCFree
<1>2. CASE TotalStep
  <2>1. pc = "idle" /\ obj[implement].type = "hard"
    BY <1>2 DEF TotalStep, IInv, Lifecycle
  <2> QED
    BY <1>0, <1>2, <2>1, DropChronology DEF TotalStep
<1>3. ASSUME NEW ks \in Vectors, TotalBegin(ks) PROVE Chronology'
  BY <1>0, <1>3, SameLogChronology DEF TotalBegin
<1>4. CASE TotalEnd
  BY <1>0, <1>4, SameLogChronology DEF TotalEnd
<1> QED
  BY <1>1, <1>2, <1>3, <1>4 DEF Calc

LEMMA NextChronology == OneThread /\ IInv /\ Chronology /\ [Next]_vars => Chronology'
<1> SUFFICES ASSUME OneThread, IInv, Chronology, [Next]_vars PROVE Chronology'
  OBVIOUS
<1>1. CASE Tick
  BY <1>1, TickChronology
<1>2. ASSUME NEW t \in Threads, NEW ks \in SUBSET Keys, Stamp(t, ks) PROVE Chronology'
  BY <1>2, StampChronology
<1>3. ASSUME NEW t \in Threads, Notify(t) PROVE Chronology'
  BY <1>3, NotifyChronology
<1>4. CASE Calc
  BY <1>4, CalcChronology
<1>5. CASE Clear
  BY <1>5, ClearChronology
<1>6. CASE Change
  BY <1>6, ChangeChronology
<1>7. CASE UNCHANGED vars
  BY <1>7, SameLogChronology DEF vars
<1> QED
  BY <1>1, <1>2, <1>3, <1>4, <1>5, <1>6, <1>7 DEF Next

\* With one delivering thread the log ascends by time, as the loop that drops its
\* prefix needs.
THEOREM LogOrdered == OneThread => (Spec => []RecordsOrdered)
<1> SUFFICES ASSUME OneThread PROVE Spec => []RecordsOrdered
  OBVIOUS
<1>1. IInv /\ Chronology /\ [Next]_vars => Chronology'
  BY NextChronology
<1>2. Chronology => RecordsOrdered
  BY DEF Chronology
<1> QED
  BY <1>1, <1>2, Invariance, InitChronology, PTL DEF Spec

\* The loop leaves as many records of a key behind start_index as there are in the
\* window.
LEMMA StopIsWindow ==
  ASSUME IInv, Chronology, NEW k \in Keys, pc = "idle", obj[implement].type = "hard",
         NEW e \in Stops(obj[implement])
  PROVE  Dropped(obj[implement], e).sum[k] = InWindow(k, now) + overlap[k]
<1>1. e \in Stops(obj[implement])
  OBVIOUS
<1>2. pc = "idle" /\ obj[implement].type = "hard"
  OBVIOUS
<1>3. e \in Nat /\ e <= Len(records) /\ Dropped(obj[implement], e).sum[k] = overlap[k] + CountFrom(e, k)
  BY <1>1, <1>2, DropKeeps
<1>4. /\ obj[implement].start \in Nat /\ Len(records) \in Nat /\ implement \in live
      /\ now \in Nat
  BY <1>2 DEF IInv, TypeOK, Object, Lifecycle
<1>5. \A n \in 1 .. Len(records) : records[n].time \in Nat
  <2>1. \A n \in 1 .. Len(records) : records[n] \in Press
    BY DEF IInv, TypeOK
  <2> QED
    BY <2>1 DEF Press
<1>6. \A n \in 1 .. e : ~(now - records[n].time <= FrameLength)
  <2>1. \A n \in 1 .. obj[implement].start : Expired(records[n])
    BY <1>4 DEF Chronology
  <2>2. \A n \in obj[implement].start + 1 .. e : Expired(records[n])
    BY DEF Stops
  <2>3. \A n \in 1 .. e : Expired(records[n])
    BY <1>3, <1>4, <2>1, <2>2
  <2> QED
    BY <1>3, <1>4, <1>5, <2>3, NumbersAssumption DEF Expired
<1>7. \A n \in e + 1 .. Len(records) : now - records[n].time <= FrameLength
  <2> SUFFICES ASSUME NEW n \in e + 1 .. Len(records) PROVE now - records[n].time <= FrameLength
    OBVIOUS
  <2>1. e < Len(records) /\ e + 1 \in 1 .. Len(records) /\ n \in 1 .. Len(records)
    BY <1>3, <1>4
  <2>2. ~(now - records[e + 1].time > FrameLength)
    BY <2>1 DEF Stops, Expired
  <2>3. records[e + 1].time <= records[n].time
    BY <1>3, <1>5, <2>1 DEF Chronology, RecordsOrdered
  <2> QED
    BY <1>4, <1>5, <2>1, <2>2, <2>3, NumbersAssumption
<1>8. {n \in 1 .. Len(records) : records[n].key = k /\ now - records[n].time <= FrameLength}
        = Positions(records, e, Len(records), k)
  BY <1>3, <1>4, <1>6, <1>7 DEF Positions
<1>9. InWindow(k, now) = CountFrom(e, k) /\ CountFrom(e, k) \in Nat /\ overlap[k] \in Nat
  BY <1>3, <1>4, <1>8, CountNat DEF InWindow, CountFrom, Count, IInv, TypeOK
<1> QED
  BY <1>3, <1>9

\* A single-key read returns that number.
LEMMA ReadIsWindow ==
  ASSUME IInv, Chronology, NEW k \in Keys, CalcNow(k)
  PROVE  ret' = InWindow(k, now) + overlap[k]
<1>1. PICK e \in Stops(obj[implement]) : ret' = Dropped(obj[implement], e).sum[k]
  BY DEF CalcNow
<1>2. pc = "idle" /\ obj[implement].type = "hard"
  BY DEF CalcNow, LockCFree
<1> QED BY <1>1, <1>2, StopIsWindow

\* With one delivering thread every single-key number returned is the number of
\* presses of that key in the last frame, plus the overlap of the last switch.
THEOREM ReadsExact == OneThread => (Spec => ReadsWindow)
<1> SUFFICES ASSUME OneThread PROVE Spec => ReadsWindow
  OBVIOUS
<1>1. IInv /\ Chronology /\ [Next]_vars => Chronology'
  BY NextChronology
<1>2. IInv /\ Chronology /\ [Next]_vars =>
        [\A k \in Keys : CalcNow(k) => ret' = InWindow(k, now) + overlap[k]]_vars
  BY ReadIsWindow
<1> QED
  BY <1>1, <1>2, Invariance, InitChronology, PTL DEF Spec, ReadsWindow

-----------------------------------------------------------------------------
(* Sums over a key vector *)

\* f holds the sums of the values v of the first keys of s.
Prefixes(f, s, v) ==
  /\ f \in [0 .. Len(s) -> Nat]
  /\ f[0] = 0
  /\ \A n \in 1 .. Len(s) : f[n] = f[n - 1] + v[s[n]]

Values == [Keys -> Nat]

LEMMA PrefixesThere ==
  ASSUME NEW s \in Seq(Keys), NEW v \in Values
  PROVE  \E f : Prefixes(f, s, v)
<1> DEFINE step == [p \in Nat \X (0 + 1 .. Len(s)) |-> p[1] + v[s[p[2]]]]
<1>1. Len(s) \in Int /\ 0 <= Len(s) /\ 0 \in Int
  OBVIOUS
<1>2. \A n \in 1 .. Len(s) : s[n] \in Keys /\ v[s[n]] \in Nat
  BY DEF Values
<1>3. \A x \in Nat, i \in 0 + 1 .. Len(s) : step[<<x, i>>] = x + v[s[i]] /\ step[<<x, i>>] \in Nat
  BY <1>2
<1> HIDE DEF step
<1>4. PICK g \in [0 .. Len(s) -> Nat] : Loop(g, 0, Len(s), 0, step)
  BY <1>1, <1>3, LoopRuns
<1>5. g[0] = 0
  BY <1>1, <1>4 DEF Loop
<1>6. ASSUME NEW n \in 1 .. Len(s) PROVE g[n] = g[n - 1] + v[s[n]]
  <2>1. n \in 0 .. Len(s) /\ n - 1 \in 0 .. Len(s) /\ n # 0 /\ n \in 0 + 1 .. Len(s)
    BY <1>1
  <2>2. g[n] = step[<<g[n - 1], n>>]
    BY <1>4, <2>1 DEF Loop
  <2>3. g[n - 1] \in Nat
    BY <1>4, <2>1
  <2> QED BY <1>3, <2>1, <2>2, <2>3
<1>7. Prefixes(g, s, v)
  BY <1>4, <1>5, <1>6 DEF Prefixes
<1> QED BY <1>7

\* Larger values have a larger sum.
LEMMA PrefixesGrow ==
  ASSUME NEW s \in Seq(Keys), NEW v \in Values, NEW w \in Values, \A k \in Keys : v[k] <= w[k],
         NEW f, NEW g, Prefixes(f, s, v), Prefixes(g, s, w)
  PROVE  f[Len(s)] <= g[Len(s)]
<1> DEFINE S == {n \in 0 .. Len(s) : f[n] <= g[n]}
<1>1. Len(s) \in Int /\ 0 <= Len(s) /\ 0 \in Int /\ 0 \in 0 .. Len(s)
  OBVIOUS
<1>2. 0 \in S
  BY <1>1 DEF Prefixes
<1>3. ASSUME NEW n \in 0 + 1 .. Len(s), n - 1 \in S PROVE n \in S
  <2>1. n \in 1 .. Len(s) /\ n \in 0 .. Len(s) /\ n - 1 \in 0 .. Len(s) /\ f[n - 1] <= g[n - 1]
    BY <1>1, <1>3
  <2>2. f[n] = f[n - 1] + v[s[n]] /\ g[n] = g[n - 1] + w[s[n]]
    BY <2>1 DEF Prefixes
  <2>3. s[n] \in Keys
    BY <2>1
  <2>4. v[s[n]] <= w[s[n]] /\ v[s[n]] \in Nat /\ w[s[n]] \in Nat
    BY <2>3 DEF Values
  <2>5. f[n - 1] \in Nat /\ g[n - 1] \in Nat
    BY <2>1 DEF Prefixes
  <2>6. f[n] <= g[n]
    BY <2>1, <2>2, <2>4, <2>5
  <2> QED BY <2>1, <2>6
<1>4. 0 .. Len(s) \subseteq S
  <2> HIDE DEF S
  <2> QED BY <1>1, <1>2, <1>3, InductTo
<1>5. Len(s) \in S
  BY <1>1, <1>4
<1> QED BY <1>5

\* Equal values have equal sums.
LEMMA PrefixesSame ==
  ASSUME NEW s \in Seq(Keys), NEW v \in Values, NEW f, NEW g, Prefixes(f, s, v), Prefixes(g, s, v)
  PROVE  f[Len(s)] = g[Len(s)]
<1>1. \A k \in Keys : v[k] <= v[k]
  BY DEF Values
<1>2. f[Len(s)] <= g[Len(s)] /\ g[Len(s)] <= f[Len(s)]
  BY <1>1, PrefixesGrow
<1>3. f[Len(s)] \in Nat /\ g[Len(s)] \in Nat
  <2>1. Len(s) \in 0 .. Len(s)
    OBVIOUS
  <2> QED BY <2>1 DEF Prefixes
<1> QED BY <1>2, <1>3

SumUp(s, v) == CHOOSE t : \E f : Prefixes(f, s, v) /\ t = f[Len(s)]

LEMMA SumIs ==
  ASSUME NEW s \in Seq(Keys), NEW v \in Values, NEW f, Prefixes(f, s, v)
  PROVE  SumUp(s, v) = f[Len(s)] /\ SumUp(s, v) \in Nat
<1>1. \E f1 : Prefixes(f1, s, v) /\ SumUp(s, v) = f1[Len(s)]
  BY DEF SumUp
<1>2. SumUp(s, v) = f[Len(s)]
  BY <1>1, PrefixesSame
<1>3. Len(s) \in 0 .. Len(s)
  OBVIOUS
<1> QED BY <1>2, <1>3 DEF Prefixes

LEMMA SumType == ASSUME NEW s \in Seq(Keys), NEW v \in Values PROVE SumUp(s, v) \in Nat
  BY PrefixesThere, SumIs

LEMMA SumGrows ==
  ASSUME NEW s \in Seq(Keys), NEW v \in Values, NEW w \in Values, \A k \in Keys : v[k] <= w[k]
  PROVE  SumUp(s, v) <= SumUp(s, w)
<1>1. PICK f : Prefixes(f, s, v)
  BY PrefixesThere
<1>2. PICK g : Prefixes(g, s, w)
  BY PrefixesThere
<1> QED BY <1>1, <1>2, SumIs, PrefixesGrow

LEMMA SumEmpty == ASSUME NEW v \in Values PROVE SumUp(<<>>, v) = 0
<1>1. <<>> \in Seq(Keys) /\ Len(<<>>) = 0
  OBVIOUS
<1>2. PICK f : Prefixes(f, <<>>, v)
  BY <1>1, PrefixesThere
<1> QED BY <1>1, <1>2, SumIs DEF Prefixes

LEMMA SumAppend ==
  ASSUME NEW s \in Seq(Keys), NEW k \in Keys, NEW v \in Values
  PROVE  SumUp(Append(s, k), v) = SumUp(s, v) + v[k]
<1> DEFINE t == Append(s, k)
<1>1. t \in Seq(Keys) /\ Len(t) = Len(s) + 1 /\ t[Len(t)] = k /\ \A n \in 1 .. Len(s) : t[n] = s[n]
  OBVIOUS
<1> HIDE DEF t
<1>2. PICK g : Prefixes(g, t, v)
  BY <1>1, PrefixesThere
<1>3. PICK f : Prefixes(f, s, v)
  BY PrefixesThere
<1> DEFINE h == [n \in 0 .. Len(s) |-> g[n]]
<1>4. Prefixes(h, s, v)
  <2>1. \A n \in 0 .. Len(s) : n \in 0 .. Len(t) /\ h[n] = g[n] /\ g[n] \in Nat
    <3>1. \A n \in 0 .. Len(s) : n \in 0 .. Len(t)
      BY <1>1
    <3>2. \A n \in 0 .. Len(t) : g[n] \in Nat
      BY <1>2 DEF Prefixes
    <3> QED BY <3>1, <3>2
  <2>2. h \in [0 .. Len(s) -> Nat]
    BY <2>1
  <2>3. h[0] = 0
    BY <1>2, <2>1 DEF Prefixes
  <2>4. ASSUME NEW n \in 1 .. Len(s) PROVE h[n] = h[n - 1] + v[s[n]]
    <3>1. n \in 1 .. Len(t) /\ n \in 0 .. Len(s) /\ n - 1 \in 0 .. Len(s) /\ t[n] = s[n]
      BY <1>1
    <3> QED BY <1>2, <2>1, <3>1 DEF Prefixes
  <2> HIDE DEF h
  <2> QED BY <2>2, <2>3, <2>4 DEF Prefixes
<1>5. SumUp(s, v) = h[Len(s)]
  <2> HIDE DEF h
  <2> QED BY <1>4, SumIs
<1>6. SumUp(t, v) = g[Len(t)]
  BY <1>1, <1>2, SumIs
<1>7. g[Len(t)] = g[Len(s)] + v[k]
  <2>1. Len(t) \in 1 .. Len(t) /\ Len(t) - 1 = Len(s)
    BY <1>1
  <2> QED BY <1>1, <1>2, <2>1 DEF Prefixes
<1>8. h[Len(s)] = g[Len(s)]
  OBVIOUS
<1> QED BY <1>5, <1>6, <1>7, <1>8 DEF t

-----------------------------------------------------------------------------
(* The total over a key vector *)

\* What a recount at the instant at gives for each key, with what a switch doubled.
WindowAt(at) == [k \in Keys |-> InWindow(k, at) + overlap[k]]

LEMMA InWindowShrinks ==
  ASSUME IInv, NEW k, NEW a \in Nat, NEW b \in Nat, a <= b
  PROVE  InWindow(k, b) <= InWindow(k, a) /\ InWindow(k, b) \in Nat /\ InWindow(k, a) \in Nat
<1> DEFINE At(t) == {n \in 1 .. Len(records) : records[n].key = k /\ t - records[n].time <= FrameLength}
<1>1. Len(records) \in Nat /\ \A n \in 1 .. Len(records) : records[n].time \in Nat
  <2>1. records \in Seq(Press)
    BY DEF IInv, TypeOK
  <2>2. \A n \in 1 .. Len(records) : records[n] \in Press
    BY <2>1
  <2> QED BY <2>1, <2>2 DEF Press
<1>2. IsFiniteSet(1 .. Len(records))
  BY <1>1, FS_Interval
<1>3. At(b) \subseteq At(a) /\ At(a) \subseteq 1 .. Len(records)
  BY <1>1, NumbersAssumption
<1>4. InWindow(k, b) = Cardinality(At(b)) /\ InWindow(k, a) = Cardinality(At(a))
  BY DEF InWindow
<1> HIDE DEF At
<1>5. IsFiniteSet(At(a)) /\ IsFiniteSet(At(b))
  BY <1>2, <1>3, FS_Subset
<1> QED BY <1>3, <1>4, <1>5, FS_Subset, FS_CardinalityType

LEMMA WindowAtType ==
  ASSUME IInv, NEW a \in Nat
  PROVE  WindowAt(a) \in Values /\ \A k \in Keys : WindowAt(a)[k] = InWindow(k, a) + overlap[k]
<1>1. \A k \in Keys : InWindow(k, a) \in Nat /\ overlap[k] \in Nat
  BY InWindowShrinks DEF IInv, TypeOK
<1> QED BY <1>1 DEF WindowAt, Values

\* The later the recount, the less it gives.
LEMMA SumShrinks ==
  ASSUME IInv, NEW s \in Seq(Keys), NEW a \in Nat, NEW b \in Nat, a <= b
  PROVE  SumUp(s, WindowAt(b)) <= SumUp(s, WindowAt(a))
<1>1. WindowAt(a) \in Values /\ WindowAt(b) \in Values
  BY WindowAtType
<1>2. ASSUME NEW k \in Keys PROVE WindowAt(b)[k] <= WindowAt(a)[k]
  <2>1. WindowAt(b)[k] = InWindow(k, b) + overlap[k] /\ WindowAt(a)[k] = InWindow(k, a) + overlap[k]
    BY WindowAtType
  <2>2. overlap[k] \in Nat
    BY DEF IInv, TypeOK
  <2> QED BY <2>1, <2>2, InWindowShrinks
<1> QED BY <1>1, <1>2, SumGrows

\* The vector form so far: it works along one of the vectors, and what it has added up
\* lies between recounts at its start and now.
Along(ks, t) ==
  /\ Len(ks) = Len(t.done) + Len(t.left)
  /\ \A i \in 1 .. Len(t.done) : t.done[i] = ks[i]
  /\ \A i \in 1 .. Len(t.left) : t.left[i] = ks[Len(t.done) + i]
Between(t) ==
  /\ t.from <= now
  /\ SumUp(t.done, WindowAt(now)) <= t.acc
  /\ t.acc <= SumUp(t.done, WindowAt(t.from))
TotalIInv ==
  total # <<>> => /\ total[1] \in Total
                  /\ \E ks \in Vectors : Along(ks, total[1])
                  /\ Between(total[1])

\* A step that leaves the log and the overlap alone keeps a total between the recounts.
LEMMA KeepsBetween ==
  ASSUME IInv, TotalIInv, now' \in {now, now + 1}, UNCHANGED <<records, overlap, total>>
  PROVE  TotalIInv'
<1> SUFFICES ASSUME total # <<>> PROVE TotalIInv'
  BY DEF TotalIInv
<1> DEFINE t == total[1]
<1>1. t \in Total /\ t.from <= now /\ t.from \in Nat /\ t.done \in Seq(Keys) /\ t.acc \in Int
  BY DEF TotalIInv, Between, Total
<1>2. now \in Nat /\ now' \in Nat /\ now <= now'
  BY DEF IInv, TypeOK
<1>3. WindowAt(now)' = WindowAt(now') /\ WindowAt(t.from)' = WindowAt(t.from)
  BY DEF WindowAt, InWindow
<1>4. SumUp(t.done, WindowAt(now')) <= SumUp(t.done, WindowAt(now))
  BY <1>1, <1>2, SumShrinks
<1>5. SumUp(t.done, WindowAt(now')) \in Nat /\ SumUp(t.done, WindowAt(now)) \in Nat
  <2>1. WindowAt(now') \in Values /\ WindowAt(now) \in Values
    BY <1>2, WindowAtType
  <2> QED BY <1>1, <2>1, SumType
<1>6. SumUp(t.done, WindowAt(now)) <= t.acc /\ t.acc <= SumUp(t.done, WindowAt(t.from))
  BY DEF TotalIInv, Between
<1>7. SumUp(t.done, WindowAt(now))' = SumUp(t.done, WindowAt(now'))
      /\ SumUp(t.done, WindowAt(t.from))' = SumUp(t.done, WindowAt(t.from))
  BY <1>3 DEF SumUp, Prefixes
<1>8. Between(total[1])'
  <2>1. SumUp(t.done, WindowAt(now)) <= t.acc /\ SumUp(t.done, WindowAt(now')) <= t.acc
    BY <1>1, <1>4, <1>5, <1>6
  <2> QED BY <1>1, <1>2, <1>6, <1>7, <2>1 DEF Between
<1>9. \E ks \in Vectors : Along(ks, total[1])'
  BY DEF TotalIInv, Along
<1> QED BY <1>1, <1>8, <1>9 DEF TotalIInv

LEMMA TotalBeginBetween ==
  ASSUME IInv, NEW ks \in Vectors, TotalBegin(ks)
  PROVE  TotalIInv'
<1> DEFINE t == [left |-> ks, done |-> <<>>, acc |-> 0, from |-> now]
<1>1. total' = <<t>> /\ total'[1] = t /\ now' = now /\ UNCHANGED <<records, overlap>>
  BY DEF TotalBegin
<1>2. ks \in Seq(Keys) /\ now \in Nat /\ WindowAt(now) \in Values
  BY VectorsAssumption, WindowAtType DEF IInv, TypeOK
<1>3. t \in Total
  BY <1>2 DEF Total
<1>4. Along(ks, t)
  BY <1>2 DEF Along
<1>5. SumUp(<<>>, WindowAt(now)) = 0
  BY <1>2, SumEmpty
<1>6. WindowAt(now)' = WindowAt(now)
  BY <1>1 DEF WindowAt, InWindow
<1>7. SumUp(<<>>, WindowAt(now))' = 0
  BY <1>5, <1>6 DEF SumUp, Prefixes
<1>8. Between(total[1])'
  BY <1>1, <1>2, <1>7, SMTT(60) DEF Between
<1>9. Along(ks, total[1])'
  BY <1>1, <1>4 DEF Along
<1> QED BY <1>1, <1>3, <1>8, <1>9 DEF TotalIInv

LEMMA TotalStepBetween ==
  ASSUME IInv, Chronology, TotalIInv, TotalStep
  PROVE  TotalIInv'
<1> DEFINE t == total[1]
<1>1. PICK e \in Stops(obj[implement]) :
        total' = <<[left |-> Tail(t.left), done |-> Append(t.done, Head(t.left)),
                    acc |-> t.acc + Dropped(obj[implement], e).sum[Head(t.left)], from |-> t.from]>>
  BY DEF TotalStep
<1> DEFINE k == Head(t.left)
           w == InWindow(k, now) + overlap[k]
           done == Append(t.done, k)
           left == Tail(t.left)
           u == [left |-> left, done |-> done, acc |-> t.acc + w, from |-> t.from]
<1>2. total # <<>> /\ t.left # <<>> /\ UNCHANGED <<now, records, overlap>>
  BY DEF TotalStep
<1>3. /\ t \in Total /\ t.left \in Seq(Keys) /\ t.done \in Seq(Keys) /\ t.acc \in Int /\ t.from \in Nat
      /\ t.from <= now /\ now \in Nat /\ Len(t.left) \in Nat /\ Len(t.done) \in Nat
  BY <1>2 DEF TotalIInv, Between, Total, IInv, TypeOK
<1>4. /\ k \in Keys /\ left \in Seq(Keys) /\ Len(left) = Len(t.left) - 1
      /\ \A i \in 1 .. Len(t.left) - 1 : left[i] = t.left[i + 1]
      /\ k = t.left[1] /\ Len(t.left) >= 1
  BY <1>2, <1>3
<1>5. Dropped(obj[implement], e).sum[k] = w
  <2>1. pc = "idle" /\ obj[implement].type = "hard"
    BY <1>2 DEF IInv, Lifecycle
  <2> QED BY <1>4, <2>1, StopIsWindow
<1>6. WindowAt(now) \in Values /\ WindowAt(t.from) \in Values
      /\ WindowAt(now)[k] = w /\ WindowAt(t.from)[k] = InWindow(k, t.from) + overlap[k]
  BY <1>3, <1>4, WindowAtType
<1>7. w \in Int /\ WindowAt(t.from)[k] \in Int /\ w <= WindowAt(t.from)[k]
  <2>1. InWindow(k, now) <= InWindow(k, t.from) /\ InWindow(k, now) \in Nat /\ InWindow(k, t.from) \in Nat
    BY <1>3, InWindowShrinks
  <2>2. overlap[k] \in Nat
    BY <1>4 DEF IInv, TypeOK
  <2> QED BY <1>6, <2>1, <2>2
<1>8. total' = <<u>> /\ total'[1] = u
  BY <1>1, <1>5
<1>9. done \in Seq(Keys) /\ Len(done) = Len(t.done) + 1
      /\ (\A i \in 1 .. Len(t.done) : done[i] = t.done[i]) /\ done[Len(t.done) + 1] = k
  BY <1>3, <1>4
<1> HIDE DEF done, left
<1>10. u \in Total
  <2> HIDE DEF w, k
  <2> QED BY <1>3, <1>4, <1>7, <1>9 DEF Total
<1>11. \E ks \in Vectors : Along(ks, u)
  <2>1. PICK ks \in Vectors : Along(ks, t)
    BY <1>2 DEF TotalIInv
  <2>2. Len(ks) = Len(done) + Len(left)
    <3>1. Len(ks) = Len(t.done) + Len(t.left)
      BY <2>1 DEF Along
    <3>2. Len(done) = Len(t.done) + 1 /\ Len(left) = Len(t.left) - 1
      BY <1>4, <1>9
    <3>3. Len(t.left) \in Nat /\ Len(t.done) \in Nat
      BY <1>3
    <3>4. \A m, n \in Nat : n + m = (n + 1) + (m - 1)
      OBVIOUS
    <3> QED BY <3>1, <3>2, <3>3, <3>4, Zenon
  <2>3. ASSUME NEW i \in 1 .. Len(done) PROVE done[i] = ks[i]
    <3>1. CASE i = Len(t.done) + 1
      <4>1. ks[Len(t.done) + 1] = t.left[1]
        BY <1>4, <2>1 DEF Along
      <4> QED BY <1>4, <1>9, <3>1, <4>1
    <3>2. CASE i # Len(t.done) + 1
      <4>1. i \in 1 .. Len(t.done)
        BY <1>3, <1>9, <3>2
      <4> QED BY <1>9, <2>1, <4>1 DEF Along
    <3> QED BY <3>1, <3>2
  <2>4. ASSUME NEW i \in 1 .. Len(left) PROVE left[i] = ks[Len(done) + i]
    <3>1. i + 1 \in 1 .. Len(t.left) /\ i \in 1 .. Len(t.left) - 1
      BY <1>3, <1>4
    <3>2. left[i] = ks[Len(t.done) + (i + 1)]
      BY <1>4, <2>1, <3>1 DEF Along
    <3>3. Len(t.done) + (i + 1) = Len(done) + i
      <4>1. Len(done) = Len(t.done) + 1 /\ Len(t.done) \in Nat
        BY <1>3, <1>9
      <4>2. i \in Int
        OBVIOUS
      <4>3. \A m \in Nat, j \in Int : m + (j + 1) = (m + 1) + j
        OBVIOUS
      <4> QED BY <4>1, <4>2, <4>3, Zenon
    <3> QED BY <3>2, <3>3
  <2>5. Along(ks, u)
    BY <2>2, <2>3, <2>4 DEF Along
  <2> QED BY <2>5
<1>12. /\ SumUp(u.done, WindowAt(now)) = SumUp(t.done, WindowAt(now)) + w
       /\ SumUp(u.done, WindowAt(t.from)) = SumUp(t.done, WindowAt(t.from)) + WindowAt(t.from)[k]
  <2> HIDE DEF w, k
  <2>1. u.done = Append(t.done, k)
    BY DEF done
  <2> QED BY <1>3, <1>4, <1>6, <2>1, SumAppend, ZenonT(60)
<1>13. /\ SumUp(t.done, WindowAt(now)) \in Nat /\ SumUp(t.done, WindowAt(t.from)) \in Nat
  BY <1>3, <1>6, SumType
<1>14. SumUp(t.done, WindowAt(now)) <= t.acc /\ t.acc <= SumUp(t.done, WindowAt(t.from))
  BY <1>2 DEF TotalIInv, Between
<1>15. u.acc = t.acc + w /\ u.from = t.from
  OBVIOUS
<1> HIDE DEF u, w, k
<1>16. SumUp(u.done, WindowAt(now)) <= u.acc /\ u.acc <= SumUp(u.done, WindowAt(u.from))
  BY <1>3, <1>7, <1>12, <1>13, <1>14, <1>15
<1>17. PICK c \in Total : c = u
  BY <1>10
<1>18. total' = <<c>> /\ total'[1] = c
  BY <1>8, <1>17
<1>19. WindowAt(now)' = WindowAt(now) /\ WindowAt(c.from)' = WindowAt(c.from)
  BY <1>2 DEF WindowAt, InWindow
<1>20. /\ SumUp(c.done, WindowAt(now))' = SumUp(c.done, WindowAt(now))
       /\ SumUp(c.done, WindowAt(c.from))' = SumUp(c.done, WindowAt(c.from))
  BY <1>19 DEF SumUp, Prefixes
<1>21. Between(c)'
  BY <1>2, <1>3, <1>15, <1>16, <1>17, <1>20 DEF Between
<1>22. Between(total[1])'
  BY <1>18, <1>21 DEF Between
<1>23. \E ks \in Vectors : Along(ks, total[1])'
  BY <1>11, <1>17, <1>18 DEF Along
<1> QED BY <1>17, <1>18, <1>22, <1>23 DEF TotalIInv

\* The sums of the property and of the press window are those.
LEMMA SumOfIsSumUp ==
  ASSUME IInv, NEW ks \in Seq(Keys), NEW at \in Nat
  PROVE  SumOf(ks, LAMBDA k : InWindow(k, at) + overlap[k]) = SumUp(ks, WindowAt(at))
<1> DEFINE f[n \in 0 .. Len(ks)] ==
             IF n = 0 THEN 0 ELSE f[n - 1] + (InWindow(ks[n], at) + overlap[ks[n]])
<1>1. SumOf(ks, LAMBDA k : InWindow(k, at) + overlap[k]) = f[Len(ks)]
  BY DEF SumOf
<1>2. WindowAt(at) \in Values
      /\ \A n \in 1 .. Len(ks) : WindowAt(at)[ks[n]] = InWindow(ks[n], at) + overlap[ks[n]]
  <2>1. \A n \in 1 .. Len(ks) : ks[n] \in Keys
    OBVIOUS
  <2> QED BY <2>1, WindowAtType
<1>3. PICK g : Prefixes(g, ks, WindowAt(at))
  BY <1>2, PrefixesThere
<1>4. g = [n \in 0 .. Len(ks) |-> IF n = 0 THEN 0 ELSE g[n - 1] + (InWindow(ks[n], at) + overlap[ks[n]])]
  <2>1. \A n \in 0 .. Len(ks) : n # 0 => n \in 1 .. Len(ks)
    OBVIOUS
  <2> QED BY <1>2, <1>3, <2>1 DEF Prefixes
<1>5. f = [n \in 0 .. Len(ks) |-> IF n = 0 THEN 0 ELSE f[n - 1] + (InWindow(ks[n], at) + overlap[ks[n]])]
  BY <1>4
<1> HIDE DEF f
<1> DEFINE S == {n \in 0 .. Len(ks) : f[n] = g[n]}
<1>6. Len(ks) \in Int /\ 0 <= Len(ks) /\ 0 \in Int /\ 0 \in 0 .. Len(ks)
  OBVIOUS
<1>7. 0 \in S
  BY <1>3, <1>5, <1>6 DEF Prefixes
<1>8. ASSUME NEW n \in 0 + 1 .. Len(ks), n - 1 \in S PROVE n \in S
  <2>1. n \in 1 .. Len(ks) /\ n \in 0 .. Len(ks) /\ n # 0 /\ f[n - 1] = g[n - 1]
    BY <1>6, <1>8
  <2>2. f[n] = f[n - 1] + (InWindow(ks[n], at) + overlap[ks[n]])
    BY <1>5, <2>1
  <2>3. g[n] = g[n - 1] + WindowAt(at)[ks[n]]
    BY <1>3, <2>1 DEF Prefixes
  <2> QED BY <1>2, <2>1, <2>2, <2>3
<1>9. 0 .. Len(ks) \subseteq S
  <2> HIDE DEF S
  <2> QED BY <1>6, <1>7, <1>8, InductTo
<1>10. f[Len(ks)] = g[Len(ks)]
  <2>1. Len(ks) \in S
    BY <1>6, <1>9
  <2> QED BY <2>1
<1> QED BY <1>1, <1>2, <1>3, <1>10, SumIs

\* The press window counts with its own instance of FiniteSets.
LEMMA SameInWindow ==
  ASSUME NEW k, NEW at PROVE Window!InWindow(k, at) = InWindow(k, at)
  BY DEF Window!InWindow, InWindow, Window!Cardinality, Cardinality

LEMMA InWindowAllIsSumUp ==
  ASSUME IInv, NEW ks \in Seq(Keys), NEW at \in Nat
  PROVE  Window!InWindowAll(ks, at) = SumUp(ks, WindowAt(at))
<1> DEFINE f[n \in 0 .. Len(ks)] ==
             IF n = 0 THEN 0 ELSE f[n - 1] + Window!InWindow(ks[n], at) + overlap[ks[n]]
<1>1. Window!InWindowAll(ks, at) = f[Len(ks)]
  BY DEF Window!InWindowAll
<1>2. /\ WindowAt(at) \in Values
      /\ \A n \in 1 .. Len(ks) : /\ WindowAt(at)[ks[n]] = InWindow(ks[n], at) + overlap[ks[n]]
                                 /\ InWindow(ks[n], at) \in Nat /\ overlap[ks[n]] \in Nat
  <2>1. \A n \in 1 .. Len(ks) : ks[n] \in Keys
    OBVIOUS
  <2>2. \A k \in Keys : InWindow(k, at) \in Nat /\ overlap[k] \in Nat
    BY InWindowShrinks DEF IInv, TypeOK
  <2> QED BY <2>1, <2>2, WindowAtType
<1>3. PICK g : Prefixes(g, ks, WindowAt(at))
  BY <1>2, PrefixesThere
<1>4. g = [n \in 0 .. Len(ks) |-> IF n = 0 THEN 0 ELSE g[n - 1] + Window!InWindow(ks[n], at) + overlap[ks[n]]]
  <2>1. g \in [0 .. Len(ks) -> Nat] /\ g[0] = 0
    BY <1>3 DEF Prefixes
  <2>2. ASSUME NEW n \in 0 .. Len(ks), n # 0 PROVE g[n] = g[n - 1] + Window!InWindow(ks[n], at) + overlap[ks[n]]
    <3>1. n \in 1 .. Len(ks) /\ n - 1 \in 0 .. Len(ks)
      BY <2>2
    <3>2. g[n] = g[n - 1] + WindowAt(at)[ks[n]] /\ g[n - 1] \in Nat
      BY <1>3, <3>1 DEF Prefixes
    <3> QED BY <1>2, <3>1, <3>2, SameInWindow
  <2> QED BY <2>1, <2>2
<1>5. f = [n \in 0 .. Len(ks) |-> IF n = 0 THEN 0 ELSE f[n - 1] + Window!InWindow(ks[n], at) + overlap[ks[n]]]
  BY <1>4
<1> HIDE DEF f
<1> DEFINE S == {n \in 0 .. Len(ks) : f[n] = g[n]}
<1>6. Len(ks) \in Int /\ 0 <= Len(ks) /\ 0 \in Int /\ 0 \in 0 .. Len(ks)
  OBVIOUS
<1>7. 0 \in S
  BY <1>3, <1>5, <1>6 DEF Prefixes
<1>8. ASSUME NEW n \in 0 + 1 .. Len(ks), n - 1 \in S PROVE n \in S
  <2>1. n \in 1 .. Len(ks) /\ n \in 0 .. Len(ks) /\ n # 0 /\ f[n - 1] = g[n - 1]
    BY <1>6, <1>8
  <2>2. f[n] = f[n - 1] + Window!InWindow(ks[n], at) + overlap[ks[n]]
    BY <1>5, <2>1
  <2>3. g[n] = g[n - 1] + Window!InWindow(ks[n], at) + overlap[ks[n]]
    BY <1>4, <2>1
  <2> QED BY <2>1, <2>2, <2>3
<1>9. 0 .. Len(ks) \subseteq S
  <2> HIDE DEF S
  <2> QED BY <1>6, <1>7, <1>8, InductTo
<1>10. f[Len(ks)] = g[Len(ks)]
  <2>1. Len(ks) \in S
    BY <1>6, <1>9
  <2> QED BY <2>1
<1> QED BY <1>1, <1>2, <1>3, <1>10, SumIs

\* While a total is computed nothing else can change what it adds up.
LEMMA NextTotal == IInv /\ Chronology /\ TotalIInv /\ [Next]_vars => TotalIInv'
<1> SUFFICES ASSUME IInv, Chronology, TotalIInv, [Next]_vars PROVE TotalIInv'
  OBVIOUS
<1>1. now \in Nat
  BY DEF IInv, TypeOK
<1>2. CASE UNCHANGED vars
  <2>1. now' = now /\ UNCHANGED <<records, overlap, total>>
    BY <1>2 DEF vars
  <2> QED BY <2>1, KeepsBetween
<1>3. CASE Tick
  <2>1. now' = now + 1 /\ UNCHANGED <<records, overlap, total>>
    BY <1>3 DEF Tick
  <2> QED BY <2>1, KeepsBetween
<1>4. ASSUME NEW t \in Threads, NEW ks \in SUBSET Keys, Stamp(t, ks) PROVE TotalIInv'
  <2>1. now' = now /\ UNCHANGED <<records, overlap, total>>
    BY <1>4 DEF Stamp
  <2> QED BY <2>1, KeepsBetween
<1>5. ASSUME NEW ks \in Vectors, TotalBegin(ks) PROVE TotalIInv'
  BY <1>5, TotalBeginBetween
<1>6. CASE TotalStep
  BY <1>6, TotalStepBetween
<1>7. ASSUME total' = <<>> PROVE TotalIInv'
  BY <1>7 DEF TotalIInv
<1>8. ASSUME NEW t \in Threads, Notify(t) PROVE total' = <<>>
  BY <1>8 DEF Notify, LockIFree
<1>9. ASSUME NEW k \in Keys, CalcNow(k) PROVE total' = <<>>
  BY <1>9 DEF CalcNow, LockCFree
<1>10. ASSUME TotalEnd \/ Clear \/ Change PROVE total' = <<>>
  BY <1>10 DEF TotalEnd, Clear, Change, ChangeBegin, ChangeCount, ChangeSwap, LockCFree, LockIFree
<1> QED BY <1>2, <1>3, <1>4, <1>5, <1>6, <1>7, <1>8, <1>9, <1>10 DEF Next, Calc

LEMMA InitTotal == Init => TotalIInv
  BY DEF Init, TotalIInv

\* At the end the whole vector is done, and the sum lies between the two recounts.
LEMMA EndIsBetween ==
  ASSUME IInv, TotalIInv, TotalEnd
  PROVE  /\ total[1].done \in Vectors /\ total[1].done \in Seq(Keys)
         /\ total[1].from \in Nat /\ total[1].from <= now /\ now \in Nat
         /\ ret' \in Int
         /\ SumUp(total[1].done, WindowAt(now)) <= ret'
         /\ ret' <= SumUp(total[1].done, WindowAt(total[1].from))
<1> DEFINE t == total[1]
<1>1. total # <<>> /\ t.left = <<>> /\ ret' = t.acc
  BY DEF TotalEnd
<1>2. t \in Total /\ Between(t)
  BY <1>1 DEF TotalIInv
<1>3. PICK ks \in Vectors : Along(ks, t)
  BY <1>1 DEF TotalIInv
<1>4. t.done \in Seq(Keys) /\ ks \in Seq(Keys) /\ t.from \in Nat /\ t.acc \in Int /\ now \in Nat
  BY <1>2, VectorsAssumption DEF Total, IInv, TypeOK
<1>5. Len(ks) = Len(t.done)
  <2>1. Len(ks) = Len(t.done) + Len(t.left) /\ Len(t.left) = 0
    BY <1>1, <1>3 DEF Along
  <2>2. Len(t.done) \in Nat
    BY <1>4
  <2> QED BY <2>1, <2>2
<1>6. t.done = ks
  <2>1. \A i \in 1 .. Len(t.done) : t.done[i] = ks[i]
    BY <1>3 DEF Along
  <2> HIDE DEF t
  <2> QED BY <1>4, <1>5, <2>1, SeqEqual
<1> QED BY <1>1, <1>2, <1>4, <1>6 DEF Between

\* With one delivering thread a total is no less than a recount at its end and no more than
\* one at its start: the vector form holds both locks from its first clock reading to its
\* last, so only presses that expire meanwhile are torn.
THEOREM TotalsExact == OneThread => (Spec => TotalBetween)
<1> SUFFICES ASSUME OneThread PROVE Spec => TotalBetween
  OBVIOUS
<1>1. IInv /\ Chronology /\ [Next]_vars => Chronology'
  BY NextChronology
<1>2. ASSUME IInv, TotalIInv, TotalEnd
      PROVE  /\ ret' <= SumOf(total[1].done, LAMBDA k : InWindow(k, total[1].from) + overlap[k])
             /\ ret' >= SumOf(total[1].done, LAMBDA k : InWindow(k, now) + overlap[k])
  <2>1. /\ total[1].done \in Seq(Keys) /\ total[1].from \in Nat /\ now \in Nat /\ ret' \in Int
        /\ SumUp(total[1].done, WindowAt(now)) <= ret'
        /\ ret' <= SumUp(total[1].done, WindowAt(total[1].from))
    BY <1>2, EndIsBetween
  <2>2. /\ SumOf(total[1].done, LAMBDA k : InWindow(k, total[1].from) + overlap[k])
             = SumUp(total[1].done, WindowAt(total[1].from))
        /\ SumOf(total[1].done, LAMBDA k : InWindow(k, now) + overlap[k]) = SumUp(total[1].done, WindowAt(now))
    BY <1>2, <2>1, SumOfIsSumUp
  <2>3. SumUp(total[1].done, WindowAt(now)) \in Nat
    BY <1>2, <2>1, SumType, WindowAtType
  <2> QED BY <2>1, <2>2, <2>3
<1>3. IInv /\ TotalIInv /\ [Next]_vars =>
        [TotalEnd =>
           LET ks == total[1].done IN
             /\ ret' <= SumOf(ks, LAMBDA k : InWindow(k, total[1].from) + overlap[k])
             /\ ret' >= SumOf(ks, LAMBDA k : InWindow(k, now) + overlap[k])]_vars
  BY <1>2
<1> QED
  BY <1>1, <1>3, Invariance, InitChronology, InitTotal, NextTotal, PTL DEF Spec, TotalBetween

\* The steps of the calculator are those of the press window: every step outside the
\* reads, the log and the start of a switch changes nothing that the window has.
LEMMA StepIsWindowStep ==
  ASSUME OneThread, IInv, Chronology, TotalIInv, [Next]_vars
  PROVE  [Window!Next]_Window!vars
<1>1. CASE UNCHANGED vars
  BY <1>1 DEF vars, Window!vars
<1>2. CASE Tick
  <2>1. Window!Pass
    BY <1>2 DEF Tick, Window!Pass
  <2> QED BY <2>1 DEF Window!Next
<1>3. ASSUME NEW t \in Threads, NEW ks \in SUBSET Keys, Stamp(t, ks) PROVE UNCHANGED Window!vars
  BY <1>3 DEF Stamp, Window!vars
<1>4. ASSUME NEW t \in Threads, Notify(t) PROVE Window!Next
  <2>1. PICK p \in stamped[t] : records' = Append(records, p)
                                /\ overlap' \in {overlap, [overlap EXCEPT ![p.key] = @ + 1]}
    BY <1>4 DEF Notify, Pushed
  <2>2. p \in Press /\ p = [key |-> p.key, time |-> p.time] /\ p.key \in Keys /\ p.time \in Nat
    BY DEF IInv, TypeOK, Press
  <2>3. p.time <= now /\ \A n \in 1 .. Len(records) : records[n].time <= p.time
    BY DEF Chronology
  <2>4. now' = now /\ ret' = ret /\ now \in Nat
    BY <1>4 DEF Notify, IInv, TypeOK
  <2>5. p.time \in 0 .. now
    BY <2>2, <2>3, <2>4
  <2>6. Window!Press(p.key, p.time)
    BY <2>1, <2>2, <2>3, <2>4 DEF Window!Press
  <2> QED BY <2>2, <2>5, <2>6 DEF Window!Next
<1>5. ASSUME NEW k \in Keys, CalcNow(k) PROVE Window!Next
  <2>1. ret' = InWindow(k, now) + overlap[k]
    BY <1>5, ReadIsWindow
  <2>2. UNCHANGED <<now, records, overlap>>
    BY <1>5 DEF CalcNow
  <2>3. Window!Read(k)
    BY <2>1, <2>2, SameInWindow DEF Window!Read
  <2> QED BY <2>3 DEF Window!Next
<1>6. ASSUME NEW ks \in Vectors, TotalBegin(ks) PROVE UNCHANGED Window!vars
  BY <1>6 DEF TotalBegin, Window!vars
<1>7. CASE TotalStep
  BY <1>7 DEF TotalStep, Window!vars
<1>8. CASE TotalEnd
  <2> DEFINE ks == total[1].done
             from == total[1].from
  <2>1. /\ ks \in Vectors /\ ks \in Seq(Keys) /\ from \in Nat /\ from <= now /\ now \in Nat /\ ret' \in Int
        /\ SumUp(ks, WindowAt(now)) <= ret' /\ ret' <= SumUp(ks, WindowAt(from))
    BY <1>8, EndIsBetween
  <2>2. UNCHANGED <<now, records, overlap>>
    BY <1>8 DEF TotalEnd
  <2> HIDE DEF ks, from
  <2>3. Window!InWindowAll(ks, now) = SumUp(ks, WindowAt(now))
        /\ Window!InWindowAll(ks, from) = SumUp(ks, WindowAt(from))
    BY <2>1, InWindowAllIsSumUp
  <2>4. SumUp(ks, WindowAt(now)) \in Nat /\ SumUp(ks, WindowAt(from)) \in Nat
    BY <2>1, SumType, WindowAtType
  <2>5. ret' \in Window!InWindowAll(ks, now) .. Window!InWindowAll(ks, from)
    BY <2>1, <2>3, <2>4
  <2>6. from \in 0 .. now
    BY <2>1
  <2>7. Window!ReadAll(ks)
    BY <2>2, <2>5, <2>6 DEF Window!ReadAll
  <2> QED BY <2>1, <2>7 DEF Window!Next
<1>9. CASE Clear
  <2>1. Window!Reset
    BY <1>9 DEF Clear, Zero, Window!Reset, Window!Zero
  <2> QED BY <2>1 DEF Window!Next
<1>10. ASSUME NEW type \in Offered, NEW a \in Addrs, ChangeBegin(type, a) PROVE Window!Next
  <2>1. Window!Switch
    BY <1>10 DEF ChangeBegin, Zero, Window!Switch, Window!Zero
  <2> QED BY <2>1 DEF Window!Next
<1>11. CASE ChangeCount \/ ChangeSwap
  BY <1>11 DEF ChangeCount, ChangeSwap, Window!vars
<1> QED BY <1>1, <1>2, <1>3, <1>4, <1>5, <1>6, <1>7, <1>8, <1>9, <1>10, <1>11 DEF Next, Calc, Change

\* With one delivering thread the calculator implements the press window: whatever the
\* interleaving of presses, reads, totals, resets and switches of the method, every number
\* kps_calculator returns is one that a recount of the whole log would give, doubled
\* presses apart.  For any keys, vectors, addresses and bounds.
THEOREM CalculatorImplementsWindow == OneThread => (Spec => ImplementsWindow)
<1> SUFFICES ASSUME OneThread PROVE Spec => ImplementsWindow
  OBVIOUS
<1>1. Init => Window!Init
  BY DEF Init, Zero, Window!Init, Window!Zero
<1>2. IInv /\ Chronology /\ TotalIInv /\ [Next]_vars => [Window!Next]_Window!vars
  BY StepIsWindowStep
<1>3. IInv /\ Chronology /\ [Next]_vars => Chronology'
  BY NextChronology
<1> QED
  BY <1>1, <1>2, <1>3, Invariance, InitChronology, InitTotal, NextTotal, PTL
     DEF Spec, ImplementsWindow, Window!Spec
=============================================================================
