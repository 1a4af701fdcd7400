-------------------------- MODULE KeysManagerProofs -------------------------
(***************************************************************************)
(* The books of keys_manager stay consistent for any layout, any bound and  *)
(* any interleaving of the monitor's thread, the main thread and the timer. *)
(***************************************************************************)
EXTENDS KeysManager, SequenceTheorems, Induction

Shape ==
  /\ crt_button_count \in Rows
  /\ keys \in [Rows -> Seq(Keys)]
  /\ \A n \in Rows : Len(keys[n]) = n
  /\ is_autoplay \in BOOLEAN
  /\ source \in Status /\ crt_status \in Status /\ crt_valid_status \in Status
  /\ update = NoUpdate \/ update \in Update

\* extra_info is as long as the current row, to which crt_keys is bound under K.
InfoFits ==
  /\ down \in Seq(BOOLEAN) /\ Len(down) = crt_button_count
  /\ ~KFree => update.row = crt_button_count

\* The last status read is the valid one unless it is standby.
StatusFollows == crt_status # "standby" => crt_valid_status = crt_status

\* What the loop has marked is what the count will find, key changes apart.
MarkFollows ==
  update.at = "marked" =>
    update.torn \/ update.marked = Counts(keys[update.row], update.key)

Books == AutoBooksEmpty /\ OneMode /\ MarkedIffCounted /\ MarkFollows
Display == ModeIsLastStatus /\ StatusFollows
IInv == Shape /\ InfoFits /\ Books /\ Display

\* The rows of the layout are numbered from 1.
LEMMA RowsAreNat == Rows \subseteq Nat \ {0}
  BY LayoutAssumption DEF Rows

\* The inductive invariant covers the vector update_on_key_down indexes.
LEMMA IInvCovers == IInv => InfoCoversRow
  BY DEF IInv, Shape, InfoFits, InfoCoversRow, KFree, Update, NoUpdate

\* The constructor's state.
LEMMA InitIInv == Init => IInv
<1> SUFFICES ASSUME Init PROVE IInv
  OBVIOUS
<1> USE RowsAreNat
<1>1. Shape
  <2>1. Layout \in [Rows -> Seq(Keys)]
    BY LayoutAssumption, LenProperties DEF Rows
  <2> QED BY <2>1, LayoutAssumption DEF Init, Shape, Status
<1>2. InfoFits
  <2>1. \A n \in Nat : AllUp(n) \in Seq(BOOLEAN) /\ Len(AllUp(n)) = n
    BY DEF AllUp
  <2> QED BY <2>1 DEF Init, InfoFits, KFree, NoUpdate
<1>3. Books /\ Display
  BY DEF Init, Books, AutoBooksEmpty, OneMode, MarkedIffCounted, MarkFollows,
         Display, ModeIsLastStatus, StatusFollows, NoUpdate
<1> QED BY <1>1, <1>2, <1>3 DEF IInv

\* A press or release begins an update with nothing booked.
LEMMA OnKeyStep ==
  ASSUME IInv, NEW k \in Keys, NEW d \in BOOLEAN, OnKey(k, d) PROVE IInv'
<1>1. update' \in Update /\ update'.at = "notified"
  BY DEF OnKey, IInv, Shape, Update
<1>2. Shape' /\ InfoFits'
  BY <1>1 DEF OnKey, IInv, Shape, InfoFits, KFree, layout, counters, autoplay
<1>3. Books' /\ Display'
  BY <1>1 DEF OnKey, IInv, Books, AutoBooksEmpty, OneMode, MarkedIffCounted, MarkFollows,
    Display, ModeIsLastStatus, StatusFollows, counters, autoplay
<1> QED BY <1>2, <1>3 DEF IInv

\* update_on_key_down takes K and binds crt_keys.
LEMMA UpdateLockStep == IInv /\ UpdateLock => IInv'
<1> SUFFICES ASSUME IInv, UpdateLock PROVE IInv'
  OBVIOUS
<1>1. update' \in Update /\ update'.at = "locked" /\ update'.row = crt_button_count
  <2>1. update \in Update /\ crt_button_count \in Rows
    BY DEF UpdateLock, IInv, Shape, NoUpdate
  <2> QED BY <2>1 DEF UpdateLock, Update
<1> QED BY <1>1 DEF UpdateLock, IInv, Shape, InfoFits, KFree, Books, AutoBooksEmpty,
  OneMode, MarkedIffCounted, MarkFollows, Display, ModeIsLastStatus, StatusFollows,
  layout, counters, autoplay

\* The loop marks a button exactly when the count would find the key now.
LEMMA UpdateMarkStep == IInv /\ UpdateMark => IInv'
<1> SUFFICES ASSUME IInv, UpdateMark PROVE IInv'
  OBVIOUS
<1> DEFINE row == keys[update.row]
           marks == Marks(row, update.key)
<1>1. update \in Update /\ update.at = "locked" /\ update.row = crt_button_count
  BY DEF UpdateMark, IInv, Shape, InfoFits, KFree, NoUpdate
<1>2. update' = NoUpdate \/
      /\ update' \in Update /\ update'.at = "marked" /\ update'.row = update.row
      /\ update'.key = update.key /\ update'.marked = (marks # {})
  <2> DEFINE found == marks # {}
  <2>1. update' = IF update.isDown
                  THEN [update EXCEPT !.at = "marked", !.marked = found, !.torn = FALSE]
                  ELSE NoUpdate
    BY DEF UpdateMark
  <2>2. found \in BOOLEAN
    OBVIOUS
  <2> HIDE DEF found
  <2>3. update' = NoUpdate \/
        /\ update' \in Update /\ update'.at = "marked" /\ update'.row = update.row
        /\ update'.key = update.key /\ update'.marked = found
    BY <1>1, <2>1, <2>2 DEF Update
  <2> QED BY <2>3 DEF found
<1>3. (marks # {}) <=> Counts(row, update.key)
  BY DEF Marks, Counts
<1>4. down' \in Seq(BOOLEAN) /\ Len(down') = Len(down)
  BY <1>1, SMTT(60) DEF UpdateMark, IInv, InfoFits, Update
<1>5. Shape' /\ InfoFits'
  BY <1>1, <1>2, <1>4 DEF UpdateMark, IInv, Shape, InfoFits, KFree, NoUpdate, counters, autoplay
<1>6. Books'
  BY <1>1, <1>2, <1>3 DEF UpdateMark, IInv, Books, AutoBooksEmpty, OneMode,
    MarkedIffCounted, MarkFollows, Counts, NoUpdate, counters
<1>7. Display'
  BY DEF UpdateMark, IInv, Display, ModeIsLastStatus, StatusFollows, counters, autoplay
<1> QED BY <1>5, <1>6, <1>7 DEF IInv

\* The total of the current mode is booked.
LEMMA UpdateBookStep == IInv /\ UpdateBook => IInv'
<1> SUFFICES ASSUME IInv, UpdateBook PROVE IInv'
  OBVIOUS
<1>1. update \in Update /\ update.at = "marked" /\ update.row = crt_button_count
  BY DEF UpdateBook, IInv, Shape, InfoFits, KFree, NoUpdate
<1>2. Counts(keys[update.row], update.key) \in BOOLEAN
  BY DEF Counts
<1>3. /\ update' \in Update /\ update'.at = "booked" /\ update'.row = update.row
      /\ update'.auto = is_autoplay /\ update'.torn = update.torn
      /\ update'.marked = update.marked
      /\ update'.counted = Counts(keys[update.row], update.key)
  BY <1>1, <1>2 DEF UpdateBook, Update, IInv, Shape
<1>4. Shape' /\ InfoFits'
  BY <1>1, <1>3 DEF UpdateBook, IInv, Shape, InfoFits, KFree, layout, autoplay
<1>5. Books'
  BY <1>1, <1>3 DEF UpdateBook, IInv, Books, AutoBooksEmpty, OneMode,
    MarkedIffCounted, MarkFollows
<1>6. Display'
  BY DEF UpdateBook, IInv, Display, ModeIsLastStatus, StatusFollows, autoplay
<1> QED BY <1>4, <1>5, <1>6 DEF IInv

\* The maximum of the same mode, and K is released.
LEMMA UpdateMaxStep == IInv /\ UpdateMax => IInv'
<1> SUFFICES ASSUME IInv, UpdateMax PROVE IInv'
  OBVIOUS
<1>1. Shape' /\ InfoFits'
  BY DEF UpdateMax, IInv, Shape, InfoFits, KFree, NoUpdate, layout, autoplay
<1>2. Books' /\ Display'
  BY DEF UpdateMax, IInv, Books, AutoBooksEmpty, OneMode, MarkedIffCounted, MarkFollows,
    Display, ModeIsLastStatus, StatusFollows, NoUpdate, autoplay
<1> QED BY <1>1, <1>2 DEF IInv

\* A reconfiguration waits for K, or tells the update in progress that it tore it.
LEMMA SetButtonCountStep == ASSUME IInv, NEW n \in Rows, SetButtonCount(n) PROVE IInv'
<1>1. AllUp(n) \in Seq(BOOLEAN) /\ Len(AllUp(n)) = n
  BY RowsAreNat DEF AllUp
<1> QED BY <1>1 DEF SetButtonCount, MayResize, IInv, Shape, InfoFits, KFree, Books,
  AutoBooksEmpty, OneMode, MarkedIffCounted, MarkFollows, Display, ModeIsLastStatus,
  StatusFollows, counters, autoplay

\* The same for a key reassigned without K.
LEMMA ModifyKeyStep ==
  ASSUME IInv, NEW n \in Rows, NEW i \in Rows, NEW k \in Keys, i <= n, ModifyKey(n, i, k)
  PROVE  IInv'
<1>1. keys' \in [Rows -> Seq(Keys)] /\ \A r \in Rows : Len(keys'[r]) = r
  BY RowsAreNat DEF ModifyKey, IInv, Shape
<1>2. \/ update = NoUpdate /\ update' = NoUpdate
      \/ /\ update \in Update /\ update' \in Update /\ update'.torn
         /\ update'.at = update.at /\ update'.row = update.row
         /\ update'.auto = update.auto
  BY DEF ModifyKey, IInv, Shape, Update
<1>3. Shape' /\ InfoFits'
  BY <1>1, <1>2 DEF ModifyKey, IInv, Shape, InfoFits, KFree, NoUpdate, counters, autoplay
<1>4. Books'
  BY <1>2 DEF ModifyKey, IInv, Books, AutoBooksEmpty, OneMode, MarkedIffCounted,
    MarkFollows, NoUpdate, counters
<1>5. Display'
  BY DEF ModifyKey, IInv, Display, ModeIsLastStatus, StatusFollows, counters, autoplay
<1> QED BY <1>3, <1>4, <1>5 DEF IInv

\* The resets empty both books.
LEMMA ResetStep ==
  IInv /\ (ResetAllTotal \/ ResetAllMax \/ ResetAllGraph \/ ResetTotal) => IInv'
<1> SUFFICES ASSUME IInv, ResetAllTotal \/ ResetAllMax \/ ResetAllGraph \/ ResetTotal
             PROVE  IInv'
  OBVIOUS
<1>1. UNCHANGED <<layout, is_autoplay, update, autoplay>>
  BY DEF ResetAllTotal, ResetAllMax, ResetAllGraph, ResetTotal, counters
<1>2. Shape' /\ InfoFits' /\ Display'
  BY <1>1 DEF IInv, Shape, InfoFits, KFree, Display, ModeIsLastStatus, StatusFollows,
    layout, autoplay
<1>3. AutoBooksEmpty'
  BY DEF ResetAllTotal, ResetAllMax, ResetAllGraph, ResetTotal, ClearTotal, ClearMax,
    IInv, Books, AutoBooksEmpty, counters
<1>4. Books'
  BY <1>1, <1>3 DEF IInv, Books, OneMode, MarkedIffCounted, MarkFollows, layout
<1> QED BY <1>2, <1>4 DEF IInv

\* The timer reads a status, and changes the mode only under K.
LEMMA TimerStep == IInv /\ Timer => IInv'
<1> SUFFICES ASSUME IInv, Timer PROVE IInv'
  OBVIOUS
<1>1. CASE UpdateStatus
  <2>1. Shape' /\ InfoFits' /\ Books'
    BY <1>1 DEF UpdateStatus, Valid, IInv, Shape, InfoFits, KFree, Books, AutoBooksEmpty,
      OneMode, MarkedIffCounted, MarkFollows, layout, counters
  <2>2. Display'
    BY <1>1 DEF UpdateStatus, Valid, Fires, IInv, Shape, Display, ModeIsLastStatus,
      StatusFollows, counters
  <2> QED BY <2>1, <2>2 DEF IInv
<1>2. CASE AutoplayCallback
  BY <1>2 DEF AutoplayCallback, MayFire, AutoCleared, IInv, Shape, InfoFits, KFree, Books,
    AutoBooksEmpty, OneMode, MarkedIffCounted, MarkFollows, Display, ModeIsLastStatus,
    StatusFollows, layout
<1> QED BY <1>1, <1>2 DEF Timer

\* The invariant is inductive.
LEMMA NextIInv == IInv /\ [Next]_vars => IInv'
<1> SUFFICES ASSUME IInv, [Next]_vars PROVE IInv'
  OBVIOUS
<1>1. CASE \E k \in Keys : Decay(k)
  BY <1>1 DEF Decay, IInv, Shape, InfoFits, KFree, Books, AutoBooksEmpty, OneMode,
    MarkedIffCounted, MarkFollows, Display, ModeIsLastStatus, StatusFollows, layout,
    counters, autoplay
<1>2. CASE \E s \in Status : SourceChanges(s)
  BY <1>2 DEF SourceChanges, IInv, Shape, InfoFits, KFree, Books, AutoBooksEmpty, OneMode,
    MarkedIffCounted, MarkFollows, Display, ModeIsLastStatus, StatusFollows, layout,
    counters
<1>3. CASE UNCHANGED vars
  BY <1>3 DEF vars, IInv, Shape, InfoFits, KFree, Books, AutoBooksEmpty, OneMode,
    MarkedIffCounted, MarkFollows, Display, ModeIsLastStatus, StatusFollows, layout,
    counters, autoplay
<1>4. CASE Monitor
  BY <1>4, UpdateLockStep, UpdateMarkStep, UpdateBookStep, UpdateMaxStep DEF Monitor
<1>5. CASE Main
  BY <1>5, SetButtonCountStep, ModifyKeyStep, ResetStep DEF Main
<1> QED BY <1>1, <1>2, <1>3, <1>4, <1>5, OnKeyStep, TimerStep DEF Next

\* It holds in every reachable state.
LEMMA Invariance == Spec => []IInv
  BY InitIInv, NextIInv, PTL DEF Spec

\* update_on_key_down never indexes past extra_info, whatever the main thread
\* does to the layout meanwhile.
THEOREM InfoAlwaysCovers == Spec => []InfoCoversRow
  BY Invariance, IInvCovers, PTL

\* The timer cannot change the mode between the total and the maximum of a press, its
\* books are empty outside automatic play, and a press marks a button exactly when it is
\* counted, reassignments apart.
THEOREM BooksStayTogether == Spec => []BooksAgree
<1>1. IInv => BooksAgree
  BY DEF IInv, Books, BooksAgree
<1> QED BY <1>1, Invariance, PTL

\* The display mode is the last status read, whenever the timer is not firing.
THEOREM ModeFollows == Spec => []ModeIsLastStatus
<1>1. IInv => ModeIsLastStatus
  BY DEF IInv, Display
<1> QED BY <1>1, Invariance, PTL
-----------------------------------------------------------------------------
(* The buttons *)

\* Until the loop of update_on_key_down has run, the buttons of its key lag behind it.
Before == {"notified", "locked"}
EventShown == update.at \in Before => (update.isDown <=> update.key \in pressed)
Shown(i) == down[i] <=> keys[crt_button_count][i] \in pressed
ButtonsShown ==
  \A i \in 1 .. crt_button_count :
    \/ i \in stale
    \/ update.at \in Before /\ keys[crt_button_count][i] = update.key
    \/ Shown(i)

Lit == EventShown /\ ButtonsShown

LEMMA InitLit == Init => Lit
<1> SUFFICES ASSUME Init PROVE Lit
  OBVIOUS
<1>1. crt_button_count \in Nat
  BY RowsAreNat DEF Init
<1>2. \A i \in 1 .. crt_button_count : ~down[i]
  BY <1>1 DEF Init, AllUp
<1> QED BY <1>2 DEF Init, Lit, EventShown, ButtonsShown, Shown, Before, NoUpdate

LEMMA OnKeyLit ==
  ASSUME IInv, Lit, NEW k \in Keys, NEW d \in BOOLEAN, OnKey(k, d) PROVE Lit'
<1>1. /\ update.at \notin Before /\ update'.at \in Before
      /\ update'.key = k /\ update'.isDown = d
      /\ pressed' = IF d THEN pressed \union {k} ELSE pressed \ {k}
      /\ UNCHANGED <<keys, crt_button_count, down, stale>>
  BY DEF OnKey, Before, NoUpdate, layout
<1>2. \A x : x # k => (x \in pressed' <=> x \in pressed)
  BY <1>1
<1>3. ButtonsShown'
  <2> SUFFICES ASSUME NEW i \in 1 .. crt_button_count, i \notin stale,
                      keys[crt_button_count][i] # k
               PROVE  (down[i] <=> keys[crt_button_count][i] \in pressed')
    BY <1>1 DEF ButtonsShown, Shown
  <2> QED BY <1>1, <1>2 DEF Lit, ButtonsShown, Shown
<1> QED BY <1>1, <1>3 DEF Lit, EventShown

LEMMA UpdateMarkLit == ASSUME IInv, Lit, UpdateMark PROVE Lit'
<1> DEFINE row == keys[crt_button_count]
<1>1. update \in Update /\ update.at = "locked" /\ update.row = crt_button_count
  BY DEF UpdateMark, IInv, Shape, InfoFits, KFree, NoUpdate
<1>2. Len(down) = crt_button_count /\ down \in Seq(BOOLEAN) /\ row \in Seq(Keys)
      /\ Len(row) = crt_button_count /\ crt_button_count \in Nat
  BY RowsAreNat DEF IInv, Shape, InfoFits
<1>3. update'.at \notin Before
  <2>1. CASE update.isDown
    BY <1>1, <2>1 DEF UpdateMark, Update, Before
  <2>2. CASE ~update.isDown
    BY <2>2 DEF UpdateMark, Before, NoUpdate
  <2> QED BY <2>1, <2>2
<1>4. ASSUME NEW i \in 1 .. crt_button_count, i \notin stale'
      PROVE  (down'[i] <=> row[i] \in pressed)
  <2>1. i \in DOMAIN row /\ down'[i] = IF i \in Marks(row, update.key) THEN update.isDown ELSE down[i]
    BY <1>1, <1>2 DEF UpdateMark
  <2>2. CASE row[i] = update.key
    BY <1>1, <2>1, <2>2 DEF Marks, Lit, EventShown, Before
  <2>3. CASE row[i] # update.key
    <3>1. i \notin Marks(row, update.key)
      BY <2>3 DEF Marks
    <3>2. i \notin stale
      BY <1>1, <1>4, <3>1 DEF UpdateMark
    <3> QED BY <2>1, <2>3, <3>1, <3>2 DEF Lit, ButtonsShown, Shown
  <2> QED BY <2>2, <2>3
<1>5. UNCHANGED <<keys, crt_button_count, pressed>>
  BY DEF UpdateMark
<1> QED BY <1>3, <1>4, <1>5 DEF Lit, EventShown, ButtonsShown, Shown

LEMMA OtherUpdateLit == ASSUME IInv, Lit, UpdateLock \/ UpdateBook \/ UpdateMax PROVE Lit'
<1>1. UNCHANGED <<layout, pressed, stale>>
  BY DEF UpdateLock, UpdateBook, UpdateMax, ghosts
<1>2. \/ update.at \in Before /\ update'.at \in Before /\ update'.key = update.key
         /\ update'.isDown = update.isDown
      \/ update.at \notin Before /\ update'.at \notin Before
  <2>1. update \in Update \/ update.at = "none"
    BY DEF IInv, Shape, NoUpdate
  <2>2. CASE UpdateLock
    BY <2>1, <2>2 DEF UpdateLock, Update, Before
  <2>3. CASE UpdateBook
    <3> DEFINE counts == Counts(keys[update.row], update.key)
    <3>1. update' = [update EXCEPT !.at = "booked", !.counted = counts, !.auto = is_autoplay]
      BY <2>3 DEF UpdateBook
    <3> HIDE DEF counts
    <3> QED BY <2>1, <2>3, <3>1 DEF UpdateBook, Update, Before
  <2>4. CASE UpdateMax
    BY <2>4 DEF UpdateMax, Before, NoUpdate
  <2> QED BY <2>2, <2>3, <2>4
<1> QED BY <1>1, <1>2 DEF Lit, EventShown, ButtonsShown, Shown, layout

LEMMA SetButtonCountLit == ASSUME IInv, Lit, NEW n \in Rows, SetButtonCount(n) PROVE Lit'
<1>1. n \in Nat
  BY RowsAreNat
<1>2. \A i \in 1 .. n : ~AllUp(n)[i]
  BY <1>1 DEF AllUp
<1> QED BY <1>2 DEF SetButtonCount, Lit, EventShown, ButtonsShown, Shown

LEMMA ModifyKeyLit ==
  ASSUME IInv, Lit, NEW n \in Rows, NEW i \in Rows, NEW k \in Keys, i <= n, ModifyKey(n, i, k)
  PROVE  Lit'
<1>1. /\ update'.at = update.at
      /\ update.at \in Before => update'.key = update.key /\ update'.isDown = update.isDown
  BY DEF ModifyKey, IInv, Shape, Update, Before, NoUpdate
<1>2. UNCHANGED <<crt_button_count, down, pressed>>
  BY DEF ModifyKey
<1>3. ASSUME NEW j \in 1 .. crt_button_count, j \notin stale'
      PROVE  j \notin stale /\ keys'[crt_button_count][j] = keys[crt_button_count][j]
  <2>1. j \notin stale /\ (n = crt_button_count => j # i)
    BY <1>3 DEF ModifyKey
  <2>2. keys' = [keys EXCEPT ![n][i] = k] /\ keys \in [Rows -> Seq(Keys)]
    BY DEF ModifyKey, IInv, Shape
  <2> QED BY <2>1, <2>2
<1> QED BY <1>1, <1>2, <1>3 DEF Lit, EventShown, ButtonsShown, Shown

LEMMA NextLit == IInv /\ Lit /\ [Next]_vars => Lit'
<1> SUFFICES ASSUME IInv, Lit, [Next]_vars PROVE Lit'
  OBVIOUS
<1>1. CASE UNCHANGED <<layout, update, pressed, stale>>
  BY <1>1 DEF Lit, EventShown, ButtonsShown, Shown, layout
<1>2. CASE \/ \E k \in Keys : Decay(k)
           \/ \E s \in Status : SourceChanges(s)
           \/ ResetAllTotal \/ ResetAllMax \/ ResetAllGraph \/ ResetTotal
           \/ Timer \/ UNCHANGED vars
  BY <1>1, <1>2 DEF Decay, SourceChanges, ResetAllTotal, ResetAllMax, ResetAllGraph, ResetTotal,
     Timer, UpdateStatus, AutoplayCallback, vars, ghosts
<1>3. CASE Monitor
  BY <1>3, UpdateMarkLit, OtherUpdateLit DEF Monitor
<1>4. CASE \/ \E n \in Rows : SetButtonCount(n)
           \/ \E n \in Rows, i \in Rows, k \in Keys : i <= n /\ ModifyKey(n, i, k)
  BY <1>4, SetButtonCountLit, ModifyKeyLit
<1> QED BY <1>2, <1>3, <1>4, OnKeyLit DEF Next, Main

\* A button shows the last event of its key, but for those that were reconfigured
\* since, for any layouts, keys and any number of them.
THEOREM ButtonsFollow == Spec => []ButtonsFollowEvents
<1>1. Lit => ButtonsFollowEvents
  BY DEF Lit, ButtonsShown, Shown, ButtonsFollowEvents, Before, NoUpdate
<1>2. Spec => []Lit
  BY InitLit, NextLit, Invariance, PTL DEF Spec
<1> QED BY <1>1, <1>2, PTL

-----------------------------------------------------------------------------
(* "Reset all" *)

\* What its three steps have cleared so far stays clear while no event comes.
Cleared ==
  /\ resetting \in {0, 1, 2}
  /\ ~since => /\ update = NoUpdate
               /\ total_count = 0 /\ total_count_auto = 0
               /\ resetting # 2 => max_kps = 0 /\ max_kps_auto = 0
               /\ resetting = 0 => \A k \in Keys : recent[k] = 0

LEMMA NextCleared == Cleared /\ [Next]_vars => Cleared'
<1> SUFFICES ASSUME Cleared, [Next]_vars PROVE Cleared'
  OBVIOUS
<1>1. ASSUME NEW k \in Keys, NEW d \in BOOLEAN, OnKey(k, d) PROVE Cleared'
  BY <1>1 DEF OnKey, Cleared
<1>2. CASE Monitor
  BY <1>2 DEF Monitor, UpdateLock, UpdateMark, UpdateBook, UpdateMax, Cleared, NoUpdate, ghosts
<1>3. ASSUME NEW k \in Keys, Decay(k) PROVE Cleared'
  BY <1>3 DEF Decay, Cleared, counters, ghosts
<1>4. ASSUME NEW n \in Rows, SetButtonCount(n) PROVE Cleared'
  BY <1>4 DEF SetButtonCount, Cleared, counters
<1>5. ASSUME NEW n \in Rows, NEW i \in Rows, NEW k \in Keys, ModifyKey(n, i, k) PROVE Cleared'
  BY <1>5 DEF ModifyKey, Cleared, counters
<1>6. CASE ResetAllTotal
  <2>1. update' = update /\ (~since' => update = NoUpdate)
    BY <1>6, Zenon DEF ResetAllTotal
  <2>2. total_count' = 0 /\ total_count_auto' = 0 /\ resetting' = 2
    BY <1>6 DEF ResetAllTotal, ClearTotal
  <2> QED BY <2>1, <2>2 DEF Cleared
<1>7. CASE ResetAllMax
  BY <1>7 DEF ResetAllMax, ClearMax, Cleared, ghosts
<1>8. CASE ResetAllGraph
  BY <1>8 DEF ResetAllGraph, Cleared, counters, ghosts
<1>9. CASE ResetTotal
  BY <1>9 DEF ResetTotal, ClearTotal, Cleared, ghosts
<1>10. CASE Timer
  BY <1>10 DEF Timer, UpdateStatus, AutoplayCallback, AutoCleared, Cleared, counters, ghosts
<1>11. CASE \E s \in Status : SourceChanges(s)
  BY <1>11 DEF SourceChanges, Cleared, counters, ghosts
<1>12. CASE UNCHANGED vars
  BY <1>12 DEF vars, Cleared, counters, ghosts
<1> QED BY <1>1, <1>2, <1>3, <1>4, <1>5, <1>6, <1>7, <1>8, <1>9, <1>10, <1>11, <1>12 DEF Next, Main

\* "Reset all" leaves nothing behind unless an event was under way, although its steps
\* are three and the timer and the layout commands come between them.
THEOREM ResetsAreWhole == Spec => []ResetLeavesNothing
<1>1. Init => Cleared
  BY DEF Init, Cleared
<1>2. Cleared => ResetLeavesNothing
  BY DEF Cleared, ResetLeavesNothing
<1> QED BY <1>1, <1>2, NextCleared, PTL DEF Spec

-----------------------------------------------------------------------------
(* The types *)

\* What the sum of the KPS of a row adds up to is a number.
LEMMA CalcKpsNowTyped ==
  ASSUME recent \in [Keys -> Nat], NEW row \in Seq(Keys)
  PROVE  CalcKpsNow(row) \in Nat
<1> DEFINE step == [p \in Nat \X (0 + 1 .. Len(row)) |-> p[1] + recent[row[p[2]]]]
           pre[i \in 0 .. Len(row)] == IF i = 0 THEN 0 ELSE pre[i - 1] + recent[row[i]]
<1>1. Len(row) \in Int /\ 0 <= Len(row) /\ 0 \in Int
  OBVIOUS
<1>2. \A i \in 1 .. Len(row) : recent[row[i]] \in Nat
  OBVIOUS
<1>3. CalcKpsNow(row) = pre[Len(row)]
  BY DEF CalcKpsNow
<1>4. \A x \in Nat, i \in 0 + 1 .. Len(row) :
        step[<<x, i>>] = x + recent[row[i]] /\ step[<<x, i>>] \in Nat
  BY <1>2
<1> HIDE DEF step
<1>5. PICK g \in [0 .. Len(row) -> Nat] : Loop(g, 0, Len(row), 0, step)
  BY <1>1, <1>4, LoopRuns
<1>6. g = [i \in 0 .. Len(row) |-> IF i = 0 THEN 0 ELSE g[i - 1] + recent[row[i]]]
  <2>1. \A i \in 0 .. Len(row) : i # 0 => i - 1 \in 0 .. Len(row) /\ i \in 0 + 1 .. Len(row)
    BY <1>1
  <2>2. \A i \in 0 .. Len(row) : i # 0 => step[<<g[i - 1], i>>] = g[i - 1] + recent[row[i]]
    BY <1>4, <1>5, <2>1
  <2> QED BY <1>5, <2>2 DEF Loop
<1>7. pre = [i \in 0 .. Len(row) |-> IF i = 0 THEN 0 ELSE pre[i - 1] + recent[row[i]]]
  BY <1>6
<1> HIDE DEF pre
<1>8. pre[0] = 0 /\ \A i \in 0 + 1 .. Len(row) : pre[i] = pre[i - 1] + recent[row[i]]
  <2>1. 0 \in 0 .. Len(row) /\ \A i \in 0 + 1 .. Len(row) : i \in 0 .. Len(row) /\ i # 0
    BY <1>1
  <2> QED BY <1>7, <2>1
<1> DEFINE S == {i \in 0 .. Len(row) : pre[i] \in Nat}
<1>9. 0 \in S
  BY <1>1, <1>8
<1>10. ASSUME NEW i \in 0 + 1 .. Len(row), i - 1 \in S PROVE i \in S
  <2>1. i \in 1 .. Len(row) /\ i \in 0 .. Len(row) /\ pre[i - 1] \in Nat
    BY <1>1, <1>10
  <2>2. pre[i] = pre[i - 1] + recent[row[i]] /\ recent[row[i]] \in Nat
    BY <1>2, <1>8, <2>1
  <2> QED BY <2>1, <2>2
<1>11. 0 .. Len(row) \subseteq S
  <2> HIDE DEF S
  <2> QED BY <1>1, <1>9, <1>10, InductTo
<1>12. Len(row) \in S
  BY <1>1, <1>11
<1> QED BY <1>3, <1>12

\* The part of TypeOK that the invariant of the books leaves open.
Rest ==
  /\ total_count \in Nat /\ total_count_auto \in Nat /\ max_kps \in Nat /\ max_kps_auto \in Nat
  /\ recent \in [Keys -> Nat]
  /\ crt_valid_status \in Status \ {"standby"}
  /\ firing \in BOOLEAN /\ since \in BOOLEAN
  /\ resetting \in 0 .. 3
  /\ events \in 0 .. MaxPresses /\ modified \in 0 .. MaxModify
  /\ pressed \subseteq Keys
  /\ stale \subseteq Rows

\* The rows are those of the layout at startup.
LEMMA RowsAre == Rows = 1 .. Len(Layout) /\ Len(Layout) \in Nat /\ \A n \in Rows : 1 .. n \subseteq Rows
BY LayoutAssumption DEF Rows

\* The two together are TypeOK.
LEMMA RestSuffices == IInv /\ Rest => TypeOK
<1> SUFFICES ASSUME IInv, Rest PROVE TypeOK
  OBVIOUS
<1>1. \A n \in Rows : keys[n] \in [1 .. n -> Keys]
  <2> TAKE n \in Rows
  <2>1. keys[n] \in Seq(Keys) /\ Len(keys[n]) = n
    BY DEF IInv, Shape
  <2> QED BY <2>1
<1>2. stale \subseteq 1 .. Len(Layout)
  BY RowsAre DEF Rest
<1> QED BY <1>1, <1>2 DEF IInv, Shape, InfoFits, Rest, TypeOK

\* The constructor's state.
LEMMA InitRest == Init => Rest
<1> SUFFICES ASSUME Init PROVE Rest
  OBVIOUS
<1>1. recent \in [Keys -> Nat] /\ crt_valid_status \in Status \ {"standby"}
  BY DEF Init, Status
<1>2. events \in 0 .. MaxPresses /\ modified \in 0 .. MaxModify
  BY BoundsAssumption DEF Init
<1>3. firing \in BOOLEAN /\ since \in BOOLEAN
  BY DEF Init
<1> QED BY <1>1, <1>2, <1>3 DEF Init, Rest

\* A press or release.
LEMMA OnKeyRest == ASSUME Rest, NEW k \in Keys, NEW d \in BOOLEAN, OnKey(k, d) PROVE Rest'
<1>1. events' \in 0 .. MaxPresses
  BY BoundsAssumption DEF OnKey, Rest
<1>2. recent' \in [Keys -> Nat]
  BY DEF OnKey, Rest
<1>3. pressed' \subseteq Keys
  BY DEF OnKey, Rest
<1> QED BY <1>1, <1>2, <1>3 DEF OnKey, Rest, layout, counters, autoplay

\* update_on_key_down; what it takes the maximum of is the sum over a row.
LEMMA MonitorRest == ASSUME IInv, Rest, Monitor PROVE Rest'
<1>1. CASE UpdateLock
  BY <1>1 DEF UpdateLock, Rest, layout, counters, autoplay, ghosts
<1>2. CASE UpdateMark
  BY <1>2 DEF UpdateMark, Rest, counters, autoplay
<1>3. CASE UpdateBook
  <2>1. total_count' \in Nat /\ total_count_auto' \in Nat
    BY <1>3 DEF UpdateBook, Rest
  <2> QED BY <1>3, <2>1 DEF UpdateBook, Rest, autoplay, ghosts
<1>4. CASE UpdateMax
  <2>1. keys[update.row] \in Seq(Keys)
    BY <1>4 DEF UpdateMax, IInv, Shape, Update, NoUpdate
  <2>2. CalcKpsNow(keys[update.row]) \in Nat
    BY <2>1, CalcKpsNowTyped DEF Rest
  <2>3. max_kps' \in Nat /\ max_kps_auto' \in Nat
    BY <1>4, <2>2 DEF UpdateMax, Larger, Rest
  <2> QED BY <1>4, <2>3 DEF UpdateMax, Rest, autoplay, ghosts
<1> QED BY <1>1, <1>2, <1>3, <1>4 DEF Monitor

\* The commands of the main thread.
LEMMA MainRest == ASSUME IInv, Rest, Main PROVE Rest'
<1>1. ASSUME NEW n \in Rows, SetButtonCount(n) PROVE Rest'
  <2>1. stale' \subseteq Rows
    BY <1>1, RowsAre DEF SetButtonCount
  <2>2. modified' \in 0 .. MaxModify
    BY <1>1, BoundsAssumption DEF SetButtonCount, Rest
  <2> QED BY <1>1, <2>1, <2>2 DEF SetButtonCount, Rest, counters, autoplay
<1>2. ASSUME NEW n \in Rows, NEW i \in Rows, NEW k \in Keys, ModifyKey(n, i, k) PROVE Rest'
  <2>1. stale' \subseteq Rows
    BY <1>2 DEF ModifyKey, Rest
  <2>2. modified' \in 0 .. MaxModify
    BY <1>2, BoundsAssumption DEF ModifyKey, Rest
  <2> QED BY <1>2, <2>1, <2>2 DEF ModifyKey, Rest, counters, autoplay
<1>3. CASE ResetAllTotal \/ ResetTotal
  <2>1. since' \in BOOLEAN
    BY <1>3 DEF ResetAllTotal, ResetTotal, Rest, ghosts
  <2> QED BY <1>3, <2>1 DEF ResetAllTotal, ResetTotal, ClearTotal, Rest, autoplay, ghosts
<1>4. CASE ResetAllMax \/ ResetAllGraph
  BY <1>4 DEF ResetAllMax, ResetAllGraph, ClearMax, Rest, counters, autoplay, ghosts
<1> QED BY <1>1, <1>2, <1>3, <1>4 DEF Main

\* The timer never takes standby for the last valid status.
LEMMA TimerRest == ASSUME IInv, Rest, Timer PROVE Rest'
<1>1. CASE UpdateStatus
  <2>1. crt_valid_status' \in Status \ {"standby"}
    BY <1>1 DEF UpdateStatus, Valid, IInv, Shape, Rest
  <2>2. firing' \in BOOLEAN
    BY <1>1 DEF UpdateStatus, Fires
  <2> QED BY <1>1, <2>1, <2>2 DEF UpdateStatus, Rest, counters, ghosts
<1>2. CASE AutoplayCallback
  BY <1>2 DEF AutoplayCallback, AutoCleared, Rest, ghosts
<1> QED BY <1>1, <1>2 DEF Timer

\* Every step.
LEMMA NextRest == IInv /\ Rest /\ [Next]_vars => Rest'
<1> SUFFICES ASSUME IInv, Rest, [Next]_vars PROVE Rest'
  OBVIOUS
<1>1. CASE \E k \in Keys : Decay(k)
  <2>1. recent' \in [Keys -> Nat]
    BY <1>1 DEF Decay, Rest
  <2> QED BY <1>1, <2>1 DEF Decay, Rest, counters, autoplay, ghosts
<1>2. CASE \E s \in Status : SourceChanges(s)
  BY <1>2 DEF SourceChanges, Rest, counters, ghosts
<1>3. CASE UNCHANGED vars
  BY <1>3 DEF vars, Rest, counters, autoplay, ghosts
<1> QED BY <1>1, <1>2, <1>3, OnKeyRest, MonitorRest, MainRest, TimerRest DEF Next

\* The types hold for any layout: the last valid status is never standby, the row bound
\* by an update is one of the layout's, and the maxima, sums over a row that is still
\* being read while keys are reassigned, are numbers.
THEOREM TypesHold == Spec => []TypeOK
<1>1. Init => Rest
  BY InitRest
<1>2. IInv /\ Rest /\ [Next]_vars => Rest'
  BY NextRest
<1>3. IInv /\ Rest => TypeOK
  BY RestSuffices
<1> QED BY <1>1, <1>2, <1>3, Invariance, PTL DEF Spec
=============================================================================
