---------------------------- MODULE KeysManager ----------------------------
(***************************************************************************)
(* keys_manager and autoplay_manager (src/source/src/keys_manager.hpp,     *)
(* autoplay_manager.hpp, utils/timer_thread.hpp) with the menu commands of *)
(* main.cpp that reset or reconfigure them.                                *)
(*                                                                         *)
(* Three threads meet here: the monitor's thread in update_on_key_down, the *)
(* main thread, and autoplay_manager's timer.  K is keys_manager::m; it is *)
(* held while update is past "notified".  Bodies that take K and touch     *)
(* nothing unlocked are one step guarded by KFree.  modify_key takes no    *)
(* lock, so update_on_key_down is split where it reads the keys again.     *)
(***************************************************************************)
EXTENDS Integers, Sequences, FiniteSets

CONSTANTS
  Keys,        \* virtual key codes
  Layout,      \* Layout[n]: the key map of n buttons at startup
  MaxPresses,  \* bound: presses delivered
  MaxModify    \* bound: keys reassigned and button counts chosen

Rows == DOMAIN Layout
Status == {"manual_play", "auto_play", "standby"}

ASSUME LayoutAssumption == Layout \in Seq(Seq(Keys)) /\ Layout # <<>>
                             /\ \A n \in Rows : Len(Layout[n]) = n
ASSUME BoundsAssumption == MaxPresses \in Nat /\ MaxModify \in Nat

VARIABLES
  keys,              \* keys[n]: the keys of the layout with n buttons
  crt_button_count,
  down,              \* extra_info[i].down
  is_autoplay, total_count, total_count_auto, max_kps, max_kps_auto,
  update,            \* update_on_key_down in progress; NoUpdate otherwise
  recent,            \* external: the current KPS of each key in src
  source,            \* external: what get_status would return now
  crt_valid_status, crt_status, \* autoplay_manager
  firing,            \* its timer is about to call autoplay_manager_callback
  resetting,         \* steps left of the menu command "reset all"
  events,            \* history: presses delivered so far
  modified,          \* history: reconfigurations so far
  pressed,           \* history: keys whose last event was a press
  stale,             \* history: buttons reconfigured since the last event of
                     \* their key
  since              \* history: an event was under way since the last "reset
                     \* all" began

counters == <<is_autoplay, total_count, total_count_auto, max_kps, max_kps_auto>>
layout == <<keys, crt_button_count, down>>
autoplay == <<source, crt_valid_status, crt_status, firing>>
ghosts == <<events, modified, pressed, stale, since>>
vars == <<layout, counters, update, recent, autoplay, resetting, ghosts>>

NoUpdate == [at |-> "none"]
Update == [at : {"notified", "locked", "marked", "booked"}, key : Keys, isDown : BOOLEAN,
           row : Rows, marked : BOOLEAN, counted : BOOLEAN, auto : BOOLEAN, torn : BOOLEAN]

TypeOK ==
  /\ \A n \in Rows : keys[n] \in [1 .. n -> Keys]
  /\ crt_button_count \in Rows
  /\ down \in Seq(BOOLEAN)
  /\ is_autoplay \in BOOLEAN
  /\ {total_count, total_count_auto, max_kps, max_kps_auto} \subseteq Nat
  /\ update = NoUpdate \/ update \in Update
  /\ recent \in [Keys -> Nat]
  /\ {source, crt_status} \subseteq Status
  /\ crt_valid_status \in Status \ {"standby"}
  /\ firing \in BOOLEAN
  /\ resetting \in 0 .. 3
  /\ events \in 0 .. MaxPresses /\ modified \in 0 .. MaxModify
  /\ pressed \subseteq Keys
  /\ stale \subseteq 1 .. Len(Layout)
  /\ since \in BOOLEAN

KFree == update.at \in {"none", "notified"}
AllUp(n) == [i \in 1 .. n |-> FALSE]

\* src->calc_kps_now(crt_keys), which accumulates the KPS of the keys.
CalcKpsNow(row) ==
  LET pre[i \in 0 .. Len(row)] == IF i = 0 THEN 0 ELSE pre[i - 1] + recent[row[i]]
  IN  pre[Len(row)]
-----------------------------------------------------------------------------
Init ==
  /\ keys = Layout
  /\ crt_button_count \in Rows
  /\ down = AllUp(crt_button_count)
  /\ is_autoplay = FALSE
  /\ total_count = 0 /\ total_count_auto = 0
  /\ max_kps = 0 /\ max_kps_auto = 0
  /\ update = NoUpdate
  /\ recent = [k \in Keys |-> 0]
  /\ source \in Status
  /\ crt_valid_status = "manual_play"
  /\ crt_status = "manual_play"
  /\ firing = FALSE
  /\ resetting = 0
  /\ events = 0 /\ modified = 0
  /\ pressed = {} /\ stale = {} /\ since = TRUE

\* kps::on_key on the monitor's thread: notify_key_down, then the callback, which
\* waits for K.  A key alternates between press and release.
OnKey(k, isDown) ==
  /\ update = NoUpdate
  /\ isDown # (k \in pressed)
  /\ isDown => events < MaxPresses
  /\ events' = IF isDown THEN events + 1 ELSE events
  /\ recent' = IF isDown THEN [recent EXCEPT ![k] = @ + 1] ELSE recent
  /\ pressed' = IF isDown THEN pressed \union {k} ELSE pressed \ {k}
  /\ update' = [at |-> "notified", key |-> k, isDown |-> isDown,
                row |-> crt_button_count, marked |-> FALSE, counted |-> FALSE,
                auto |-> FALSE, torn |-> FALSE]
  /\ since' = TRUE
  /\ UNCHANGED <<layout, counters, autoplay, resetting, modified, stale>>

\* update_on_key_down: take K and bind crt_keys to the current row.
UpdateLock ==
  /\ update.at = "notified"
  /\ update' = [update EXCEPT !.at = "locked", !.row = crt_button_count]
  /\ UNCHANGED <<layout, counters, recent, autoplay, resetting, ghosts>>

\* The loop over extra_info; a release is done after it.
Marks_First(row, k) ==
  {i \in DOMAIN row : row[i] = k /\ \A j \in 1 .. i - 1 : row[j] # k}
Marks(row, k) == {i \in DOMAIN row : row[i] = k}

UpdateMark ==
  /\ update.at = "locked"
  /\ LET marks == Marks(keys[update.row], update.key) IN
       /\ down' = [i \in 1 .. Len(down) |-> IF i \in marks THEN update.isDown ELSE down[i]]
       /\ stale' = stale \ marks
       /\ update' = IF update.isDown
                    THEN [update EXCEPT !.at = "marked", !.marked = marks # {}, !.torn = FALSE]
                    ELSE NoUpdate
  /\ UNCHANGED <<keys, crt_button_count, counters, recent, autoplay, resetting,
                 events, modified, pressed, since>>

\* std::count over the same keys, and the total of the current mode.
Counts_AfterFirst(row, k) == \E i \in DOMAIN row : i > 1 /\ row[i] = k
Counts(row, k) == \E i \in DOMAIN row : row[i] = k

UpdateBook ==
  /\ update.at = "marked"
  /\ LET counts == Counts(keys[update.row], update.key) IN
       /\ update' = [update EXCEPT !.at = "booked", !.counted = counts, !.auto = is_autoplay]
       /\ IF ~counts THEN UNCHANGED <<total_count, total_count_auto>>
          ELSE IF is_autoplay THEN /\ total_count_auto' = total_count_auto + 1
                                   /\ UNCHANGED total_count
          ELSE /\ total_count' = total_count + 1
               /\ UNCHANGED total_count_auto
  /\ UNCHANGED <<layout, is_autoplay, max_kps, max_kps_auto, recent, autoplay,
                 resetting, ghosts>>

Larger(m, n) == IF m >= n THEN m ELSE n

\* The maximum of the current mode, with src's locks taken inside K; K released.
UpdateMax ==
  /\ update.at = "booked"
  /\ LET now == CalcKpsNow(keys[update.row]) IN
       IF is_autoplay THEN max_kps_auto' = Larger(max_kps_auto, now) /\ UNCHANGED max_kps
       ELSE max_kps' = Larger(max_kps, now) /\ UNCHANGED max_kps_auto
  /\ update' = NoUpdate
  /\ UNCHANGED <<layout, is_autoplay, total_count, total_count_auto, recent,
                 autoplay, resetting, ghosts>>

\* Presses leave the KPS window.
Decay(k) ==
  /\ recent[k] > 0
  /\ recent' = [recent EXCEPT ![k] = 0]
  /\ UNCHANGED <<layout, counters, update, autoplay, resetting, ghosts>>

-----------------------------------------------------------------------------
\* The main thread.  set_button_count waits for K.
MayResize_Unlocked == TRUE
MayResize == KFree

SetButtonCount(n) ==
  /\ resetting = 0 /\ MayResize /\ modified < MaxModify
  /\ n # crt_button_count
  /\ crt_button_count' = n
  /\ down' = AllUp(n)
  /\ modified' = modified + 1
  /\ stale' = {i \in 1 .. n : keys[n][i] \in pressed}
  /\ UNCHANGED <<keys, counters, update, recent, autoplay, resetting, events, pressed, since>>

\* modify_key takes no lock: it may run inside update_on_key_down.
ModifyKey(n, i, k) ==
  /\ resetting = 0 /\ modified < MaxModify
  /\ keys[n][i] # k
  /\ keys' = [keys EXCEPT ![n][i] = k]
  /\ modified' = modified + 1
  /\ stale' = IF n = crt_button_count THEN stale \union {i} ELSE stale
  /\ update' = IF update = NoUpdate THEN update ELSE [update EXCEPT !.torn = TRUE]
  /\ UNCHANGED <<crt_button_count, down, counters, recent, autoplay, resetting,
                 events, pressed, since>>

\* clear_total_count and clear_max_kps
ClearTotal_Shown ==
  IF is_autoplay THEN total_count_auto' = 0 /\ UNCHANGED total_count
  ELSE total_count' = 0 /\ UNCHANGED total_count_auto
ClearTotal == total_count' = 0 /\ total_count_auto' = 0
ClearMax == max_kps' = 0 /\ max_kps_auto' = 0

\* The commands "reset all", in three separately locked steps, and "reset total";
\* the auto-reset timer calls the same functions.
ResetAllTotal ==
  /\ resetting = 0 /\ KFree
  /\ ClearTotal
  /\ resetting' = 2
  /\ since' = (update # NoUpdate)
  /\ UNCHANGED <<layout, is_autoplay, max_kps, max_kps_auto, update, recent,
                 autoplay, events, modified, pressed, stale>>

ResetAllMax ==
  /\ resetting = 2 /\ KFree
  /\ ClearMax
  /\ resetting' = 1
  /\ UNCHANGED <<layout, is_autoplay, total_count, total_count_auto, update,
                 recent, autoplay, ghosts>>

ResetAllGraph ==
  /\ resetting = 1
  /\ recent' = [k \in Keys |-> 0]
  /\ resetting' = 0
  /\ UNCHANGED <<layout, counters, update, autoplay, ghosts>>

ResetTotal ==
  /\ resetting = 0 /\ KFree
  /\ ClearTotal
  /\ UNCHANGED <<layout, is_autoplay, max_kps, max_kps_auto, update, recent,
                 autoplay, resetting, ghosts>>

-----------------------------------------------------------------------------
\* external: osu! starts or ends a play, its memory cannot be read, or another
\* monitor is in use.
SourceChanges(s) ==
  /\ s # source
  /\ source' = s
  /\ UNCHANGED <<layout, counters, update, recent, crt_valid_status, crt_status,
                 firing, resetting, ghosts>>

\* update_current_status and the test in the timer's routine.
Valid_Any(crt) == crt
Valid(crt) == IF crt # "standby" THEN crt ELSE crt_valid_status

Fires_NotFromStandby(crt) == "standby" \notin {crt, crt_status} /\ crt # crt_status
Fires_OnStart(crt) == crt = "auto_play" /\ crt # crt_status
Fires(crt) == crt # "standby" /\ crt # crt_status

UpdateStatus ==
  /\ ~firing
  /\ crt_status' = source
  /\ crt_valid_status' = Valid(source)
  /\ firing' = Fires(source)
  /\ UNCHANGED <<layout, counters, update, recent, source, resetting, ghosts>>

\* autoplay_manager_callback
MayFire_Unlocked == TRUE
MayFire == KFree

AutoCleared_Kept == UNCHANGED <<total_count_auto, max_kps_auto>>
AutoCleared == total_count_auto' = 0 /\ max_kps_auto' = 0

AutoplayCallback ==
  /\ firing /\ MayFire
  /\ AutoCleared
  /\ is_autoplay' = (crt_valid_status = "auto_play")
  /\ firing' = FALSE
  /\ UNCHANGED <<layout, total_count, max_kps, update, recent, source,
                 crt_valid_status, crt_status, resetting, ghosts>>

Monitor == UpdateLock \/ UpdateMark \/ UpdateBook \/ UpdateMax
Timer == UpdateStatus \/ AutoplayCallback
Main ==
  \/ \E n \in Rows : SetButtonCount(n)
  \/ \E n \in Rows, i \in Rows, k \in Keys : i <= n /\ ModifyKey(n, i, k)
  \/ ResetAllTotal \/ ResetAllMax \/ ResetAllGraph \/ ResetTotal

Next ==
  \/ \E k \in Keys, isDown \in BOOLEAN : OnKey(k, isDown)
  \/ Monitor
  \/ \E k \in Keys : Decay(k)
  \/ Main
  \/ \E s \in Status : SourceChanges(s)
  \/ Timer

\* A thread inside update_on_key_down runs on, and the timer keeps firing; presses are
\* finitely many, so weak fairness gives the callback K in the end.
Spec == Init /\ [][Next]_vars
FairSpec == Spec /\ WF_vars(Monitor) /\ WF_vars(Timer)
-----------------------------------------------------------------------------
(* Properties *)

\* While crt_keys is bound to a row, extra_info has an entry for each of its keys:
\* update_on_key_down never indexes past the vector that set_button_count clears
\* and resizes on the main thread.
InfoCoversRow ==
  /\ KFree => Len(down) = crt_button_count
  /\ ~KFree => Len(down) = Len(keys[update.row])

\* Between two calls of the timer's callback the display mode is the last status
\* that could be read.
ModeIsLastStatus == ~firing => (is_autoplay <=> crt_valid_status = "auto_play")

\* The books of automatic play are empty while playing by hand, so an old replay
\* never shows through when the next one starts.
AutoBooksEmpty == ~is_autoplay => total_count_auto = 0 /\ max_kps_auto = 0

\* One press is booked in one mode, total and maximum alike, although the mode is
\* changed by another thread.
OneMode == update.at = "booked" => update.auto = is_autoplay

\* A press marks a button exactly when it is counted, unless the main thread
\* reassigned a key in between.
MarkedIffCounted ==
  update.at = "booked" => update.torn \/ update.marked = update.counted

\* The books, together: those of automatic play are empty outside it, and a press is
\* booked in one mode, exactly when it marks a button.
BooksAgree == AutoBooksEmpty /\ OneMode /\ MarkedIffCounted

\* A button shows the last event of its key.  A reconfiguration may leave it wrong,
\* but only until the next event of the key.
ButtonsFollowEvents ==
  update = NoUpdate =>
    \A i \in 1 .. crt_button_count :
      i \notin stale => (down[i] <=> keys[crt_button_count][i] \in pressed)

\* "Reset all" leaves nothing in either book or in the graph, if no event was
\* under way at any of its three steps.
ResetLeavesNothing ==
  (resetting = 0 /\ ~since) =>
    /\ total_count = 0 /\ total_count_auto = 0
    /\ max_kps = 0 /\ max_kps_auto = 0
    /\ \A k \in Keys : recent[k] = 0

\* A change of status that lasts reaches the display.
AutoplayFollows ==
  /\ (<>[](source = "auto_play")) => (<>[]is_autoplay)
  /\ (<>[](source = "manual_play")) => (<>[]~is_autoplay)
=============================================================================
