----------------------------- MODULE KeyMonitor -----------------------------
(***************************************************************************)
(* key_monitor_base, key_monitor and the monitors async, dinput, hook and   *)
(* memory (src/source/src/key_monitor*.hpp), driven by kps::on_key and     *)
(* change_monitor_implement_type (integrated_kps.hpp): how physical key    *)
(* states become press and release events, while the main thread replaces  *)
(* the monitor.                                                            *)
(*                                                                         *)
(* Each monitor object has its own threads, its own is_down array and its  *)
(* own callback.  is_down is updated before mutex_callback is taken, so    *)
(* finding a change (Visit, HookCall) and delivering it (Deliver) are two  *)
(* steps.  The body of Deliver runs under mutex_callback.                  *)
(***************************************************************************)
EXTENDS Integers, FiniteSets

CONSTANTS
  Keyboard,     \* keyboard keys
  Mouse,        \* mouse buttons
  Codes,        \* indices of dinput's keyboard_state
  ByteOf,       \* external: the key that sets the byte of each index, or none
  Converted,    \* external: MapVirtualKeyW of each index, none where it returns 0
  Unhooked,     \* mouse buttons mouse_proc passes over
  Addrs,        \* addresses a monitor object can be allocated at
  Kinds,        \* implementations the user may switch to
  MaxPresses,   \* bound: physical presses of each key
  MaxPlays,     \* bound: times the game shows each key newly down
  MaxSwitches   \* bound: monitor switches after the first monitor

AllKinds == {"async", "dinput", "hook", "memory"}
Keys == Keyboard \union Mouse
Device(k) == IF k \in Mouse THEN "mouse" ELSE "keyboard"

ASSUME KindsAssumption == Kinds \subseteq AllKinds
ASSUME AddrsAssumption == Addrs # {} /\ "none" \notin Addrs
ASSUME DevicesAssumption == Keyboard \intersect Mouse = {}
ASSUME CodesAssumption ==
  /\ Codes \intersect Keys = {} /\ "none" \notin Keys
  /\ ByteOf \in [Codes -> Keyboard \union {"none"}]
  /\ Converted \in [Codes -> Keyboard \union {"none"}]
ASSUME UnhookedAssumption == Unhooked \subseteq Mouse
ASSUME BoundsAssumption == MaxPresses \in Nat \ {0} /\ MaxPlays \in Nat /\ MaxSwitches \in Nat

VARIABLES
  held,       \* the keys physically held down
  presses,    \* history: physical presses of each key
  shown,      \* external: the keys get_mania_keys returns, none when it fails
  playing,    \* external: those of them it returns as down
  plays,      \* history: times the game showed each key newly down
  live,       \* addresses of monitors that exist
  kind,       \* the class of the monitor at each address
  is_down,    \* key_monitor_base::is_down, as the set of keys marked down
  callback,   \* whether key_monitor_base::callback is set
  calls,      \* changes found by the monitor's threads and not yet delivered
  left,       \* polling: keys or indices still to visit in the current round
  shot,       \* dinput, memory: those of them that were read as down
  mouseDue,   \* dinput: the mouse is still to be read in the current round
  hooked,     \* hook: the hook thread has installed its hook
  inbox,      \* hook: the input message its hook thread is to be called for
  ended,      \* threads of the monitor have returned
  implement,  \* key_monitor::implement
  next,       \* the monitor being installed
  pc,         \* progress of change_monitor_implement_type
  switches,   \* history: monitors installed after the first
  down,       \* what the receiver of the events believes to be down
  count       \* presses the receiver has counted

game == <<shown, playing, plays>>
environment == <<held, presses, game>>
poll == <<left, shot, mouseDue>>
threads == <<is_down, calls, poll, hooked, inbox, ended>>
manager == <<live, kind, callback, implement, next, pc, switches>>
receiver == <<down, count>>
vars == <<environment, threads, manager, receiver>>

\* What a round may visit: keys, and the indices that have a virtual key.
Listed == {c \in Codes : Converted[c] # "none"}
Items == Keys \union Listed

Event == [key : Keys, down : BOOLEAN]

TypeOK ==
  /\ held \in SUBSET Keys
  /\ presses \in [Keys -> 0 .. MaxPresses]
  /\ shown \in SUBSET Keyboard
  /\ playing \in SUBSET shown
  /\ plays \in [Keys -> 0 .. MaxPlays]
  /\ live \in SUBSET Addrs
  /\ kind \in [Addrs -> AllKinds]
  /\ is_down \in [Addrs -> SUBSET Keys]
  /\ callback \in [Addrs -> BOOLEAN]
  /\ calls \in [Addrs -> SUBSET Event]
  /\ \A a \in Addrs : \A e, f \in calls[a] : Device(e.key) = Device(f.key) => e = f
  /\ left \in [Addrs -> SUBSET Items]
  /\ shot \in [Addrs -> SUBSET (Keys \union Codes)]
  /\ mouseDue \in [Addrs -> BOOLEAN]
  /\ hooked \in [Addrs -> BOOLEAN]
  /\ inbox \in [Addrs -> SUBSET Event]
  /\ \A a \in Addrs : Cardinality(inbox[a]) <= 1
  /\ ended \in [Addrs -> BOOLEAN]
  /\ implement \in Addrs \union {"none"}
  /\ next \in Addrs
  /\ pc \in {"idle", "made", "oldReset", "joining", "joined"}
  /\ switches \in 0 .. MaxSwitches
  /\ down \in SUBSET Keys
  /\ count \in [Keys -> Nat]

-----------------------------------------------------------------------------
\* kps::kps has set the callback of the empty key_monitor and make_shared has
\* made the dinput monitor, whose thread runs already.
Init ==
  /\ held \in SUBSET Keys
  /\ presses = [k \in Keys |-> IF k \in held THEN 1 ELSE 0]
  /\ shown = {} /\ playing = {}
  /\ plays = [k \in Keys |-> 0]
  /\ next = CHOOSE a \in Addrs : TRUE
  /\ live = {next}
  /\ kind = [a \in Addrs |-> "dinput"]
  /\ is_down = [a \in Addrs |-> {}]
  /\ callback = [a \in Addrs |-> FALSE]
  /\ calls = [a \in Addrs |-> {}]
  /\ left = [a \in Addrs |-> {}]
  /\ shot = [a \in Addrs |-> {}]
  /\ mouseDue = [a \in Addrs |-> FALSE]
  /\ hooked = [a \in Addrs |-> FALSE]
  /\ inbox = [a \in Addrs |-> {}]
  /\ ended = [a \in Addrs |-> FALSE]
  /\ implement = "none"
  /\ pc = "made"
  /\ switches = 0
  /\ down = {}
  /\ count = [k \in Keys |-> 0]

\* external: the system calls every installed low-level hook for an input
\* message, and takes no further input before they have been called.
Message(k, isDown) ==
  /\ \A a \in Addrs : inbox[a] = {}
  /\ inbox' = [a \in Addrs |->
                 IF hooked[a] THEN {[key |-> k, down |-> isDown]} ELSE {}]

\* The user presses or releases a key; the system repeats a held keyboard key.
Press(k) ==
  /\ k \notin held /\ presses[k] < MaxPresses
  /\ held' = held \union {k}
  /\ presses' = [presses EXCEPT ![k] = @ + 1]
  /\ Message(k, TRUE)
  /\ UNCHANGED <<game, is_down, calls, poll, hooked, ended, manager, receiver>>

Release(k) ==
  /\ k \in held
  /\ held' = held \ {k}
  /\ Message(k, FALSE)
  /\ UNCHANGED <<presses, game, is_down, calls, poll, hooked, ended, manager, receiver>>

\* external: get_mania_keys will return something else, while a memory monitor asks:
\* other keys, other states, or, for a while, nothing at all.
Watched == \E a \in live : kind[a] = "memory"
GameShows == shown' \in SUBSET Keyboard /\ playing' \in SUBSET shown'

Game ==
  /\ Watched /\ GameShows
  /\ <<shown, playing>>' # <<shown, playing>>
  /\ plays' = [k \in Keys |-> plays[k] + IF k \in playing' \ playing THEN 1 ELSE 0]
  /\ \A k \in Keys : plays'[k] <= MaxPlays
  /\ UNCHANGED <<held, presses, threads, manager, receiver>>

Repeat(k) ==
  /\ k \in held \intersect Keyboard
  /\ Message(k, TRUE)
  /\ UNCHANGED <<environment, is_down, calls, poll, hooked, ended, manager, receiver>>

-----------------------------------------------------------------------------
\* _on_llkey_down and _on_llkey_up up to mutex_callback: only a change against
\* is_down is recorded and goes on to be delivered.
Changed_Always(a, k, isDown) == TRUE
Changed_DownOnly(a, k, isDown) == isDown /\ k \notin is_down[a]
Changed(a, k, isDown) == isDown # (k \in is_down[a])

OnLowLevelKey(a, k, isDown) ==
  IF Changed(a, k, isDown)
  THEN /\ is_down' = [is_down EXCEPT ![a] = IF isDown THEN @ \union {k} ELSE @ \ {k}]
       /\ calls' = [calls EXCEPT ![a] = @ \union {[key |-> k, down |-> isDown]}]
  ELSE UNCHANGED <<is_down, calls>>

\* What the receiver of a delivered event has counted (keys_manager's
\* total_count and kps_interface's log alike).
Counted_KeysDown(e) == [count EXCEPT ![e.key] = IF e.down THEN @ + 1 ELSE @ - 1]
Counted(e) == IF e.down THEN [count EXCEPT ![e.key] = @ + 1] ELSE count

\* _on_llkey_*, from mutex_callback on, with kps::on_key as the callback; an
\* empty callback swallows the event.
Deliver(a, e) ==
  /\ e \in calls[a]
  /\ calls' = [calls EXCEPT ![a] = @ \ {e}]
  /\ IF callback[a]
     THEN /\ down' = IF e.down THEN down \union {e.key} ELSE down \ {e.key}
          /\ count' = Counted(e)
     ELSE UNCHANGED receiver
  /\ UNCHANGED <<environment, is_down, poll, hooked, inbox, ended, manager>>

\* Destructors ask the old monitor's threads to stop before they join them.
StopAsked_Never(a) == FALSE
StopAsked(a) == pc = "joining" /\ a # implement

\* What a round visits and which of it is down: async asks for each key in turn;
\* dinput reads the keyboard at once and skips the indices without a virtual key;
\* memory takes the keys the game has, or, if there are none, every key for up.
Reads_Marked(a) == [items |-> Keyboard, downs |-> is_down[a]]
Reads(a) ==
  CASE kind[a] = "async" -> [items |-> Keys, downs |-> {}]
    [] kind[a] = "dinput" -> [items |-> Listed,
                              downs |-> {c \in Codes : ByteOf[c] \in held}]
    [] kind[a] = "memory" -> [items |-> IF shown = {} THEN Keys ELSE shown, downs |-> playing]

\* The key an item is reported as: dinput reports an index as the key it converts to.
KeyOf(x) == IF x \in Codes THEN Converted[x] ELSE x

Resting(a) == left[a] = {} /\ calls[a] = {} /\ ~mouseDue[a]

\* A polling thread begins a round.  (A failed read of dinput's keyboard begins it
\* anew.)
BeginRound(a) ==
  /\ a \in live /\ kind[a] # "hook" /\ ~ended[a]
  /\ Resting(a)
  /\ ~StopAsked(a)
  /\ left' = [left EXCEPT ![a] = Reads(a).items]
  /\ shot' = [shot EXCEPT ![a] = Reads(a).downs]
  /\ mouseDue' = [mouseDue EXCEPT ![a] = (kind[a] = "dinput")]
  /\ UNCHANGED <<environment, is_down, calls, hooked, inbox, ended, manager, receiver>>

\* dinput reads the mouse after it has visited the keyboard's keys.
ReadMouse(a) ==
  /\ mouseDue[a] /\ left[a] = {} /\ calls[a] = {}
  /\ left' = [left EXCEPT ![a] = Mouse]
  /\ shot' = [shot EXCEPT ![a] = held]
  /\ mouseDue' = [mouseDue EXCEPT ![a] = FALSE]
  /\ UNCHANGED <<environment, is_down, calls, hooked, inbox, ended, manager, receiver>>

\* A failed read of the mouse ends the round.
MouseFails(a) ==
  /\ mouseDue[a] /\ left[a] = {} /\ calls[a] = {}
  /\ mouseDue' = [mouseDue EXCEPT ![a] = FALSE]
  /\ UNCHANGED <<environment, is_down, calls, left, shot, hooked, inbox, ended,
                 manager, receiver>>

\* The thread visits the next item; async asks for the state of this key now.
Visit(a, x) ==
  /\ x \in left[a] /\ calls[a] = {}
  /\ left' = [left EXCEPT ![a] = @ \ {x}]
  /\ shot' = [shot EXCEPT ![a] = @ \ {x}]
  /\ OnLowLevelKey(a, KeyOf(x), x \in (IF kind[a] = "async" THEN held ELSE shot[a]))
  /\ UNCHANGED <<environment, mouseDue, hooked, inbox, ended, manager, receiver>>

\* The hook threads install their hooks, some time after the construction.
InstallHook(a) ==
  /\ a \in live /\ kind[a] = "hook" /\ ~ended[a] /\ ~hooked[a]
  /\ hooked' = [hooked EXCEPT ![a] = TRUE]
  /\ UNCHANGED <<environment, is_down, calls, poll, inbox, ended, manager, receiver>>

\* The hook thread of the message's device, its previous call over, is called; the
\* mouse's passes over some buttons.
HookCall(a, m) ==
  /\ m \in inbox[a] /\ \A e \in calls[a] : Device(e.key) # Device(m.key)
  /\ IF m.key \in Unhooked THEN UNCHANGED <<is_down, calls>>
     ELSE OnLowLevelKey(a, m.key, m.down)
  /\ inbox' = [inbox EXCEPT ![a] = {}]
  /\ UNCHANGED <<environment, poll, hooked, ended, manager, receiver>>

\* The threads return, between two rounds or, with the hook removed, after the
\* call in progress.
End(a) ==
  /\ a \in live /\ StopAsked(a) /\ ~ended[a]
  /\ Resting(a)
  /\ ended' = [ended EXCEPT ![a] = TRUE]
  /\ hooked' = [hooked EXCEPT ![a] = FALSE]
  /\ inbox' = [inbox EXCEPT ![a] = {}]
  /\ UNCHANGED <<environment, is_down, calls, poll, manager, receiver>>

-----------------------------------------------------------------------------
\* change_monitor_implement_type: make_shared constructs the new monitor, whose
\* threads start at once, without a callback.  A memory monitor finds the game as it is.
Make(type, a) ==
  /\ pc = "idle" /\ switches < MaxSwitches
  /\ a \notin live
  /\ live' = live \union {a}
  /\ kind' = [kind EXCEPT ![a] = type]
  /\ is_down' = [is_down EXCEPT ![a] = {}]
  /\ ended' = [ended EXCEPT ![a] = FALSE]
  /\ next' = a
  /\ switches' = switches + 1
  /\ pc' = "made"
  /\ IF type = "memory" /\ ~Watched THEN GameShows ELSE UNCHANGED <<shown, playing>>
  /\ UNCHANGED <<held, presses, plays, calls, poll, hooked, inbox, callback, implement, receiver>>

\* set_implement: the old monitor's callback is cleared (and the new one's,
\* which is empty).
AfterReset_Skipped == callback
AfterReset == [a \in Addrs |-> callback[a] /\ a # implement]

ResetOld ==
  /\ pc = "made"
  /\ callback' = AfterReset
  /\ pc' = "oldReset"
  /\ UNCHANGED <<environment, threads, live, kind, implement, next, switches, receiver>>

\* implement = p releases the old monitor, whose destructor joins its threads.
Assign ==
  /\ pc = "oldReset"
  /\ implement' = next
  /\ pc' = "joining"
  /\ UNCHANGED <<environment, threads, live, kind, callback, next, switches, receiver>>

Joinable_AnyTime(a) == TRUE
Joinable(a) == ended[a]

Join ==
  /\ pc = "joining"
  /\ \A a \in live \ {implement} : Joinable(a)
  /\ live' = {implement}
  /\ is_down' = [a \in Addrs |-> IF a = implement THEN is_down[a] ELSE {}]
  /\ pc' = "joined"
  /\ UNCHANGED <<environment, calls, poll, hooked, inbox, ended, kind, callback, implement,
                 next, switches, receiver>>

\* The manager's own callback is set on the new monitor.
SetCallback ==
  /\ pc = "joined"
  /\ callback' = [callback EXCEPT ![implement] = TRUE]
  /\ pc' = "idle"
  /\ UNCHANGED <<environment, threads, live, kind, implement, next, switches, receiver>>

Switching == ResetOld \/ Assign \/ Join \/ SetCallback

-----------------------------------------------------------------------------
User == \E k \in Keys : Press(k) \/ Release(k) \/ Repeat(k)

MonitorStep(a) ==
  \/ BeginRound(a) \/ ReadMouse(a) \/ MouseFails(a)
  \/ \E x \in left[a] : Visit(a, x)
  \/ \E m \in inbox[a] : HookCall(a, m)
  \/ \E e \in calls[a] : Deliver(a, e)
  \/ InstallHook(a) \/ End(a)

Next ==
  \/ User
  \/ Game
  \/ \E a \in Addrs : MonitorStep(a)
  \/ \E type \in Kinds, a \in Addrs : Make(type, a)
  \/ Switching

\* Every thread of a monitor runs whenever it can: the one of a polling monitor, and the
\* two of a hook, one for each device.  A device that is read again and again is read in
\* the end, and a switch that has begun is carried through.
PollThread(a) ==
  /\ kind[a] # "hook"
  /\ \/ BeginRound(a) \/ ReadMouse(a) \/ MouseFails(a) \/ End(a)
     \/ \E x \in left[a] : Visit(a, x)
     \/ \E e \in calls[a] : Deliver(a, e)

HookThread(a, device) ==
  /\ kind[a] = "hook"
  /\ \/ \E m \in inbox[a] : Device(m.key) = device /\ HookCall(a, m)
     \/ \E e \in calls[a] : Device(e.key) = device /\ Deliver(a, e)

HookStartOrEnd(a) == kind[a] = "hook" /\ (InstallHook(a) \/ End(a))

Fairness ==
  /\ \A a \in Addrs :
       /\ WF_vars(PollThread(a))
       /\ SF_vars(ReadMouse(a))
       /\ \A device \in {"keyboard", "mouse"} : WF_vars(HookThread(a, device))
       /\ WF_vars(HookStartOrEnd(a))
  /\ WF_vars(Switching)

Spec == Init /\ [][Next]_vars
FairSpec == Spec /\ Fairness
-----------------------------------------------------------------------------
(* Properties *)

\* Only the monitor in use can deliver events, and it can whenever no switch is
\* under way: two monitors never both report a press, and none is left deaf.
OneReporter ==
  /\ \A a \in Addrs : callback[a] => a \in live /\ a = implement
  /\ pc = "idle" => callback[implement]

\* A monitor that has been destroyed has no thread left inside it.
NoCallFromDestroyed ==
  \A a \in Addrs \ live : Resting(a) /\ inbox[a] = {} /\ ~hooked[a]

\* At every instant there is one monitor that can report, or none during a switch, and
\* nothing runs in the others once they are gone.
ReporterIsAlone == OneReporter /\ NoCallFromDestroyed

\* Keys no other key's byte is converted to.  A key with a second index that another
\* key, or none, sets is reported down and up in every round of dinput while it is held
\* (key_monitor_dinput.hpp lines 44 to 54).
OwnCodes == {k \in Keys : \A c \in Codes : Converted[c] = k => ByteOf[c] = k}

\* Such a key is counted at most once per physical press, once more per time the game
\* shows it newly down and once more per switch (a held key is new to the new monitor),
\* however presses, rounds, repeated messages and switches interleave.
CountBounded == \A k \in OwnCodes : count[k] <= presses[k] + plays[k] + switches

\* A switch that has begun ends: the join of the old threads, which may be inside
\* a round or waiting for mutex_callback, cannot block for ever.
SwitchEnds == (pc # "idle") ~> (pc = "idle")

\* What the source of a monitor says of a key now.  A key the game no longer lists is
\* neither down nor up for the memory monitor.
SaysDown(a, k) ==
  CASE kind[a] = "memory" -> k \in playing
    [] kind[a] = "dinput" /\ k \in Keyboard -> \E c \in Codes : Converted[c] = k /\ ByteOf[c] \in held
    [] OTHER -> k \in held

SaysUp(a, k) ==
  CASE kind[a] = "memory" -> shown = {} \/ k \in shown \ playing
    [] kind[a] = "dinput" /\ k \in Keyboard -> \A c \in Codes : Converted[c] = k => ByteOf[c] \notin held
    [] OTHER -> k \notin held

\* A key shown down because this monitor reported it is shown up once its source says
\* it is up, unless a switch begins first: no release is missed or overtaken.
ShowsRelease ==
  \A k \in Keys :
    (pc = "idle" /\ k \in down /\ k \in is_down[implement] /\ SaysUp(implement, k))
      ~> (pc # "idle" \/ k \notin down \/ ~SaysUp(implement, k))

\* A monitor that polls shows a key that its source keeps saying is down, once it has seen
\* it up.  For dinput that takes an index that converts to the key.
PollShowsPress ==
  \A k \in Keys :
    (/\ pc = "idle" /\ kind[implement] # "hook"
     /\ SaysDown(implement, k) /\ k \notin down /\ k \notin is_down[implement])
      ~> (pc # "idle" \/ k \in down \/ ~SaysDown(implement, k))

\* down_by_index is documented as whether the key is pressed (keys_manager.hpp
\* line 179): a key that stays up is eventually shown up.
ReleasedKeyShownUp == \A k \in Keys : (<>[](k \notin held)) => (<>[](k \notin down))
=============================================================================
