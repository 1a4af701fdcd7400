----------------------------- MODULE HookThreads -----------------------------
(***************************************************************************)
(* keyboard_hook and mouse_hook with their base class (utils/hook.hpp), as *)
(* the two members of key_monitor_hook (key_monitor_hook.hpp): how their   *)
(* threads start, install a system hook, find the object a call is for,    *)
(* and end, while the main thread constructs one monitor and destroys      *)
(* another (key_monitor.hpp).  KeyMonitor has the same threads from        *)
(* outside, beside the other kinds of monitor.                             *)
(*                                                                         *)
(* A hook is a pair of its monitor's address and its device.  The          *)
(* critical sections under bs_map are single steps; bs_callback is held    *)
(* while a thread is "inside".  What undefined behaviour does is left      *)
(* open: the first use of something that is not there ends the behaviour.  *)
(***************************************************************************)
EXTENDS Integers, FiniteSets

CONSTANTS
  Addrs,    \* addresses a key_monitor_hook can be allocated at
  Tids,     \* thread ids the system gives, and gives again
  MaxInputs, \* bound: key changes
  MaxMade   \* bound: hook monitors made

ASSUME HooksAssumption ==
  /\ Addrs \intersect {"none", "absent", "null"} = {} /\ "none" \notin Tids
  /\ MaxInputs \in Nat /\ MaxMade \in Nat

Devices == {"keyboard", "mouse"}
Hooks == Addrs \X Devices

VARIABLES
  stage,      \* each monitor: "none", "making", "live" or "dying"
  implement,  \* key_monitor::implement, "none" if it is of another kind
  listening,  \* key_monitor_base::callback is set
  made,       \* history: hook monitors made
  life,       \* each hook object
  handle,     \* hKeybd or hMouse has been stored
  callback,   \* the hook's own callback is set
  id2instance,\* the static map of each class, from thread id to address
  pc,         \* the hook's thread
  tid,        \* its id
  instance,   \* its thread_local pointer
  quit,       \* WM_QUIT has been posted to it
  installed,  \* external: the system calls it for input messages
  inbox,      \* external: the message it is to be called for
  inputs,     \* history: key changes
  held,       \* the devices' keys physically held down (one key each)
  is_down,    \* key_monitor_base::is_down
  down,       \* what the receiver of the events believes to be down
  risky,      \* history: hooks not at rest when they were unhooked
  fault       \* hooks whose thread used what was not there

monitors == <<stage, implement, listening, made>>
objects == <<life, handle, callback, id2instance>>
threads == <<pc, tid, instance, quit>>
system == <<installed, inbox, inputs, held>>
keys == <<is_down, down>>
vars == <<monitors, objects, threads, system, keys, risky, fault>>

Lives == {"none", "started", "live", "unhooked", "erased", "dead"}
Pcs == {"none", "waiting", "storing", "looping", "inside", "ended"}

TypeOK ==
  /\ stage \in [Addrs -> {"none", "making", "live", "dying"}]
  /\ implement \in Addrs \union {"none"}
  /\ listening \in [Addrs -> BOOLEAN]
  /\ made \in 0 .. MaxMade
  /\ life \in [Hooks -> Lives]
  /\ handle \in [Hooks -> BOOLEAN]
  /\ callback \in [Hooks -> BOOLEAN]
  /\ id2instance \in [Devices -> [Tids -> Addrs \union {"absent", "null"}]]
  /\ pc \in [Hooks -> Pcs]
  /\ tid \in [Hooks -> Tids \union {"none"}]
  /\ instance \in [Hooks -> Addrs \union {"null"}]
  /\ quit \in [Hooks -> BOOLEAN]
  /\ installed \in [Hooks -> BOOLEAN]
  /\ inbox \in [Hooks -> {"none", "down", "up"}]
  /\ inputs \in 0 .. MaxInputs
  /\ held \in SUBSET Devices
  /\ is_down \in [Addrs -> SUBSET Devices]
  /\ down \in SUBSET Devices
  /\ risky \in SUBSET Hooks
  /\ fault \in SUBSET Hooks

Idle == \A a \in Addrs : stage[a] \in {"none", "live"}
Constructed(a) == \A d \in Devices : callback[<<a, d>>]

Init ==
  /\ stage = [a \in Addrs |-> "none"]
  /\ implement = "none"
  /\ listening = [a \in Addrs |-> FALSE]
  /\ made = 0
  /\ life = [h \in Hooks |-> "none"]
  /\ handle = [h \in Hooks |-> FALSE]
  /\ callback = [h \in Hooks |-> FALSE]
  /\ id2instance = [d \in Devices |-> [t \in Tids |-> "absent"]]
  /\ pc = [h \in Hooks |-> "none"]
  /\ tid = [h \in Hooks |-> "none"]
  /\ instance = [h \in Hooks |-> "null"]
  /\ quit = [h \in Hooks |-> FALSE]
  /\ installed = [h \in Hooks |-> FALSE]
  /\ inbox = [h \in Hooks |-> "none"]
  /\ held = {} /\ inputs = 0
  /\ is_down = [a \in Addrs |-> {}]
  /\ down = {}
  /\ risky = {} /\ fault = {}

-----------------------------------------------------------------------------
\* The main thread.  make_shared<key_monitor_hook> ...
Make(a) ==
  /\ fault = {} /\ Idle /\ made < MaxMade
  /\ \E b \in Addrs : stage[b] = "none"
  /\ a = CHOOSE b \in Addrs : stage[b] = "none"
  /\ stage' = [stage EXCEPT ![a] = "making"]
  /\ made' = made + 1
  /\ UNCHANGED <<implement, listening, objects, threads, system, keys, risky, fault>>

\* ... constructs k_hook, then m_hook: the base class starts the thread ...
FreeTids == {t \in Tids : \A h \in Hooks : tid[h] # t}

StartThread(a, d, t) ==
  /\ fault = {} /\ stage[a] = "making" /\ life[<<a, d>>] = "none"
  /\ d = "mouse" => life[<<a, "keyboard">>] = "live"
  /\ FreeTids # {} /\ t = CHOOSE u \in FreeTids : TRUE
  /\ life' = [life EXCEPT ![<<a, d>>] = "started"]
  /\ pc' = [pc EXCEPT ![<<a, d>>] = "waiting"]
  /\ tid' = [tid EXCEPT ![<<a, d>>] = t]
  /\ UNCHANGED <<monitors, handle, callback, id2instance, instance, quit, system, keys, risky,
                 fault>>

\* ... which makes its message queue while the constructor waits (bs); the derived
\* class enters itself in the map and lets the thread go (_constructed).
Register(a, d) ==
  /\ fault = {} /\ life[<<a, d>>] = "started"
  /\ id2instance' = [id2instance EXCEPT ![d][tid[<<a, d>>]] = a]
  /\ life' = [life EXCEPT ![<<a, d>>] = "live"]
  /\ UNCHANGED <<monitors, handle, callback, threads, system, keys, risky, fault>>

\* Then both callbacks are set, which waits for a call in progress.
SetCallback(a, d) ==
  /\ fault = {} /\ stage[a] = "making" /\ ~callback[<<a, d>>]
  /\ \A e \in Devices : life[<<a, e>>] = "live"
  /\ d = "mouse" => callback[<<a, "keyboard">>]
  /\ pc[<<a, d>>] # "inside"
  /\ callback' = [callback EXCEPT ![<<a, d>>] = TRUE]
  /\ UNCHANGED <<monitors, life, handle, id2instance, threads, system, keys, risky, fault>>

\* set_implement: the old monitor's callback is cleared and its last reference goes.
Replace(new) ==
  /\ stage' = [a \in Addrs |-> IF a = implement THEN "dying" ELSE stage[a]]
  /\ listening' = [a \in Addrs |-> listening[a] /\ a # implement]
  /\ implement' = new
  /\ UNCHANGED <<made, objects, threads, system, keys, risky, fault>>

Assign(a) ==
  /\ fault = {} /\ stage[a] = "making" /\ implement # a /\ Constructed(a)
  /\ Replace(a)

\* The user chooses another kind of monitor.
SwitchAway ==
  /\ fault = {} /\ Idle /\ implement # "none"
  /\ Replace("none")

\* After the destruction of the old monitor the new one gets its callback.
Listen(a) ==
  /\ fault = {} /\ stage[a] = "making" /\ implement = a
  /\ \A b \in Addrs : stage[b] # "dying"
  /\ stage' = [stage EXCEPT ![a] = "live"]
  /\ listening' = [listening EXCEPT ![a] = TRUE]
  /\ UNCHANGED <<implement, made, objects, threads, system, keys, risky, fault>>

\* The destructor destroys m_hook, then k_hook.  Each is unhooked, if its handle is
\* there; a call that is pending may or may not come all the same.
Dying(a, d) ==
  /\ fault = {} /\ stage[a] = "dying"
  /\ d = "keyboard" => life[<<a, "mouse">>] = "none"

AtRest(h) == handle[h] /\ pc[h] = "looping" /\ inbox[h] = "none"

Removed_Never(h) == installed
Removed(h) == [installed EXCEPT ![h] = @ /\ ~handle[h]]

Unhook(a, d) ==
  /\ Dying(a, d) /\ life[<<a, d>>] = "live"
  /\ life' = [life EXCEPT ![<<a, d>>] = "unhooked"]
  /\ installed' = Removed(<<a, d>>)
  /\ inbox' \in {inbox, [inbox EXCEPT ![<<a, d>>] = "none"]}
  /\ risky' = IF AtRest(<<a, d>>) THEN risky ELSE risky \union {<<a, d>>}
  /\ UNCHANGED <<monitors, handle, callback, id2instance, threads, inputs, held, keys, fault>>

Erased_Not(d, t) == id2instance
Erased(d, t) == [id2instance EXCEPT ![d][t] = "absent"]

Erase(a, d) ==
  /\ Dying(a, d) /\ life[<<a, d>>] = "unhooked"
  /\ id2instance' = Erased(d, tid[<<a, d>>])
  /\ life' = [life EXCEPT ![<<a, d>>] = "erased"]
  /\ UNCHANGED <<monitors, handle, callback, threads, system, keys, risky, fault>>

\* The members are destroyed, and the base class asks the thread to quit ...
Asked_Not(h) == quit
Asked(h) == [quit EXCEPT ![h] = TRUE]

DropMembers(a, d) ==
  /\ Dying(a, d) /\ life[<<a, d>>] = "erased"
  /\ life' = [life EXCEPT ![<<a, d>>] = "dead"]
  /\ callback' = [callback EXCEPT ![<<a, d>>] = FALSE]
  /\ quit' = Asked(<<a, d>>)
  /\ UNCHANGED <<monitors, handle, id2instance, pc, tid, instance, system, keys, risky, fault>>

\* ... and joins it.  With the second hook the monitor is gone.
Join(a, d) ==
  /\ Dying(a, d) /\ life[<<a, d>>] = "dead" /\ pc[<<a, d>>] = "ended"
  /\ life' = [life EXCEPT ![<<a, d>>] = "none"]
  /\ handle' = [handle EXCEPT ![<<a, d>>] = FALSE]
  /\ pc' = [pc EXCEPT ![<<a, d>>] = "none"]
  /\ tid' = [tid EXCEPT ![<<a, d>>] = "none"]
  /\ instance' = [instance EXCEPT ![<<a, d>>] = "null"]
  /\ quit' = [quit EXCEPT ![<<a, d>>] = FALSE]
  /\ risky' = risky \ {<<a, d>>}
  /\ IF d = "mouse" THEN UNCHANGED <<stage, is_down>>
     ELSE /\ stage' = [stage EXCEPT ![a] = "none"]
          /\ is_down' = [is_down EXCEPT ![a] = {}]
  /\ UNCHANGED <<implement, listening, made, callback, id2instance, system, down, fault>>

Construct(a) ==
  \/ \E d \in Devices :
       (\E t \in Tids : StartThread(a, d, t)) \/ Register(a, d) \/ SetCallback(a, d)
  \/ Assign(a) \/ Listen(a)
Destroy(a) == \E d \in Devices : Unhook(a, d) \/ Erase(a, d) \/ DropMembers(a, d) \/ Join(a, d)

-----------------------------------------------------------------------------
\* A hook's thread: _do_before_message_loop, which is pure again once the destructor
\* of the derived class has ended.
Released_AtOnce(h) == TRUE
Released(h) == life[h] # "started"

Install(h) ==
  /\ fault = {} /\ pc[h] = "waiting" /\ Released(h)
  /\ IF life[h] = "dead" THEN fault' = {h} /\ UNCHANGED <<pc, installed>>
     ELSE /\ installed' = [installed EXCEPT ![h] = TRUE]
          /\ pc' = [pc EXCEPT ![h] = "storing"]
          /\ UNCHANGED fault
  /\ UNCHANGED <<monitors, objects, tid, instance, quit, inbox, inputs, held, keys, risky>>

StoreHandle(h) ==
  /\ fault = {} /\ pc[h] = "storing"
  /\ IF life[h] = "dead" THEN fault' = {h} /\ UNCHANGED <<pc, handle>>
     ELSE /\ handle' = [handle EXCEPT ![h] = TRUE]
          /\ pc' = [pc EXCEPT ![h] = "looping"]
          /\ UNCHANGED fault
  /\ UNCHANGED <<monitors, life, callback, id2instance, tid, instance, quit, system, keys, risky>>

\* _on_llkey_down and _on_llkey_up, with the receiver's callback.
OnLowLevelKey(a, d, isDown) ==
  IF isDown = (d \in is_down[a]) THEN UNCHANGED keys
  ELSE /\ is_down' = [is_down EXCEPT ![a] = IF isDown THEN @ \union {d} ELSE @ \ {d}]
       /\ down' = IF ~listening[a] THEN down
                  ELSE IF isDown THEN down \union {d} ELSE down \ {d}

\* virtual_proc: the first call finds its object in the map, where looking it up
\* enters a null pointer if there is none.
Found_Unchecked(h) == IF instance[h] # "null" THEN instance[h] ELSE id2instance[h[2]][tid[h]]
Found(h) ==
  LET a == id2instance[h[2]][tid[h]] IN
  IF instance[h] # "null" THEN instance[h] ELSE IF a = "absent" THEN "null" ELSE a

\* With bs_callback held, the callback is called if there is one.  A null pointer, or an
\* object whose members are gone, is used here.
Gone(a, d) == a \notin Addrs \/ life[<<a, d>>] = "dead"

Passed_DownOnly(a, h) == callback[<<a, h[2]>>] /\ inbox[h] = "down"
Passed(a, h) == callback[<<a, h[2]>>]

Call(h) ==
  /\ fault = {} /\ pc[h] = "looping" /\ inbox[h] # "none"
  /\ LET a == Found(h) IN
       /\ instance' = [instance EXCEPT ![h] = a]
       /\ id2instance' = [id2instance EXCEPT ![h[2]][tid[h]] = IF instance[h] = "null" THEN a ELSE @]
       /\ IF Gone(a, h[2]) THEN fault' = {h} /\ UNCHANGED <<pc, inbox, keys>>
          ELSE /\ pc' = [pc EXCEPT ![h] = "inside"]
               /\ inbox' = [inbox EXCEPT ![h] = "none"]
               /\ IF Passed(a, h) THEN OnLowLevelKey(a, h[2], inbox[h] = "down")
                  ELSE UNCHANGED keys
               /\ UNCHANGED fault
  /\ UNCHANGED <<monitors, life, handle, callback, tid, quit, installed, inputs, held, risky>>

Leave(h) ==
  /\ fault = {} /\ pc[h] = "inside"
  /\ IF Gone(instance[h], h[2]) THEN fault' = {h} /\ UNCHANGED pc
     ELSE pc' = [pc EXCEPT ![h] = "looping"] /\ UNCHANGED fault
  /\ UNCHANGED <<monitors, objects, tid, instance, quit, system, keys, risky>>

\* GetMessageW makes the calls that are pending first; the system removes the hook
\* of a thread that has ended.
End(h) ==
  /\ fault = {} /\ pc[h] = "looping" /\ inbox[h] = "none" /\ quit[h]
  /\ pc' = [pc EXCEPT ![h] = "ended"]
  /\ installed' = [installed EXCEPT ![h] = FALSE]
  /\ UNCHANGED <<monitors, objects, tid, instance, quit, inbox, inputs, held, keys, risky, fault>>

Thread(h) ==
  Install(h) \/ StoreHandle(h) \/ Call(h) \/ Leave(h) \/ End(h)

-----------------------------------------------------------------------------
\* external: a key goes down or up.  The system calls every installed hook for it
\* before it takes the next input.
Input(d) ==
  /\ fault = {} /\ inputs < MaxInputs /\ inputs' = inputs + 1 /\ \A h \in Hooks : inbox[h] = "none"
  /\ held' = IF d \in held THEN held \ {d} ELSE held \union {d}
  /\ inbox' = [h \in Hooks |->
                 IF ~installed[h] \/ h[2] # d THEN "none" ELSE IF d \in held THEN "up" ELSE "down"]
  /\ UNCHANGED <<monitors, objects, threads, installed, keys, risky, fault>>

Next ==
  \/ \E a \in Addrs : Make(a) \/ Construct(a) \/ Destroy(a)
  \/ SwitchAway
  \/ \E h \in Hooks : Thread(h)
  \/ \E d \in Devices : Input(d)

Spec == Init /\ [][Next]_vars

\* The hooks' threads run, and what the main thread has begun it carries through.
\* The inputs are bounded, so a wait for a moment between two of them needs no more.
Fairness ==
  /\ \A h \in Hooks : WF_vars(Thread(h))
  /\ WF_vars(\E a \in Addrs : Construct(a) \/ Destroy(a))
FairSpec == Spec /\ Fairness
-----------------------------------------------------------------------------
(* Properties *)

\* The static maps and the thread_local pointers never lead to another hook than
\* the thread's own, although addresses and thread ids are used again, and the
\* monitor whose is_down a call writes is there until the call is over.
NoDanglingInstance ==
  /\ \A d \in Devices, t \in Tids :
       id2instance[d][t] \in Addrs =>
         LET h == <<id2instance[d][t], d>> IN life[h] \in {"live", "unhooked"} /\ tid[h] = t
  /\ \A h \in Hooks : instance[h] \in {"null", h[1]}
  /\ \A h \in Hooks : pc[h] = "inside" => stage[h[1]] # "none"

\* A monitor whose threads are at rest when it is replaced is replaced safely.  Only
\* a thread that has not come to its message loop yet, or that has a call pending or
\* in progress when its hook is removed, can use a destroyed object: the destructor
\* of the derived class does not wait for it.
FaultNeedsRace == fault \subseteq risky

\* A replacement ends: neither the constructor's wait for the thread nor the join
\* can block for ever.
SwitchCompletes == ~Idle ~> (Idle \/ fault # {})

\* A release is shown although two threads report: unless the monitor is replaced, the
\* keys it reported down are shown up after they are released.
LateRelease ==
  Idle /\ implement # "none" /\ ~(down \intersect is_down[implement] \subseteq held)
HookShowsRelease == LateRelease ~> ~LateRelease
=============================================================================
