# Verification of osu-kps

osu-kps (`src/`) is a Windows program that shows which keys are pressed, counts
them and plots the key presses per second (KPS). It is small, but at any moment
up to six threads work in it: the main (window) thread, one polling thread or two
hook threads of the current key monitor, and three timers (painting, automatic reset, autoplay). They share five mutexes, a callback slot
per object and objects that are replaced while they are in use. That is what this
project models and what the properties are about. Paths below are relative to
`src/source/src/`.

## 1. Inventory

| component | state | operations | talks to | correct when |
|---|---|---|---|---|
| **Press log and calculator** `kps_calculator.hpp` (`kps_interface`, `kps_implement_base`, `kps_implement_hard`, `kps_calculator`) | the log, whole and per key; one callback slot with an id; the implementation object with its start index and per-key sums; mutexes `kps_interface::m` (recursive; *I*) and `kps_calculator::m` (*C*) | `notify_key_down`, `calc_kps_now` (key, keys), `calc_kps_recent`, `clear`, `change_implement_type` | called by the monitor's threads (notify, and reads through the manager) and by the main thread | the slot never dangles nor goes deaf; running sums agree with the log; a number read is the count of the last second |
| **Sensitive method** `kps_calculator.hpp` 284-483 | a remembered search bound per key, one for the last key set | the same, as the other implementation | under *I* and *C* | the bound never hides a recent press and never lets a rate rise by itself |
| **Graph** `calc_kps_recent` 226-281, 382-483 | a result cache, per-bucket caches | read by painting | under *I* and *C* | the plot is a recount of the log; what has passed stays |
| **Key monitors** `key_monitor*.hpp`, `integrated_kps.hpp` | per monitor: threads, `is_down`, callback, `mutex_callback`; the manager's monitor pointer and callback under `key_monitor::m` | polling rounds (async, dinput, memory), hook calls, `set_implement` from `change_monitor_implement_type` | Windows input, `kps::on_key` | one reporter at a time; every join ends; presses counted once; releases not missed |
| **Hook threads** `utils/hook.hpp` | a static map from thread to object, the hook, the thread | construction, message loop, callback, destruction | Windows, the hook monitor | no call into a destroyed hook |
| **Keys manager** `keys_manager.hpp` | ten layouts, the current one, the state of its buttons, total and maximum for manual and automatic play; mutex *K* (recursive) | `update_on_key_down`, `set_button_count`, `modify_key`, the two clears, `autoplay_manager_callback` | monitor thread, main thread, timer; reads the calculator inside *K* | no index past the buttons; one press booked in one mode; resets leave nothing |
| **Autoplay manager** `autoplay_manager.hpp`, `utils/timer_thread.hpp` | last status and last valid status | a timer routine that reads the memory monitor's status | calls the keys manager | the mode follows the game |
| **Memory reader** `MemoryReaderOsu.cpp` | process handle, found addresses | reads in another process | memory monitor, autoplay | environment of the models |
| **Main window** `main.cpp` | the composed program: its members own the threads | menu and commands, the automatic reset, painting, placement, start and end | everything | commands act on all the parts they should; no thread uses a member that is gone; a paint does not throw |
| **Settings** `config.hpp`, `utils/config_manager.hpp` | a JSON object; regulated values | load, update, regulate, save at exit | main window, key window | values agree with the components; they survive restarts |
| **Key window** `key_window.*` | the index of the next key, the keys given so far | key messages, create, destroy | settings, keys manager | all the keys of a layout are replaced, or none |
| **Window framework** `utils/window.hpp` | the handle in each object, the static `storage` with its semaphore | create, window procedure, message loop, destruction | Windows, both windows | every message reaches the window's own object; `create` never blocks |
| **Languages** `utils/multi_language.hpp`, `my_multi_language.hpp` | the loaded languages, the current one | load, choose by id or locale, lookup with fall-back | main window, settings | the current language is one that is loaded; a text of the first is always found |
| Key names, resources, COM pointers, Direct2D `utils/keyboard_char.hpp`, `utils/resource_loader.hpp`, `utils/WindowsResource.*`, `utils/d2d*` | one handle each | load, draw, release | painting | sequential |

### Threads and locks

`key_monitor::m` (KM), `mutex_callback` of each monitor (MC), and *I*, *C*, *K*
above. The orders in which they nest:

- a monitor thread: MC, then *I* inside `notify_key_down` (released), then *K*, in it *C*, in it *I*;
- the main thread reading or painting: *C*, *I*;
- the main thread switching a monitor: KM, MC of the old one (released), join of its
  threads, MC of the new one;
- the autoplay timer: *K*.

There is no cycle. The join is made with KM held and no MC, and a monitor thread
never asks for KM.

### What is hard here

1. Replacement in use. Both the counting method and the monitor are replaced while
   threads deliver presses to them. New and old objects exist at once and both
   touch one slot.
2. State recorded before the lock: a monitor marks `is_down`, then takes its mutex
   and looks at the callback; a press is given its time before any lock.
3. Lazy incremental state: sums, search bounds, caches, all meant to agree with the log.
4. Functions whose callers assume one step although they take several: "reset all",
   a total over keys, `update_on_key_down` against the unlocked `modify_key`.
5. Modes that change by timer while presses are being booked.
6. Lives. Hook threads look their object up in a static map while its destructor is at
   work, addresses and thread ids are used again, and the timers of the main window use
   members that are declared after them and so destroyed before them.
7. Reads without the lock: the paint reads the times of the buttons while they are written.

`PROJECT.json` lists each hazard at its line, with the properties that cover it.

## 2. Modules

| module | models | role |
|---|---|---|
| `PressWindow` | what the frame method promises | abstract specification |
| `KpsCalculator` | log, slot, frame method, method switch | implements `PressWindow` |
| `KpsCalculatorProofs` | | theorems |
| `RateSearch` | the sensitive method's search loop | shared operators |
| `KpsSensitive` | the sensitive method's current KPS and remembered bounds | |
| `KpsGraph` | the plot of the last seconds, both methods, with its caches | |
| `KpsRateProofs` | | theorems about `KpsSensitive` and `KpsGraph` |
| `Induction` | | induction over numbers and over the loops of the models, for the proofs |
| `KeyMonitor` | monitors and their replacement | |
| `KeyMonitorProofs` | | theorems |
| `KeysManager` | manager, autoplay, reset commands | |
| `KeysManagerProofs` | | theorems |
| `HookThreads` | the hook threads and their objects, two monitors one after the other | |
| `HookThreadsProofs` | | theorems |
| `Languages` | the loaded languages and their queries | operators |
| `Menu` | the context menu: its items and what it shows as checked | operators |
| `Settings` | settings, all commands, the key window, the window's size, the file | uses `Menu`, `Languages` |
| `SettingsProofs` | | theorems |
| `Window` | a window's creation, binding and destruction | parts of the actions of `Program` |
| `Program` | the process from its mutex to its end, with the threads it owns | composes `Window` with the members' lives |
| `ProgramProofs` | | theorems about `Program`, `Painting` and `Placement` |
| `Painting` | the glow of the buttons, painted beside the monitor's thread | |
| `Placement` | where the windows are put | operators |
| `MCKpsCalculator`, `MCKpsSensitive`, `MCKpsGraph`, `MCKeyMonitor`, `MCKeysManager`, `MCSettings` | | small instances for TLC |

### KpsCalculator

`records` is the log; the per-key logs are its parts, as both are only changed
together. `obj[a]` is the object at address `a` (addresses are reused), `callback` and
`callback_id` are the slot and its owner. `Stamp` is a monitor thread reading the
clock, once for all keys of one poll; `Notify` is `notify_key_down`, one critical
section. `CalcNow` is a read of one key, with the loop that drops what has expired
(`Stops`, `Dropped`). `TotalBegin`, `TotalStep`, `TotalEnd` are the read of several
keys, which looks at the clock once per key; *C* and *I* are held throughout.
`change_implement_type` is `ChangeBegin` (the new object registers), `ChangeCount`
(a second critical section counts the log) and `ChangeSwap` (the old object
unregisters and dies); *C* is held, and *I* is free in between, so that presses
arrive there. `Clear` resets all. The history variable `overlap` counts presses that
reached the new object between its two critical sections: the code counts them twice.

`ImplementsWindow` is the refinement: under the mapping `log <- records, extra <- overlap` every
step is a step of `PressWindow` or a stutter. It holds with one delivering thread.

### RateSearch and KpsSensitive

`RateSearch` is the log and the loop over it that the source has four times: from the newest press
back, with the rates as fractions. `Search` returns the rate and the bound; `Remembered` is what
`KpsSensitive` stores of it for the next search. `pre_farthest_multi`
starts with any value, because the constructor leaves it alone.

### KpsGraph

`CalcRecent` is a paint of the plot. The clock is rounded up to a second
(`Present`), the pivot advanced (`Pivot`), and each second's bar computed: for the frame
method by two pointers over the log (`HardBucket`, with `Take` and `Trim`), for the
sensitive one by a search at the second's start and at every press in it
(`FreshBucket`), unless the second was stored (`Reused`). The last plot is returned
again while its second, its keys and the time of the newest press are the same
(`Hit`). History variables mark the two cases in which the caches are knowingly
coarse: `tied`, a press with the very time of the newest one plotted (two keys found in one
polling round), which is missing until the next press or second; and `late`, a press
delivered after its second was stored, which the sensitive plot never shows. The store holds at
most `MaxCache` seconds (3600 in the source): `Evicted` is when the next paint empties it for its
size (393), and then searches the seconds still plotted again, from the pivot.

### KeyMonitor

`held` is the physical state of the keys, `shown` and `playing` what the game would
return to `get_mania_keys`: the keys it lists and those of them it has as down, or none
when it cannot be read (`Game`). The two are independent, and the game's state moves only while
there is a memory monitor to see it. A polling round is `BeginRound` (what is read at once),
`Visit` for each item, and for dinput `ReadMouse` or `MouseFails` in the middle. What is visited
depends on the monitor (`Reads`): async asks for each key in turn; dinput goes over the indices
of `keyboard_state`, skips those without a virtual key (`Listed`) and reports an index as the key
it converts to (`KeyOf`); memory visits the keys the game lists, or, if there are none, all as up.
Which key sets the byte of an index (`ByteOf`) and what an index converts to (`Converted`) belong
to the system and are constants: an index may have no key, and two may have one.

A hook monitor has two threads, which install their hooks some time
after the construction (`InstallHook`) and are called for each message
(`HookCall`); the mouse's passes over the buttons in `Unhooked` (the middle one, which dinput and
async do report). A change against `is_down` is put in `calls`, and `Deliver` is the rest,
under `mutex_callback`. `change_monitor_implement_type` is `Make`, `ResetOld`,
`Assign`, `Join`, `SetCallback`. `down` and `count` are what the receiver has been told.

`SaysDown` and `SaysUp` are what the monitor's own source says of a key: its indices' bytes for
dinput, the game for memory, the key itself for the others. The properties of pressing and
releasing are about these, so that a key without an index is not promised to be shown by
dinput, nor a key the game does not list by memory.

### KeysManager

`update_on_key_down` is `OnKey` (the press is logged, *K* not yet taken), `UpdateLock`,
`UpdateMark` (the loop over the buttons), `UpdateBook` (the total), `UpdateMax` (the
maximum). It is split where it reads the keys again, as `ModifyKey` takes no lock.
"Reset all" is three steps, as in `OnCommand`. `UpdateStatus` is the timer's routine up to
its test, `AutoplayCallback` the callback, which waits for *K*. `recent` is the
current KPS of each key, from outside.

### HookThreads

`KeyMonitor` has the hook threads as seen from a monitor; this module has them as
`utils/hook.hpp` writes them. A hook is its monitor's address and a device; its object
(`life`), its thread (`pc`), the entry of the static map (`id2instance`) and the thread_local
`instance` are separate. `Make`, `StartThread`, `Register`, `SetCallback`, `Assign`,
`Listen` are the construction of a hook monitor inside `set_implement`; `Unhook`, `Erase`, `DropMembers`,
`Join` its destruction, first of the mouse hook, then of the keyboard hook. The thread is
`Install`, `StoreHandle`, then `Call` and `Leave` for each message, and `End`. The
first call finds its object in the map (`Found`), where looking up a missing entry
enters a null pointer. Windows calls every installed hook for an input before the next
input; a call that is pending when its hook is removed may or may not come. Addresses
and thread ids are given again as soon as they are free. A use of something that is gone is
undefined: it sets `fault` and ends the behaviour, and `risky` remembers the hooks that were
unhooked while their thread was not at rest in its loop.

### Languages, Menu and Settings

`Start` is `OnCreate`: the default, the file merged over it (`Updated`), `regulate`
(`Regulated`) and `init_options`, which hands the values to `keys_manager`, `kps`
(`ManagerOf`, `KpsOf`) and the language (`InitLanguage`; the system's locale is any), and sizes the window
(`CalcSize`). Members of the file may be missing, out of range or of
another type, and the file may be absent, not JSON, or not an object; `Throws` is when
an exception leaves `OnCreate`, taken for the end of the process. `OnCommand(i)` is the
command of menu item `i`, which stands for one of the `Change...` actions or the key window;
`Menu` has the items and `Checked`, the ones `create_menu` would check. `OnMouseWheel`
changes the scale by steps. `ModifyKeys`, `OnKey` and `Cancel` are the key window,
which disables the main window while it is open. The save at exit is two steps, since the
stream empties the file first; `Kill` may come at any time and `Edit` is the user's
editor. `Languages` says what is loaded (a file may be refused, or replace one with its
id) and what the queries return.

### Window and Program

`Window` has the operators `create` and the window procedure are made of: `Enter` up to `CreateWindowExW`,
then `Refused`, or `FirstMessage`, which binds the window to the object in `storage`, and
`Created` or `Declined` by what `OnCreate` returned; `Gone` is a destruction. `Program` is
the main thread around it: `WinMain`, `Build` (one member after the other), the
creation of the main window with the message boxes of `OnCreate`, the loop with the key window
(`OpenKeys` ... `CloseKeys`), `Close`, and `TearBegin`/`TearEnd`, which destroy the members
in reverse and join their threads. The threads are the timers of `_tt`, `tt_auto_reset` and
`autoplay_manager`, and the monitor's. `_tt` waits inside `UpdateWindow` for the
main thread. `Use` is a thread touching members; outside their lives it is recorded in
`misused`, and ends the behaviour save for the plain number `kps::crt_type`. Whether a reset
is due is open. `SecondStarts` is another process.

### Painting and Placement

`Painting` takes the paint of one button apart into the reads `OnPaint` makes without the
lock of `keys_manager`, against `OnKey`, `UpdateFlag`, `UpdateTime` of the monitor's thread.
An event is stamped before it is delivered. `overtaken` remembers that an event was
written since the paint read the clock.

`Placement` has the three clampings of `OnMoving`, `resize` and `move_to_cursor` for one axis.
There is no state in it, so no run; its theorems are in `ProgramProofs`.

## 3. Runs

| run | instance | shows |
|---|---|---|
| `calculator_switch` | 2 keys, 1 thread, 2 addresses, both methods, 3 presses, 3 ticks, frame 1 | the slot, the sums, every number read, the refinement |
| `calculator_counts_twice` | the same | a press is counted twice after a switch (finding) |
| `sensitive_search` | 2 symmetric keys, 4 presses, 6 ticks, a search over 5 | the bounds never hide a press, no rate rises by itself |
| `graph_plot` | 1 key pressed, a layout with it and one without, both methods, 3 seconds plotted, 4 stored, 2 presses, 11 ticks, lag 2 | the frame plot is a recount, either plot shows presses exactly where there are any, a second that has passed keeps its value until the store is emptied for its size |
| `monitor_switch` | 1 key with its index, 1 index without a key, 1 press, 4 kinds, 2 switches, a game that shows the key down once | one reporter, ends of switches, each press counted once within a monitor, no missed release |
| `hooks_life` | 2 hook monitors, 2 devices, 4 thread ids, 3 key changes | no thread reaches another hook's object; what is gone is used only by a hook that was not at rest; replacements end; releases are shown |
| `monitor_stuck` | 1 key, 2 presses, 1 switch, async only | a release is lost in a switch (finding) |
| `manager_books` | layouts of 1 and 2 buttons sharing a key, 1 press, 2 reconfigurations | the books, the buttons, the resets, the mode |
| `settings_life` | 2 keys and one with two sides, 2 layouts, 2 languages and a refused file, 2 starts, 2 commands, 1 edit | settings, components, menu and window size agree, an exit is restored, the key window replaces whole layouts |
| `settings_start` | the same | an edited file stops the start (finding) |
| `program_life` | 2 window handles, the key window opened twice, 1 other process | windows and objects match, uses of dead members are the two known ones, one process at a time, closing ends |
| `paint_race` | 2 buttons, 3 ticks | a press during a paint makes it throw (finding) |

Bounds. Two keys tell "this key" from "another one". Two addresses are what a switch needs,
and reuse happens at the second. A frame of one tick in three lets presses be inside,
at the edge and outside. Four presses are the fewest at which the sensitive method's
bound matters (the older burst must beat the newer one). In the graph two ticks make a
second, so that rounding up matters; the sensitive method looks back five ticks (2.5 s),
and eleven ticks let a press outlive the plot of three seconds and its look-back; the second
layout is of another key, so that a changed layout must show. A lag of two lets a press arrive
after its second was stored, and eleven ticks let the store grow past its bound of four.
In the monitors one press, one showing by the game (which may also list the key as up, not list it, or fail, at
any time) and two switches reach every phase of a switch with every kind. A second key or a
mouse button beside it makes the liveness check too large, so that what two keys do to
each other within one monitor is left to the proofs (safety) and, for the hooks, to `hooks_life`. For the hooks two
monitors, one after the other, with two devices meet every overlap of a dying
thread with a starting one; four thread ids are as many as live at once, and are reused. Two
starts allow an exit, a kill and a start after each, and with one edit in between a
start from every kind of file. Opening the key window twice reuses its handle.

Deadlock checking is on except for the monitors, the hooks and the settings, where all
bounds may be used up with nothing left to do, and for the program, which ends.

Fairness. KeyMonitor: each thread of a monitor, the one that polls and each of the two of a hook,
and the switch in progress run on (weak, thread by thread), and a mouse that is read again and again is read in the end (strong: a failed
read only ends the round). KeysManager: the thread inside `update_on_key_down` and
the timer run on. HookThreads: each hook thread runs on, and the main thread carries
through what it began (weak; as the inputs are bounded, waiting for a moment between two needs no
more). Program: a thread ends the round it is in, and ends when told to; the main
thread leaves the loop after `WM_QUIT` and carries through the destructors. Which rounds
a timer begins is left to its clock, so that a wrong use of a dead member is never what
makes the program end. Nothing is assumed of the user or of the game. The
other modules state safety only and assume none.

## 4. Proofs

Each proof holds for every value of the constants; it assumes only the named
assumptions: marks such as "none" are not addresses, thread ids, handles or keys; there is an address for a
monitor; indices are no keys, and each has a keyboard key or none as what sets it and what it converts to;
`Offered` is a set of the types there are; layouts have as many keys as they have
buttons; there is a supported key, a button and a first language file that loads; ids of languages
are above the items of the menu; bounds are natural numbers, and at least one
press is allowed; a second has ticks and the plot has seconds.

Every invariant and every action property that a run checks has its theorem, and so has the
refinement. Bounds such as `MaxRecords` keep a run finite; the proofs hold whatever they are.

**Loops.** What a loop of the source computes is a recursive function over an interval
(`HardBucket`, `FreshBucket`, `CalcKpsNow`, `TotalBetween`'s sums). `Induction` has what
the proofs need for these: the library's induction theorems take the formula as an operator,
which the provers cannot instantiate, but that the order of the naturals is well-founded is a
statement about sets. From it follow induction over a set (`Induct`, `InductTo`), least and greatest
elements, and `LoopRuns`: if the values of a loop start in a set that each round preserves,
the function is defined along the interval and ends there. A proof about a loop is then the definition
of that set, its loop invariant, and a step.

- `KpsCalculatorProofs`: type correctness; the slot never dangles and belongs to
  the implementation in use (`CallbackFollows`). These need the slot's life cycle: which
  addresses live, who owns the id and where the switch stands are one
  conjunction, inductive together. `CountsAccounted`: `sum` is the log from
  `start_index` on plus `overlap`; it rests on lemmas on cardinalities of index sets.
  `LogOrdered` and `ReadsExact`: with one delivering thread, the log ascends (every
  stamp is at most now and at least the newest record), so the loop stops
  where the window begins and a read is the window's count.
  `TotalsExact`: while a total is computed the partial sum stays between the counts of the
  windows at its first reading of the clock and now (`TotalIInv`); presses only leave meanwhile, since
  both locks are held. `CalculatorImplementsWindow` is the refinement of `PressWindow`: the initial
  states map to initial ones and each action, with the invariants above, to a step of the abstract
  specification or a stutter. The assumption `OneThread` is the finding
  that two hook threads may log out of order; without it both fail.
- `KpsRateProofs`, current KPS: a rate above zero is shown exactly while a press is recent
  (`SearchShowsRecent`), and no rate rises without a press (`SearchNeverRises`). The invariant
  (`SearchIInv`) says that the per-key logs are the parts of the log and ascend, that
  every remembered bound lies before the newest recent press, and (`LastCaps`)
  that no press after the bound gives more than the rate shown last: without a new press the
  rates only fall as time passes, and older presses are behind the bound.
- `KpsRateProofs`, plots: the frame plot is a recount (`PlotRecounts`), both show presses where
  there are any (`PlotShows`), and what has passed stays until the store is emptied for its size
  (`PlotStable`, under `~Evicted`). The
  invariant (`PlotIInv`) says that the records before the pivot are too old for any second still
  plotted (`PivotOld`), that a plot that may be returned again is right, save `tied` (`CacheShown`), that
  a stored second shows its presses, save `late`, and hands on a bound that hides no press from the
  next, and that all seconds of the last plot that have passed are stored as plotted (`MapRight`). The
  lemmas carry the two pointers through a bucket and through the plot (count, left and
  right end are those of a frame over the whole log), and the bound from bucket to bucket.
- `KeyMonitorProofs`: type correctness; one reporter, and no thread in a destroyed monitor
  (`ReportsAreExclusive`). The invariant says for every phase which addresses live and
  which have a callback; for the types it adds that a device's thread has at most one call under way.
  `CountStaysBounded`: a key that no other key's byte is converted to (`OwnCodes`) is counted at
  most once per press, per time the game shows it newly down, and per switch, whatever the indices
  and the conversion. The invariant is a budget: what was counted, plus what each monitor still
  owes the key (a press it has found and not delivered, or will find because its source says the key is
  down and it is not marked), is within the three; while an old monitor still reports
  during a switch, one is kept for the new monitor.
- `KeysManagerProofs`: type correctness, where the current KPS of a layout is a sum over its
  buttons (`TypesHold`); `update_on_key_down` stays inside the buttons
  (`InfoAlwaysCovers`); a press is booked in one mode, the automatic book is empty outside it, a press
  marks a button exactly when it is counted (`BooksStayTogether`); the mode follows the
  last status (`ModeFollows`); a button shows its key's last event (`ButtonsFollow`): until the loop of
  `update_on_key_down` has run, only the buttons of its key may lag; "reset all" leaves
  nothing behind unless an event came (`ResetsAreWhole`): what its steps cleared so far stays clear.
- `SettingsProofs`: type correctness; settings and components agree between start and exit; the key window
  is never open with as many keys as its layout; an orderly exit is restored; the key window
  replaces whole layouts. The invariant adds that, as long as nobody touched the file, it holds
  what was saved; for `WholeLayouts` it adds that the keys given so far are those typed since
  the window opened (`DialogFollows`). The lemmas say what reading a file yields
  (`LoadedSettled`), that reading undoes saving but for the clamped values
  (`SavedIsLoaded`), and that a locale selects a language that is there (`QueryTyped`, by the
  least number of a set of ids). `ChoicesShown`: since settings and components agree, the menu shows what
  is stored (`MenuAgrees`); the items' numbers are apart (`SectionsApart`), so a command
  changes its own section only.
- `HookThreadsProofs`: type correctness; a hook thread never has another object than its
  own; only a hook that was not at rest can use what is gone. The invariant ties the life of each
  object to its thread, its map entry and its monitor's stage: a thread that
  came to rest has its handle stored, and one whose hook is removed while at rest has no call to come.
- `ProgramProofs`: type correctness; windows and objects match; the uses of dead members are the known two;
  one process at a time. The invariant says which stage of the main thread goes with which
  members built, which threads there are and where, and which process holds the mutex.
  Of `Painting`: only a paint that an event overtook throws. A time in `extra_info` is at
  most the clock, and at most the paint's `now` until it is overtaken.
  Of `Placement`: the three clampings are one function; a window that fits stays in its
  monitor, as near as possible to where it would be; the corner stays if it can.

Only model-checked: liveness (`SwitchEnds`, `ShowsRelease`, `PollShowsPress`, `SwitchCompletes`,
`HookShowsRelease`, `CloseEnds`, `AutoplayFollows`), which needs fairness and ENABLED and so is out of the
prover's reach, and that the runs with deadlock checking have none.

## 5. What disagrees with the code's own words

`findings` in `PROJECT.json`, each with its run:

- a method switch may leave a key's KPS too high until the next reset
  (`kps_calculator.hpp` 201-203);
- around a switch of the monitor a release may be lost (`key_monitor_base.hpp` 67);
- a file with an unknown key name, a number for a key, or no object in it stops the
  program from starting (`config.hpp` 34, `main.cpp` 97);
- a press that is stamped and delivered while a button is being painted makes the
  paint throw (`main.cpp` 896).

Met while modelling and bounded by the properties rather than run on their own:

- with two hook threads the log is not ordered by time (`LogOrdered` is stated for one);
- a key held across a monitor switch may be counted again (`CountBounded` allows one per
  switch) or stay dark while it is held, and a reconfigured button may show the wrong state until its
  key's next event (`ButtonsFollowEvents` says how far);
- of two keys pressed in one polling round the plot may
  show one up to a second late (`tied`), and the sensitive plot never shows a press that
  arrives after its second was stored (`late`);
- dinput reports a held key down and up, and counts it, in every polling round if a second
  index converts to the same virtual key (`key_monitor_dinput.hpp` 44-54; which indices do is the
  system's conversion), and never shows a key whose index converts to none (`OwnCodes` and
  `SaysDown` say which keys the properties are about); with two indices of one key TLC finds its
  count without bound;
- once the store of the sensitive plot exceeds 3600 seconds it is emptied (`kps_calculator.hpp`
  393), and the seconds still plotted are searched again from the pivot: the plot of what has passed may
  change then (`PastIsStable` holds up to `Evicted`; without it TLC finds a plot that changes);
- a hook monitor never reports the middle button, which dinput and async do (`Unhooked`);
- the memory monitor and scales above 3 are not restored by a restart (`RestartRestores`
  names both);
- a hook monitor that is replaced while one of its threads is starting or is in a call can
  use a destroyed object (`FaultNeedsRace` says when);
- the automatic-reset timer can use `cfg`, `k_manager` and `kps` after their destruction, as
  `main.cpp` 726 says itself, and the autoplay timer `kps::crt_type`, before `kps` is
  constructed as well (`UsesExplained` names both and excludes all others);
- if `CreateWindowExW` fails before it has sent a message, `wWinMain` enters the loop without a window
  and never leaves it, holding the mutex (1168-1170; `CloseEnds` starts from `WM_QUIT`);
- a file that hides all three parts starts the program with a window of negative height, which
  `regulate` does not prevent (`CalcSize`).

## 6. Not modelled, and the plan

- The memory reader (`MemoryReaderOsu.cpp`): a chain of reads in another process. To the models it is an
  environment that lists keys and statuses or nothing; its check of `array_object_base` in place of `array_base` (66)
  is listed as a hazard without a property.
- The scan of window titles that makes the automatic reset due (`main.cpp` 728-749): another
  program's titles; `Program` leaves it open and `KeysManager` takes a reset at any time.
- The wraparound of `size_t` in the search loops (`kps_calculator.hpp` 333, 346): positions are integers in `RateSearch`.
- A settings file that cannot be opened for the save: `write_to_file` then changes nothing and reports success.
- That a kill during the save loses the settings: `Settings` has the kill and the start from the emptied
  file, which runs with the defaults; no property forbids it.
- The construction of a dinput monitor that fails, and `reset_callback` on the manager, which the
  program never calls.
- The move operators of `window`, which nothing uses, and the wrappers of single Win32 calls.
- Drawing, fonts and colours are presentation; the key-name tables are data. The COM pointers and the
  resource loaders are sequential and unit-tested by the repository.
- The settings are read by the automatic-reset timer while the main thread writes them, an unguarded race on a
  JSON tree; `Program` has the reads, `Settings` the writes, and nothing composes them.

Next: the steps behind the liveness properties that are safety (what a thread told to stop can still do,
and that a release once found is on its way), and the release side of the monitors beside
`CountStaysBounded`.
