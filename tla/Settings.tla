------------------------------ MODULE Settings ------------------------------
(***************************************************************************)
(* The settings (src/source/src/config.hpp, utils/config_manager.hpp), the *)
(* commands of main.cpp that change them (Menu), the language (Languages), *)
(* the size of the window and the key window (key_window.h): from the file *)
(* through OnCreate into the components they configure, and back to the    *)
(* file at exit.  All of it runs on the main thread; the process may be    *)
(* killed, and the file edited, at any time.                               *)
(*                                                                         *)
(* A flag is 0 or 1, a scale is in hundredths, and the display has the     *)
(* usual DPI.                                                              *)
(***************************************************************************)
EXTENDS Menu

CONSTANTS
  Vks,         \* the virtual keys keyboard_char supports
  Sided,       \* keys with a left and a right one: those two, by the common key
  Notches,     \* what the wheel adds to the scale
  EditedInts,  \* bound: numbers an edited file may hold
  MaxChanges,  \* bound: commands given
  MaxEdits,    \* bound: edits of the file
  MaxStarts    \* bound: starts of the program

ASSUME KeysAssumption ==
  /\ Vks # {} /\ Vks \intersect {"unsupported", "number", "boolean"} = {}
  /\ \A g \in DOMAIN Sided : g \notin Vks /\ Sided[g] \in Vks \X Vks
ASSUME NumbersAssumption == Notches \subseteq Int /\ EditedInts \subseteq Int

Ints == {"button_count", "method", "monitor", "scale", "language"} \union Flags
Keys == {k \in (1 .. MaxButtons) \X (1 .. MaxButtons) : k[2] <= k[1]}

\* What a member of the file may be: a number or a text where a number is meant; a
\* supported key's name, another text or a number where a key is meant.
Text == -1
RawKeys == Vks \union {"unsupported", "number"}

FileStates == {"absent", "damaged", "noObject", "whole"}

VARIABLES
  file,     \* its state, and the members it holds if it is whole
  phase,    \* "off", "running" or "saving"
  cfg,      \* config::root
  manager,  \* keys_manager: crt_button_count and keys
  kps,      \* kps: the implementation type and the monitor type
  language, \* lang: current_language
  size,     \* of the main window
  dialog,   \* the key window: open or not, crt_keys and the keys given
  failed,   \* history: a start ended in an exception
  saved,    \* history: the settings of the last orderly exit; <<>> if the file
            \* was touched since
  typed,    \* history: the keys pressed since the key window opened
  changes, edits, starts \* history: how often

ghosts == <<failed, saved, typed, changes, edits, starts>>
components == <<manager, kps, language, size>>
vars == <<file, phase, cfg, components, dialog, ghosts>>

\* default_config.json
Default ==
  [ints |-> [i \in Ints |-> CASE i = "button_count" -> MaxButtons
                              [] i = "scale" -> 100
                              [] i \in Shows \union {"monitor_fence"} -> 1
                              [] OTHER -> 0],
   keys |-> [k \in Keys |-> CHOOSE v \in Vks : TRUE]]

Nothing == [m \in {} |-> Text]
Empty(state) == [state |-> state, ints |-> Nothing, keys |-> Nothing]
Whole(c) == [state |-> "whole", ints |-> c.ints, keys |-> c.keys]
Closed == [open |-> FALSE, crt_keys |-> 1, keys |-> <<>>]

-----------------------------------------------------------------------------
\* update(file, is_base = false): members the default does not have, and values
\* that cannot be converted to its type, are passed over.  (A number can be
\* converted to a string, and is stored as the number it is.)
Converted(i, n) == IF i \in Flags /\ n # 0 THEN 1 ELSE n

Updated(b, f) ==
  [ints |-> [i \in Ints |-> IF i \in DOMAIN f.ints /\ f.ints[i] # Text THEN Converted(i, f.ints[i])
                            ELSE b.ints[i]],
   keys |-> [k \in Keys |-> IF k \in DOMAIN f.keys THEN f.keys[k] ELSE b.keys[k]]]

Between(a, n, b) == IF n < a THEN a ELSE IF n > b THEN b ELSE n

\* regulate().  u8"null" is a pointer to char8_t, which Json::Value takes for true.
LastMonitor_Hook == 1
LastMonitor == 2
Regulated_NoCount(c) == [c EXCEPT !.ints["scale"] = Between(50, @, 300)]
Regulated(c) ==
  [ints |-> [i \in Ints |-> CASE i = "scale" -> Between(50, c.ints[i], 300)
                              [] i = "button_count" -> Between(1, c.ints[i], MaxButtons)
                              [] i = "method" -> Between(0, c.ints[i], 1)
                              [] i = "monitor" -> Between(0, c.ints[i], LastMonitor)
                              [] i = "language" -> IF IsLanguageSupported(c.ints[i]) THEN c.ints[i] ELSE 0
                              [] OTHER -> c.ints[i]],
   keys |-> [k \in Keys |-> IF c.keys[k] = "unsupported" THEN "boolean" ELSE c.keys[k]]]

\* What OnCreate reads, and whether that throws what it does not catch: update
\* refuses JSON that is not an object; std::get of a string finds a number in
\* regulate, or the boolean in init_options.  (A file that does not parse leaves the
\* default.)
Loaded(f) == Regulated(IF f.state = "whole" THEN Updated(Default, f) ELSE Default)
Throws(f) ==
  \/ f.state = "noObject"
  \/ \E k \in Keys : Loaded(f).keys[k] \in {"number", "boolean"}

AreMembers(f, names, values) == DOMAIN f \subseteq names /\ f \in [DOMAIN f -> values]
IntsInRange ==
  {v \in [Ints -> Int] :
     /\ v["button_count"] \in 1 .. MaxButtons /\ v["method"] \in 0 .. 1 /\ v["monitor"] \in 0 .. 3
     /\ v["scale"] \in 50 .. 500 /\ v["language"] \in Ids \union {0}
     /\ \A f \in Flags : v[f] \in {0, 1}}

TypeOK ==
  /\ file.state \in FileStates
  /\ AreMembers(file.ints, Ints, Int) /\ AreMembers(file.keys, Keys, RawKeys)
  /\ phase \in {"off", "running", "saving"}
  /\ cfg \in [ints : IntsInRange, keys : [Keys -> Vks]]
  /\ manager \in [crt_button_count : 1 .. MaxButtons, keys : [Keys -> Vks]]
  /\ kps \in [type : 0 .. 1, monitor : 0 .. 3]
  /\ language \in Ids
  /\ size \in Int \X Int
  /\ dialog \in [open : BOOLEAN, crt_keys : 1 .. MaxButtons, keys : Seq(Vks)]
  /\ failed \in BOOLEAN
  /\ typed \in Seq(Vks)

-----------------------------------------------------------------------------
\* What the components hold after init_options.
ManagerOf(c) == [crt_button_count |-> c.ints["button_count"], keys |-> c.keys]
KpsOf(c) == [type |-> c.ints["method"], monitor |-> c.ints["monitor"]]

\* calc_size, in hundredths: the width of the buttons or of the statistics, and the
\* height of what is shown.
CalcSize(c, count) ==
  LET Height(show, cy) == IF c.ints[show] = 1 THEN cy ELSE 0
      cx == IF c.ints["show_buttons"] = 1 /\ 60 * count - 8 > 232 THEN 60 * count - 8 ELSE 232
      cy == Height("show_buttons", 80) + Height("show_statistics", 32) + Height("show_graph", 88) - 8
  IN  <<cx * c.ints["scale"], cy * c.ints["scale"]>>

Init ==
  /\ file = Empty("absent")
  /\ phase = "off"
  /\ cfg = Default
  /\ manager = ManagerOf(Default) /\ kps = KpsOf(Default)
  /\ language = base
  /\ size = CalcSize(Default, MaxButtons)
  /\ dialog = Closed
  /\ failed = FALSE /\ saved = <<>> /\ typed = <<>>
  /\ changes = 0 /\ edits = 0 /\ starts = 0

\* The language before and after init_options, for the system's locale: the first run
\* greets the user in the system's language.
Greeting(locale) == IF file.state = "absent" THEN SetCurrentLocale(base, locale) ELSE base
InitLanguage(c, locale) ==
  IF c.ints["language"] = 0 THEN SetCurrentLocale(Greeting(locale), locale)
  ELSE SetCurrentLanguage(Greeting(locale), c.ints["language"])

\* OnCreate.  An exception leaves the window procedure and ends the process.
Start(locale) ==
  /\ phase = "off" /\ starts < MaxStarts
  /\ starts' = starts + 1
  /\ file' = IF file.state = "absent" THEN Whole(Default) ELSE file
  /\ IF Throws(file)
     THEN /\ failed' = TRUE
          /\ UNCHANGED <<phase, cfg, components>>
     ELSE /\ phase' = "running"
          /\ language' = InitLanguage(Loaded(file), locale)
          /\ cfg' = [Loaded(file) EXCEPT !.ints["language"] = language']
          /\ manager' = ManagerOf(cfg')
          /\ kps' = KpsOf(cfg')
          /\ size' = CalcSize(cfg', manager'.crt_button_count)
          /\ UNCHANGED failed
  /\ UNCHANGED <<dialog, saved, typed, changes, edits>>

-----------------------------------------------------------------------------
\* The commands.
ChangeButtonCount(n) ==
  /\ cfg' = [cfg EXCEPT !.ints["button_count"] = n]
  /\ manager' = [manager EXCEPT !.crt_button_count = n]
  /\ size' = CalcSize(cfg', n)
  /\ UNCHANGED <<kps, language, dialog, typed>>

ChangeScale(s) ==
  /\ cfg' = [cfg EXCEPT !.ints["scale"] = Between(50, s, 500)]
  /\ size' = CalcSize(cfg', manager.crt_button_count)
  /\ UNCHANGED <<manager, kps, language, dialog, typed>>

ChangeImplement(m) ==
  /\ cfg' = [cfg EXCEPT !.ints["method"] = m]
  /\ kps' = [kps EXCEPT !.type = m]
  /\ UNCHANGED <<manager, language, size, dialog, typed>>

\* The setting stored by change_monitor_implement.
SetMonitor_NotStored(m) == cfg
SetMonitor(m) == [cfg EXCEPT !.ints["monitor"] = m]

ChangeMonitor(m) ==
  /\ cfg' = SetMonitor(m)
  /\ kps' = [kps EXCEPT !.monitor = m]
  /\ UNCHANGED <<manager, language, size, dialog, typed>>

\* change_show_...(!cfg.show_...()): the last part shown stays.
IsAnyShown_Always(c) == TRUE
IsAnyShown(c) == \E f \in Shows : c.ints[f] = 1

ChangeShow(f) ==
  /\ cfg' = LET c == [cfg EXCEPT !.ints[f] = 1 - @]
            IN  IF IsAnyShown(c) THEN c ELSE [c EXCEPT !.ints[f] = 1]
  /\ size' = CalcSize(cfg', manager.crt_button_count)
  /\ UNCHANGED <<manager, kps, language, dialog, typed>>

\* change_monitor_fence, change_auto_reset_...
ChangeFlag(f) ==
  /\ cfg' = [cfg EXCEPT !.ints[f] = 1 - @]
  /\ UNCHANGED <<components, dialog, typed>>

ChangeLanguage(l) ==
  /\ language' = SetCurrentLanguage(language, l)
  /\ cfg' = [cfg EXCEPT !.ints["language"] = language']
  /\ UNCHANGED <<manager, kps, size, dialog, typed>>

\* modify_keys: set_crt_keys and create, whose OnCreate empties keys.
Opened_KeysKept == [dialog EXCEPT !.open = TRUE, !.crt_keys = manager.crt_button_count]
Opened == [open |-> TRUE, crt_keys |-> manager.crt_button_count, keys |-> <<>>]

ModifyKeys ==
  /\ dialog' = Opened
  /\ typed' = <<>>
  /\ UNCHANGED <<cfg, components>>

\* The menu and the wheel, which the key window disables.
Command ==
  /\ phase = "running" /\ ~dialog.open /\ changes < MaxChanges
  /\ changes' = changes + 1
  /\ UNCHANGED <<file, phase, failed, saved, edits, starts>>

\* What an item does: the resets are of keys_manager, and what is no other item is
\* taken for a language.
OnCommand(i) ==
  /\ Command
  /\ \/ i \in ButtonItems /\ ChangeButtonCount(i)
     \/ i \in ZoomItems /\ ChangeScale(Zooms[i - id.zoom_half + 1])
     \/ i \in MethodItems /\ ChangeImplement(i - id.method_hard)
     \/ i \in MonitorItems /\ ChangeMonitor(i - id.monitor_method_async)
     \/ \E f \in Shows : i = id[f] /\ ChangeShow(f)
     \/ \E f \in Flags \ Shows : i = id[f] /\ ChangeFlag(f)
     \/ i = id.modify_keys /\ ModifyKeys
     \/ i \in OtherItems /\ UNCHANGED <<cfg, components, dialog, typed>>
     \/ i > id.monitor_fence /\ ChangeLanguage(i)

OnMouseWheel(n) == Command /\ ChangeScale(cfg.ints["scale"] + n)

-----------------------------------------------------------------------------
\* The keys of the layout of ks' length, replaced by ks.
Replaced(keys, ks) ==
  [k \in Keys |-> IF k[1] = Len(ks) THEN ks[k[2]] ELSE keys[k]]

\* The condition on which next stores the keys and closes the window.
Enough_OneEarly(ks) == Len(ks) + 1 >= dialog.crt_keys
Enough(ks) == Len(ks) = dialog.crt_keys

\* next: the last key stores all of them.
NextKey(v) ==
  /\ phase = "running" /\ dialog.open
  /\ typed' = Append(typed, v)
  /\ LET ks == Append(dialog.keys, v) IN
       IF Enough(ks)
       THEN /\ cfg' = [cfg EXCEPT !.keys = Replaced(@, ks)]
            /\ manager' = [manager EXCEPT !.keys = Replaced(@, ks)]
            /\ dialog' = [dialog EXCEPT !.open = FALSE, !.keys = ks]
       ELSE /\ dialog' = [dialog EXCEPT !.keys = ks]
            /\ UNCHANGED <<cfg, manager>>
  /\ UNCHANGED <<file, phase, kps, language, size, failed, saved, changes, edits, starts>>

\* OnKey: a key that has two sides is taken for one of them, and one that is not
\* supported is ignored.
OnKey(vk, right) ==
  \/ vk \in Vks /\ NextKey(vk)
  \/ vk \in DOMAIN Sided /\ NextKey(Sided[vk][IF right THEN 2 ELSE 1])

\* Escape, or the window's close button.
Cancel ==
  /\ phase = "running" /\ dialog.open
  /\ dialog' = [dialog EXCEPT !.open = FALSE]
  /\ UNCHANGED <<file, phase, cfg, components, ghosts>>

-----------------------------------------------------------------------------
\* ~config: the stream truncates the file when it opens and writes it when it
\* closes.
SaveBegin ==
  /\ phase = "running" /\ ~dialog.open
  /\ phase' = "saving"
  /\ file' = Empty("damaged")
  /\ saved' = <<>>
  /\ UNCHANGED <<cfg, components, dialog, failed, typed, changes, edits, starts>>

SaveEnd ==
  /\ phase = "saving"
  /\ file' = Whole(cfg)
  /\ saved' = <<cfg>>
  /\ phase' = "off"
  /\ dialog' = Closed
  /\ UNCHANGED <<cfg, components, failed, typed, changes, edits, starts>>

Kill ==
  /\ phase # "off"
  /\ phase' = "off"
  /\ dialog' = Closed
  /\ UNCHANGED <<file, cfg, components, ghosts>>

With(f, m, v) == [x \in DOMAIN f \union {m} |-> IF x = m THEN v ELSE f[x]]
Without(f, m) == [x \in DOMAIN f \ {m} |-> f[x]]

\* The user edits one member of the file, removes it, or spoils the file.
Edit ==
  /\ file.state = "whole" /\ phase # "saving" /\ edits < MaxEdits
  /\ edits' = edits + 1
  /\ saved' = <<>>
  /\ \/ \E i \in Ints, n \in EditedInts \union {Text} : file' = [file EXCEPT !.ints = With(@, i, n)]
     \/ \E k \in Keys, v \in RawKeys : file' = [file EXCEPT !.keys = With(@, k, v)]
     \/ \E i \in Ints : file' = [file EXCEPT !.ints = Without(@, i)]
     \/ \E k \in Keys : file' = [file EXCEPT !.keys = Without(@, k)]
     \/ \E state \in FileStates \ {"whole"} : file' = Empty(state)
  /\ UNCHANGED <<phase, cfg, components, dialog, failed, typed, changes, starts>>

Next ==
  \/ \E locale \in SupportedLocales \union {"other"} : Start(locale)
  \/ \E i \in Items : OnCommand(i)
  \/ \E n \in Notches : OnMouseWheel(n)
  \/ \E vk \in Vks \union DOMAIN Sided, right \in BOOLEAN : OnKey(vk, right)
  \/ Cancel
  \/ SaveBegin \/ SaveEnd \/ Kill \/ Edit

Spec == Init /\ [][Next]_vars
-----------------------------------------------------------------------------
(* Properties *)

\* What is stored is what the components do and what the window's size is made for: no
\* command, key window, start or edited file makes the settings and the program differ.
ComponentsAgree ==
  phase # "off" =>
    /\ manager = ManagerOf(cfg) /\ kps = KpsOf(cfg)
    /\ language = cfg.ints["language"]
    /\ size = CalcSize(cfg, manager.crt_button_count)

\* After an orderly exit the next start succeeds and restores every setting, save
\* the memory monitor, which regulate takes for a dinput monitor, and scales above 3.
RestartRestores ==
  saved # <<>> =>
    /\ ~Throws(file)
    /\ Loaded(file).keys = saved[1].keys
    /\ \A i \in Ints :
         \/ Loaded(file).ints[i] = saved[1].ints[i]
         \/ i = "monitor" /\ saved[1].ints[i] = 3 /\ Loaded(file).ints[i] = 2
         \/ i = "scale" /\ saved[1].ints[i] > 300 /\ Loaded(file).ints[i] = 300

\* The menu as it would be shown now.
CheckedNow == Checked(cfg, manager.crt_button_count, kps.type, language)

\* The items an item stands among: choosing it unchecks the others.
Group(i) ==
  CHOOSE g \in {ButtonItems, id.zoom_half .. id.zoom_customed, MethodItems, MonitorItems, Ids} : i \in g

\* A chosen item is what the menu shows from then on: the one checked of its group, or
\* checked and unchecked by turns, save the last part shown; nothing else changes.
ChosenIsChecked ==
  [][\A i \in Items : OnCommand(i) =>
       CASE i \in FlagItems ->
              CheckedNow' = IF CheckedNow \intersect {id[f] : f \in Shows} = {i} THEN CheckedNow
                            ELSE IF i \in CheckedNow THEN CheckedNow \ {i} ELSE CheckedNow \union {i}
         [] i \in OtherItems \union {id.modify_keys} -> CheckedNow' = CheckedNow
         [] OTHER -> CheckedNow' = (CheckedNow \ Group(i)) \union {i}]_vars

\* The key window replaces a layout as a whole by the keys pressed since it opened,
\* touches no other layout and, when left early, none.
LayoutsReplacedWhole ==
  [][(phase = "running" /\ cfg'.keys # cfg.keys) =>
       /\ cfg'.keys = Replaced(cfg.keys, typed')
       /\ Len(typed') = cfg.ints["button_count"]]_vars

\* The key window never waits for more keys than its layout has.
DialogEnds == dialog.open => Len(dialog.keys) < dialog.crt_keys

\* regulate is documented to make all parameters legal (config.hpp line 23), so
\* that a start succeeds whatever the file holds.
StartSucceeds == ~failed
=============================================================================
