-------------------------------- MODULE Menu --------------------------------
(***************************************************************************)
(* The context menu (create_menu in src/source/src/main.cpp): its items,   *)
(* by number, and which of them it shows as checked.  It is built anew     *)
(* whenever it is shown.  Settings says what choosing an item does.        *)
(***************************************************************************)
EXTENDS Languages

CONSTANTS
  MaxButtons  \* max_key_count

ASSUME ButtonsAssumption == MaxButtons \in Nat \ {0}
ASSUME IdsAssumption == \A n \in DOMAIN Resources : Resources[n].id > MaxButtons + 26

\* The enumerators, without their prefix; a number of buttons is its own item, and so is
\* the id of a language.
id ==
  [reset_total |-> MaxButtons + 1, reset_max |-> MaxButtons + 2, reset_graph |-> MaxButtons + 3,
   reset_all |-> MaxButtons + 4, exit |-> MaxButtons + 5,
   zoom_half |-> MaxButtons + 6, zoom_1 |-> MaxButtons + 7, zoom_2 |-> MaxButtons + 8,
   zoom_3 |-> MaxButtons + 9, zoom_customed |-> MaxButtons + 10,
   method_hard |-> MaxButtons + 11, method_sensitive |-> MaxButtons + 12,
   show_buttons |-> MaxButtons + 13, show_statistics |-> MaxButtons + 14,
   show_graph |-> MaxButtons + 15, modify_keys |-> MaxButtons + 16, about |-> MaxButtons + 17,
   auto_reset_total_hits |-> MaxButtons + 18, auto_reset_max_kps |-> MaxButtons + 19,
   auto_reset_kps_graph |-> MaxButtons + 20,
   monitor_method_async |-> MaxButtons + 21, monitor_method_hook |-> MaxButtons + 22,
   monitor_method_dinput |-> MaxButtons + 23, monitor_method_memory |-> MaxButtons + 24,
   monitor_fence |-> MaxButtons + 25]

Shows == {"show_buttons", "show_statistics", "show_graph"}
AutoResets == {"auto_reset_total_hits", "auto_reset_max_kps", "auto_reset_kps_graph"}
Flags == Shows \union AutoResets \union {"monitor_fence"}

\* The items of which one is checked.
ButtonItems == 1 .. MaxButtons
ZoomItems == id.zoom_half .. id.zoom_3
MethodItems == id.method_hard .. id.method_sensitive
MonitorItems == id.monitor_method_async .. id.monitor_method_memory
LanguageItems == {QueryLanguageId(locale) : locale \in SupportedLocales}

FlagItems == {id[f] : f \in Flags}
OtherItems == {id.reset_total, id.reset_max, id.reset_graph, id.reset_all, id.about, id.exit}

\* Those that can be chosen; the one that shows another scale is disabled.
Items ==
  ButtonItems \union ZoomItems \union MethodItems \union MonitorItems \union LanguageItems
    \union FlagItems \union OtherItems \union {id.modify_keys}

\* Scales are in hundredths: 0.75x, 1x, 2x and 3x.
Zooms == <<75, 100, 200, 300>>

CheckedZoom_Half(scale) == id.zoom_half
CheckedZoom(scale) ==
  IF \E n \in DOMAIN Zooms : Zooms[n] = scale
  THEN id.zoom_half - 1 + (CHOOSE n \in DOMAIN Zooms : Zooms[n] = scale)
  ELSE id.zoom_customed

\* The items checked for settings c, a number of buttons and a method in use, and the
\* current language.
Checked(c, count, type, current) ==
  {count, id.method_hard + type, id.monitor_method_async + c.ints["monitor"],
   CheckedZoom(c.ints["scale"]), current}
    \union {id[f] : f \in {g \in Flags : c.ints[g] = 1}}
=============================================================================
