--------------------------- MODULE SettingsProofs ---------------------------
(***************************************************************************)
(* Proofs about Settings: what is stored is what the components do, the    *)
(* key window ends and replaces whole layouts, and an orderly exit keeps   *)
(* the settings.  One inductive invariant carries them: that an exit keeps *)
(* the settings needs that the file holds what was saved as long as nobody *)
(* touched it; that a layout is replaced whole, that an open key window is *)
(* for the layout in use and holds the keys pressed since it opened; that  *)
(* a chosen item is checked, that the items are numbered apart.            *)
(***************************************************************************)
EXTENDS Settings, WellFoundedInduction, TLAPS

Settled == [ints : IntsInRange, keys : [Keys -> Vks]]

FileIsRecord == file = [state |-> file.state, ints |-> file.ints, keys |-> file.keys]

\* As long as the file was not touched, it holds what was saved.
SavedInFile == saved = <<>> \/ \E c \in Settled : saved = <<c>> /\ file = Whole(c)

IInv == TypeOK /\ FileIsRecord /\ ComponentsAgree /\ DialogEnds /\ SavedInFile
-----------------------------------------------------------------------------
\* A text that the first language has is found whatever the current language is.
LEMMA TextFound ==
  ASSUME NEW i, NEW key \in Resources[Lang(base)].texts
  PROVE  key \in Resources[GetText(i, key)].texts
BY DEF GetText

\* What a locale selects is a language there is (query_language_id), the least of those
\* that have it.
LEMMA QueryTyped == ASSUME NEW locale \in SupportedLocales PROVE QueryLanguageId(locale) \in Ids
<1> DEFINE Same == {i \in Ids : Resources[Lang(i)].locale = locale}
<1>1. PICK n \in Langs : Resources[n].locale = locale
  BY DEF SupportedLocales
<1>2. \A m \in Langs : Resources[m].id = Resources[n].id => m = n
  BY <1>1, ResourcesAssumption DEF Langs, Files
<1>3. Lang(Resources[n].id) = n
  BY <1>1, <1>2 DEF Lang
<1>4. Resources[n].id \in Same
  BY <1>1, <1>3 DEF Langs, Ids
<1>5. Same \subseteq Nat
  BY ResourcesAssumption DEF Ids, Files
<1>6. PICK x \in Same : \A y \in Same : <<y, x>> \notin OpToRel(<, Nat)
  <2> HIDE DEF Same
  <2> QED BY <1>4, <1>5, NatLessThanWellFounded, WFMin
<1>7. \A y \in Same : x <= y
  <2> SUFFICES ASSUME NEW y \in Same PROVE x <= y
    OBVIOUS
  <2>1. ~(y < x)
    BY <1>5, <1>6 DEF OpToRel
  <2> QED BY <1>5, <2>1
<1>8. /\ x \in Ids
      /\ /\ Resources[Lang(x)].locale = locale
         /\ \A other \in Ids : Resources[Lang(other)].locale = locale => x <= other
  BY <1>7
<1> HIDE DEF Same
<1> QED BY <1>8 DEF QueryLanguageId

\* Whatever changes it, the current language is one there is.
LEMMA LanguageTyped ==
  ASSUME NEW current \in Ids
  PROVE  /\ \A i : SetCurrentLanguage(current, i) \in Ids
         /\ \A locale : SetCurrentLocale(current, locale) \in Ids
  BY QueryTyped DEF SetCurrentLanguage, SetCurrentLocale, IsLanguageSupported

LEMMA IdsArePositive == Ids \subseteq Nat \ {0} /\ base \in Ids
  BY ResourcesAssumption DEF Ids, Files, base

LEMMA InitLanguageTyped == ASSUME NEW c, NEW locale PROVE InitLanguage(c, locale) \in Ids
<1>1. Greeting(locale) \in Ids
  BY LanguageTyped, IdsArePositive DEF Greeting
<1> QED BY <1>1, LanguageTyped DEF InitLanguage

LEMMA SizeTyped == ASSUME NEW c \in Settled, NEW count \in Nat PROVE CalcSize(c, count) \in Int \X Int
<1>1. c.ints["scale"] \in Int
  BY DEF Settled, IntsInRange
<1> QED BY <1>1 DEF CalcSize

\* The default settings are in range.
LEMMA DefaultSettled == Default \in Settled
<1>1. (CHOOSE v \in Vks : TRUE) \in Vks
  BY KeysAssumption
<1>2. Default.keys \in [Keys -> Vks]
  BY <1>1 DEF Default
<1>3. Default.ints \in IntsInRange
  <2>1. \A i \in Ints : Default.ints[i] \in Int
    BY ButtonsAssumption DEF Default
  <2>2. \A f \in Flags : Default.ints[f] \in {0, 1}
    BY DEF Default, Ints, Flags, Shows, AutoResets
  <2> QED BY <2>1, <2>2, ButtonsAssumption DEF Default, IntsInRange, Ints, Flags, Shows, AutoResets
<1>4. Default = [ints |-> Default.ints, keys |-> Default.keys]
  BY DEF Default
<1> QED BY <1>2, <1>3, <1>4 DEF Settled

\* A start that does not throw reads settings in range (OnCreate, regulate): a flag is a
\* flag already in the file's own members, once converted.
LEMMA LoadedSettled ==
  ASSUME NEW f,
         f.state \in FileStates, AreMembers(f.ints, Ints, Int), AreMembers(f.keys, Keys, RawKeys),
         ~Throws(f)
  PROVE  Loaded(f) \in Settled
<1> DEFINE c == IF f.state = "whole" THEN Updated(Default, f) ELSE Default
<1>0. Default.ints \in [Ints -> Int] /\ Default.keys \in [Keys -> RawKeys]
      /\ \A i \in Flags : i \in Ints /\ Default.ints[i] \in {0, 1}
  BY DefaultSettled DEF Settled, IntsInRange, RawKeys, Ints
<1>1. /\ c.ints \in [Ints -> Int]
      /\ c.keys \in [Keys -> RawKeys]
  BY <1>0 DEF Updated, Converted, AreMembers
<1>2. \A i \in Flags : c.ints[i] \in {0, 1}
  BY <1>0, SMTT(60) DEF Updated, Converted, AreMembers
<1> HIDE DEF c
<1>3. Regulated(c).ints \in IntsInRange
  <2> DEFINE r == Regulated(c).ints
  <2>1. \A i \in Ints : r[i] \in Int
    BY <1>1, ButtonsAssumption DEF Regulated, Between, LastMonitor
  <2>2. /\ r["button_count"] \in 1 .. MaxButtons /\ r["method"] \in 0 .. 1
        /\ r["monitor"] \in 0 .. 3 /\ r["scale"] \in 50 .. 500
    BY <1>1, ButtonsAssumption DEF Regulated, Ints, Between, LastMonitor
  <2>3. r["language"] \in Ids \union {0}
    BY <1>1 DEF Regulated, Ints, IsLanguageSupported
  <2>4. \A i \in Flags : r[i] \in {0, 1}
    BY <1>0, <1>2 DEF Regulated, Flags, Shows, AutoResets
  <2>5. r = [i \in Ints |-> r[i]]
    BY DEF Regulated
  <2> HIDE DEF r
  <2> QED BY <2>1, <2>2, <2>3, <2>4, <2>5 DEF IntsInRange, r
<1>4. Loaded(f) = Regulated(c)
  BY DEF Loaded, c
<1>5. Regulated(c).keys \in [Keys -> Vks]
  BY <1>1, <1>4 DEF Regulated, Throws, RawKeys
<1>6. Regulated(c) = [ints |-> Regulated(c).ints, keys |-> Regulated(c).keys]
  BY DEF Regulated
<1> QED BY <1>3, <1>4, <1>5, <1>6 DEF Settled

\* What was saved in range is read back, but for the two clamped settings.
LEMMA SavedIsLoaded ==
  ASSUME NEW c \in Settled
  PROVE  /\ ~Throws(Whole(c))
         /\ Loaded(Whole(c)).keys = c.keys
         /\ \A i \in Ints :
              \/ Loaded(Whole(c)).ints[i] = c.ints[i]
              \/ i = "monitor" /\ c.ints[i] = 3 /\ Loaded(Whole(c)).ints[i] = 2
              \/ i = "scale" /\ c.ints[i] > 300 /\ Loaded(Whole(c)).ints[i] = 300
<1> DEFINE u == Updated(Default, Whole(c))
<1>1. /\ Whole(c).state = "whole" /\ Whole(c).ints = c.ints /\ Whole(c).keys = c.keys
      /\ c.ints \in IntsInRange /\ c.keys \in [Keys -> Vks]
  BY DEF Whole, Settled
<1>2. \A i \in Ints : c.ints[i] # Text
  BY <1>1, ButtonsAssumption, IdsArePositive DEF IntsInRange, Ints, Text
<1>3. u.keys = c.keys
  BY <1>1 DEF Updated
<1>4. \A i \in Ints : u.ints[i] = c.ints[i]
  BY <1>1, <1>2 DEF Updated, IntsInRange, Converted
<1>5. Loaded(Whole(c)) = Regulated(u)
  BY <1>1 DEF Loaded
<1> HIDE DEF u
<1>6. Loaded(Whole(c)).keys = c.keys
  BY <1>1, <1>3, <1>5, KeysAssumption DEF Regulated
<1>7. ~Throws(Whole(c))
  BY <1>1, <1>6, KeysAssumption DEF Throws
<1>8. ASSUME NEW i \in Ints
      PROVE  \/ Loaded(Whole(c)).ints[i] = c.ints[i]
             \/ i = "monitor" /\ c.ints[i] = 3 /\ Loaded(Whole(c)).ints[i] = 2
             \/ i = "scale" /\ c.ints[i] > 300 /\ Loaded(Whole(c)).ints[i] = 300
  BY <1>1, <1>4, <1>5, ButtonsAssumption, SMTT(60)
     DEF Regulated, IntsInRange, Ints, Flags, Shows, AutoResets, Between, LastMonitor, IsLanguageSupported
<1> QED BY <1>6, <1>7, <1>8
-----------------------------------------------------------------------------
\* The invariant at the first start.
LEMMA InitIInv == Init => IInv
<1> SUFFICES ASSUME Init PROVE IInv
  OBVIOUS
<1>1. cfg \in Settled
  BY DefaultSettled DEF Init
<1>2. manager \in [crt_button_count : 1 .. MaxButtons, keys : [Keys -> Vks]]
  BY DefaultSettled DEF Init, ManagerOf, Settled, IntsInRange
<1>3. kps \in [type : 0 .. 1, monitor : 0 .. 3]
  BY DefaultSettled DEF Init, KpsOf, Settled, IntsInRange
<1>4. file.state \in FileStates /\ FileIsRecord
      /\ AreMembers(file.ints, Ints, Int) /\ AreMembers(file.keys, Keys, RawKeys)
  BY DEF Init, Empty, Nothing, AreMembers, FileStates, FileIsRecord
<1>5. dialog \in [open : BOOLEAN, crt_keys : 1 .. MaxButtons, keys : Seq(Vks)]
  BY ButtonsAssumption DEF Init, Closed
<1>6. size \in Int \X Int
  BY DefaultSettled, SizeTyped, ButtonsAssumption DEF Init
<1> QED BY <1>1, <1>2, <1>3, <1>4, <1>5, <1>6, IdsArePositive
        DEF Init, IInv, TypeOK, Settled, ComponentsAgree, DialogEnds, SavedInFile, Closed

\* What the settings are replaced by leaves them in range.
LEMMA ReplacedTyped ==
  ASSUME NEW keys \in [Keys -> Vks], NEW ks \in Seq(Vks)
  PROVE  Replaced(keys, ks) \in [Keys -> Vks]
  BY DEF Replaced, Keys

\* A change of one number of the settings keeps them in range.
LEMMA SetInt ==
  ASSUME NEW c \in Settled, NEW i \in Ints, NEW n \in Int,
         i = "button_count" => n \in 1 .. MaxButtons, i = "method" => n \in 0 .. 1,
         i = "monitor" => n \in 0 .. 3, i = "scale" => n \in 50 .. 500,
         i = "language" => n \in Ids, i \in Flags => n \in {0, 1}
  PROVE  /\ [c EXCEPT !.ints[i] = n] \in Settled
         /\ [c EXCEPT !.ints[i] = n].keys = c.keys
         /\ \A j \in Ints : [c EXCEPT !.ints[i] = n].ints[j] = IF j = i THEN n ELSE c.ints[j]
<1>1. c = [ints |-> c.ints, keys |-> c.keys] /\ c.ints \in IntsInRange /\ c.keys \in [Keys -> Vks]
  BY DEF Settled
<1>2. [c EXCEPT !.ints[i] = n] = [ints |-> [c.ints EXCEPT ![i] = n], keys |-> c.keys]
  BY <1>1
<1>3. [c.ints EXCEPT ![i] = n] \in IntsInRange
  BY <1>1, ButtonsAssumption DEF IntsInRange, Ints
<1> QED BY <1>1, <1>2, <1>3 DEF Settled, IntsInRange

LEMMA SetLanguage ==
  ASSUME NEW c \in Settled, NEW l \in Ids
  PROVE  /\ [c EXCEPT !.ints["language"] = l] \in Settled
         /\ [c EXCEPT !.ints["language"] = l].keys = c.keys
         /\ \A j \in Ints : [c EXCEPT !.ints["language"] = l].ints[j]
                              = IF j = "language" THEN l ELSE c.ints[j]
<1>1. "language" \in Ints /\ "language" \notin Flags /\ l \in Int
  BY IdsArePositive DEF Ints, Flags, Shows, AutoResets
<1> QED BY <1>1, SetInt

\* Starting preserves the invariant: what is read is in range and handed to the
\* components (OnCreate, init_options).
LEMMA StartStep == ASSUME IInv, NEW locale, Start(locale) PROVE IInv'
<1> USE DEF IInv, Start
<1>1. /\ file'.state \in FileStates /\ FileIsRecord'
      /\ AreMembers(file'.ints, Ints, Int) /\ AreMembers(file'.keys, Keys, RawKeys)
  <2>1. CASE file.state = "absent"
    BY <2>1, DefaultSettled
       DEF Whole, FileIsRecord, AreMembers, Settled, IntsInRange, FileStates, RawKeys
  <2>2. CASE file.state # "absent"
    BY <2>2 DEF TypeOK, FileIsRecord
  <2> QED BY <2>1, <2>2
<1>2. SavedInFile'
  <2>1. saved # <<>> => file.state = "whole"
    BY DEF SavedInFile, Whole
  <2> QED BY <2>1 DEF SavedInFile
<1>3. CASE Throws(file)
  BY <1>1, <1>2, <1>3 DEF components, TypeOK, ComponentsAgree, DialogEnds
<1>4. CASE ~Throws(file)
  <2>1. Loaded(file) \in Settled
    BY <1>4, LoadedSettled DEF TypeOK
  <2>2. language' \in Ids /\ cfg' = [Loaded(file) EXCEPT !.ints["language"] = language']
    BY <1>4, InitLanguageTyped
  <2>3. cfg' \in Settled /\ cfg'.ints["language"] = language'
    BY <2>1, <2>2, SetLanguage DEF Ints
  <2>4. manager' \in [crt_button_count : 1 .. MaxButtons, keys : [Keys -> Vks]]
    BY <1>4, <2>3 DEF ManagerOf, Settled, IntsInRange
  <2>5. kps' \in [type : 0 .. 1, monitor : 0 .. 3]
    BY <1>4, <2>3 DEF KpsOf, Settled, IntsInRange
  <2>6. size' \in Int \X Int
    BY <1>4, <2>3, <2>4, SizeTyped, ButtonsAssumption
  <2> QED BY <1>1, <1>2, <1>4, <2>2, <2>3, <2>4, <2>5, <2>6
          DEF TypeOK, ComponentsAgree, DialogEnds, Settled
<1> QED BY <1>3, <1>4

\* What a command owes the invariant: it changes one number of the settings, and with it
\* the component the number is for.
LEMMA OneIntStep ==
  ASSUME IInv, Command, NEW i \in Ints, NEW n \in Int,
         i = "button_count" => n \in 1 .. MaxButtons, i = "method" => n \in 0 .. 1,
         i = "monitor" => n \in 0 .. 3, i = "scale" => n \in 50 .. 500,
         i = "language" => n \in Ids, i \in Flags => n \in {0, 1},
         cfg' = [cfg EXCEPT !.ints[i] = n],
         manager' = IF i = "button_count" THEN [manager EXCEPT !.crt_button_count = n] ELSE manager,
         kps' = IF i = "method" THEN [kps EXCEPT !.type = n]
                ELSE IF i = "monitor" THEN [kps EXCEPT !.monitor = n] ELSE kps,
         language' = IF i = "language" THEN n ELSE language,
         size' = IF i \in Shows \union {"scale", "button_count"}
                 THEN CalcSize(cfg', manager'.crt_button_count) ELSE size,
         UNCHANGED <<dialog, typed>>
  PROVE  IInv'
<1> USE DEF IInv
<1>1. /\ cfg \in Settled /\ phase = "running"
      /\ manager = ManagerOf(cfg) /\ kps = KpsOf(cfg) /\ language = cfg.ints["language"]
      /\ size = CalcSize(cfg, manager.crt_button_count)
  BY DEF TypeOK, Settled, Command, ComponentsAgree
<1>2. FileIsRecord' /\ SavedInFile'
  BY DEF FileIsRecord, SavedInFile, Command
<1>3. /\ cfg' \in Settled /\ cfg'.keys = cfg.keys
      /\ \A j \in Ints : cfg'.ints[j] = IF j = i THEN n ELSE cfg.ints[j]
  BY <1>1, SetInt
<1>4. {"button_count", "method", "monitor", "language", "scale"} \subseteq Ints
      /\ Shows \subseteq Ints /\ "show_buttons" \in Shows /\ "show_statistics" \in Shows
      /\ "show_graph" \in Shows
  BY DEF Ints, Flags, Shows
<1>5. manager' = ManagerOf(cfg')
  BY <1>1, <1>3, <1>4 DEF ManagerOf
<1>6. kps' = KpsOf(cfg')
  BY <1>1, <1>3, <1>4 DEF KpsOf
<1>7. language' = cfg'.ints["language"] /\ language' \in Ids
  BY <1>1, <1>3, <1>4 DEF TypeOK
<1>8. size' = CalcSize(cfg', manager'.crt_button_count)
  <2>1. CASE i \in Shows \union {"scale", "button_count"}
    BY <2>1
  <2>2. CASE i \notin Shows \union {"scale", "button_count"}
    <3>1. manager'.crt_button_count = manager.crt_button_count
      BY <2>2
    <3>2. /\ cfg'.ints["show_buttons"] = cfg.ints["show_buttons"]
          /\ cfg'.ints["show_statistics"] = cfg.ints["show_statistics"]
          /\ cfg'.ints["show_graph"] = cfg.ints["show_graph"]
          /\ cfg'.ints["scale"] = cfg.ints["scale"]
      BY <1>3, <1>4, <2>2
    <3> QED BY <1>1, <2>2, <3>1, <3>2 DEF CalcSize
  <2> QED BY <2>1, <2>2
<1>9. /\ manager' \in [crt_button_count : 1 .. MaxButtons, keys : [Keys -> Vks]]
      /\ kps' \in [type : 0 .. 1, monitor : 0 .. 3]
  <2>1. /\ cfg'.ints["button_count"] \in 1 .. MaxButtons /\ cfg'.ints["method"] \in 0 .. 1
        /\ cfg'.ints["monitor"] \in 0 .. 3 /\ cfg'.keys \in [Keys -> Vks]
    BY <1>3 DEF Settled, IntsInRange
  <2> QED BY <1>5, <1>6, <2>1 DEF ManagerOf, KpsOf
<1>10. size' \in Int \X Int
  BY <1>3, <1>8, <1>9, SizeTyped, ButtonsAssumption
<1> QED BY <1>2, <1>3, <1>5, <1>6, <1>7, <1>8, <1>9, <1>10
        DEF Command, TypeOK, ComponentsAgree, DialogEnds, Settled

\* Opening the key window, and the items that touch no setting.
LEMMA OtherCommandStep ==
  ASSUME IInv, Command, ModifyKeys \/ UNCHANGED <<cfg, components, dialog, typed>>
  PROVE  IInv'
<1> USE DEF IInv
<1>1. UNCHANGED <<file, phase, saved, failed, cfg, components>>
  BY DEF Command, ModifyKeys
<1>2. FileIsRecord' /\ SavedInFile' /\ ComponentsAgree'
  BY <1>1 DEF FileIsRecord, SavedInFile, ComponentsAgree, components
<1>3. /\ dialog' \in [open : BOOLEAN, crt_keys : 1 .. MaxButtons, keys : Seq(Vks)]
      /\ typed' \in Seq(Vks)
      /\ DialogEnds'
  <2>1. CASE ModifyKeys
    BY <2>1 DEF ModifyKeys, Opened, TypeOK, DialogEnds
  <2>2. CASE UNCHANGED <<dialog, typed>>
    BY <2>2 DEF TypeOK, DialogEnds
  <2> QED BY <2>1, <2>2
<1> QED BY <1>1, <1>2, <1>3 DEF TypeOK, components

\* The commands keep settings and components together.
LEMMA ScaleStep == ASSUME IInv, Command, NEW s \in Int, ChangeScale(s) PROVE IInv'
<1>1. Between(50, s, 500) \in 50 .. 500
  BY DEF Between
<1>2. "scale" \in Ints \ Flags
  BY DEF Ints, Flags, Shows, AutoResets
<1> DEFINE n == Between(50, s, 500)
<1>3. /\ cfg' = [cfg EXCEPT !.ints["scale"] = n]
      /\ size' = CalcSize(cfg', manager'.crt_button_count)
      /\ UNCHANGED <<manager, kps, language, dialog, typed>>
  BY DEF ChangeScale
<1> HIDE DEF n
<1>4. n \in 50 .. 500
  BY <1>1 DEF n
<1>5. n \in Int /\ "scale" \in Shows \union {"scale", "button_count"} /\ "scale" \in Ints /\ "scale" \notin Flags
  BY <1>2, <1>4
<1> QED BY <1>3, <1>4, <1>5, OneIntStep

LEMMA ShowStep == ASSUME IInv, Command, NEW f \in Shows, ChangeShow(f) PROVE IInv'
<1>1. f \in Ints /\ f \in Flags /\ f \notin {"button_count", "method", "monitor", "scale", "language"}
  BY DEF Ints, Flags, Shows
<1>2. cfg \in Settled /\ cfg.ints[f] \in {0, 1}
  BY <1>1 DEF IInv, TypeOK, Settled, IntsInRange
<1>3. PICK n \in {0, 1} : cfg' = [cfg EXCEPT !.ints[f] = n]
  <2> DEFINE c == [cfg EXCEPT !.ints[f] = 1 - @]
  <2>1. c = [cfg EXCEPT !.ints[f] = 1 - cfg.ints[f]] /\ 1 - cfg.ints[f] \in {0, 1}
    BY <1>2
  <2>2. [c EXCEPT !.ints[f] = 1] = [cfg EXCEPT !.ints[f] = 1]
    BY <1>1, <1>2 DEF Settled, IntsInRange
  <2>3. cfg' = c \/ cfg' = [c EXCEPT !.ints[f] = 1]
    BY DEF ChangeShow
  <2> HIDE DEF c
  <2> QED BY <2>1, <2>2, <2>3
<1>4. size' = CalcSize(cfg', manager'.crt_button_count) /\ UNCHANGED <<manager, kps, language, dialog, typed>>
  BY DEF ChangeShow
<1> QED BY <1>1, <1>3, <1>4, OneIntStep

LEMMA FlagStep == ASSUME IInv, Command, NEW f \in Flags \ Shows, ChangeFlag(f) PROVE IInv'
<1>1. f \in Ints /\ f \notin {"button_count", "method", "monitor", "scale", "language"}
  BY DEF Ints, Flags, Shows, AutoResets
<1>2. cfg.ints[f] \in {0, 1}
  BY <1>1 DEF IInv, TypeOK, IntsInRange
<1>3. cfg' = [cfg EXCEPT !.ints[f] = 1 - cfg.ints[f]] /\ 1 - cfg.ints[f] \in {0, 1}
  BY <1>2 DEF ChangeFlag
<1> QED BY <1>1, <1>3, OneIntStep DEF ChangeFlag, components

LEMMA CommandStep == ASSUME IInv, NEW i \in Items, OnCommand(i) PROVE IInv'
<1>0. Command
  BY DEF OnCommand
<1>a. {"button_count", "method", "monitor", "scale", "language"} \subseteq Ints \ Flags
  BY DEF Ints, Flags, Shows, AutoResets
<1>1. ASSUME i \in ButtonItems, ChangeButtonCount(i) PROVE IInv'
  BY <1>0, <1>a, <1>1, OneIntStep, ButtonsAssumption DEF ChangeButtonCount, ButtonItems
<1>2. ASSUME i \in ZoomItems, ChangeScale(Zooms[i - id.zoom_half + 1]) PROVE IInv'
  <2>1. Zooms[i - id.zoom_half + 1] \in Int
    BY <1>2, ButtonsAssumption DEF ZoomItems, Zooms, id
  <2> QED BY <1>0, <1>2, <2>1, ScaleStep
<1>3. ASSUME i \in MethodItems, ChangeImplement(i - id.method_hard) PROVE IInv'
  <2> DEFINE n == i - id.method_hard
  <2>1. n \in 0 .. 1 /\ n \in Int
    BY <1>3, ButtonsAssumption DEF MethodItems, id
  <2>2. /\ cfg' = [cfg EXCEPT !.ints["method"] = n] /\ kps' = [kps EXCEPT !.type = n]
        /\ UNCHANGED <<manager, language, size, dialog, typed>>
    BY <1>3 DEF ChangeImplement
  <2> HIDE DEF n
  <2>3. "method" \notin Shows
    BY DEF Shows
  <2> QED BY <1>0, <1>a, <2>1, <2>2, <2>3, OneIntStep
<1>4. ASSUME i \in MonitorItems, ChangeMonitor(i - id.monitor_method_async) PROVE IInv'
  <2> DEFINE n == i - id.monitor_method_async
  <2>1. n \in 0 .. 3 /\ n \in Int
    BY <1>4, ButtonsAssumption DEF MonitorItems, id
  <2>2. /\ cfg' = [cfg EXCEPT !.ints["monitor"] = n] /\ kps' = [kps EXCEPT !.monitor = n]
        /\ UNCHANGED <<manager, language, size, dialog, typed>>
    BY <1>4 DEF ChangeMonitor, SetMonitor
  <2> HIDE DEF n
  <2>3. "monitor" \notin Shows
    BY DEF Shows
  <2> QED BY <1>0, <1>a, <2>1, <2>2, <2>3, OneIntStep
<1>5. ASSUME NEW f \in Shows, ChangeShow(f) PROVE IInv'
  BY <1>0, <1>5, ShowStep
<1>6. ASSUME NEW f \in Flags \ Shows, ChangeFlag(f) PROVE IInv'
  BY <1>0, <1>6, FlagStep
<1>7. ASSUME ModifyKeys \/ UNCHANGED <<cfg, components, dialog, typed>> PROVE IInv'
  BY <1>0, <1>7, OtherCommandStep
<1>8. ASSUME ChangeLanguage(i) PROVE IInv'
  <2>1. SetCurrentLanguage(language, i) \in Ids
    BY LanguageTyped DEF IInv, TypeOK
  <2>2. language' \in Ids /\ language' \in Int /\ "language" \notin Shows
    BY <1>8, <2>1, IdsArePositive DEF ChangeLanguage, Shows
  <2>3. /\ cfg' = [cfg EXCEPT !.ints["language"] = language']
        /\ UNCHANGED <<manager, kps, size, dialog, typed>>
    BY <1>8 DEF ChangeLanguage
  <2> QED BY <1>0, <1>a, <2>2, <2>3, OneIntStep
<1> QED BY <1>1, <1>2, <1>3, <1>4, <1>5, <1>6, <1>7, <1>8 DEF OnCommand

LEMMA WheelStep == ASSUME IInv, NEW n \in Notches, OnMouseWheel(n) PROVE IInv'
<1>1. cfg.ints["scale"] \in Int /\ n \in Int
  BY NumbersAssumption DEF IInv, TypeOK, IntsInRange, Ints
<1>2. cfg.ints["scale"] + n \in Int
  BY <1>1
<1> QED BY <1>2, ScaleStep DEF OnMouseWheel

\* The last key of the key window changes cfg and keys_manager alike.
LEMMA NextKeyStep == ASSUME IInv, NEW v \in Vks, NextKey(v) PROVE IInv'
<1> USE DEF IInv, NextKey
<1> DEFINE ks == Append(dialog.keys, v)
<1>1. ks \in Seq(Vks) /\ Len(ks) = Len(dialog.keys) + 1 /\ Len(ks) <= dialog.crt_keys
  BY DEF TypeOK, DialogEnds
<1>2. FileIsRecord' /\ SavedInFile' /\ typed' \in Seq(Vks)
  BY DEF FileIsRecord, SavedInFile, TypeOK
<1>3. manager = ManagerOf(cfg) /\ kps = KpsOf(cfg) /\ language = cfg.ints["language"]
      /\ size = CalcSize(cfg, manager.crt_button_count)
  BY DEF ComponentsAgree
<1>4. CASE Enough(ks)
  <2>1. cfg' = [ints |-> cfg.ints, keys |-> Replaced(cfg.keys, ks)]
    BY <1>4 DEF TypeOK
  <2>2. manager' = [crt_button_count |-> manager.crt_button_count, keys |-> Replaced(cfg.keys, ks)]
    BY <1>3, <1>4 DEF TypeOK, ManagerOf
  <2>3. Replaced(cfg.keys, ks) \in [Keys -> Vks]
    BY <1>1, ReplacedTyped DEF TypeOK
  <2>4. manager' = ManagerOf(cfg') /\ kps' = KpsOf(cfg') /\ size = CalcSize(cfg', manager'.crt_button_count)
    BY <1>3, <2>1, <2>2 DEF ManagerOf, KpsOf, CalcSize
  <2>5. dialog' \in [open : BOOLEAN, crt_keys : 1 .. MaxButtons, keys : Seq(Vks)] /\ ~dialog'.open
    BY <1>1, <1>4 DEF TypeOK
  <2>6. cfg' \in Settled /\ manager' \in [crt_button_count : 1 .. MaxButtons, keys : [Keys -> Vks]]
    BY <2>1, <2>2, <2>3 DEF TypeOK, Settled
  <2> QED BY <1>2, <2>4, <2>5, <2>6 DEF TypeOK, ComponentsAgree, DialogEnds, Settled
<1>5. CASE ~Enough(ks)
  <2>1. dialog' = [open |-> dialog.open, crt_keys |-> dialog.crt_keys, keys |-> ks]
    BY <1>5 DEF TypeOK
  <2>2. Len(ks) # dialog.crt_keys
    BY <1>5 DEF Enough
  <2>3. /\ dialog'.open = dialog.open /\ dialog'.crt_keys = dialog.crt_keys /\ dialog'.keys = ks
        /\ dialog.open \in BOOLEAN /\ dialog.crt_keys \in 1 .. MaxButtons
    BY <2>1 DEF TypeOK
  <2>4. Len(ks) \in Nat /\ Len(ks) < dialog.crt_keys
    BY <1>1, <2>2, <2>3, ButtonsAssumption DEF TypeOK
  <2>5. dialog' \in [open : BOOLEAN, crt_keys : 1 .. MaxButtons, keys : Seq(Vks)]
    BY <1>1, <2>1, <2>3
  <2> QED BY <1>2, <1>3, <1>5, <2>3, <2>4, <2>5 DEF TypeOK, ComponentsAgree, DialogEnds
<1> QED BY <1>4, <1>5

LEMMA OnKeyStep ==
  ASSUME IInv, NEW vk \in Vks \union DOMAIN Sided, NEW right \in BOOLEAN, OnKey(vk, right)
  PROVE  IInv'
<1>1. \A g \in DOMAIN Sided : Sided[g][1] \in Vks /\ Sided[g][2] \in Vks
  BY KeysAssumption
<1> QED BY <1>1, NextKeyStep DEF OnKey

\* The end of the process and edits of the file.
LEMMA FileStep == ASSUME IInv, Cancel \/ SaveBegin \/ SaveEnd \/ Kill \/ Edit PROVE IInv'
<1> USE DEF IInv
<1>1. ASSUME Cancel PROVE IInv'
  BY <1>1 DEF Cancel, components, ghosts, TypeOK, FileIsRecord, ComponentsAgree, DialogEnds, SavedInFile
<1>2. ASSUME SaveBegin PROVE IInv'
  BY <1>2 DEF SaveBegin, components, Empty, Nothing, AreMembers, FileStates, TypeOK, FileIsRecord,
              ComponentsAgree, DialogEnds, SavedInFile
<1>3. ASSUME SaveEnd PROVE IInv'
  <2>1. cfg \in Settled
    BY DEF TypeOK, Settled
  <2>2. SavedInFile' /\ FileIsRecord'
    BY <1>3, <2>1 DEF SaveEnd, SavedInFile, FileIsRecord, Whole
  <2>3. /\ file'.state \in FileStates
        /\ AreMembers(file'.ints, Ints, Int) /\ AreMembers(file'.keys, Keys, RawKeys)
    BY <1>3, <2>1 DEF SaveEnd, Whole, Settled, IntsInRange, AreMembers, FileStates, RawKeys
  <2>4. dialog' \in [open : BOOLEAN, crt_keys : 1 .. MaxButtons, keys : Seq(Vks)] /\ ~dialog'.open
    BY <1>3, ButtonsAssumption DEF SaveEnd, Closed
  <2> QED BY <1>3, <2>2, <2>3, <2>4 DEF SaveEnd, components, TypeOK, ComponentsAgree, DialogEnds
<1>4. ASSUME Kill PROVE IInv'
  <2>1. dialog' \in [open : BOOLEAN, crt_keys : 1 .. MaxButtons, keys : Seq(Vks)] /\ ~dialog'.open
    BY <1>4, ButtonsAssumption DEF Kill, Closed
  <2> QED BY <1>4, <2>1 DEF Kill, components, ghosts, TypeOK, FileIsRecord, ComponentsAgree,
                            DialogEnds, SavedInFile
<1>5. ASSUME Edit PROVE IInv'
  <2> DEFINE IsFile(f) == /\ f = [state |-> f.state, ints |-> f.ints, keys |-> f.keys]
                          /\ f.state \in FileStates
                          /\ AreMembers(f.ints, Ints, Int) /\ AreMembers(f.keys, Keys, RawKeys)
  <2>1. IsFile(file)
    BY DEF TypeOK, FileIsRecord
  <2>2. IsFile(file')
    <3>1. ASSUME NEW i \in Ints, NEW n \in EditedInts \union {Text},
                 file' = [file EXCEPT !.ints = With(@, i, n)]
          PROVE  IsFile(file')
      <4>1. AreMembers(With(file.ints, i, n), Ints, Int)
        BY <2>1, NumbersAssumption DEF With, Text, AreMembers
      <4> QED BY <2>1, <3>1, <4>1
    <3>2. ASSUME NEW k \in Keys, NEW v \in RawKeys, file' = [file EXCEPT !.keys = With(@, k, v)]
          PROVE  IsFile(file')
      <4>1. AreMembers(With(file.keys, k, v), Keys, RawKeys)
        BY <2>1 DEF With, AreMembers
      <4> QED BY <2>1, <3>2, <4>1
    <3>3. ASSUME NEW i \in Ints, file' = [file EXCEPT !.ints = Without(@, i)]
          PROVE  IsFile(file')
      <4>1. AreMembers(Without(file.ints, i), Ints, Int)
        BY <2>1 DEF Without, AreMembers
      <4> QED BY <2>1, <3>3, <4>1
    <3>4. ASSUME NEW k \in Keys, file' = [file EXCEPT !.keys = Without(@, k)]
          PROVE  IsFile(file')
      <4>1. AreMembers(Without(file.keys, k), Keys, RawKeys)
        BY <2>1 DEF Without, AreMembers
      <4> QED BY <2>1, <3>4, <4>1
    <3>5. ASSUME NEW s \in FileStates \ {"whole"}, file' = Empty(s) PROVE IsFile(file')
      BY <3>5 DEF Empty, Nothing, AreMembers
    <3> HIDE DEF IsFile
    <3> QED BY <1>5, <3>1, <3>2, <3>3, <3>4, <3>5 DEF Edit
  <2> QED BY <1>5, <2>2
          DEF Edit, components, TypeOK, FileIsRecord, ComponentsAgree, DialogEnds, SavedInFile
<1> QED BY <1>1, <1>2, <1>3, <1>4, <1>5

\* The invariant holds for ever.
LEMMA Invariance == Spec => []IInv
<1>1. IInv /\ [Next]_vars => IInv'
  <2> SUFFICES ASSUME IInv, [Next]_vars PROVE IInv'
    OBVIOUS
  <2>1. CASE UNCHANGED vars
    BY <2>1 DEF vars, components, ghosts, IInv, TypeOK, FileIsRecord, ComponentsAgree, DialogEnds,
                SavedInFile
  <2>2. ASSUME NEW locale, Start(locale) PROVE IInv'
    BY <2>2, StartStep
  <2>3. ASSUME NEW vk \in Vks \union DOMAIN Sided, NEW right \in BOOLEAN, OnKey(vk, right)
        PROVE  IInv'
    BY <2>3, OnKeyStep
  <2>4. CASE Cancel \/ SaveBegin \/ SaveEnd \/ Kill \/ Edit
    BY <2>4, FileStep
  <2> QED BY <2>1, <2>2, <2>3, <2>4, CommandStep, WheelStep DEF Next
<1> QED BY <1>1, InitIInv, PTL DEF Spec
-----------------------------------------------------------------------------
\* An open key window is of the running program, asks for the keys of the layout in use
\* and holds those pressed since it opened.
DialogFollows ==
  dialog.open => phase = "running" /\ typed = dialog.keys /\ dialog.crt_keys = manager.crt_button_count

LEMMA DialogFollowsStep == ASSUME IInv, DialogFollows, [Next]_vars PROVE DialogFollows'
<1> USE DEF DialogFollows
<1>0. dialog = [open |-> dialog.open, crt_keys |-> dialog.crt_keys, keys |-> dialog.keys]
  BY DEF IInv, TypeOK
<1>1. CASE UNCHANGED vars
  BY <1>1 DEF vars, components, ghosts
<1>2. ASSUME NEW locale, Start(locale) PROVE DialogFollows'
  BY <1>2 DEF Start
<1>3. ASSUME Command, UNCHANGED dialog PROVE DialogFollows'
  BY <1>3 DEF Command
<1>4. ASSUME ModifyKeys, Command PROVE DialogFollows'
  BY <1>4, SMTT(60) DEF ModifyKeys, Command, Opened, components
<1>5. ASSUME NEW i \in Items, OnCommand(i) PROVE DialogFollows'
  BY <1>3, <1>4, <1>5 DEF OnCommand, ChangeButtonCount, ChangeScale, ChangeImplement, ChangeMonitor,
                          ChangeShow, ChangeFlag, ChangeLanguage
<1>6. ASSUME NEW n \in Notches, OnMouseWheel(n) PROVE DialogFollows'
  BY <1>3, <1>6 DEF OnMouseWheel, ChangeScale
<1>7. ASSUME NEW v \in Vks, NextKey(v) PROVE DialogFollows'
  <2>1. CASE Enough(Append(dialog.keys, v))
    BY <1>0, <1>7, <2>1 DEF NextKey
  <2>2. CASE ~Enough(Append(dialog.keys, v))
    <3>1. dialog' = [dialog EXCEPT !.keys = Append(dialog.keys, v)]
      BY <1>7, <2>2 DEF NextKey
    <3>2. /\ dialog'.keys = Append(dialog.keys, v) /\ dialog'.crt_keys = dialog.crt_keys
          /\ dialog'.open = dialog.open
      BY <1>0, <3>1
    <3> QED BY <1>7, <2>2, <3>2 DEF NextKey
  <2> QED BY <2>1, <2>2
<1>8. ASSUME NEW vk \in Vks \union DOMAIN Sided, NEW right \in BOOLEAN, OnKey(vk, right)
      PROVE  DialogFollows'
  <2>1. \A g \in DOMAIN Sided : Sided[g][1] \in Vks /\ Sided[g][2] \in Vks
    BY KeysAssumption
  <2> QED BY <1>7, <1>8, <2>1 DEF OnKey
<1>9. CASE Cancel \/ SaveBegin \/ SaveEnd \/ Kill \/ Edit
  BY <1>0, <1>9 DEF Cancel, SaveBegin, SaveEnd, Kill, Edit, Closed, components, ghosts
<1> QED BY <1>1, <1>2, <1>5, <1>6, <1>8, <1>9 DEF Next

LEMMA Following == Spec => []DialogFollows
<1>1. Init => DialogFollows
  BY DEF Init, Closed, DialogFollows
<1> QED BY <1>1, DialogFollowsStep, Invariance, PTL DEF Spec

\* The commands leave the keys alone.
LEMMA CommandKeepsKeys ==
  ASSUME IInv, (\E i \in Items : OnCommand(i)) \/ (\E n \in Notches : OnMouseWheel(n))
  PROVE  cfg'.keys = cfg.keys
<1>1. cfg = [ints |-> cfg.ints, keys |-> cfg.keys]
  BY DEF IInv, TypeOK
<1>2. \A i, n : [cfg EXCEPT !.ints[i] = n].keys = cfg.keys
  BY <1>1
<1>3. \A i, n, m : [[cfg EXCEPT !.ints[i] = n] EXCEPT !.ints[i] = m].keys = cfg.keys
  BY <1>1
<1>4. ASSUME NEW f, ChangeShow(f) PROVE cfg'.keys = cfg.keys
  BY <1>2, <1>3, <1>4 DEF ChangeShow
<1>5. ASSUME NEW n, ChangeButtonCount(n) \/ ChangeScale(n) PROVE cfg'.keys = cfg.keys
  BY <1>1, <1>5 DEF ChangeButtonCount, ChangeScale
<1>6. ASSUME NEW n, ChangeImplement(n) \/ ChangeMonitor(n) PROVE cfg'.keys = cfg.keys
  BY <1>1, <1>6 DEF ChangeImplement, ChangeMonitor, SetMonitor
<1>7. ASSUME NEW f, ChangeFlag(f) \/ ChangeLanguage(f) PROVE cfg'.keys = cfg.keys
  BY <1>1, <1>7 DEF ChangeFlag, ChangeLanguage
<1>8. ASSUME NEW i \in Items, OnCommand(i) PROVE cfg'.keys = cfg.keys
  BY <1>4, <1>5, <1>6, <1>7, <1>8 DEF OnCommand, ModifyKeys
<1>9. ASSUME NEW n \in Notches, OnMouseWheel(n) PROVE cfg'.keys = cfg.keys
  BY <1>5, <1>9 DEF OnMouseWheel
<1> QED BY <1>8, <1>9

\* The states are well-typed, and so the settings in use are in range, whatever the file
\* held (regulate).
THEOREM Typing == Spec => []TypeOK
<1>1. IInv => TypeOK
  BY DEF IInv
<1> QED BY <1>1, Invariance, PTL

\* Whatever commands, key windows, kills and edits of the file come in whatever order,
\* what config stores is what keys_manager and kps do.
THEOREM SettingsAgree == Spec => []ComponentsAgree
<1>1. IInv => ComponentsAgree
  BY DEF IInv
<1> QED BY <1>1, Invariance, PTL

\* The key window is closed before it has more keys than its layout (next).
THEOREM KeyWindowEnds == Spec => []DialogEnds
<1>1. IInv => DialogEnds
  BY DEF IInv
<1> QED BY <1>1, Invariance, PTL

\* An orderly exit (~config) and a start (OnCreate) restore every setting but the two
\* that regulate clamps lower than the commands do.
THEOREM ExitKeepsSettings == Spec => []RestartRestores
<1>1. IInv => RestartRestores
  <2> SUFFICES ASSUME IInv, saved # <<>> PROVE RestartRestores
    BY DEF RestartRestores
  <2>1. PICK c \in Settled : saved = <<c>> /\ file = Whole(c)
    BY DEF IInv, SavedInFile
  <2>2. saved[1] = c
    BY <2>1
  <2> QED BY <2>1, <2>2, SavedIsLoaded DEF RestartRestores
<1> QED BY <1>1, Invariance, PTL

\* The key window replaces a layout whole, by the keys pressed since it opened (next).
THEOREM WholeLayouts == Spec => LayoutsReplacedWhole
<1> DEFINE ReplacedWhole == (phase = "running" /\ cfg'.keys # cfg.keys) =>
                       /\ cfg'.keys = Replaced(cfg.keys, typed')
                       /\ Len(typed') = cfg.ints["button_count"]
<1>1. ASSUME IInv, DialogFollows, [Next]_vars PROVE [ReplacedWhole]_vars
  <2> SUFFICES ASSUME phase = "running", cfg'.keys # cfg.keys
               PROVE  /\ cfg'.keys = Replaced(cfg.keys, typed')
                      /\ Len(typed') = cfg.ints["button_count"]
    OBVIOUS
  <2>1. PICK v \in Vks : NextKey(v)
    <3>1. ~UNCHANGED vars
      BY DEF vars
    <3>2. \A locale : ~Start(locale)
      BY DEF Start
    <3>3. ~(Cancel \/ SaveBegin \/ SaveEnd \/ Kill \/ Edit)
      BY DEF Cancel, SaveBegin, SaveEnd, Kill, Edit, components
    <3>4. PICK vk \in Vks \union DOMAIN Sided, right \in BOOLEAN : OnKey(vk, right)
      BY <1>1, <3>1, <3>2, <3>3, CommandKeepsKeys DEF Next
    <3>5. \A g \in DOMAIN Sided : Sided[g][1] \in Vks /\ Sided[g][2] \in Vks
      BY KeysAssumption
    <3> QED BY <3>4, <3>5 DEF OnKey
  <2>2. Enough(Append(dialog.keys, v))
    BY <2>1 DEF NextKey
  <2>3. typed' = Append(dialog.keys, v)
    BY <1>1, <2>1 DEF NextKey, DialogFollows
  <2>4. cfg'.keys = Replaced(cfg.keys, typed')
    BY <1>1, <2>1, <2>2, <2>3 DEF NextKey, IInv, TypeOK
  <2>5. Len(typed') = manager.crt_button_count
    BY <1>1, <2>1, <2>2, <2>3 DEF NextKey, Enough, DialogFollows
  <2>6. manager.crt_button_count = cfg.ints["button_count"]
    BY <1>1 DEF IInv, ComponentsAgree, ManagerOf
  <2> QED BY <2>4, <2>5, <2>6
<1> QED BY <1>1, Invariance, Following, PTL DEF Spec, LayoutsReplacedWhole
-----------------------------------------------------------------------------
\* The menu: the settings that one item of several stands for, those items, and the one
\* that is checked.
Choices == {"button_count", "method", "monitor", "scale", "language"}

Section(j) ==
  CASE j = "button_count" -> ButtonItems
    [] j = "method" -> MethodItems
    [] j = "monitor" -> MonitorItems
    [] j = "scale" -> id.zoom_half .. id.zoom_customed
    [] j = "language" -> Ids

ItemOf(j, n) ==
  CASE j = "method" -> id.method_hard + n
    [] j = "monitor" -> id.monitor_method_async + n
    [] j = "scale" -> CheckedZoom(n)
    [] OTHER -> n

FlagsOn(c) == {f \in Flags : c.ints[f] = 1}
ShownBy(c) == {ItemOf(j, c.ints[j]) : j \in Choices} \union {id[f] : f \in FlagsOn(c)}

LEMMA Numbers ==
  /\ MaxButtons \in Nat \ {0}
  /\ id.zoom_half = MaxButtons + 6 /\ id.zoom_3 = MaxButtons + 9 /\ id.zoom_customed = MaxButtons + 10
  /\ id.method_hard = MaxButtons + 11 /\ id.method_sensitive = MaxButtons + 12
  /\ id.monitor_method_async = MaxButtons + 21 /\ id.monitor_method_memory = MaxButtons + 24
  /\ id.monitor_fence = MaxButtons + 25 /\ id.modify_keys = MaxButtons + 16
  BY ButtonsAssumption DEF id

LEMMA FlagNumbers ==
  /\ \A f \in Flags : id[f] \in MaxButtons + 13 .. MaxButtons + 15 \/ id[f] \in MaxButtons + 18 .. MaxButtons + 20
                        \/ id[f] = MaxButtons + 25
  /\ \A f, g \in Flags : id[f] = id[g] => f = g
  /\ Shows \subseteq Flags
<1>1. /\ id["show_buttons"] = MaxButtons + 13 /\ id["show_statistics"] = MaxButtons + 14
      /\ id["show_graph"] = MaxButtons + 15
      /\ id["auto_reset_total_hits"] = MaxButtons + 18 /\ id["auto_reset_max_kps"] = MaxButtons + 19
      /\ id["auto_reset_kps_graph"] = MaxButtons + 20 /\ id["monitor_fence"] = MaxButtons + 25
  BY DEF id
<1> QED BY <1>1, ButtonsAssumption DEF Flags, Shows, AutoResets

LEMMA OtherNumbers ==
  \A i \in OtherItems \union {id.modify_keys} :
     i \in MaxButtons + 1 .. MaxButtons + 5 \/ i \in MaxButtons + 16 .. MaxButtons + 17
  BY ButtonsAssumption DEF OtherItems, id

\* The languages come after every enumerator (menu_id).
LEMMA IdsAreLast == \A l \in Ids : l \in Nat /\ l > MaxButtons + 26
  BY IdsAssumption, ResourcesAssumption DEF Ids, Files

LEMMA SectionsApart ==
  /\ \A j \in Choices, k \in Choices : j # k => Section(j) \intersect Section(k) = {}
  /\ \A j \in Choices, f \in Flags : id[f] \notin Section(j)
  /\ \A j \in Choices, i \in OtherItems \union {id.modify_keys} : i \notin Section(j)
<1>1. /\ \A i \in Section("button_count") : i \in 1 .. MaxButtons
      /\ \A i \in Section("method") : i \in MaxButtons + 11 .. MaxButtons + 12
      /\ \A i \in Section("monitor") : i \in MaxButtons + 21 .. MaxButtons + 24
      /\ \A i \in Section("scale") : i \in MaxButtons + 6 .. MaxButtons + 10
      /\ \A i \in Section("language") : i \in Nat /\ i > MaxButtons + 26
  BY Numbers, IdsAreLast DEF Section, ButtonItems, MethodItems, MonitorItems
<1>2. MaxButtons \in Nat
  BY Numbers
<1>3. \A j \in Choices : j = "button_count" \/ j = "method" \/ j = "monitor" \/ j = "scale" \/ j = "language"
  BY DEF Choices
<1>4. ASSUME NEW j \in Choices, NEW k \in Choices, NEW i \in Section(j), i \in Section(k) PROVE j = k
  BY <1>1, <1>2, <1>3, <1>4
<1>5. \A j \in Choices, f \in Flags : id[f] \notin Section(j)
  BY <1>1, <1>2, <1>3, FlagNumbers
<1>6. \A j \in Choices, i \in OtherItems \union {id.modify_keys} : i \notin Section(j)
  BY <1>1, <1>2, <1>3, OtherNumbers
<1> QED BY <1>4, <1>5, <1>6

\* Group finds the section of an item.
LEMMA GroupIsSection == ASSUME NEW j \in Choices, NEW i \in Section(j) PROVE Group(i) = Section(j)
<1> DEFINE Sections == {ButtonItems, id.zoom_half .. id.zoom_customed, MethodItems, MonitorItems, Ids}
<1>1. Sections = {Section(k) : k \in Choices}
  BY DEF Section, Choices
<1>2. \A g \in Sections : i \in g => g = Section(j)
  <2>1. ASSUME NEW k \in Choices, i \in Section(k) PROVE k = j
    BY <2>1, SectionsApart
  <2> HIDE DEF Sections
  <2> QED BY <1>1, <2>1
<1>3. Section(j) \in Sections
  BY <1>1
<1>4. Group(i) = CHOOSE g \in Sections : i \in g
  BY DEF Group
<1> HIDE DEF Sections
<1> QED BY <1>2, <1>3, <1>4

LEMMA ZoomShown ==
  /\ \A s : CheckedZoom(s) \in id.zoom_half .. id.zoom_customed
  /\ \A n \in 1 .. 4 : Zooms[n] \in 50 .. 500 /\ CheckedZoom(Zooms[n]) = id.zoom_half - 1 + n
<1>1. DOMAIN Zooms = 1 .. 4 /\ Zooms[1] = 75 /\ Zooms[2] = 100 /\ Zooms[3] = 200 /\ Zooms[4] = 300
  BY DEF Zooms
<1>2. \A m, n \in 1 .. 4 : Zooms[m] = Zooms[n] => m = n
  BY <1>1
<1>3. ASSUME NEW s PROVE CheckedZoom(s) \in id.zoom_half .. id.zoom_customed
  <2>1. CASE \E n \in DOMAIN Zooms : Zooms[n] = s
    <3>1. PICK m \in 1 .. 4 : m = CHOOSE n \in DOMAIN Zooms : Zooms[n] = s
      BY <1>1, <2>1
    <3>2. CheckedZoom(s) = id.zoom_half - 1 + m
      BY <2>1, <3>1 DEF CheckedZoom
    <3> QED BY <3>2, Numbers
  <2>2. CASE ~\E n \in DOMAIN Zooms : Zooms[n] = s
    BY <2>2, Numbers DEF CheckedZoom
  <2> QED BY <2>1, <2>2
<1>4. ASSUME NEW n \in 1 .. 4 PROVE CheckedZoom(Zooms[n]) = id.zoom_half - 1 + n
  <2>1. (CHOOSE m \in DOMAIN Zooms : Zooms[m] = Zooms[n]) = n
    BY <1>1, <1>2
  <2> QED BY <1>1, <2>1 DEF CheckedZoom
<1> QED BY <1>1, <1>3, <1>4

LEMMA ItemInSection ==
  ASSUME NEW c \in Settled, c.ints["language"] \in Ids, NEW j \in Choices
  PROVE  ItemOf(j, c.ints[j]) \in Section(j)
<1>1. /\ c.ints["button_count"] \in 1 .. MaxButtons /\ c.ints["method"] \in 0 .. 1
      /\ c.ints["monitor"] \in 0 .. 3
  BY DEF Settled, IntsInRange
<1>2. CASE j = "button_count"
  BY <1>1, <1>2 DEF ItemOf, Section, ButtonItems
<1>3. CASE j = "method"
  BY <1>1, <1>3, Numbers DEF ItemOf, Section, MethodItems
<1>4. CASE j = "monitor"
  BY <1>1, <1>4, Numbers DEF ItemOf, Section, MonitorItems
<1>5. CASE j = "scale"
  BY <1>5, ZoomShown DEF ItemOf, Section
<1>6. CASE j = "language"
  BY <1>6 DEF ItemOf, Section
<1> QED BY <1>2, <1>3, <1>4, <1>5, <1>6 DEF Choices

\* The menu shows what is stored, since the components do what is stored.
MenuAgrees ==
  phase # "off" => CheckedNow = ShownBy(cfg) /\ cfg \in Settled /\ cfg.ints["language"] \in Ids

LEMMA MenuShowsSettings == IInv => MenuAgrees
<1> SUFFICES ASSUME IInv, phase # "off"
             PROVE  CheckedNow = ShownBy(cfg) /\ cfg \in Settled /\ cfg.ints["language"] \in Ids
  BY DEF MenuAgrees
<1>1. /\ manager.crt_button_count = cfg.ints["button_count"] /\ kps.type = cfg.ints["method"]
      /\ language = cfg.ints["language"] /\ language \in Ids /\ cfg \in Settled
  BY DEF IInv, ComponentsAgree, ManagerOf, KpsOf, TypeOK, Settled
<1>2. {ItemOf(j, cfg.ints[j]) : j \in Choices}
        = {cfg.ints["button_count"], id.method_hard + cfg.ints["method"],
           id.monitor_method_async + cfg.ints["monitor"], CheckedZoom(cfg.ints["scale"]),
           cfg.ints["language"]}
  BY DEF Choices, ItemOf
<1> QED BY <1>1, <1>2 DEF CheckedNow, Checked, ShownBy, FlagsOn

\* A setting with several items: its section shows the new one, the others what they did.
LEMMA ChoiceShown ==
  ASSUME NEW c \in Settled, c.ints["language"] \in Ids,
         NEW d \in Settled, d.ints["language"] \in Ids,
         NEW j \in Choices, \A k \in Ints \ {j} : d.ints[k] = c.ints[k],
         NEW i, i = ItemOf(j, d.ints[j])
  PROVE  ShownBy(d) = (ShownBy(c) \ Group(i)) \union {i}
<1> DEFINE others == {ItemOf(k, c.ints[k]) : k \in Choices \ {j}} \union {id[f] : f \in FlagsOn(c)}
<1>1. Choices \subseteq Ints /\ Flags \subseteq Ints /\ j \notin Flags
  BY DEF Choices, Ints, Flags, Shows, AutoResets
<1>2. FlagsOn(d) = FlagsOn(c)
  BY <1>1 DEF FlagsOn
<1>3. ShownBy(c) = others \union {ItemOf(j, c.ints[j])}
  BY DEF ShownBy
<1>4. ShownBy(d) = others \union {i}
  BY <1>1, <1>2 DEF ShownBy
<1>5. ASSUME NEW k \in Choices \ {j} PROVE ItemOf(k, c.ints[k]) \notin Section(j)
  BY ItemInSection, SectionsApart
<1>6. ASSUME NEW f \in FlagsOn(c) PROVE id[f] \notin Section(j)
  BY SectionsApart DEF FlagsOn
<1>7. others \intersect Section(j) = {}
  BY <1>5, <1>6
<1>8. i \in Section(j) /\ ItemOf(j, c.ints[j]) \in Section(j)
  BY ItemInSection
<1>9. Group(i) = Section(j)
  BY <1>8, GroupIsSection
<1> HIDE DEF others
<1> QED BY <1>3, <1>4, <1>7, <1>8, <1>9

\* A flag: its item is checked or not by turns.
LEMMA FlagShown ==
  ASSUME NEW c \in Settled, c.ints["language"] \in Ids,
         NEW d \in Settled, NEW f \in Flags, \A k \in Ints \ {f} : d.ints[k] = c.ints[k]
  PROVE  /\ d.ints[f] = c.ints[f] => ShownBy(d) = ShownBy(c)
         /\ d.ints[f] = 1 - c.ints[f] =>
              ShownBy(d) = IF id[f] \in ShownBy(c) THEN ShownBy(c) \ {id[f]} ELSE ShownBy(c) \union {id[f]}
         /\ id[f] \in ShownBy(c) <=> f \in FlagsOn(c)
<1> DEFINE items == {ItemOf(k, c.ints[k]) : k \in Choices}
<1>1. Choices \subseteq Ints /\ Flags \subseteq Ints /\ f \notin Choices
  BY DEF Choices, Ints, Flags, Shows, AutoResets
<1>2. \A g \in Flags : id[g] \notin items
  BY ItemInSection, SectionsApart
<1>3. ShownBy(c) = items \union {id[g] : g \in FlagsOn(c)}
  BY DEF ShownBy
<1>4. ShownBy(d) = items \union {id[g] : g \in FlagsOn(d)}
  BY <1>1 DEF ShownBy
<1> HIDE DEF items
<1>5. c.ints[f] \in {0, 1} /\ FlagsOn(c) \subseteq Flags /\ FlagsOn(d) \subseteq Flags
  BY DEF Settled, IntsInRange, FlagsOn
<1>6. id[f] \in ShownBy(c) <=> f \in FlagsOn(c)
  BY <1>2, <1>3, <1>5, FlagNumbers
<1>7. ASSUME d.ints[f] = c.ints[f] PROVE ShownBy(d) = ShownBy(c)
  <2>1. FlagsOn(d) = FlagsOn(c)
    BY <1>1, <1>7 DEF FlagsOn
  <2> QED BY <1>3, <1>4, <2>1
<1>8. ASSUME d.ints[f] = 1 - c.ints[f]
      PROVE  ShownBy(d) = IF id[f] \in ShownBy(c) THEN ShownBy(c) \ {id[f]} ELSE ShownBy(c) \union {id[f]}
  <2>1. CASE c.ints[f] = 1
    <3>1. FlagsOn(d) = FlagsOn(c) \ {f} /\ f \in FlagsOn(c)
      BY <1>1, <1>8, <2>1 DEF FlagsOn
    <3>2. {id[g] : g \in FlagsOn(d)} = {id[g] : g \in FlagsOn(c)} \ {id[f]}
      BY <1>5, <3>1, FlagNumbers
    <3> QED BY <1>2, <1>3, <1>4, <1>6, <3>1, <3>2
  <2>2. CASE c.ints[f] = 0
    <3>1. FlagsOn(d) = FlagsOn(c) \union {f} /\ f \notin FlagsOn(c)
      BY <1>1, <1>8, <2>2 DEF FlagsOn
    <3> QED BY <1>3, <1>4, <1>6, <3>1
  <2> QED BY <1>5, <2>1, <2>2
<1> QED BY <1>6, <1>7, <1>8

\* What a command on such a setting makes the menu show.
LEMMA ChoiceStep ==
  ASSUME MenuAgrees, MenuAgrees', NEW i, Command, NEW j \in Choices, NEW n,
         cfg' = [cfg EXCEPT !.ints[j] = n], i = ItemOf(j, n)
  PROVE  CheckedNow' = (CheckedNow \ Group(i)) \union {i}
<1>1. phase # "off" /\ phase' # "off"
  BY DEF Command
<1>2. CheckedNow = ShownBy(cfg) /\ cfg \in Settled /\ cfg.ints["language"] \in Ids
  BY <1>1 DEF MenuAgrees
<1>3. CheckedNow' = ShownBy(cfg') /\ cfg' \in Settled /\ cfg'.ints["language"] \in Ids
  BY <1>1 DEF MenuAgrees, ShownBy, FlagsOn
<1>4. cfg'.ints[j] = n /\ \A k \in Ints \ {j} : cfg'.ints[k] = cfg.ints[k]
  BY <1>2 DEF Settled, IntsInRange, Choices, Ints
<1>5. i = ItemOf(j, cfg'.ints[j])
  BY <1>4
<1>6. ShownBy(cfg') = (ShownBy(cfg) \ Group(i)) \union {i}
  <2>1. PICK c : c = cfg
    OBVIOUS
  <2>2. PICK d : d = cfg'
    OBVIOUS
  <2>3. c \in Settled /\ c.ints["language"] \in Ids
    BY <1>2, <2>1
  <2>4. d \in Settled /\ d.ints["language"] \in Ids
    BY <1>3, <2>2
  <2>5. i = ItemOf(j, d.ints[j]) /\ \A k \in Ints \ {j} : d.ints[k] = c.ints[k]
    BY <1>4, <1>5, <2>1, <2>2
  <2>6. ShownBy(d) = (ShownBy(c) \ Group(i)) \union {i}
    BY <2>3, <2>4, <2>5, ChoiceShown
  <2> QED BY <2>1, <2>2, <2>6
<1> QED BY <1>2, <1>3, <1>6

\* And one on a flag: the last part shown stays.
LEMMA FlagItemStep ==
  ASSUME MenuAgrees, MenuAgrees', Command, NEW f \in Flags,
         IF f \in Shows THEN ChangeShow(f) ELSE ChangeFlag(f)
  PROVE  CheckedNow' = IF CheckedNow \intersect {id[g] : g \in Shows} = {id[f]} THEN CheckedNow
                       ELSE IF id[f] \in CheckedNow THEN CheckedNow \ {id[f]}
                       ELSE CheckedNow \union {id[f]}
<1>1. phase # "off" /\ phase' # "off"
  BY DEF Command
<1>2. CheckedNow = ShownBy(cfg) /\ cfg \in Settled /\ cfg.ints["language"] \in Ids
  BY <1>1 DEF MenuAgrees
<1>3. CheckedNow' = ShownBy(cfg') /\ cfg' \in Settled
  BY <1>1 DEF MenuAgrees, ShownBy, FlagsOn
<1>4. f \in Ints /\ Shows \subseteq Flags /\ Flags \subseteq Ints
      /\ cfg = [ints |-> cfg.ints, keys |-> cfg.keys] /\ cfg.ints \in [Ints -> Int]
      /\ \A g \in Flags : cfg.ints[g] \in {0, 1}
  BY <1>2 DEF Settled, IntsInRange, Ints, Flags, Shows
<1> DEFINE c == [cfg EXCEPT !.ints[f] = 1 - @]
           alone == FlagsOn(cfg) \intersect Shows = {f}
<1>5. c.ints[f] = 1 - cfg.ints[f] /\ \A k \in Ints \ {f} : c.ints[k] = cfg.ints[k]
  BY <1>4
<1>6. [c EXCEPT !.ints[f] = 1].ints[f] = 1 /\ \A k \in Ints \ {f} : [c EXCEPT !.ints[f] = 1].ints[k] = cfg.ints[k]
  BY <1>4
<1>7. IsAnyShown(c) <=> \E g \in Shows : c.ints[g] = 1
  BY DEF IsAnyShown
<1>8. cfg' = IF f \notin Shows \/ IsAnyShown(c) THEN c ELSE [c EXCEPT !.ints[f] = 1]
  BY DEF ChangeShow, ChangeFlag
<1> HIDE DEF c
<1>9. /\ \A k \in Ints \ {f} : cfg'.ints[k] = cfg.ints[k]
      /\ alone => f \in Shows /\ cfg'.ints[f] = cfg.ints[f]
      /\ ~alone => cfg'.ints[f] = 1 - cfg.ints[f]
  <2>1. \A k \in Ints \ {f} : cfg'.ints[k] = cfg.ints[k]
    BY <1>5, <1>6, <1>8
  <2>2. ASSUME alone PROVE f \in Shows /\ cfg'.ints[f] = cfg.ints[f]
    <3>1. f \in Shows /\ cfg.ints[f] = 1 /\ \A g \in Shows \ {f} : cfg.ints[g] # 1
      BY <1>4, <2>2 DEF FlagsOn
    <3>2. ~IsAnyShown(c)
      BY <1>4, <1>5, <1>7, <3>1
    <3> QED BY <1>6, <1>8, <3>1, <3>2
  <2>3. ASSUME ~alone PROVE cfg'.ints[f] = 1 - cfg.ints[f]
    <3>1. CASE f \notin Shows
      BY <1>5, <1>8, <3>1
    <3>2. CASE f \in Shows /\ cfg.ints[f] = 0
      BY <1>5, <1>7, <1>8, <3>2
    <3>3. CASE f \in Shows /\ cfg.ints[f] = 1
      <4>1. PICK g \in Shows : g # f /\ cfg.ints[g] = 1
        BY <1>4, <2>3, <3>3 DEF FlagsOn
      <4>2. c.ints[g] = 1
        BY <1>4, <1>5, <4>1
      <4> QED BY <1>5, <1>7, <1>8, <4>2
    <3> QED BY <1>4, <3>1, <3>2, <3>3
  <2> QED BY <2>1, <2>2, <2>3
<1> HIDE DEF alone
<1>10. \A g \in Flags : id[g] \in ShownBy(cfg) <=> g \in FlagsOn(cfg)
  BY <1>2, FlagShown
<1>11. ShownBy(cfg) \intersect {id[g] : g \in Shows} = {id[f]} <=> alone
  <2>1. \A x : x \in FlagsOn(cfg) \intersect Shows <=> x \in Flags /\ x \in Shows /\ id[x] \in ShownBy(cfg)
    BY <1>4, <1>10
  <2>2. ASSUME alone PROVE ShownBy(cfg) \intersect {id[g] : g \in Shows} = {id[f]}
    BY <1>4, <2>1, <2>2 DEF alone
  <2>3. ASSUME ShownBy(cfg) \intersect {id[g] : g \in Shows} = {id[f]} PROVE alone
    <3>1. PICK g \in Shows : id[g] = id[f] /\ id[g] \in ShownBy(cfg)
      BY <2>3
    <3>2. g = f
      BY <1>4, <3>1, FlagNumbers
    <3>3. ASSUME NEW x \in FlagsOn(cfg) \intersect Shows PROVE x = f
      <4>1. id[x] = id[f]
        BY <2>1, <2>3, <3>3
      <4> QED BY <1>4, <2>1, <4>1, FlagNumbers
    <3> QED BY <2>1, <3>1, <3>2, <3>3, <1>4 DEF alone
  <2> QED BY <2>2, <2>3
<1>12. /\ cfg'.ints[f] = cfg.ints[f] => ShownBy(cfg') = ShownBy(cfg)
       /\ cfg'.ints[f] = 1 - cfg.ints[f] =>
            ShownBy(cfg') = IF id[f] \in ShownBy(cfg) THEN ShownBy(cfg) \ {id[f]}
                            ELSE ShownBy(cfg) \union {id[f]}
  BY <1>2, <1>3, <1>9, FlagShown
<1>13. CASE alone
  BY <1>2, <1>3, <1>9, <1>11, <1>12, <1>13
<1>14. CASE ~alone
  BY <1>2, <1>3, <1>9, <1>11, <1>12, <1>14
<1> QED BY <1>13, <1>14

\* Where an item's number is, by what kind of item it is.
LEMMA ItemKinds ==
  ASSUME NEW i \in Items
  PROVE  /\ i \in FlagItems => i \notin OtherItems \union {id.modify_keys}
         /\ i \in FlagItems \union OtherItems \union {id.modify_keys}
              => i \notin ButtonItems \union ZoomItems \union MethodItems \union MonitorItems \union Ids
         /\ i > id.monitor_fence => i \in Ids
         /\ i \notin FlagItems \union OtherItems \union {id.modify_keys} => ~(\E f \in Flags : i = id[f])
<1>1. LanguageItems \subseteq Ids
  BY QueryTyped DEF LanguageItems
<1>2. \A x \in FlagItems : x \in MaxButtons + 13 .. MaxButtons + 15
                              \/ x \in MaxButtons + 18 .. MaxButtons + 20 \/ x = MaxButtons + 25
  BY FlagNumbers DEF FlagItems
<1>3. /\ \A x \in ButtonItems : x \in 1 .. MaxButtons
      /\ \A x \in MethodItems : x \in MaxButtons + 11 .. MaxButtons + 12
      /\ \A x \in MonitorItems : x \in MaxButtons + 21 .. MaxButtons + 24
      /\ \A x \in ZoomItems : x \in MaxButtons + 6 .. MaxButtons + 9
      /\ \A x \in Ids : x \in Nat /\ x > MaxButtons + 26
  BY Numbers, IdsAreLast DEF ButtonItems, MethodItems, MonitorItems, ZoomItems
<1>4. MaxButtons \in Nat /\ id.monitor_fence = MaxButtons + 25
  BY Numbers
<1>5. i \in FlagItems => i \notin OtherItems \union {id.modify_keys}
  BY <1>2, <1>4, OtherNumbers
<1>6. i \in FlagItems \union OtherItems \union {id.modify_keys}
         => i \notin ButtonItems \union ZoomItems \union MethodItems \union MonitorItems \union Ids
  BY <1>2, <1>3, <1>4, OtherNumbers
<1>7. i > id.monitor_fence => i \in Ids
  <2>1. \/ i \in FlagItems \/ i \in OtherItems \union {id.modify_keys} \/ i \in ButtonItems
        \/ i \in MethodItems \/ i \in MonitorItems \/ i \in ZoomItems \/ i \in Ids
    BY <1>1 DEF Items
  <2> QED BY <1>2, <1>3, <1>4, <2>1, OtherNumbers
<1> QED BY <1>5, <1>6, <1>7 DEF FlagItems

\* A chosen item is what the menu shows, and nothing else changes: the components do what
\* is stored, the items are numbered apart, and the last part shown stays (OnCommand,
\* create_menu).
THEOREM ChoicesShown == Spec => ChosenIsChecked
<1> DEFINE Chosen(i) ==
      CASE i \in FlagItems ->
             CheckedNow' = IF CheckedNow \intersect {id[f] : f \in Shows} = {i} THEN CheckedNow
                           ELSE IF i \in CheckedNow THEN CheckedNow \ {i} ELSE CheckedNow \union {i}
        [] i \in OtherItems \union {id.modify_keys} -> CheckedNow' = CheckedNow
        [] OTHER -> CheckedNow' = (CheckedNow \ Group(i)) \union {i}
<1>1. ASSUME IInv, MenuAgrees, MenuAgrees', NEW i \in Items, OnCommand(i) PROVE Chosen(i)
  <2>0. Command
    BY <1>1 DEF OnCommand
  <2>1. CASE i \in FlagItems
    <3>1. PICK f \in Flags : i = id[f]
      BY <2>1 DEF FlagItems
    <3>2. \A g \in Flags : i = id[g] => g = f
      BY <3>1, FlagNumbers
    <3>3. IF f \in Shows THEN ChangeShow(f) ELSE ChangeFlag(f)
      <4>1. /\ i \notin ButtonItems \union ZoomItems \union MethodItems \union MonitorItems \union Ids
            /\ i \notin OtherItems \union {id.modify_keys}
            /\ ~(i > id.monitor_fence)
        BY <2>1, ItemKinds
      <4>2. (\E g \in Shows : i = id[g] /\ ChangeShow(g)) \/ (\E g \in Flags \ Shows : i = id[g] /\ ChangeFlag(g))
        BY <1>1, <4>1 DEF OnCommand
      <4> QED BY <3>2, <4>2, FlagNumbers
    <3>4. CheckedNow' = IF CheckedNow \intersect {id[g] : g \in Shows} = {i} THEN CheckedNow
                        ELSE IF i \in CheckedNow THEN CheckedNow \ {i} ELSE CheckedNow \union {i}
      BY <1>1, <2>0, <3>1, <3>3, FlagItemStep
    <3> QED BY <2>1, <3>4, ItemKinds
  <2>2. CASE i \in OtherItems \union {id.modify_keys}
    <3>1. /\ i \notin FlagItems
          /\ i \notin ButtonItems \union ZoomItems \union MethodItems \union MonitorItems \union Ids
          /\ ~(i > id.monitor_fence)
      BY <2>2, ItemKinds
    <3>2. UNCHANGED <<cfg, components>>
      BY <1>1, <2>2, <3>1 DEF OnCommand, ModifyKeys, FlagItems, Flags
    <3>3. CheckedNow' = CheckedNow
      BY <3>2 DEF CheckedNow, Checked, components
    <3> QED BY <2>2, <3>1, <3>3
  <2>3. CASE i \notin FlagItems /\ i \notin OtherItems \union {id.modify_keys}
    <3> DEFINE Becomes == CheckedNow' = (CheckedNow \ Group(i)) \union {i}
    <3>0. "button_count" \in Choices /\ "method" \in Choices /\ "monitor" \in Choices
          /\ "scale" \in Choices /\ "language" \in Choices
      BY DEF Choices
    <3>1. ASSUME i \in ButtonItems, ChangeButtonCount(i) PROVE Becomes
      BY <1>1, <2>0, <3>0, <3>1, ChoiceStep DEF ChangeButtonCount, ItemOf
    <3>2. ASSUME i \in ZoomItems, ChangeScale(Zooms[i - id.zoom_half + 1]) PROVE Becomes
      <4>1. PICK n \in 1 .. 4 : n = i - id.zoom_half + 1 /\ i = id.zoom_half - 1 + n
        <5>1. i - id.zoom_half + 1 \in 1 .. 4 /\ i = id.zoom_half - 1 + (i - id.zoom_half + 1)
          BY <3>2, Numbers DEF ZoomItems
        <5> QED BY <5>1
      <4>2. Zooms[n] \in 50 .. 500 /\ CheckedZoom(Zooms[n]) = i
        BY <4>1, ZoomShown
      <4>3. Between(50, Zooms[n], 500) = Zooms[n]
        BY <4>2 DEF Between
      <4>4. cfg' = [cfg EXCEPT !.ints["scale"] = Zooms[n]]
        BY <3>2, <4>1, <4>3 DEF ChangeScale
      <4>5. i = ItemOf("scale", Zooms[n])
        BY <4>2 DEF ItemOf
      <4> QED BY <1>1, <2>0, <3>0, <4>4, <4>5, ChoiceStep
    <3>3. ASSUME i \in MethodItems, ChangeImplement(i - id.method_hard) PROVE Becomes
      <4>1. i = ItemOf("method", i - id.method_hard)
        BY <3>3, Numbers DEF ItemOf, MethodItems
      <4> QED BY <1>1, <2>0, <3>0, <3>3, <4>1, ChoiceStep DEF ChangeImplement
    <3>4. ASSUME i \in MonitorItems, ChangeMonitor(i - id.monitor_method_async) PROVE Becomes
      <4>1. i = ItemOf("monitor", i - id.monitor_method_async)
        BY <3>4, Numbers DEF ItemOf, MonitorItems
      <4> QED BY <1>1, <2>0, <3>0, <3>4, <4>1, ChoiceStep DEF ChangeMonitor, SetMonitor
    <3>5. ASSUME i > id.monitor_fence, ChangeLanguage(i) PROVE Becomes
      <4>1. i \in Ids
        BY <3>5, ItemKinds
      <4>2. cfg' = [cfg EXCEPT !.ints["language"] = i]
        BY <3>5, <4>1 DEF ChangeLanguage, SetCurrentLanguage, IsLanguageSupported
      <4> QED BY <1>1, <2>0, <3>0, <4>2, ChoiceStep DEF ItemOf
    <3>6. ~(\E f \in Flags : i = id[f]) /\ Shows \subseteq Flags
      BY <2>3, ItemKinds, FlagNumbers
    <3>7. Becomes
      <4> HIDE DEF Becomes
      <4> QED BY <1>1, <2>3, <3>1, <3>2, <3>3, <3>4, <3>5, <3>6 DEF OnCommand
    <3> QED BY <2>3, <3>7
  <2> QED BY <2>1, <2>2, <2>3
<1>2. ASSUME IInv, MenuAgrees, MenuAgrees', [Next]_vars
      PROVE  [\A i \in Items : OnCommand(i) => Chosen(i)]_vars
  BY <1>1, <1>2
<1> QED BY <1>2, MenuShowsSettings, Invariance, PTL DEF Spec, ChosenIsChecked
=============================================================================
