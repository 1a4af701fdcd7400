----------------------------- MODULE Languages ------------------------------
(***************************************************************************)
(* The languages of the program (src/source/src/utils/multi_language.hpp,  *)
(* my_multi_language.hpp): what the object "lang" holds once the language  *)
(* files in the program's resources are loaded, and its queries.  After    *)
(* that only current_language changes, on the main thread; it is a         *)
(* variable of Settings.                                                   *)
(*                                                                         *)
(* A text is the file it comes from.                                       *)
(***************************************************************************)
EXTENDS Integers, Sequences

CONSTANTS
  Resources  \* the files in the order they are loaded: valid or not, id, locale, and
             \* the keys they have a text for

\* load_language refuses what is no JSON or lacks one of the members it needs; the
\* constructor throws if the first file is refused.
ASSUME ResourcesAssumption ==
  /\ DOMAIN Resources \subseteq Nat /\ 1 \in DOMAIN Resources /\ Resources[1].valid
  /\ \A n \in DOMAIN Resources : Resources[n].id \in Nat \ {0} /\ Resources[n].valid \in BOOLEAN

\* langs: a file replaces one with the same id.  base is the first.
Files == {n \in DOMAIN Resources : Resources[n].valid}
Langs == {n \in Files : \A m \in Files : m > n => Resources[m].id # Resources[n].id}
Ids == {Resources[n].id : n \in Files}
Lang(id) == CHOOSE n \in Langs : Resources[n].id = id
base == Resources[1].id

IsLanguageSupported(id) == id \in Ids

\* enumerate_supported_language and query_language_id: by increasing id.
SupportedLocales == {Resources[n].locale : n \in Langs}
QueryLanguageId(locale) ==
  CHOOSE id \in Ids : /\ Resources[Lang(id)].locale = locale
                      /\ \A other \in Ids : Resources[Lang(other)].locale = locale => id <= other

\* set_current_language, by id and by locale: false, and no change, if there is none.
SetCurrentLanguage(current, id) == IF IsLanguageSupported(id) THEN id ELSE current
SetCurrentLocale(current, locale) ==
  IF locale \in SupportedLocales THEN QueryLanguageId(locale) ELSE current

\* get_text: the base language has the texts another one lacks.
GetText(id, key) == IF key \in Resources[Lang(id)].texts THEN Lang(id) ELSE Lang(base)
=============================================================================
