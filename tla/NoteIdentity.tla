----------------------------- MODULE NoteIdentity -----------------------------
(***************************************************************************)
(* The notes of one origin and the rules that give a URL its page          *)
(* identity: src/src/services/pageIdentity.ts, domain/note.ts and          *)
(* domain/settings.ts as identity migrations see them.                     *)
(*                                                                         *)
(* A URL of the origin is the value it gives each query parameter, 0 for a *)
(* parameter it does not have.  A page key is the hash of a canonical URL, *)
(* so canonical URLs stand for page keys.                                  *)
(***************************************************************************)
EXTENDS Naturals

CONSTANTS
  Param,      \* the query parameters the user may exclude
  MaxValue,   \* bound: a parameter has a value in 1..MaxValue, or is absent
  Text,       \* what users write; a note holds a set of texts, in their order
  Preference, \* the settings beside exclusions: editor mode, BYOS, ...
  Absent      \* no stored record

ASSUME MaxValueAssumption == MaxValue \in Nat

Page == [Param -> 0 .. MaxValue]

(* derivePageIdentity: excluded parameters do not count.                   *)
Identity(url, rules) == [q \in Param |-> IF q \in rules THEN 0 ELSE url[q]]

(* representativeUrl, content, and savedAt with revisionId: a number that  *)
(* grows with every write.  A record without a text is a tombstone.        *)
Record == [url : Page, texts : SUBSET Text, revision : Nat]
ASSUME AbsentAssumption == Absent \notin Record
Slot == Record \cup {Absent}

Notes == [Page -> Slot]

Live(slot) == slot # Absent /\ slot.texts # {}

Settings == [rules : SUBSET Param, preference : Preference]

(* deriveChange: exactly one exclusion differs, and nothing else.          *)
OneExclusion(current, requested) ==
  /\ current.preference = requested.preference
  /\ \E q \in Param : requested.rules \in
       IF q \in current.rules THEN {current.rules \ {q}}
                              ELSE {current.rules \cup {q}}

(* liveGroups: the live notes that rules assign to page p.                 *)
Group(notes, rules, p) ==
  {q \in Page : Live(notes[q]) /\ Identity(notes[q].url, rules) = p}

AllTexts(notes, S) == UNION {notes[q].texts : q \in S}
=============================================================================
