--------------------------- MODULE AtomicMigration ---------------------------
(***************************************************************************)
(* What an identity migration promises its users: notes and settings       *)
(* change together, in one step, however many storage operations, contexts *)
(* and interruptions it takes (src/docs/MIGRATION_STRATEGY.md; the         *)
(* definitions follow planIdentityMigration of                             *)
(* src/src/services/identityMigration.ts).                                 *)
(***************************************************************************)
EXTENDS NoteIdentity

VARIABLES notes, settings

vars == <<notes, settings>>

Init == /\ notes = [p \in Page |-> Absent]
        /\ settings \in [rules : {{}}, preference : Preference]

(* A save, a clear or a download replaces one note.                        *)
StoreNote ==
  /\ \E p \in Page : /\ notes'[p] \in Record
                     /\ notes' = [notes EXCEPT ![p] = notes'[p]]
  /\ UNCHANGED settings

ChangePreference ==
  /\ \E v \in Preference : settings' = [settings EXCEPT !.preference = v]
  /\ UNCHANGED notes

(* What page p holds after a migration to rules, before and after given.   *)
MovedTo(p, before, after, rules) ==
  LET group == Group(before, rules, p)
  IN /\ group = {p} => after[p] = before[p]
     /\ group = {} /\ ~ Live(before[p]) => after[p] = before[p]
     /\ group = {} /\ Live(before[p]) =>
          /\ after[p] \in Record
          /\ after[p].url = before[p].url /\ after[p].texts = {}
     /\ group # {} /\ group # {p} =>
          /\ after[p] \in Record
          /\ after[p].texts = AllTexts(before, group)
          /\ \E q \in group : after[p].url = before[q].url

Migrate ==
  \E requested \in Settings :
    /\ OneExclusion(settings, requested)
    /\ settings' = requested
    /\ notes' \in Notes
    /\ \A p \in Page : MovedTo(p, notes, notes', requested.rules)

Next == StoreNote \/ ChangePreference \/ Migrate

Spec == Init /\ [][Next]_vars
=============================================================================
