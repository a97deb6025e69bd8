-------------------------- MODULE IdentityMigration --------------------------
(***************************************************************************)
(* Identity migrations: src/src/services/identityMigration.ts (planning),  *)
(* identityMigrationExecutor.ts (execution) and                            *)
(* repositories/chromeLocalIdentityMigrationPersistence.ts (the journal),  *)
(* against the saves of open side panels, downloads, changes of other      *)
(* settings, a second executor and interruptions.                          *)
(*                                                                         *)
(* An action is one critical section under the storage Web Lock.  A failed *)
(* storage.set may have stored some of its keys; keys are stored in the    *)
(* order they were staged, so that the journal comes last.                 *)
(*                                                                         *)
(* Left out: titles and headings, the provenance check (what is stored is  *)
(* not tampered with), legacy settings, the index of the origin (the puts  *)
(* keep it complete), other origins (never affected).                      *)
(***************************************************************************)
EXTENDS NoteIdentity

CONSTANTS
  Worker,       \* service worker: resumes a pending migration at each boot
  OptionsPage,  \* options pages: start migrations
  Panel,        \* side panels, each showing one page at a time
  ForeignRules, \* exclusions of the devices that downloads may come from
  MaxRevision,  \* bound: writes and plans in a behaviour
  MaxFaults     \* bound: interruptions in a behaviour

ASSUME MaxRevisionAssumption == MaxRevision \in Nat
ASSUME MaxFaultsAssumption == MaxFaults \in Nat
ASSUME WorkerAssumption == Worker \notin OptionsPage
ASSUME ForeignRulesAssumption == ForeignRules \subseteq SUBSET Param

Context == OptionsPage \cup {Worker}

VARIABLES
  notes,    \* the stored notes of the origin
  settings, \* the stored settings
  journal,  \* the stored journal: NoJournal, or a plan and its phase
  run,      \* per context: where its executor is
  view,     \* per options page: the settings it shows
  panel,    \* per side panel: the page shown and the save under way
  revision, \* the last revision or operation identifier generated
  strayed,  \* history: pages written under an identity no longer current
  faults    \* interruptions so far

vars == <<notes, settings, journal, run, view, panel, revision, strayed, faults>>

stored == <<notes, settings, journal>>  \* chrome.storage.local

-----------------------------------------------------------------------------
(* Planning *)

EmptyPages == [p \in Page |-> Absent]

Plan == [operation : Nat, current : Settings, requested : Settings,
         sources : Notes, destinations : Notes, tombstones : Notes]

(* Every record, tombstones included, is at its identity under the current *)
(* or the requested rules; otherwise planning fails.                       *)
Legitimate(records, current, requested) ==
  \A p \in Page : records[p] # Absent =>
    p \in {Identity(records[p].url, current.rules),
           Identity(records[p].url, requested.rules)}

(* Mutant of Moving: only notes that collide leave their page.             *)
MovingColliding(records, rules) ==
  {q \in Page : /\ Live(records[q]) /\ Identity(records[q].url, rules) # q
                /\ Group(records, rules, Identity(records[q].url, rules)) # {q}}

(* tombstoneSpecs: the live notes that rules assign to another page.       *)
Moving(records, rules) ==
  {q \in Page : Live(records[q]) /\ Identity(records[q].url, rules) # q}

(* Mutant of Destinations: only collisions are written.                    *)
DestinationsOfCollisions(records, rules) ==
  {p \in Page : \E q \in Group(records, rules, p) : Group(records, rules, p) # {q}}

(* changesRecord: the destinations a migration to rules has to write.      *)
Destinations(records, rules) ==
  {p \in Page : LET group == Group(records, rules, p)
                IN group # {} /\ group # {p}}

(* representative: the oldest of the notes that move to page p.  Several   *)
(* written by one migration have its time, and random revisions.           *)
Representatives(records, rules, p) ==
  LET moving == Group(records, rules, p) \ {p}
  IN {q \in moving : \A r \in moving : records[q].revision <= records[r].revision}

(* Mutant of Merged: the collision keeps the text of the representative.   *)
MergedTextsOfOne(records, group, representative) ==
  records[representative].texts

(* Mutant of Merged: documents are stacked, not their texts.               *)
MergedDocuments(records, group, representative) == {records[q].texts : q \in group}

(* mergeCollisionContent: the texts of all sources.                        *)
Merged(records, group, representative) == AllTexts(records, group)

(* Mutant of Tombstones: they have the URL their note has moved to.        *)
TombstonesMoved(records, rules, operation) ==
  [p \in Page |-> IF p \notin Moving(records, rules) THEN Absent ELSE
     [url |-> Identity(records[p].url, rules), revision |-> operation, texts |-> {}]]

(* What the pages of moving notes are left with.                           *)
Tombstones(records, rules, operation) ==
  [p \in Page |-> IF p \notin Moving(records, rules) THEN Absent ELSE
     [url |-> records[p].url, revision |-> operation, texts |-> {}]]

(* The writes of a plan; operation also stands for the revisions and the   *)
(* plannedAt of what it writes.                                            *)
PlanFor(records, current, requested, operation, representative) ==
  LET rules == requested.rules
      written == Destinations(records, rules)
  IN [operation |-> operation, current |-> current, requested |-> requested,
      sources |-> records,
      destinations |-> [p \in Page |-> IF p \notin written THEN Absent ELSE
        [url |-> records[representative[p]].url, revision |-> operation,
         texts |-> Merged(records, Group(records, rules, p), representative[p])]],
      tombstones |-> Tombstones(records, rules, operation)]

(* parseIdentityMigrationPlan: no page is written and tombstoned.          *)
Disjoint(records, rules) == Destinations(records, rules) \cap Moving(records, rules) = {}

-----------------------------------------------------------------------------
(* The journal: Absent, or a plan and the phase it has reached.            *)

Planned == 0
DestinationsApplied == 1
TombstonesApplied == 2
SettingsApplied == 3

Journal == [phase : 0 .. 3, plan : Plan]
ASSUME AbsentJournalAssumption == Absent \notin Journal /\ Absent \notin Plan

Pending == journal # Absent

(* Notes after the writes of a plan; writes are Absent elsewhere.          *)
Overlay(records, writes) ==
  [p \in Page |-> IF writes[p] = Absent THEN records[p] ELSE writes[p]]

Applied(writes) == \A p \in Page : writes[p] \in {Absent, notes[p]}

(* Mutant of ValidSettings: the settings have to be those planned for.     *)
ValidSettingsBefore(plan) == settings = plan.current

ValidSettings(plan) == settings \in {plan.current, plan.requested}

(* validateOperationState: every page is as planned for, or as planned.    *)
ValidState(plan) ==
  /\ ValidSettings(plan)
  /\ \A p \in Page :
       \/ notes[p] = plan.sources[p]
       \/ notes[p] # Absent /\ notes[p] \in {plan.destinations[p], plan.tombstones[p]}

(* assertPersistedPhaseIsConsistent *)
ConsistentPhase(phase, plan) ==
  /\ phase >= DestinationsApplied => Applied(plan.destinations)
  /\ phase >= TombstonesApplied => Applied(plan.tombstones)
  /\ phase >= SettingsApplied => settings = plan.requested

(* Mutant of WithPhase: the phase just applied, whatever was reached.      *)
WithPhaseRewound(phase) == [journal EXCEPT !.phase = phase]

(* withPhase: never backwards.                                             *)
WithPhase(phase) == [journal EXCEPT !.phase = IF @ > phase THEN @ ELSE phase]

-----------------------------------------------------------------------------
(* The executor *)

PC == {"idle", "snapshot", "begin", "destinations", "tombstones", "settings",
       "finalize"}

Idle == [pc |-> "idle", request |-> Absent, plan |-> Absent]

Run == [pc : PC, request : Settings \cup {Absent}, plan : Plan \cup {Absent}]

At(c, pc) == run[c].pc = pc

Goto(c, pc) == run' = [run EXCEPT ![c].pc = pc]

End(c) == run' = [run EXCEPT ![c] = Idle]

(* loadPlanningSnapshot and planIdentityMigration *)
CanPlan(c) ==
  /\ At(c, "snapshot") /\ ~ Pending
  /\ OneExclusion(settings, run[c].request)
  /\ Legitimate(notes, settings, run[c].request)
  /\ Disjoint(notes, run[c].request.rules)

(* beginJournal *)
CanBegin(c) ==
  /\ At(c, "begin") /\ ~ Pending
  /\ settings = run[c].plan.current
  /\ notes = run[c].plan.sources

(* The stored journal is of the plan of this executor, and not disturbed.  *)
Undisturbed(c) ==
  /\ Pending /\ journal.plan = run[c].plan
  /\ ValidState(journal.plan)

(* #applyPhase *)
CanApply(c) ==
  /\ Undisturbed(c) /\ ConsistentPhase(journal.phase, journal.plan)
  /\ \/ At(c, "destinations")
     \/ At(c, "tombstones") /\ Applied(journal.plan.destinations)
     \/ /\ At(c, "settings")
        /\ Applied(journal.plan.destinations) /\ Applied(journal.plan.tombstones)

CanFinalize(c) ==
  /\ At(c, "finalize") /\ Undisturbed(c)
  /\ journal.phase = SettingsApplied /\ settings = journal.plan.requested
  /\ Applied(journal.plan.destinations) /\ Applied(journal.plan.tombstones)

(* resumePending, and start when the same migration is pending.            *)
Resume(c) ==
  /\ At(c, "idle") /\ Pending
  /\ \/ c = Worker
     \/ c \in OptionsPage /\ OneExclusion(view[c], journal.plan.requested)
  /\ run' = [run EXCEPT ![c] = [pc |-> "destinations", request |-> Absent,
                                plan |-> journal.plan]]
  /\ UNCHANGED <<stored, view, panel, revision, strayed, faults>>

(* start: the settings of the page's view with one exclusion more or less. *)
Start(o) ==
  /\ At(o, "idle") /\ ~ Pending
  /\ \E request \in Settings :
       /\ OneExclusion(view[o], request)
       /\ run' = [run EXCEPT ![o] = [pc |-> "snapshot", request |-> request,
                                     plan |-> Absent]]
  /\ UNCHANGED <<stored, view, panel, revision, strayed, faults>>

MakePlan(o) ==
  /\ CanPlan(o) /\ revision < MaxRevision
  /\ \E representative \in [Page -> Page] :
       LET request == run[o].request
           plan == PlanFor(notes, settings, request, revision + 1, representative)
       IN /\ \A p \in Page :
               IF p \in Destinations(notes, request.rules)
               THEN representative[p] \in Representatives(notes, request.rules, p)
               ELSE representative[p] = p
          /\ run' = [run EXCEPT ![o] = [pc |-> "begin", request |-> Absent,
                                        plan |-> plan]]
  /\ revision' = revision + 1
  /\ UNCHANGED <<stored, view, panel, strayed, faults>>

BeginJournal(o) ==
  /\ CanBegin(o)
  /\ journal' = [phase |-> Planned, plan |-> run[o].plan]
  /\ Goto(o, "destinations")
  /\ UNCHANGED <<notes, settings, view, panel, revision, strayed, faults>>

ApplyDestinations(c) ==
  /\ At(c, "destinations") /\ CanApply(c)
  /\ notes' = Overlay(notes, journal.plan.destinations)
  /\ journal' = WithPhase(DestinationsApplied)
  /\ Goto(c, "tombstones")
  /\ UNCHANGED <<settings, view, panel, revision, strayed, faults>>

ApplyTombstones(c) ==
  /\ At(c, "tombstones") /\ CanApply(c)
  /\ notes' = Overlay(notes, journal.plan.tombstones)
  /\ journal' = WithPhase(TombstonesApplied)
  /\ Goto(c, "settings")
  /\ UNCHANGED <<settings, view, panel, revision, strayed, faults>>

ApplySettings(c) ==
  /\ At(c, "settings") /\ CanApply(c)
  /\ settings' = journal.plan.requested
  /\ journal' = WithPhase(SettingsApplied)
  /\ Goto(c, "finalize")
  /\ UNCHANGED <<notes, view, panel, revision, strayed, faults>>

Finalize(c) ==
  /\ CanFinalize(c)
  /\ journal' = Absent
  /\ End(c)
  /\ UNCHANGED <<notes, settings, view, panel, revision, strayed, faults>>

(* An operation throws: pending-conflict, cas-conflict, planning-failure.  *)
Rejected(c) ==
  /\ ~ At(c, "idle")
  /\ ~ (CanPlan(c) \/ CanBegin(c) \/ CanApply(c) \/ CanFinalize(c))
  /\ End(c)
  /\ UNCHANGED <<stored, view, panel, revision, strayed, faults>>

(* The context closes, or storage fails without storing anything.          *)
Interrupted(c) ==
  /\ faults < MaxFaults /\ faults' = faults + 1
  /\ ~ At(c, "idle") /\ End(c)
  /\ UNCHANGED <<stored, view, panel, revision, strayed>>

(* The write of a phase ends after some of its keys, before the journal.   *)
TornWrite(c) ==
  /\ faults < MaxFaults /\ faults' = faults + 1
  /\ CanApply(c) /\ End(c)
  /\ \/ /\ At(c, "settings")
        /\ settings' = journal.plan.requested /\ UNCHANGED notes
     \/ /\ ~ At(c, "settings") /\ UNCHANGED settings
        /\ \E S \in SUBSET Page :
             LET writes == IF At(c, "destinations") THEN journal.plan.destinations
                                                    ELSE journal.plan.tombstones
             IN notes' = [p \in Page |->
                  IF p \in S THEN Overlay(notes, writes)[p] ELSE notes[p]]
  /\ UNCHANGED <<journal, view, panel, revision, strayed>>

-----------------------------------------------------------------------------
(* Everybody else *)

(* Another setting changes: in an options page, which then shows it, or    *)
(* behind its back (lastSuccessfulSyncAt).  Rejected while pending.        *)
ChangePreference(c) ==
  /\ ~ Pending
  /\ \E v \in Preference \ {settings.preference} :
       /\ settings' = [settings EXCEPT !.preference = v]
       /\ view' = IF c = Worker THEN view ELSE
            [view EXCEPT ![c].preference = v, ![c].rules = settings.rules]
  /\ UNCHANGED <<notes, journal, run, panel, revision, strayed, faults>>

(* An options page loads, or shows the settings after its migration.       *)
LoadView(o) ==
  /\ At(o, "idle")
  /\ view' = [view EXCEPT ![o] = settings]
  /\ UNCHANGED <<stored, run, panel, revision, strayed, faults>>

(* A tab shows a URL: its page is that of the rules of this moment.        *)
ShowPage(w) ==
  /\ panel[w].save = Absent
  /\ \E url \in Page :
       panel' = [panel EXCEPT ![w] =
         [url |-> url, page |-> Identity(url, settings.rules), save |-> Absent]]
  /\ UNCHANGED <<stored, run, view, revision, strayed, faults>>

HasSameLiveData(slot, url, t) == Live(slot) /\ slot.url = url /\ slot.texts = {t}

(* #saveValidated up to the write; an empty document clears the note.      *)
BeginSave(w) ==
  LET existing == notes[panel[w].page]
      url == panel[w].url
  IN /\ panel[w].save = Absent /\ revision < MaxRevision
     /\ \/ /\ Live(existing)
           /\ panel' = [panel EXCEPT ![w].save =
                [existing EXCEPT !.texts = {}, !.revision = revision + 1]]
        \/ \E t \in Text :
             /\ ~ HasSameLiveData(existing, url, t)
             /\ panel' = [panel EXCEPT ![w].save =
                  [url |-> url, texts |-> {t}, revision |-> revision + 1]]
     /\ revision' = revision + 1
     /\ UNCHANGED <<stored, run, view, strayed, faults>>

(* A record is stored at page p; has it strayed from its identity?         *)
Store(p, record) ==
  /\ notes' = [notes EXCEPT ![p] = record]
  /\ strayed' = IF Identity(record.url, settings.rules) = p
                THEN strayed \ {p} ELSE strayed \cup {p}

(* Mutant of PutNote: a save does not look for a journal.                  *)
PutNoteUnchecked(w) ==
  /\ panel[w].save # Absent
  /\ Store(panel[w].page, panel[w].save)
  /\ panel' = [panel EXCEPT ![w].save = Absent]
  /\ UNCHANGED <<settings, journal, run, view, revision, faults>>

PutNote(w) ==
  /\ panel[w].save # Absent /\ ~ Pending
  /\ Store(panel[w].page, panel[w].save)
  /\ panel' = [panel EXCEPT ![w].save = Absent]
  /\ UNCHANGED <<settings, journal, run, view, revision, faults>>

(* RepositoryPendingIdentityMigrationError: the draft will save again.     *)
PutRejected(w) ==
  /\ panel[w].save # Absent /\ Pending
  /\ panel' = [panel EXCEPT ![w].save = Absent]
  /\ UNCHANGED <<stored, run, view, revision, strayed, faults>>

(* putIfCurrent: synchronization stores a record of another device.        *)
Download ==
  /\ ~ Pending /\ revision < MaxRevision /\ revision' = revision + 1
  /\ \E rules \in ForeignRules, url \in Page, texts \in {{}} \cup {{t} : t \in Text} :
       Store(Identity(url, rules),
             [url |-> url, texts |-> texts, revision |-> revision + 1])
  /\ UNCHANGED <<settings, journal, run, view, panel, faults>>

-----------------------------------------------------------------------------
Init ==
  /\ notes = EmptyPages
  /\ settings \in [rules : {{}}, preference : Preference]
  /\ journal = Absent
  /\ run = [c \in Context |-> Idle]
  /\ view = [o \in OptionsPage |-> settings]
  /\ panel \in [Panel -> {[url |-> u, page |-> u, save |-> Absent] : u \in Page}]
  /\ revision = 0 /\ strayed = {} /\ faults = 0

Execute(c) ==
  \/ Resume(c) \/ ApplyDestinations(c) \/ ApplyTombstones(c) \/ ApplySettings(c)
  \/ Finalize(c) \/ Rejected(c)

Disturb(c) == Interrupted(c) \/ TornWrite(c) \/ ChangePreference(c)

Request(o) == Start(o) \/ MakePlan(o) \/ BeginJournal(o) \/ LoadView(o)

Edit(w) == ShowPage(w) \/ BeginSave(w) \/ PutNote(w) \/ PutRejected(w)

Next ==
  \/ \E c \in Context : Execute(c) \/ Disturb(c)
  \/ \E o \in OptionsPage : Request(o)
  \/ \E w \in Panel : Edit(w)
  \/ Download

Spec == Init /\ [][Next]_vars

(* Every boot of the worker resumes, and promise continuations run.        *)
FairSpec == Spec /\ WF_vars(Execute(Worker))

-----------------------------------------------------------------------------
TypeOK ==
  /\ notes \in Notes /\ settings \in Settings
  /\ journal \in Journal \cup {Absent}
  /\ run \in [Context -> Run]
  /\ view \in [OptionsPage -> Settings]
  /\ panel \in [Panel -> [url : Page, page : Page, save : Slot]]
  /\ revision \in 0 .. MaxRevision
  /\ strayed \subseteq Page
  /\ faults \in 0 .. MaxFaults

(* A pending migration is never stuck: what other contexts write and what  *)
(* interruptions leave behind never fails the checks of the next executor  *)
(* (docs/MIGRATION_STRATEGY.md, Failure Recovery).                         *)
PendingCanComplete ==
  Pending => /\ ValidState(journal.plan)
             /\ ConsistentPhase(journal.phase, journal.plan)

(* While a migration is pending, in whatever phase and however often it    *)
(* was interrupted, all that a note said is still in a live note: its own, *)
(* or the one at its identity under the requested rules.                   *)
NoTextLost ==
  Pending => \A p \in Page : Live(journal.plan.sources[p]) =>
    LET source == journal.plan.sources[p]
    IN \E q \in {p, Identity(source.url, journal.plan.requested.rules)} :
         Live(notes[q]) /\ source.texts \subseteq notes[q].texts

(* When no migration is pending, a live note is at the identity of its URL *)
(* under the stored exclusions, where the side panel looks for it, unless  *)
(* a save or download stored it under an identity from other rules.        *)
ReachableUnlessStrayed ==
  ~ Pending => \A p \in Page \ strayed :
    Live(notes[p]) => Identity(notes[p].url, settings.rules) = p

(* Every stored record, tombstones included, is at the identity of its URL *)
(* under some exclusions, whichever note a merge takes its URL from and    *)
(* whatever was excluded when a side panel or another device derived the   *)
(* page.  Planning rejects anything else (identity-inconsistent).          *)
RecordsAtIdentities ==
  \A p \in Page : notes[p] # Absent =>
    \E rules \in SUBSET Param : Identity(notes[p].url, rules) = p

(* Executors of several contexts, late and interrupted ones included, only *)
(* carry a pending migration forward: its plan stands, no page or setting  *)
(* that has changed changes again, its phase never goes back, and the      *)
(* journal goes only when all of the plan is applied.                      *)
MigrationNeverUndone ==
  [][Pending =>
       LET plan == journal.plan
       IN /\ \A p \in Page : notes[p] # plan.sources[p] => notes'[p] = notes[p]
          /\ settings # plan.current => settings' = settings
          /\ Pending' => journal'.plan = plan /\ journal'.phase >= journal.phase
          /\ ~ Pending' => ConsistentPhase(SettingsApplied, plan)]_vars

(* docs/MIGRATION_STRATEGY.md:17: old-key tombstones of an earlier         *)
(* addition are admitted.  So as long as no note has strayed, any single   *)
(* exclusion can be added or removed.                                      *)
SettingsChangePlannable ==
  ~ Pending /\ strayed = {} =>
    \A requested \in Settings :
      OneExclusion(settings, requested) => Legitimate(notes, settings, requested)

(* Notes and settings seen from outside change in one step: a pending      *)
(* migration has not happened until its journal is removed.                *)
Atomic == INSTANCE AtomicMigration WITH
  notes <- IF Pending THEN journal.plan.sources ELSE notes,
  settings <- IF Pending THEN journal.plan.current ELSE settings

ImplementsAtomic == Atomic!Spec

(* A pending migration completes if the worker gets to run.                *)
MigrationCompletes == Pending ~> ~ Pending
=============================================================================
