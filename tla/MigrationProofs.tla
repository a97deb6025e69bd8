---------------------------- MODULE MigrationProofs ----------------------------
(***************************************************************************)
(* Theorems about IdentityMigration: plans, the journal invariant, and     *)
(* that migrations implement their atomic specification.                   *)
(***************************************************************************)
EXTENDS IdentityMigration, TLAPS

(* A page identity is a page, and does not depend on excluded parameters.  *)
LEMMA IdentityType ==
  ASSUME NEW url \in Page, NEW rules
  PROVE  Identity(url, rules) \in Page
BY MaxValueAssumption DEF Page, Identity

(* Fields of stored records. *)
LEMMA LiveRecords ==
  ASSUME NEW records \in Notes, NEW p \in Page, Live(records[p])
  PROVE  /\ records[p] \in Record /\ records[p] # Absent
         /\ records[p].url \in Page /\ records[p].texts # {}
         /\ records[p].texts \subseteq Text /\ records[p].revision \in Nat
BY DEF Notes, Slot, Live, Record

-----------------------------------------------------------------------------
(* Plans *)

(* What the proofs use of a plan: the notes and settings it moves between, *)
(* and what it writes where.                                               *)
PlanFacts(plan) ==
  LET rules == plan.requested.rules
      sources == plan.sources
  IN /\ plan \in Plan
     /\ OneExclusion(plan.current, plan.requested)
     /\ \A p \in Page : plan.destinations[p] # Absent <=> p \in Destinations(sources, rules)
     /\ \A p \in Page : plan.tombstones[p] # Absent <=> p \in Moving(sources, rules)
     /\ \A p \in Page : plan.destinations[p] # Absent =>
          /\ plan.destinations[p].texts = AllTexts(sources, Group(sources, rules, p))
          /\ \E q \in Group(sources, rules, p) : plan.destinations[p].url = sources[q].url
     /\ \A p \in Page : plan.tombstones[p] # Absent =>
          plan.tombstones[p].texts = {} /\ plan.tombstones[p].url = sources[p].url
     /\ \A p \in Page : plan.destinations[p] = Absent \/ plan.tombstones[p] = Absent

(* The planner's own plans never write and tombstone the same page: of the *)
(* two sides of one exclusion, only one moves notes onto a page.           *)
THEOREM PlansAreDisjoint ==
  ASSUME NEW records \in Notes, NEW current \in Settings, NEW requested \in Settings,
         OneExclusion(current, requested), Legitimate(records, current, requested)
  PROVE  Disjoint(records, requested.rules)
<1>. DEFINE R == requested.rules
            C == current.rules
<1>. SUFFICES ASSUME NEW p \in Page, p \in Destinations(records, R), p \in Moving(records, R)
              PROVE  FALSE
  BY DEF Disjoint, Destinations
<1>1. /\ Live(records[p]) /\ Identity(records[p].url, R) # p
      /\ Group(records, R, p) # {}
  BY DEF Moving, Destinations
<1>2. PICK q \in Page : Live(records[q]) /\ Identity(records[q].url, R) = p
  BY <1>1 DEF Group
<1>3. Identity(records[p].url, C) = p
  BY <1>1, LiveRecords DEF Legitimate
<1>4. PICK x \in Param : \/ x \notin C /\ R = C \cup {x}
                         \/ x \in C /\ R = C \ {x}
  BY DEF OneExclusion
<1>. DEFINE u == records[p].url
            v == records[q].url
<1>5. u \in Page /\ v \in Page
  BY <1>1, <1>2, LiveRecords
<1>6. /\ \A r \in Param : p[r] = IF r \in C THEN 0 ELSE u[r]
      /\ \A r \in Param : p[r] = IF r \in R THEN 0 ELSE v[r]
  BY <1>2, <1>3 DEF Identity
<1>7. CASE x \notin C /\ R = C \cup {x}
  <2>1. \A r \in Param : p[r] = IF r \in R THEN 0 ELSE u[r]
    BY <1>6, <1>7
  <2>2. p = [r \in Param |-> p[r]]
    BY DEF Page
  <2>3. Identity(u, R) = p
    BY <2>1, <2>2 DEF Identity
  <2>. QED
    BY <1>1, <2>3
<1>8. CASE x \in C /\ R = C \ {x}
  <2>1. \A r \in Param : p[r] = IF r \in C THEN 0 ELSE v[r]
    BY <1>6, <1>8
  <2>2. p = [r \in Param |-> p[r]]
    BY DEF Page
  <2>3. Identity(v, C) = p
    BY <2>1, <2>2 DEF Identity
  <2>4. q \in {Identity(v, C), Identity(v, R)}
    BY <1>2, LiveRecords DEF Legitimate
  <2>5. q = p
    BY <1>2, <2>3, <2>4
  <2>. QED
    BY <1>1, <1>2, <2>5
<1>. QED
  BY <1>4, <1>7, <1>8

(* The texts of a set of live notes are texts.                             *)
LEMMA AllTextsType ==
  ASSUME NEW records \in Notes, NEW rules, NEW p \in Page
  PROVE  AllTexts(records, Group(records, rules, p)) \subseteq Text
<1>. SUFFICES ASSUME NEW q \in Group(records, rules, p)
              PROVE  records[q].texts \subseteq Text
  BY DEF AllTexts
<1>. QED
  BY LiveRecords DEF Group

(* What MakePlan writes down is as PlanFacts says.                         *)
LEMMA PlanForFacts ==
  ASSUME NEW records \in Notes, NEW current \in Settings, NEW requested \in Settings,
         NEW operation \in Nat, NEW representative \in [Page -> Page],
         OneExclusion(current, requested), Disjoint(records, requested.rules),
         \A p \in Destinations(records, requested.rules) :
           representative[p] \in Representatives(records, requested.rules, p)
  PROVE  PlanFacts(PlanFor(records, current, requested, operation, representative))
<1>. DEFINE R == requested.rules
            plan == PlanFor(records, current, requested, operation, representative)
<1>1. /\ plan.operation = operation /\ plan.current = current
      /\ plan.requested = requested /\ plan.sources = records
  BY DEF PlanFor
<1>2. \A p \in Page : plan.destinations[p] =
        IF p \notin Destinations(records, R) THEN Absent ELSE
          [url |-> records[representative[p]].url, revision |-> operation,
           texts |-> AllTexts(records, Group(records, R, p))]
  BY DEF PlanFor, Merged
<1>3. \A p \in Page : plan.tombstones[p] =
        IF p \notin Moving(records, R) THEN Absent ELSE
          [url |-> records[p].url, revision |-> operation, texts |-> {}]
  BY DEF PlanFor, Tombstones
<1>4. \A p \in Destinations(records, R) : representative[p] \in Group(records, R, p)
  BY DEF Representatives
<1>5. ASSUME NEW p \in Destinations(records, R)
      PROVE  /\ plan.destinations[p] \in Record
             /\ plan.destinations[p].texts = AllTexts(records, Group(records, R, p))
             /\ plan.destinations[p].url = records[representative[p]].url
  <2>1. p \in Page
    BY DEF Destinations
  <2>2. records[representative[p]].url \in Page
    BY <1>4, LiveRecords DEF Group
  <2>3. AllTexts(records, Group(records, R, p)) \subseteq Text
    BY <2>1, AllTextsType
  <2>4. plan.destinations[p] = [url |-> records[representative[p]].url,
          revision |-> operation, texts |-> AllTexts(records, Group(records, R, p))]
    BY <1>2, <2>1
  <2>. HIDE DEF plan
  <2>. QED
    BY <2>2, <2>3, <2>4 DEF Record
<1>6. ASSUME NEW p \in Moving(records, R)
      PROVE  /\ plan.tombstones[p] \in Record
             /\ plan.tombstones[p].texts = {} /\ plan.tombstones[p].url = records[p].url
  <2>1. p \in Page /\ records[p].url \in Page
    BY LiveRecords DEF Moving
  <2>2. plan.tombstones[p] = [url |-> records[p].url, revision |-> operation, texts |-> {}]
    BY <1>3, <2>1
  <2>. HIDE DEF plan
  <2>. QED
    BY <2>1, <2>2 DEF Record
<1>7. \A p \in Page : plan.destinations[p] \in Slot /\ plan.tombstones[p] \in Slot
  BY <1>2, <1>3, <1>5, <1>6 DEF Slot
<1>8. plan \in Plan
  <2>1. plan.destinations \in Notes
    BY <1>7 DEF PlanFor, Notes
  <2>2. plan.tombstones \in Notes
    BY <1>7 DEF PlanFor, Tombstones, Notes
  <2>. QED
    BY <1>1, <2>1, <2>2 DEF Plan, PlanFor
<1>9. \A p \in Page : plan.destinations[p] # Absent <=> p \in Destinations(records, R)
  BY <1>2, <1>5, AbsentAssumption
<1>10. \A p \in Page : plan.tombstones[p] # Absent <=> p \in Moving(records, R)
  BY <1>3, <1>6, AbsentAssumption
<1>11. \A p \in Page : plan.destinations[p] = Absent \/ plan.tombstones[p] = Absent
  BY <1>9, <1>10 DEF Disjoint
<1>. QED
  BY <1>1, <1>4, <1>5, <1>6, <1>8, <1>9, <1>10, <1>11 DEF PlanFacts

-----------------------------------------------------------------------------
(* Type correctness *)

(* The request of an executor that plans, and the plan of one that begins. *)
RunShape ==
  \A c \in Context : /\ At(c, "snapshot") => run[c].request \in Settings
                     /\ At(c, "begin") => PlanFacts(run[c].plan)

InvType == TypeOK /\ RunShape

(* Applying writes leaves slots in every page.                             *)
LEMMA OverlayType ==
  ASSUME NEW records \in Notes, NEW writes \in Notes
  PROVE  Overlay(records, writes) \in Notes
BY DEF Overlay, Notes

(* The phase of a journal is replaced, never its plan.                     *)
LEMMA WithPhaseType ==
  ASSUME journal \in Journal, NEW phase \in 0 .. 3
  PROVE  /\ WithPhase(phase) \in Journal /\ WithPhase(phase).plan = journal.plan
         /\ WithPhase(phase).phase = IF journal.phase > phase THEN journal.phase ELSE phase
         /\ WithPhase(phase) # Absent
BY AbsentJournalAssumption DEF WithPhase, Journal

(* A pending journal is a journal with a plan.                             *)
LEMMA JournalType ==
  ASSUME TypeOK, Pending
  PROVE  /\ journal \in Journal /\ journal.plan \in Plan /\ journal.phase \in 0 .. 3
         /\ journal.plan.sources \in Notes /\ journal.plan.destinations \in Notes
         /\ journal.plan.tombstones \in Notes
         /\ journal.plan.current \in Settings /\ journal.plan.requested \in Settings
<1>1. journal \in Journal
  BY DEF TypeOK, Pending
<1>2. journal.plan \in Plan /\ journal.phase \in 0 .. 3
  BY <1>1 DEF Journal
<1>. QED
  BY <1>1, <1>2 DEF Plan

(* The types hold initially. *)
LEMMA TypeInit == Init => InvType
<1>. SUFFICES ASSUME Init PROVE InvType
  OBVIOUS
<1>1. settings \in Settings
  BY DEF Init, Settings
<1>2. notes \in Notes
  BY DEF Init, EmptyPages, Notes, Slot
<1>3. run \in [Context -> Run] /\ \A c \in Context : run[c].pc = "idle"
  BY DEF Init, Idle, Run, PC
<1>4. panel \in [Panel -> [url : Page, page : Page, save : Slot]]
  BY DEF Init, Slot
<1>5. revision \in 0 .. MaxRevision /\ faults \in 0 .. MaxFaults
  BY MaxRevisionAssumption, MaxFaultsAssumption DEF Init
<1>6. view \in [OptionsPage -> Settings]
  BY <1>1 DEF Init
<1>7. strayed \subseteq Page /\ journal = Absent
  BY DEF Init
<1>. QED
  BY <1>1, <1>2, <1>3, <1>4, <1>5, <1>6, <1>7 DEF InvType, TypeOK, RunShape, At

(* The executor's moves keep the types: an executor that goes idle, or on  *)
(* to another step than planning and beginning, carries no obligation.     *)
LEMMA RunMoves ==
  ASSUME InvType, NEW c \in Context, NEW pc \in PC \ {"snapshot", "begin"},
         Goto(c, pc) \/ End(c)
  PROVE  run' \in [Context -> Run] /\ RunShape'
<1>1. run \in [Context -> Run]
  BY DEF InvType, TypeOK
<1>2. CASE Goto(c, pc)
  <2>1. [run[c] EXCEPT !.pc = pc] \in Run
    BY <1>1 DEF Run
  <2>. QED
    BY <1>1, <1>2, <2>1 DEF Goto, InvType, RunShape, At, Run
<1>3. CASE End(c)
  <2>1. Idle \in Run /\ Idle.pc = "idle"
    BY DEF Idle, Run, PC
  <2>. QED
    BY <1>1, <1>3, <2>1 DEF End, InvType, RunShape, At
<1>. QED
  BY <1>2, <1>3

(* Steps of planning keep the types. *)
LEMMA TypePlanning ==
  ASSUME InvType, NEW o \in OptionsPage, Request(o)
  PROVE  InvType'
<1>. USE DEF InvType
<1>0. o \in Context /\ run \in [Context -> Run]
  BY DEF Context, TypeOK
<1>1. CASE Start(o)
  <2>1. PICK request \in Settings :
          run' = [run EXCEPT ![o] = [pc |-> "snapshot", request |-> request, plan |-> Absent]]
    BY <1>1 DEF Start
  <2>2. [pc |-> "snapshot", request |-> request, plan |-> Absent] \in Run
    BY DEF Run, PC
  <2>3. run' \in [Context -> Run] /\ RunShape'
    BY <1>0, <2>1, <2>2 DEF RunShape, At
  <2>. QED
    BY <1>1, <2>3 DEF Start, stored, TypeOK
<1>2. CASE MakePlan(o)
  <2>. DEFINE request == run[o].request
              Planned_(r) == PlanFor(notes, settings, request, revision + 1, r)
  <2>1. PICK representative \in [Page -> Page] :
          /\ \A p \in Destinations(notes, request.rules) :
               representative[p] \in Representatives(notes, request.rules, p)
          /\ run' = [run EXCEPT ![o] = [pc |-> "begin", request |-> Absent,
                                        plan |-> Planned_(representative)]]
    BY <1>2 DEF MakePlan, Destinations
  <2>2. request \in Settings /\ settings \in Settings /\ notes \in Notes
    BY <1>0, <1>2 DEF MakePlan, CanPlan, RunShape, TypeOK
  <2>3. revision + 1 \in Nat /\ revision + 1 \in 0 .. MaxRevision
    BY <1>2, MaxRevisionAssumption DEF MakePlan, TypeOK
  <2>4. OneExclusion(settings, request) /\ Disjoint(notes, request.rules)
    BY <1>2 DEF MakePlan, CanPlan
  <2>5. PlanFacts(Planned_(representative))
    BY <2>1, <2>2, <2>3, <2>4, PlanForFacts
  <2>6. Planned_(representative) \in Plan
    BY <2>5 DEF PlanFacts
  <2>. HIDE DEF Planned_
  <2>7. [pc |-> "begin", request |-> Absent, plan |-> Planned_(representative)] \in Run
    BY <2>6 DEF Run, PC
  <2>8. run' \in [Context -> Run] /\ RunShape'
    BY <1>0, <2>1, <2>5, <2>7 DEF RunShape, At
  <2>. QED
    BY <1>2, <2>3, <2>8 DEF MakePlan, stored, TypeOK
<1>3. CASE BeginJournal(o)
  <2>1. run[o].plan \in Plan
    BY <1>0, <1>3 DEF BeginJournal, CanBegin, RunShape, PlanFacts
  <2>2. journal' \in Journal
    BY <1>3, <2>1 DEF BeginJournal, Journal, Planned
  <2>3. run' \in [Context -> Run] /\ RunShape'
    BY <1>0, <1>3, RunMoves DEF BeginJournal, PC
  <2>. QED
    BY <1>3, <2>2, <2>3 DEF BeginJournal, TypeOK
<1>4. CASE LoadView(o)
  BY <1>4 DEF LoadView, stored, TypeOK, RunShape, At
<1>. QED
  BY <1>1, <1>2, <1>3, <1>4 DEF Request

(* Steps of executing a plan keep the types. *)
LEMMA TypeExecuting ==
  ASSUME InvType, NEW c \in Context, Execute(c)
  PROVE  InvType'
<1>. USE DEF InvType
<1>0. run \in [Context -> Run] /\ notes \in Notes
  BY DEF TypeOK
<1>1. CASE Resume(c)
  <2>1. journal.plan \in Plan
    BY <1>1, JournalType DEF Resume
  <2>2. [pc |-> "destinations", request |-> Absent, plan |-> journal.plan] \in Run
    BY <2>1 DEF Run, PC
  <2>3. run' \in [Context -> Run] /\ RunShape'
    BY <1>0, <1>1, <2>2 DEF Resume, RunShape, At
  <2>. QED
    BY <1>1, <2>3 DEF Resume, stored, TypeOK
<1>2. CASE ApplyDestinations(c)
  <2>1. Pending
    BY <1>2 DEF ApplyDestinations, CanApply, Undisturbed
  <2>2. notes' \in Notes
    BY <1>0, <1>2, <2>1, JournalType, OverlayType DEF ApplyDestinations
  <2>3. journal' \in Journal
    BY <1>2, <2>1, JournalType, WithPhaseType DEF ApplyDestinations, DestinationsApplied
  <2>4. run' \in [Context -> Run] /\ RunShape'
    BY <1>2, RunMoves DEF ApplyDestinations, PC
  <2>. QED
    BY <1>2, <2>2, <2>3, <2>4 DEF ApplyDestinations, TypeOK
<1>3. CASE ApplyTombstones(c)
  <2>1. Pending
    BY <1>3 DEF ApplyTombstones, CanApply, Undisturbed
  <2>2. notes' \in Notes
    BY <1>0, <1>3, <2>1, JournalType, OverlayType DEF ApplyTombstones
  <2>3. journal' \in Journal
    BY <1>3, <2>1, JournalType, WithPhaseType DEF ApplyTombstones, TombstonesApplied
  <2>4. run' \in [Context -> Run] /\ RunShape'
    BY <1>3, RunMoves DEF ApplyTombstones, PC
  <2>. QED
    BY <1>3, <2>2, <2>3, <2>4 DEF ApplyTombstones, TypeOK
<1>4. CASE ApplySettings(c)
  <2>1. Pending
    BY <1>4 DEF ApplySettings, CanApply, Undisturbed
  <2>2. settings' \in Settings
    BY <1>4, <2>1, JournalType DEF ApplySettings
  <2>3. journal' \in Journal
    BY <1>4, <2>1, JournalType, WithPhaseType DEF ApplySettings, SettingsApplied
  <2>4. run' \in [Context -> Run] /\ RunShape'
    BY <1>4, RunMoves DEF ApplySettings, PC
  <2>. QED
    BY <1>4, <2>2, <2>3, <2>4 DEF ApplySettings, TypeOK
<1>5. CASE Finalize(c)
  <2>1. run' \in [Context -> Run] /\ RunShape'
    BY <1>5, RunMoves DEF Finalize, PC
  <2>. QED
    BY <1>5, <2>1 DEF Finalize, TypeOK
<1>6. CASE Rejected(c)
  <2>1. run' \in [Context -> Run] /\ RunShape'
    BY <1>6, RunMoves DEF Rejected, PC
  <2>. QED
    BY <1>6, <2>1 DEF Rejected, stored, TypeOK
<1>. QED
  BY <1>1, <1>2, <1>3, <1>4, <1>5, <1>6 DEF Execute

(* Interruptions and changes of other settings keep the types. *)
LEMMA TypeDisturbing ==
  ASSUME InvType, NEW c \in Context, Disturb(c)
  PROVE  InvType'
<1>. USE DEF InvType
<1>1. CASE Interrupted(c)
  <2>1. run' \in [Context -> Run] /\ RunShape'
    BY <1>1, RunMoves DEF Interrupted, PC
  <2>2. faults' \in 0 .. MaxFaults
    BY <1>1, MaxFaultsAssumption DEF Interrupted, TypeOK
  <2>. QED
    BY <1>1, <2>1, <2>2 DEF Interrupted, stored, TypeOK
<1>2. CASE TornWrite(c)
  <2>1. run' \in [Context -> Run] /\ RunShape'
    BY <1>2, RunMoves DEF TornWrite, PC
  <2>2. faults' \in 0 .. MaxFaults
    BY <1>2, MaxFaultsAssumption DEF TornWrite, TypeOK
  <2>3. Pending
    BY <1>2 DEF TornWrite, CanApply, Undisturbed
  <2>4. settings' \in Settings
    BY <1>2, <2>3, JournalType DEF TornWrite, TypeOK
  <2>5. notes' \in Notes
    <3>1. /\ Overlay(notes, journal.plan.destinations) \in Notes
          /\ Overlay(notes, journal.plan.tombstones) \in Notes /\ notes \in Notes
      BY <2>3, JournalType, OverlayType DEF TypeOK
    <3>2. CASE UNCHANGED notes
      BY <3>1, <3>2
    <3>3. ASSUME NEW S \in SUBSET Page, NEW writes,
                 Overlay(notes, writes) \in Notes,
                 notes' = [p \in Page |-> IF p \in S THEN Overlay(notes, writes)[p]
                                          ELSE notes[p]]
          PROVE  notes' \in Notes
      BY <3>1, <3>3 DEF Notes
    <3>. QED
      BY <1>2, <3>1, <3>2, <3>3 DEF TornWrite
  <2>. QED
    BY <1>2, <2>1, <2>2, <2>4, <2>5 DEF TornWrite, TypeOK
<1>3. CASE ChangePreference(c)
  <2>1. PICK v \in Preference :
          /\ settings' = [settings EXCEPT !.preference = v]
          /\ view' = IF c = Worker THEN view ELSE
               [view EXCEPT ![c].preference = v, ![c].rules = settings.rules]
    BY <1>3 DEF ChangePreference
  <2>2. settings \in Settings /\ view \in [OptionsPage -> Settings]
    BY DEF TypeOK
  <2>3. settings' \in Settings
    BY <2>1, <2>2 DEF Settings
  <2>4. view' \in [OptionsPage -> Settings]
    BY <2>1, <2>2 DEF Settings, Context
  <2>. QED
    BY <1>3, <2>3, <2>4 DEF ChangePreference, TypeOK, RunShape, At
<1>. QED
  BY <1>1, <1>2, <1>3 DEF Disturb

(* A stored record keeps the types of notes and strayed. *)
LEMMA StoreType ==
  ASSUME TypeOK, NEW p \in Page, NEW record \in Record, Store(p, record)
  PROVE  notes' \in Notes /\ strayed' \subseteq Page
BY DEF TypeOK, Store, Notes, Slot

(* Saves and downloads keep the types. *)
LEMMA TypeEditing ==
  ASSUME InvType, (\E w \in Panel : Edit(w)) \/ Download
  PROVE  InvType'
<1>. USE DEF InvType
<1>0. /\ panel \in [Panel -> [url : Page, page : Page, save : Slot]]
      /\ notes \in Notes /\ revision \in 0 .. MaxRevision /\ MaxRevision \in Nat
  BY MaxRevisionAssumption DEF TypeOK
<1>1. ASSUME NEW w \in Panel, ShowPage(w) PROVE InvType'
  <2>1. PICK url \in Page : panel' = [panel EXCEPT ![w] =
          [url |-> url, page |-> Identity(url, settings.rules), save |-> Absent]]
    BY <1>1 DEF ShowPage
  <2>2. panel' \in [Panel -> [url : Page, page : Page, save : Slot]]
    BY <1>0, <2>1, IdentityType DEF Slot
  <2>. QED
    BY <1>1, <2>2 DEF ShowPage, stored, TypeOK, RunShape, At
<1>2. ASSUME NEW w \in Panel, BeginSave(w) PROVE InvType'
  <2>. DEFINE existing == notes[panel[w].page]
  <2>1. panel[w].url \in Page /\ panel[w].page \in Page
    BY <1>0
  <2>2. revision' \in 0 .. MaxRevision /\ revision + 1 \in Nat
    BY <1>0, <1>2 DEF BeginSave
  <2>3. ASSUME Live(existing)
        PROVE  [existing EXCEPT !.texts = {}, !.revision = revision + 1] \in Record
    BY <1>0, <2>1, <2>2, <2>3, LiveRecords DEF Record
  <2>4. ASSUME NEW t \in Text
        PROVE  [url |-> panel[w].url, texts |-> {t}, revision |-> revision + 1] \in Record
    BY <2>1, <2>2 DEF Record
  <2>5. PICK record \in Record : panel' = [panel EXCEPT ![w].save = record]
    BY <1>2, <2>3, <2>4 DEF BeginSave
  <2>6. panel' \in [Panel -> [url : Page, page : Page, save : Slot]]
    BY <1>0, <2>5 DEF Slot
  <2>. QED
    BY <1>2, <2>2, <2>6 DEF BeginSave, stored, TypeOK, RunShape, At
<1>3. ASSUME NEW w \in Panel, PutNote(w) PROVE InvType'
  <2>1. panel[w].page \in Page /\ panel[w].save \in Record
    BY <1>0, <1>3 DEF PutNote, Slot
  <2>2. notes' \in Notes /\ strayed' \subseteq Page
    BY <1>3, <2>1, StoreType DEF PutNote
  <2>3. panel' \in [Panel -> [url : Page, page : Page, save : Slot]]
    BY <1>0, <1>3 DEF PutNote, Slot
  <2>. QED
    BY <1>3, <2>2, <2>3 DEF PutNote, TypeOK, RunShape, At
<1>4. ASSUME NEW w \in Panel, PutRejected(w) PROVE InvType'
  <2>1. panel' \in [Panel -> [url : Page, page : Page, save : Slot]]
    BY <1>0, <1>4 DEF PutRejected, Slot
  <2>. QED
    BY <1>4, <2>1 DEF PutRejected, stored, TypeOK, RunShape, At
<1>5. CASE Download
  <2>1. revision' \in 0 .. MaxRevision /\ revision + 1 \in Nat
    BY <1>0, <1>5 DEF Download
  <2>2. PICK rules \in ForeignRules, url \in Page, texts \in {{}} \cup {{t} : t \in Text} :
          Store(Identity(url, rules), [url |-> url, texts |-> texts, revision |-> revision + 1])
    BY <1>5 DEF Download
  <2>3. [url |-> url, texts |-> texts, revision |-> revision + 1] \in Record
    BY <2>1 DEF Record
  <2>4. Identity(url, rules) \in Page
    BY IdentityType
  <2>5. notes' \in Notes /\ strayed' \subseteq Page
    BY <2>2, <2>3, <2>4, StoreType
  <2>. QED
    BY <1>5, <2>1, <2>5 DEF Download, TypeOK, RunShape, At
<1>. QED
  BY <1>1, <1>2, <1>3, <1>4, <1>5 DEF Edit

(* Every step keeps the types. *)
LEMMA TypeStep == InvType /\ [Next]_vars => InvType'
<1>. SUFFICES ASSUME InvType, [Next]_vars PROVE InvType'
  OBVIOUS
<1>1. CASE UNCHANGED vars
  BY <1>1 DEF vars, InvType, TypeOK, RunShape, At
<1>. QED
  BY <1>1, TypePlanning, TypeExecuting, TypeDisturbing, TypeEditing DEF Next

(* Every reachable state is of the types TypeOK lists.                     *)
THEOREM MigrationTypeCorrect == Spec => []TypeOK
<1>1. Spec => []InvType
  BY TypeInit, TypeStep, PTL DEF Spec
<1>. QED
  BY <1>1, PTL DEF InvType

-----------------------------------------------------------------------------
(* The journal invariant: what notes and settings are while a migration is *)
(* pending, in any phase and after any interruption.  Tombstones are only  *)
(* written after all destinations, the settings after all notes.           *)

Progress(plan) ==
  /\ \A p \in Page :
       \/ notes[p] = plan.sources[p]
       \/ plan.destinations[p] # Absent /\ notes[p] = plan.destinations[p]
       \/ /\ plan.tombstones[p] # Absent /\ notes[p] = plan.tombstones[p]
          /\ Applied(plan.destinations)
  /\ \/ settings = plan.current
     \/ /\ settings = plan.requested
        /\ Applied(plan.destinations) /\ Applied(plan.tombstones)

JournalInv ==
  Pending => /\ PlanFacts(journal.plan)
             /\ Progress(journal.plan)
             /\ ConsistentPhase(journal.phase, journal.plan)

(* Nothing is pending initially. *)
LEMMA JournalInit == Init => JournalInv
BY DEF Init, JournalInv, Pending

(* Steps that change neither the notes nor the settings nor the journal.   *)
LEMMA JournalUnchanged ==
  ASSUME JournalInv, UNCHANGED stored
  PROVE  JournalInv'
BY DEF JournalInv, stored, Pending, Progress, ConsistentPhase, Applied

(* Overlaying writes, entirely or in part, on a state of progress.         *)
LEMMA OverlayProgress ==
  ASSUME NEW plan, PlanFacts(plan), Progress(plan), NEW writes, NEW S \in SUBSET Page,
         \/ writes = plan.destinations
         \/ writes = plan.tombstones /\ Applied(plan.destinations),
         notes \in Notes,
         notes' = [p \in Page |-> IF p \in S THEN Overlay(notes, writes)[p] ELSE notes[p]],
         settings' = settings
  PROVE  /\ (Progress(plan))'
         /\ Applied(plan.destinations) => (Applied(plan.destinations))'
         /\ Applied(plan.tombstones) => (Applied(plan.tombstones))'
         /\ S = Page => (Applied(writes))'
<1>1. \A p \in Page : plan.destinations[p] = Absent \/ plan.tombstones[p] = Absent
  BY DEF PlanFacts
<1>2. \A p \in Page : notes'[p] = IF p \in S /\ writes[p] # Absent THEN writes[p] ELSE notes[p]
  BY DEF Overlay
<1>3. Applied(plan.destinations) => (Applied(plan.destinations))'
  BY <1>1, <1>2 DEF Applied
<1>4. Applied(plan.tombstones) => (Applied(plan.tombstones))'
  BY <1>1, <1>2 DEF Applied
<1>5. S = Page => (Applied(writes))'
  BY <1>2 DEF Applied
<1>6. ASSUME NEW p \in Page
      PROVE  \/ notes'[p] = plan.sources[p]
             \/ plan.destinations[p] # Absent /\ notes'[p] = plan.destinations[p]
             \/ /\ plan.tombstones[p] # Absent /\ notes'[p] = plan.tombstones[p]
                /\ (Applied(plan.destinations))'
  <2>1. \/ notes[p] = plan.sources[p]
        \/ plan.destinations[p] # Absent /\ notes[p] = plan.destinations[p]
        \/ /\ plan.tombstones[p] # Absent /\ notes[p] = plan.tombstones[p]
           /\ Applied(plan.destinations)
    BY DEF Progress
  <2>. QED
    BY <1>2, <1>3, <2>1
<1>. QED
  BY <1>3, <1>4, <1>5, <1>6 DEF Progress

(* Overlaying writes on every page is what the phases do.                  *)
LEMMA WholeOverlay ==
  ASSUME notes \in Notes, NEW writes, notes' = Overlay(notes, writes)
  PROVE  notes' = [p \in Page |-> IF p \in Page THEN Overlay(notes, writes)[p] ELSE notes[p]]
BY DEF Overlay

(* The steps of an executor keep the journal invariant. *)
LEMMA JournalExecuting ==
  ASSUME InvType, JournalInv, NEW c \in Context, Execute(c)
  PROVE  JournalInv'
<1>. DEFINE plan == journal.plan
<1>0. notes \in Notes /\ TypeOK
  BY DEF InvType, TypeOK
<1>1. CASE Resume(c)
  BY <1>1, JournalUnchanged DEF Resume
<1>2. CASE ApplyDestinations(c)
  <2>1. Pending /\ PlanFacts(plan) /\ Progress(plan) /\ ConsistentPhase(journal.phase, plan)
    BY <1>2 DEF JournalInv, ApplyDestinations, CanApply, Undisturbed
  <2>2. /\ journal'.plan = plan
        /\ journal'.phase = IF journal.phase > 1 THEN journal.phase ELSE 1
    BY <1>0, <1>2, <2>1, JournalType, WithPhaseType DEF ApplyDestinations, DestinationsApplied
  <2>. PICK P : P = plan
    OBVIOUS
  <2>a. /\ (Progress(P))' /\ (Applied(P.destinations))'
        /\ Applied(P.tombstones) => (Applied(P.tombstones))'
    BY <1>0, <1>2, <2>1, OverlayProgress, WholeOverlay DEF ApplyDestinations
  <2>3. /\ (Progress(plan))' /\ (Applied(plan.destinations))'
        /\ Applied(plan.tombstones) => (Applied(plan.tombstones))'
    BY <2>2, <2>a DEF Progress, Applied
  <2>4. (ConsistentPhase(journal.phase, plan))'
    <3>1. journal.phase \in 0 .. 3
      BY <1>0, <2>1, JournalType
    <3>2. journal'.phase >= 2 => journal.phase >= 2
      BY <2>2, <3>1
    <3>3. journal'.phase >= 3 => journal.phase >= 3
      BY <2>2, <3>1
    <3>. QED
      BY <1>2, <2>1, <2>2, <2>3, <3>2, <3>3
      DEF ConsistentPhase, ApplyDestinations, DestinationsApplied, TombstonesApplied,
          SettingsApplied
  <2>. QED
    BY <2>1, <2>2, <2>3, <2>4 DEF JournalInv, PlanFacts
<1>3. CASE ApplyTombstones(c)
  <2>1. Pending /\ PlanFacts(plan) /\ Progress(plan) /\ ConsistentPhase(journal.phase, plan)
    BY <1>3 DEF JournalInv, ApplyTombstones, CanApply, Undisturbed
  <2>2. /\ journal'.plan = plan
        /\ journal'.phase = IF journal.phase > 2 THEN journal.phase ELSE 2
    BY <1>0, <1>3, <2>1, JournalType, WithPhaseType DEF ApplyTombstones, TombstonesApplied
  <2>3. Applied(plan.destinations)
    BY <1>3 DEF ApplyTombstones, CanApply, At
  <2>. PICK P : P = plan
    OBVIOUS
  <2>a. (Progress(P))' /\ (Applied(P.destinations))' /\ (Applied(P.tombstones))'
    BY <1>0, <1>3, <2>1, <2>3, OverlayProgress, WholeOverlay DEF ApplyTombstones
  <2>4. (Progress(plan))' /\ (Applied(plan.destinations))' /\ (Applied(plan.tombstones))'
    BY <2>2, <2>a DEF Progress, Applied
  <2>5. (ConsistentPhase(journal.phase, plan))'
    <3>1. journal.phase \in 0 .. 3
      BY <1>0, <2>1, JournalType
    <3>2. journal'.phase >= 3 => journal.phase >= 3
      BY <2>2, <3>1
    <3>. QED
      BY <1>3, <2>1, <2>2, <2>4, <3>2
      DEF ConsistentPhase, ApplyTombstones, DestinationsApplied, TombstonesApplied,
          SettingsApplied
  <2>. QED
    BY <2>1, <2>2, <2>4, <2>5 DEF JournalInv, PlanFacts
<1>4. CASE ApplySettings(c)
  <2>1. Pending /\ PlanFacts(plan) /\ Progress(plan)
    BY <1>4 DEF JournalInv, ApplySettings, CanApply, Undisturbed
  <2>2. journal'.plan = plan
    BY <1>0, <1>4, <2>1, JournalType, WithPhaseType DEF ApplySettings, SettingsApplied
  <2>3. /\ Applied(plan.destinations) /\ Applied(plan.tombstones)
        /\ notes' = notes /\ settings' = plan.requested
    BY <1>4 DEF ApplySettings, CanApply, At
  <2>4. (Applied(plan.destinations))' /\ (Applied(plan.tombstones))'
    BY <2>2, <2>3 DEF Applied
  <2>5. (Progress(plan))'
    BY <2>1, <2>2, <2>3, <2>4 DEF Progress
  <2>6. (ConsistentPhase(journal.phase, plan))'
    BY <2>2, <2>3, <2>4 DEF ConsistentPhase
  <2>. QED
    BY <2>1, <2>2, <2>5, <2>6 DEF JournalInv, PlanFacts
<1>5. CASE Finalize(c)
  BY <1>5 DEF Finalize, JournalInv, Pending
<1>6. CASE Rejected(c)
  BY <1>6, JournalUnchanged DEF Rejected
<1>. QED
  BY <1>1, <1>2, <1>3, <1>4, <1>5, <1>6 DEF Execute

(* A torn write leaves a state any executor can take over. *)
LEMMA JournalTorn ==
  ASSUME InvType, JournalInv, NEW c \in Context, TornWrite(c)
  PROVE  JournalInv'
<1>. DEFINE plan == journal.plan
<1>0. notes \in Notes /\ TypeOK
  BY DEF InvType, TypeOK
<1>1. /\ Pending /\ PlanFacts(plan) /\ Progress(plan)
      /\ ConsistentPhase(journal.phase, plan) /\ journal' = journal
  BY DEF JournalInv, TornWrite, CanApply, Undisturbed
<1>2. CASE At(c, "settings")
  <2>1. /\ Applied(plan.destinations) /\ Applied(plan.tombstones)
        /\ notes' = notes /\ settings' = plan.requested
    BY <1>2 DEF TornWrite, CanApply, At
  <2>2. (Applied(plan.destinations))' /\ (Applied(plan.tombstones))'
    BY <1>1, <2>1 DEF Applied
  <2>3. (Progress(plan))' /\ (ConsistentPhase(journal.phase, plan))'
    BY <1>1, <2>1, <2>2 DEF Progress, ConsistentPhase
  <2>. QED
    BY <1>1, <2>3 DEF JournalInv, PlanFacts
<1>3. CASE ~ At(c, "settings")
  <2>1. PICK S \in SUBSET Page :
          notes' = [p \in Page |-> IF p \in S THEN Overlay(notes,
                      IF At(c, "destinations") THEN plan.destinations
                                               ELSE plan.tombstones)[p] ELSE notes[p]]
    BY <1>3 DEF TornWrite
  <2>2. settings' = settings
    BY <1>3 DEF TornWrite
  <2>3. ~ At(c, "destinations") => Applied(plan.destinations)
    BY <1>3 DEF TornWrite, CanApply
  <2>4. /\ (Progress(plan))'
        /\ Applied(plan.destinations) => (Applied(plan.destinations))'
        /\ Applied(plan.tombstones) => (Applied(plan.tombstones))'
    <3>1. CASE At(c, "destinations")
      BY <1>0, <1>1, <2>1, <2>2, <3>1, OverlayProgress
    <3>2. CASE ~ At(c, "destinations")
      BY <1>0, <1>1, <2>1, <2>2, <2>3, <3>2, OverlayProgress
    <3>. QED
      BY <3>1, <3>2
  <2>. QED
    BY <1>1, <2>2, <2>4 DEF JournalInv, PlanFacts, ConsistentPhase
<1>. QED
  BY <1>2, <1>3

(* A journal is begun with the notes and settings it was planned for.      *)
LEMMA JournalBegins ==
  ASSUME InvType, NEW o \in OptionsPage, BeginJournal(o)
  PROVE  /\ JournalInv' /\ Pending' /\ ~ Pending
         /\ journal'.plan.sources = notes /\ journal'.plan.current = settings
<1>1. o \in Context
  BY DEF Context
<1>2. /\ PlanFacts(run[o].plan) /\ settings = run[o].plan.current
      /\ notes = run[o].plan.sources /\ ~ Pending
  BY <1>1 DEF BeginJournal, CanBegin, InvType, RunShape
<1>3. /\ journal' = [phase |-> 0, plan |-> run[o].plan]
      /\ notes' = notes /\ settings' = settings
  BY DEF BeginJournal, Planned
<1>4. journal'.phase = 0 /\ journal'.plan = run[o].plan
  BY <1>3
<1>5. journal' \in Journal
  BY <1>2, <1>3 DEF PlanFacts, Journal
<1>6. Pending'
  BY <1>5, AbsentJournalAssumption DEF Pending
<1>7. (PlanFacts(journal.plan))'
  BY <1>2, <1>4 DEF PlanFacts
<1>8. (Progress(journal.plan))'
  BY <1>2, <1>3, <1>4 DEF Progress
<1>9. (ConsistentPhase(journal.phase, journal.plan))'
  BY <1>4 DEF ConsistentPhase, DestinationsApplied, TombstonesApplied, SettingsApplied
<1>. QED
  BY <1>2, <1>4, <1>6, <1>7, <1>8, <1>9 DEF JournalInv

(* Writers outside the migration find no journal. *)
LEMMA OtherWriters ==
  ASSUME \/ \E c \in Context : ChangePreference(c)
         \/ \E w \in Panel : PutNote(w)
         \/ Download
  PROVE  ~ Pending /\ ~ Pending'
BY DEF ChangePreference, PutNote, Download, Pending

(* Every step keeps the journal invariant. *)
LEMMA JournalStep == InvType /\ JournalInv /\ [Next]_vars => JournalInv'
<1>. SUFFICES ASSUME InvType, JournalInv, [Next]_vars PROVE JournalInv'
  OBVIOUS
<1>1. CASE UNCHANGED vars
  BY <1>1, JournalUnchanged DEF vars, stored
<1>2. ASSUME NEW c \in Context, Execute(c) PROVE JournalInv'
  BY <1>2, JournalExecuting
<1>3. ASSUME NEW c \in Context, Disturb(c) PROVE JournalInv'
  <2>1. CASE Interrupted(c)
    BY <2>1, JournalUnchanged DEF Interrupted
  <2>2. CASE TornWrite(c)
    BY <2>2, JournalTorn
  <2>3. CASE ChangePreference(c)
    BY <2>3, OtherWriters DEF JournalInv
  <2>. QED
    BY <1>3, <2>1, <2>2, <2>3 DEF Disturb
<1>4. ASSUME NEW o \in OptionsPage, Request(o) PROVE JournalInv'
  <2>1. CASE BeginJournal(o)
    BY <2>1, JournalBegins
  <2>2. CASE Start(o) \/ MakePlan(o) \/ LoadView(o)
    BY <2>2, JournalUnchanged DEF Start, MakePlan, LoadView
  <2>. QED
    BY <1>4, <2>1, <2>2 DEF Request
<1>5. ASSUME NEW w \in Panel, Edit(w) PROVE JournalInv'
  <2>1. CASE PutNote(w)
    BY <2>1, OtherWriters DEF JournalInv
  <2>2. CASE ShowPage(w) \/ BeginSave(w) \/ PutRejected(w)
    BY <2>2, JournalUnchanged DEF ShowPage, BeginSave, PutRejected
  <2>. QED
    BY <1>5, <2>1, <2>2 DEF Edit
<1>6. CASE Download
  BY <1>6, OtherWriters DEF JournalInv
<1>. QED
  BY <1>1, <1>2, <1>3, <1>4, <1>5, <1>6 DEF Next

(* The journal invariant holds in every reachable state. *)
LEMMA JournalAlways == Spec => [](InvType /\ JournalInv)
BY TypeInit, TypeStep, JournalInit, JournalStep, PTL DEF Spec

-----------------------------------------------------------------------------
(* Whatever the phase and the interruptions so far, the checks of the next *)
(* executor accept what it finds: a pending migration is never stuck.      *)
THEOREM PendingAlwaysCompletable == Spec => []PendingCanComplete
<1>1. InvType /\ JournalInv => PendingCanComplete
  <2>. SUFFICES ASSUME JournalInv, Pending
                PROVE  /\ ValidState(journal.plan)
                       /\ ConsistentPhase(journal.phase, journal.plan)
    BY DEF PendingCanComplete
  <2>1. Progress(journal.plan) /\ ConsistentPhase(journal.phase, journal.plan)
    BY DEF JournalInv
  <2>. QED
    BY <2>1 DEF Progress, ValidState, ValidSettings
<1>. QED
  BY <1>1, JournalAlways, PTL

(* In any phase, all that a note said before a pending migration is in a   *)
(* live note, at its page or at its identity under the requested rules.    *)
THEOREM NoTextEverLost == Spec => []NoTextLost
<1>1. InvType /\ JournalInv => NoTextLost
  <2>. SUFFICES ASSUME InvType, JournalInv, Pending, NEW p \in Page,
                       Live(journal.plan.sources[p])
                PROVE  \E q \in {p, Identity(journal.plan.sources[p].url,
                                             journal.plan.requested.rules)} :
                         /\ Live(notes[q])
                         /\ journal.plan.sources[p].texts \subseteq notes[q].texts
    BY DEF NoTextLost
  <2>. DEFINE plan == journal.plan
              rules == plan.requested.rules
              source == plan.sources[p]
              d == Identity(source.url, rules)
  <2>1. PlanFacts(plan) /\ Progress(plan)
    BY DEF JournalInv
  <2>2. /\ plan.sources \in Notes /\ plan.destinations \in Notes
        /\ source.texts # {} /\ source.url \in Page /\ source # Absent
    BY JournalType, LiveRecords DEF InvType
  <2>3. d \in Page /\ p \in Group(plan.sources, rules, d)
    BY <2>2, IdentityType DEF Group
  <2>4. source.texts \subseteq AllTexts(plan.sources, Group(plan.sources, rules, d))
    BY <2>3 DEF AllTexts
  <2>5. ASSUME plan.destinations[d] # Absent, notes[d] = plan.destinations[d]
        PROVE  Live(notes[d]) /\ source.texts \subseteq notes[d].texts
    <3>1. plan.destinations[d].texts = AllTexts(plan.sources, Group(plan.sources, rules, d))
      BY <2>1, <2>3, <2>5 DEF PlanFacts
    <3>. QED
      BY <2>2, <2>4, <2>5, <3>1 DEF Live
  <2>6. CASE notes[p] = source
    BY <2>2, <2>6 DEF Live
  <2>7. CASE plan.destinations[p] # Absent /\ notes[p] = plan.destinations[p]
    <3>1. plan.tombstones[p] = Absent
      BY <2>1, <2>7 DEF PlanFacts
    <3>2. d = p
      BY <2>1, <3>1 DEF PlanFacts, Moving
    <3>. QED
      BY <2>5, <2>7, <3>2
  <2>8. CASE plan.tombstones[p] # Absent /\ Applied(plan.destinations)
    <3>1. d # p
      BY <2>1, <2>8 DEF PlanFacts, Moving
    <3>2. Group(plan.sources, rules, d) # {} /\ Group(plan.sources, rules, d) # {d}
      BY <2>3, <3>1
    <3>3. plan.destinations[d] # Absent
      BY <2>1, <2>3, <3>2 DEF PlanFacts, Destinations
    <3>4. notes[d] = plan.destinations[d]
      BY <2>3, <2>8, <3>3 DEF Applied
    <3>. QED
      BY <2>5, <3>3, <3>4
  <2>. QED
    BY <2>1, <2>6, <2>7, <2>8 DEF Progress
<1>. QED
  BY <1>1, JournalAlways, PTL

-----------------------------------------------------------------------------
(* Implementation of the atomic specification *)

(* Both specifications speak of the same pages, records and identities.    *)
LEMMA AtomicSets ==
  /\ Atomic!Page = Page /\ Atomic!Record = Record
  /\ Atomic!Notes = Notes /\ Atomic!Settings = Settings
<1>1. Atomic!Page = Page
  BY DEF Atomic!Page, Page
<1>2. Atomic!Record = Record
  BY <1>1 DEF Atomic!Record, Record
<1>3. Atomic!Notes = Notes
  BY <1>1, <1>2 DEF Atomic!Notes, Notes, Atomic!Slot, Slot
<1>. QED
  BY <1>1, <1>2, <1>3 DEF Atomic!Settings, Settings

(* ... and of the same groups of live notes. *)
LEMMA AtomicGroups ==
  ASSUME NEW records, NEW rules, NEW p, NEW slot
  PROVE  /\ Atomic!Group(records, rules, p) = Group(records, rules, p)
         /\ Atomic!Live(slot) <=> Live(slot)
BY AtomicSets DEF Atomic!Group, Group, Atomic!Live, Live, Atomic!Identity, Identity

(* ... and of the same texts and changes of exclusions. *)
LEMMA AtomicChanges ==
  ASSUME NEW records, NEW S, NEW current, NEW requested
  PROVE  /\ Atomic!AllTexts(records, S) = AllTexts(records, S)
         /\ Atomic!OneExclusion(current, requested) <=> OneExclusion(current, requested)
BY DEF Atomic!AllTexts, AllTexts, Atomic!OneExclusion, OneExclusion

(* When an executor removes the journal, the notes are those planned for,  *)
(* with all writes of the plan: the migration as a whole.                  *)
LEMMA FinalizeMigrates ==
  ASSUME InvType, JournalInv, NEW c \in Context, CanFinalize(c)
  PROVE  /\ Pending /\ settings = journal.plan.requested /\ notes \in Notes
         /\ OneExclusion(journal.plan.current, journal.plan.requested)
         /\ journal.plan.requested \in Settings
         /\ \A p \in Page : Atomic!MovedTo(p, journal.plan.sources, notes,
                                           journal.plan.requested.rules)
<1>. DEFINE plan == journal.plan
            rules == plan.requested.rules
<1>1. /\ Pending /\ settings = plan.requested
      /\ Applied(plan.destinations) /\ Applied(plan.tombstones)
  BY DEF CanFinalize, Undisturbed
<1>2. PlanFacts(plan) /\ Progress(plan)
  BY <1>1 DEF JournalInv
<1>3. /\ notes \in Notes /\ plan.requested \in Settings /\ plan.sources \in Notes
      /\ plan.destinations \in Notes /\ plan.tombstones \in Notes
  BY <1>1, JournalType DEF InvType, TypeOK
<1>4. ASSUME NEW p \in Page
      PROVE  Atomic!MovedTo(p, plan.sources, notes, rules)
  <2>. DEFINE group == Group(plan.sources, rules, p)
  <2>1. group # {} /\ group # {p} =>
          /\ notes[p] \in Record
          /\ notes[p].texts = AllTexts(plan.sources, group)
          /\ \E q \in group : notes[p].url = plan.sources[q].url
    <3>. SUFFICES ASSUME group # {}, group # {p}
                  PROVE  /\ notes[p] \in Record
                         /\ notes[p].texts = AllTexts(plan.sources, group)
                         /\ \E q \in group : notes[p].url = plan.sources[q].url
      OBVIOUS
    <3>1. plan.destinations[p] # Absent
      BY <1>2 DEF PlanFacts, Destinations
    <3>2. notes[p] = plan.destinations[p]
      BY <1>1, <3>1 DEF Applied
    <3>3. notes[p] \in Record
      BY <1>3, <3>1, <3>2 DEF Notes, Slot
    <3>. QED
      BY <1>2, <3>1, <3>2, <3>3 DEF PlanFacts
  <2>2. ASSUME group = {} \/ group = {p}
        PROVE  /\ plan.destinations[p] = Absent
               /\ plan.tombstones[p] = Absent => notes[p] = plan.sources[p]
    <3>1. plan.destinations[p] = Absent
      BY <1>2, <2>2 DEF PlanFacts, Destinations
    <3>. QED
      BY <1>2, <3>1 DEF Progress
  <2>3. group = {p} => notes[p] = plan.sources[p]
    <3>. SUFFICES ASSUME group = {p} PROVE notes[p] = plan.sources[p]
      OBVIOUS
    <3>1. Identity(plan.sources[p].url, rules) = p
      BY DEF Group
    <3>2. plan.tombstones[p] = Absent
      BY <1>2, <3>1 DEF PlanFacts, Moving
    <3>. QED
      BY <2>2, <3>2
  <2>4. group = {} /\ ~ Live(plan.sources[p]) => notes[p] = plan.sources[p]
    <3>. SUFFICES ASSUME group = {}, ~ Live(plan.sources[p])
                  PROVE  notes[p] = plan.sources[p]
      OBVIOUS
    <3>1. plan.tombstones[p] = Absent
      BY <1>2 DEF PlanFacts, Moving
    <3>. QED
      BY <2>2, <3>1
  <2>5. group = {} /\ Live(plan.sources[p]) =>
          /\ notes[p] \in Record
          /\ notes[p].url = plan.sources[p].url /\ notes[p].texts = {}
    <3>. SUFFICES ASSUME group = {}, Live(plan.sources[p])
                  PROVE  /\ notes[p] \in Record
                         /\ notes[p].url = plan.sources[p].url /\ notes[p].texts = {}
      OBVIOUS
    <3>1. Identity(plan.sources[p].url, rules) # p
      BY DEF Group
    <3>2. plan.tombstones[p] # Absent
      BY <1>2, <3>1 DEF PlanFacts, Moving
    <3>3. notes[p] = plan.tombstones[p]
      BY <1>1, <3>2 DEF Applied
    <3>4. notes[p] \in Record
      BY <1>3, <3>2, <3>3 DEF Notes, Slot
    <3>. QED
      BY <1>2, <3>2, <3>3, <3>4 DEF PlanFacts
  <2>. QED
    BY <2>1, <2>3, <2>4, <2>5, AtomicSets, AtomicGroups, AtomicChanges DEF Atomic!MovedTo
<1>. QED
  BY <1>1, <1>2, <1>3, <1>4 DEF PlanFacts

(* The state seen from outside: as before a pending migration.             *)
SeenNotes == IF Pending THEN journal.plan.sources ELSE notes
SeenSettings == IF Pending THEN journal.plan.current ELSE settings

(* What each step does to the state seen from outside: nothing, a whole    *)
(* migration, the record of one page, or another setting.                  *)
LEMMA SeenStep ==
  ASSUME InvType, JournalInv, [Next]_vars
  PROVE  \/ UNCHANGED <<SeenNotes, SeenSettings, strayed>>
         \/ /\ \E p \in Page, record \in Record :
                 /\ Store(p, record) /\ SeenNotes' = [SeenNotes EXCEPT ![p] = record]
            /\ ~ Pending /\ UNCHANGED SeenSettings
         \/ /\ \E v \in Preference : SeenSettings' = [SeenSettings EXCEPT !.preference = v]
            /\ ~ Pending /\ UNCHANGED <<SeenNotes, strayed>>
         \/ /\ OneExclusion(SeenSettings, SeenSettings') /\ SeenSettings' \in Settings
            /\ SeenNotes' \in Notes /\ UNCHANGED strayed
            /\ \A p \in Page : Atomic!MovedTo(p, SeenNotes, SeenNotes', SeenSettings'.rules)
<1>. USE DEF SeenNotes, SeenSettings
<1>0. TypeOK
  BY DEF InvType
<1>1. ASSUME UNCHANGED <<stored, strayed>>
      PROVE  UNCHANGED <<SeenNotes, SeenSettings, strayed>>
  BY <1>1 DEF stored, Pending
<1>2. ASSUME Pending, Pending', journal'.plan = journal.plan, UNCHANGED strayed
      PROVE  UNCHANGED <<SeenNotes, SeenSettings, strayed>>
  BY <1>2
<1>3. ASSUME NEW c \in Context, ApplyDestinations(c) \/ ApplyTombstones(c) \/ ApplySettings(c)
      PROVE  UNCHANGED <<SeenNotes, SeenSettings, strayed>>
  <2>1. Pending
    BY <1>3 DEF ApplyDestinations, ApplyTombstones, ApplySettings, CanApply, Undisturbed
  <2>2. PICK phase \in 0 .. 3 : journal' = WithPhase(phase)
    BY <1>3 DEF ApplyDestinations, ApplyTombstones, ApplySettings,
       DestinationsApplied, TombstonesApplied, SettingsApplied
  <2>3. journal'.plan = journal.plan /\ Pending'
    BY <1>0, <2>1, <2>2, JournalType, WithPhaseType DEF Pending
  <2>. QED
    BY <1>2, <1>3, <2>1, <2>3 DEF ApplyDestinations, ApplyTombstones, ApplySettings
<1>4. ASSUME NEW c \in Context, Finalize(c)
      PROVE  /\ OneExclusion(SeenSettings, SeenSettings') /\ SeenSettings' \in Settings
             /\ SeenNotes' \in Notes /\ UNCHANGED strayed
             /\ \A p \in Page : Atomic!MovedTo(p, SeenNotes, SeenNotes', SeenSettings'.rules)
  <2>1. /\ Pending /\ ~ Pending' /\ notes' = notes /\ settings' = settings
        /\ UNCHANGED strayed /\ CanFinalize(c)
    BY <1>4 DEF Finalize, CanFinalize, Undisturbed, Pending
  <2>2. /\ SeenNotes = journal.plan.sources /\ SeenSettings = journal.plan.current
        /\ SeenNotes' = notes /\ SeenSettings' = settings
    BY <2>1
  <2>. QED
    BY <2>1, <2>2, FinalizeMigrates
<1>5. ASSUME NEW c \in Context, Execute(c)
      PROVE  \/ UNCHANGED <<SeenNotes, SeenSettings, strayed>>
             \/ Finalize(c)
  BY <1>1, <1>3, <1>5 DEF Execute, Resume, Rejected
<1>6. ASSUME NEW c \in Context, Interrupted(c) \/ TornWrite(c)
      PROVE  UNCHANGED <<SeenNotes, SeenSettings, strayed>>
  <2>1. CASE Interrupted(c)
    BY <1>1, <2>1 DEF Interrupted
  <2>2. CASE TornWrite(c)
    BY <1>2, <2>2 DEF TornWrite, CanApply, Undisturbed, Pending
  <2>. QED
    BY <1>6, <2>1, <2>2
<1>7. ASSUME NEW c \in Context, ChangePreference(c)
      PROVE  /\ \E v \in Preference : SeenSettings' = [SeenSettings EXCEPT !.preference = v]
             /\ ~ Pending /\ UNCHANGED <<SeenNotes, strayed>>
  BY <1>7 DEF ChangePreference, Pending
<1>8. ASSUME NEW o \in OptionsPage, Request(o)
      PROVE  UNCHANGED <<SeenNotes, SeenSettings, strayed>>
  <2>1. CASE BeginJournal(o)
    BY <2>1, JournalBegins DEF BeginJournal
  <2>2. CASE Start(o) \/ MakePlan(o) \/ LoadView(o)
    BY <1>1, <2>2 DEF Start, MakePlan, LoadView
  <2>. QED
    BY <1>8, <2>1, <2>2 DEF Request
<1>9. ASSUME NEW p \in Page, NEW record \in Record, Store(p, record),
             ~ Pending, journal' = journal, settings' = settings
      PROVE  /\ Store(p, record) /\ SeenNotes' = [SeenNotes EXCEPT ![p] = record]
             /\ UNCHANGED SeenSettings
  BY <1>9 DEF Store, Pending
<1>10. ASSUME NEW w \in Panel, Edit(w)
       PROVE  \/ UNCHANGED <<SeenNotes, SeenSettings, strayed>>
              \/ /\ \E p \in Page, record \in Record :
                      /\ Store(p, record) /\ SeenNotes' = [SeenNotes EXCEPT ![p] = record]
                 /\ ~ Pending /\ UNCHANGED SeenSettings
  <2>1. CASE PutNote(w)
    <3>1. panel[w].page \in Page /\ panel[w].save \in Record
      BY <1>0, <2>1 DEF PutNote, TypeOK, Slot
    <3>. QED
      BY <1>9, <2>1, <3>1 DEF PutNote
  <2>2. CASE ShowPage(w) \/ BeginSave(w) \/ PutRejected(w)
    BY <1>1, <2>2 DEF ShowPage, BeginSave, PutRejected
  <2>. QED
    BY <1>10, <2>1, <2>2 DEF Edit
<1>11. ASSUME Download
       PROVE  /\ \E p \in Page, record \in Record :
                   /\ Store(p, record) /\ SeenNotes' = [SeenNotes EXCEPT ![p] = record]
              /\ ~ Pending /\ UNCHANGED SeenSettings
  <2>1. revision + 1 \in Nat
    BY <1>0, MaxRevisionAssumption DEF TypeOK
  <2>2. PICK rules \in ForeignRules, url \in Page, texts \in {{}} \cup {{t} : t \in Text} :
          Store(Identity(url, rules), [url |-> url, texts |-> texts, revision |-> revision + 1])
    BY <1>11 DEF Download
  <2>3. [url |-> url, texts |-> texts, revision |-> revision + 1] \in Record
    BY <2>1 DEF Record
  <2>4. Identity(url, rules) \in Page
    BY IdentityType
  <2>. QED
    BY <1>9, <1>11, <2>2, <2>3, <2>4 DEF Download
<1>12. CASE UNCHANGED vars
  BY <1>1, <1>12 DEF vars, stored
<1>13. ASSUME NEW c \in Context, Disturb(c)
       PROVE  \/ UNCHANGED <<SeenNotes, SeenSettings, strayed>>
              \/ ChangePreference(c)
  BY <1>6, <1>13 DEF Disturb
<1>. HIDE DEF SeenNotes, SeenSettings
<1>. QED
  BY <1>4, <1>5, <1>7, <1>8, <1>10, <1>11, <1>12, <1>13 DEF Next

(* Migrations, however interrupted and interleaved with saves, downloads,  *)
(* other settings and other executors, implement the atomic specification. *)
THEOREM MigrationImplementsAtomic == Spec => ImplementsAtomic
<1>1. Init => Atomic!Init
  BY AtomicSets DEF Init, Atomic!Init, EmptyPages, Pending
<1>2. InvType /\ JournalInv /\ [Next]_vars => [Atomic!Next]_(Atomic!vars)
  <2>. SUFFICES ASSUME InvType, JournalInv, [Next]_vars
                PROVE  [Atomic!Next]_(Atomic!vars)
    OBVIOUS
  <2>1. CASE UNCHANGED <<SeenNotes, SeenSettings, strayed>>
    BY <2>1 DEF SeenNotes, SeenSettings, Atomic!vars
  <2>2. ASSUME NEW p \in Page, NEW record \in Record,
               SeenNotes' = [SeenNotes EXCEPT ![p] = record], UNCHANGED SeenSettings
        PROVE  Atomic!StoreNote
    <3>1. SeenNotes \in Notes
      BY JournalType DEF InvType, TypeOK, SeenNotes
    <3>2. SeenNotes'[p] = record /\ SeenNotes' = [SeenNotes EXCEPT ![p] = SeenNotes'[p]]
      BY <2>2, <3>1 DEF Notes
    <3>. QED
      BY <2>2, <3>2, AtomicSets DEF SeenNotes, SeenSettings, Atomic!StoreNote
  <2>3. ASSUME NEW v \in Preference, SeenSettings' = [SeenSettings EXCEPT !.preference = v],
               UNCHANGED SeenNotes
        PROVE  Atomic!ChangePreference
    BY <2>3 DEF SeenNotes, SeenSettings, Atomic!ChangePreference
  <2>4. ASSUME OneExclusion(SeenSettings, SeenSettings'), SeenSettings' \in Settings,
               SeenNotes' \in Notes,
               \A p \in Page : Atomic!MovedTo(p, SeenNotes, SeenNotes', SeenSettings'.rules)
        PROVE  Atomic!Migrate
    BY <2>4, AtomicSets, AtomicChanges DEF SeenNotes, SeenSettings, Atomic!Migrate
  <2>. QED
    BY <2>1, <2>2, <2>3, <2>4, SeenStep DEF Atomic!Next
<1>. QED
  BY <1>1, <1>2, JournalAlways, PTL DEF Spec, ImplementsAtomic, Atomic!Spec

-----------------------------------------------------------------------------
(* The note of a page that has not strayed is at its identity, as seen     *)
(* from outside.                                                           *)
ReachInv ==
  \A p \in Page \ strayed :
    Live(SeenNotes[p]) => Identity(SeenNotes[p].url, SeenSettings.rules) = p

(* A migration leaves every live note at its identity. *)
LEMMA MigrationReaches ==
  ASSUME NEW before, NEW after, NEW rules, NEW p \in Page,
         Atomic!MovedTo(p, before, after, rules), Live(after[p])
  PROVE  Identity(after[p].url, rules) = p
<1>1. CASE Group(before, rules, p) = {p}
  <2>1. after[p] = before[p] /\ p \in Group(before, rules, p)
    BY <1>1, AtomicGroups DEF Atomic!MovedTo
  <2>. QED
    BY <2>1 DEF Group
<1>2. CASE Group(before, rules, p) = {}
  BY <1>2, AtomicGroups DEF Atomic!MovedTo, Live
<1>3. CASE Group(before, rules, p) # {} /\ Group(before, rules, p) # {p}
  BY <1>3, AtomicGroups DEF Atomic!MovedTo, Group
<1>. QED
  BY <1>1, <1>2, <1>3

(* With no migration pending, a live note is where the panel looks for it, *)
(* unless it was stored under an identity from other rules.                *)
THEOREM NotesStayReachable == Spec => []ReachableUnlessStrayed
<1>1. Init => ReachInv
  BY AbsentAssumption DEF Init, ReachInv, SeenNotes, Pending, EmptyPages, Live
<1>2. InvType /\ JournalInv /\ ReachInv /\ [Next]_vars => ReachInv'
  <2>. SUFFICES ASSUME InvType, JournalInv, ReachInv, [Next]_vars,
                       NEW p \in Page, p \notin strayed', Live(SeenNotes'[p])
                PROVE  Identity(SeenNotes'[p].url, SeenSettings'.rules) = p
    BY DEF ReachInv
  <2>0. SeenNotes \in Notes /\ SeenSettings \in Settings
    BY JournalType DEF InvType, TypeOK, SeenNotes, SeenSettings
  <2>1. CASE UNCHANGED <<SeenNotes, SeenSettings, strayed>>
    BY <2>1 DEF ReachInv
  <2>2. ASSUME NEW r \in Page, NEW record \in Record, Store(r, record), ~ Pending,
               SeenNotes' = [SeenNotes EXCEPT ![r] = record], UNCHANGED SeenSettings
        PROVE  Identity(SeenNotes'[p].url, SeenSettings'.rules) = p
    <3>1. SeenSettings.rules = settings.rules
      BY <2>2 DEF SeenSettings
    <3>2. CASE p = r
      BY <2>0, <2>2, <3>1, <3>2 DEF Store, Notes
    <3>3. CASE p # r
      BY <2>0, <2>2, <3>3 DEF Store, Notes, ReachInv
    <3>. QED
      BY <3>2, <3>3
  <2>3. ASSUME NEW v \in Preference, SeenSettings' = [SeenSettings EXCEPT !.preference = v],
               UNCHANGED <<SeenNotes, strayed>>
        PROVE  Identity(SeenNotes'[p].url, SeenSettings'.rules) = p
    BY <2>0, <2>3 DEF ReachInv, Settings
  <2>4. ASSUME \A r \in Page : Atomic!MovedTo(r, SeenNotes, SeenNotes', SeenSettings'.rules)
        PROVE  Identity(SeenNotes'[p].url, SeenSettings'.rules) = p
    BY <2>4, MigrationReaches
  <2>. QED
    BY <2>1, <2>2, <2>3, <2>4, SeenStep
<1>3. ReachInv => ReachableUnlessStrayed
  BY DEF ReachInv, ReachableUnlessStrayed, SeenNotes, SeenSettings
<1>. QED
  BY <1>1, <1>2, <1>3, JournalAlways, PTL DEF Spec

-----------------------------------------------------------------------------
(* Pending migrations only move forward. *)

(* Where writes of a plan are overlaid, pages that have changed stay.      *)
LEMMA ChangedStays ==
  ASSUME NEW plan, PlanFacts(plan), Progress(plan), NEW writes,
         writes \in {plan.destinations, plan.tombstones},
         NEW p \in Page, notes[p] # plan.sources[p]
  PROVE  Overlay(notes, writes)[p] = notes[p]
<1>1. Overlay(notes, writes)[p] = IF writes[p] = Absent THEN notes[p] ELSE writes[p]
  BY DEF Overlay
<1>2. plan.destinations[p] = Absent \/ plan.tombstones[p] = Absent
  BY DEF PlanFacts
<1>3. \/ plan.destinations[p] # Absent /\ notes[p] = plan.destinations[p]
      \/ plan.tombstones[p] # Absent /\ notes[p] = plan.tombstones[p]
  BY DEF Progress
<1>. QED
  BY <1>1, <1>2, <1>3

(* A step while a migration is pending leaves the journal, moves its phase *)
(* or removes it.                                                          *)
LEMMA JournalWriters ==
  ASSUME InvType, JournalInv, [Next]_vars, Pending
  PROVE  \/ journal' = journal
         \/ \E phase \in 0 .. 3 : journal' = WithPhase(phase)
         \/ /\ journal' = Absent /\ ConsistentPhase(SettingsApplied, journal.plan)
            /\ notes' = notes /\ settings' = settings
<1>1. CASE UNCHANGED vars
  BY <1>1 DEF vars
<1>2. ASSUME NEW c \in Context, Execute(c) \/ Interrupted(c) \/ TornWrite(c)
      PROVE  \/ journal' = journal
             \/ \E phase \in 0 .. 3 : journal' = WithPhase(phase)
             \/ Finalize(c)
  BY <1>2 DEF Execute, Resume, ApplyDestinations, ApplyTombstones, ApplySettings, Rejected,
     Interrupted, TornWrite, stored, DestinationsApplied, TombstonesApplied, SettingsApplied
<1>3. ASSUME NEW c \in Context, Finalize(c)
      PROVE  /\ journal' = Absent /\ ConsistentPhase(SettingsApplied, journal.plan)
             /\ notes' = notes /\ settings' = settings
  BY <1>3 DEF Finalize, CanFinalize, ConsistentPhase
<1>4. ASSUME NEW o \in OptionsPage, Request(o)
      PROVE  journal' = journal
  BY <1>4 DEF Request, Start, MakePlan, BeginJournal, CanBegin, LoadView, stored
<1>5. ASSUME NEW w \in Panel, Edit(w)
      PROVE  journal' = journal
  BY <1>5 DEF Edit, ShowPage, BeginSave, PutNote, PutRejected, stored
<1>. QED
  BY <1>1, <1>2, <1>3, <1>4, <1>5 DEF Next, Disturb, ChangePreference, Download

(* ... and writes notes and settings only as the plan asks.                *)
LEMMA PendingWriters ==
  ASSUME InvType, JournalInv, [Next]_vars, Pending
  PROVE  /\ \A p \in Page :
              \/ notes'[p] = notes[p]
              \/ notes'[p] = Overlay(notes, journal.plan.destinations)[p]
              \/ notes'[p] = Overlay(notes, journal.plan.tombstones)[p]
         /\ settings' \in {settings, journal.plan.requested}
<1>1. CASE UNCHANGED vars
  BY <1>1 DEF vars
<1>2. ASSUME NEW c \in Context, Execute(c) \/ Interrupted(c)
      PROVE  /\ notes' \in {notes, Overlay(notes, journal.plan.destinations),
                            Overlay(notes, journal.plan.tombstones)}
             /\ settings' \in {settings, journal.plan.requested}
  BY <1>2 DEF Execute, Resume, ApplyDestinations, ApplyTombstones, ApplySettings, Rejected,
     Finalize, Interrupted, stored
<1>3. ASSUME NEW c \in Context, TornWrite(c)
      PROVE  /\ \A p \in Page :
                  \/ notes'[p] = notes[p]
                  \/ notes'[p] = Overlay(notes, journal.plan.destinations)[p]
                  \/ notes'[p] = Overlay(notes, journal.plan.tombstones)[p]
             /\ settings' \in {settings, journal.plan.requested}
  <2>1. CASE At(c, "settings")
    BY <1>3, <2>1 DEF TornWrite
  <2>2. CASE ~ At(c, "settings")
    <3>1. PICK S \in SUBSET Page :
            notes' = [q \in Page |-> IF q \in S THEN Overlay(notes,
                        IF At(c, "destinations") THEN journal.plan.destinations
                                                 ELSE journal.plan.tombstones)[q] ELSE notes[q]]
      BY <1>3, <2>2 DEF TornWrite
    <3>2. settings' = settings
      BY <1>3, <2>2 DEF TornWrite
    <3>. QED
      BY <3>1, <3>2
  <2>. QED
    BY <2>1, <2>2
<1>4. ASSUME NEW o \in OptionsPage, Request(o)
      PROVE  UNCHANGED <<notes, settings>>
  BY <1>4 DEF Request, Start, MakePlan, BeginJournal, LoadView, stored
<1>5. ASSUME NEW w \in Panel, Edit(w)
      PROVE  UNCHANGED <<notes, settings>>
  BY <1>5 DEF Edit, ShowPage, BeginSave, PutNote, PutRejected, stored
<1>. QED
  BY <1>1, <1>2, <1>3, <1>4, <1>5 DEF Next, Disturb, ChangePreference, Download

(* No executor, however late, takes back what another one has applied, and *)
(* none drops a migration half done.                                       *)
THEOREM MigrationNeverGoesBack == Spec => MigrationNeverUndone
<1>. DEFINE Forward ==
       Pending =>
         LET plan == journal.plan
         IN /\ \A p \in Page : notes[p] # plan.sources[p] => notes'[p] = notes[p]
            /\ settings # plan.current => settings' = settings
            /\ Pending' => journal'.plan = plan /\ journal'.phase >= journal.phase
            /\ ~ Pending' => ConsistentPhase(SettingsApplied, plan)
<1>1. ASSUME InvType, JournalInv, [Next]_vars
      PROVE  Forward
  <2>. SUFFICES ASSUME Pending
       PROVE  /\ \A p \in Page : notes[p] # journal.plan.sources[p] => notes'[p] = notes[p]
              /\ settings # journal.plan.current => settings' = settings
              /\ Pending' => journal'.plan = journal.plan /\ journal'.phase >= journal.phase
              /\ ~ Pending' => ConsistentPhase(SettingsApplied, journal.plan)
    OBVIOUS
  <2>1. PlanFacts(journal.plan) /\ Progress(journal.plan)
    BY <1>1 DEF JournalInv
  <2>2. \A p \in Page : notes[p] # journal.plan.sources[p] => notes'[p] = notes[p]
    BY <1>1, <2>1, ChangedStays, PendingWriters
  <2>3. settings # journal.plan.current => settings' = settings
    <3>1. settings' \in {settings, journal.plan.requested}
      BY <1>1, PendingWriters
    <3>. QED
      BY <2>1, <3>1 DEF Progress
  <2>4. journal \in Journal /\ journal.phase \in 0 .. 3
    BY <1>1, JournalType DEF InvType
  <2>5. ASSUME NEW phase \in 0 .. 3, journal' = WithPhase(phase)
        PROVE  /\ journal'.plan = journal.plan /\ journal'.phase >= journal.phase
               /\ Pending'
    BY <2>4, <2>5, WithPhaseType DEF Pending
  <2>6. CASE journal' = journal
    BY <2>2, <2>3, <2>4, <2>6 DEF Pending
  <2>7. CASE journal' = Absent /\ ConsistentPhase(SettingsApplied, journal.plan)
    BY <2>2, <2>3, <2>7 DEF Pending
  <2>. QED
    BY <1>1, <2>2, <2>3, <2>5, <2>6, <2>7, JournalWriters
<1>2. InvType /\ JournalInv /\ [Next]_vars => [Forward]_vars
  BY <1>1
<1>. QED
  BY JournalAlways, <1>2, PTL DEF Spec, MigrationNeverUndone

-----------------------------------------------------------------------------
(* Records are at identities of their URLs. *)

Homed(record, p) == \E rules \in SUBSET Param : Identity(record.url, rules) = p

(* What is stored, about to be stored or planned for.                      *)
HomedInv ==
  /\ \A p \in Page : notes[p] # Absent => Homed(notes[p], p)
  /\ \A w \in Panel : /\ Homed(panel[w], panel[w].page)
                      /\ panel[w].save # Absent => Homed(panel[w].save, panel[w].page)
  /\ Pending => \A p \in Page : journal.plan.sources[p] # Absent
                                  => Homed(journal.plan.sources[p], p)

(* Without exclusions a URL is its own identity. *)
LEMMA IdentityPlain ==
  ASSUME NEW url \in Page
  PROVE  Identity(url, {}) = url
BY DEF Page, Identity

(* Initially nothing is stored, and panels show pages without exclusions.  *)
LEMMA HomedInit == Init => HomedInv
<1>. SUFFICES ASSUME Init, NEW w \in Panel
              PROVE  /\ Homed(panel[w], panel[w].page) /\ panel[w].save = Absent
  BY DEF Init, HomedInv, EmptyPages, Pending
<1>1. PICK u \in Page : panel[w] = [url |-> u, page |-> u, save |-> Absent]
  BY DEF Init
<1>. QED
  BY <1>1, IdentityPlain DEF Homed

(* A migration writes to identities under the current or requested rules.  *)
LEMMA HomedPending ==
  ASSUME InvType, JournalInv, HomedInv, [Next]_vars, Pending, NEW p \in Page,
         notes'[p] # Absent
  PROVE  Homed(notes'[p], p)
<1>. DEFINE plan == journal.plan
<1>1. /\ PlanFacts(plan) /\ plan.requested.rules \in SUBSET Param
      /\ plan.sources \in Notes
  BY JournalType DEF JournalInv, InvType, Settings
<1>2. CASE notes'[p] = notes[p]
  BY <1>2 DEF HomedInv
<1>3. ASSUME plan.destinations[p] # Absent
      PROVE  Homed(plan.destinations[p], p)
  <2>1. PICK q \in Group(plan.sources, plan.requested.rules, p) :
          plan.destinations[p].url = plan.sources[q].url
    BY <1>1, <1>3 DEF PlanFacts
  <2>. QED
    BY <1>1, <2>1 DEF Group, Homed
<1>4. ASSUME plan.tombstones[p] # Absent
      PROVE  Homed(plan.tombstones[p], p)
  <2>1. plan.tombstones[p].url = plan.sources[p].url /\ Live(plan.sources[p])
    BY <1>1, <1>4 DEF PlanFacts, Moving
  <2>. QED
    BY <2>1 DEF HomedInv, Homed, Live
<1>. QED
  BY <1>2, <1>3, <1>4, PendingWriters DEF Overlay

(* Saves and downloads store at identities.                                *)
LEMMA HomedStored ==
  ASSUME InvType, HomedInv, [Next]_vars, ~ Pending, NEW p \in Page, notes'[p] # Absent
  PROVE  Homed(notes'[p], p)
<1>. USE DEF InvType, TypeOK
<1>1. CASE notes' = notes
  BY <1>1 DEF HomedInv
<1>2. ASSUME NEW q \in Page, NEW record, Homed(record, q), Store(q, record)
      PROVE  Homed(notes'[p], p)
  <2>1. notes'[p] = IF p = q THEN record ELSE notes[p]
    BY <1>2 DEF Store, Notes
  <2>. QED
    BY <1>2, <2>1 DEF HomedInv
<1>3. ASSUME NEW w \in Panel, PutNote(w)
      PROVE  Homed(notes'[p], p)
  <2>1. panel[w].page \in Page /\ Homed(panel[w].save, panel[w].page)
    BY <1>3 DEF PutNote, HomedInv
  <2>. QED
    BY <1>2, <1>3, <2>1 DEF PutNote
<1>4. ASSUME Download
      PROVE  Homed(notes'[p], p)
  <2>1. PICK rules \in ForeignRules, url \in Page, texts \in {{}} \cup {{t} : t \in Text} :
          Store(Identity(url, rules), [url |-> url, texts |-> texts, revision |-> revision + 1])
    BY <1>4 DEF Download
  <2>2. /\ Identity(url, rules) \in Page
        /\ Homed([url |-> url, texts |-> texts, revision |-> revision + 1],
                 Identity(url, rules))
    BY IdentityType, ForeignRulesAssumption DEF Homed
  <2>. QED
    BY <1>2, <2>1, <2>2
<1>5. ASSUME NEW c \in Context, Execute(c) \/ Disturb(c)
      PROVE  notes' = notes
  BY <1>5 DEF Execute, Resume, ApplyDestinations, ApplyTombstones, ApplySettings, Rejected,
     Finalize, CanFinalize, Disturb, Interrupted, TornWrite, ChangePreference, CanApply,
     Undisturbed, stored
<1>6. ASSUME NEW o \in OptionsPage, Request(o)
      PROVE  notes' = notes
  BY <1>6 DEF Request, Start, MakePlan, BeginJournal, LoadView, stored
<1>7. ASSUME NEW w \in Panel, Edit(w), ~ PutNote(w)
      PROVE  notes' = notes
  BY <1>7 DEF Edit, ShowPage, BeginSave, PutRejected, stored
<1>8. UNCHANGED vars => notes' = notes
  BY DEF vars
<1>. QED
  BY <1>1, <1>3, <1>4, <1>5, <1>6, <1>7, <1>8 DEF Next

(* A side panel's page is an identity of its URL, and so is that of the    *)
(* record it saves: an edited note has the panel's URL, a cleared one its  *)
(* own.                                                                    *)
LEMMA HomedPanel ==
  ASSUME InvType, HomedInv, [Next]_vars, NEW v \in Panel
  PROVE  /\ Homed(panel'[v], panel'[v].page)
         /\ panel'[v].save # Absent => Homed(panel'[v].save, panel'[v].page)
<1>0. /\ panel \in [Panel -> [url : Page, page : Page, save : Slot]]
      /\ Homed(panel[v], panel[v].page) /\ settings.rules \in SUBSET Param
      /\ panel[v].save # Absent => Homed(panel[v].save, panel[v].page)
  BY DEF InvType, TypeOK, HomedInv, Settings
<1>1. CASE panel'[v] = panel[v]
  BY <1>0, <1>1
<1>2. CASE ShowPage(v)
  <2>1. PICK url \in Page : panel'[v] = [url |-> url, page |-> Identity(url, settings.rules),
                                         save |-> Absent]
    BY <1>0, <1>2 DEF ShowPage
  <2>. QED
    BY <1>0, <2>1 DEF Homed
<1>3. CASE BeginSave(v)
  <2>. DEFINE existing == notes[panel[v].page]
  <2>1. \/ /\ Live(existing)
           /\ panel' = [panel EXCEPT ![v].save =
                [existing EXCEPT !.texts = {}, !.revision = revision + 1]]
        \/ \E t \in Text :
             panel' = [panel EXCEPT ![v].save =
                  [url |-> panel[v].url, texts |-> {t}, revision |-> revision + 1]]
    BY <1>3 DEF BeginSave
  <2>2. panel'[v].page = panel[v].page /\ panel'[v].url = panel[v].url
    BY <1>0, <2>1
  <2>3. CASE Live(existing) /\ panel' = [panel EXCEPT ![v].save =
                [existing EXCEPT !.texts = {}, !.revision = revision + 1]]
    <3>1. existing \in Record /\ Homed(existing, panel[v].page)
      BY <1>0, <2>3, LiveRecords DEF InvType, TypeOK, HomedInv, Live
    <3>2. panel'[v].save.url = existing.url
      BY <1>0, <2>3, <3>1 DEF Record
    <3>. QED
      BY <1>0, <2>2, <3>1, <3>2 DEF Homed
  <2>4. ASSUME NEW t \in Text, panel' = [panel EXCEPT ![v].save =
                  [url |-> panel[v].url, texts |-> {t}, revision |-> revision + 1]]
        PROVE  /\ Homed(panel'[v], panel'[v].page)
               /\ Homed(panel'[v].save, panel'[v].page)
    <3>1. panel'[v].save.url = panel[v].url
      BY <1>0, <2>4
    <3>. QED
      BY <1>0, <2>2, <3>1 DEF Homed
  <2>. QED
    BY <2>1, <2>3, <2>4
<1>4. CASE PutNote(v) \/ PutRejected(v)
  <2>1. panel'[v] = [panel[v] EXCEPT !.save = Absent]
    BY <1>0, <1>4 DEF PutNote, PutRejected
  <2>. QED
    BY <1>0, <2>1 DEF Homed
<1>5. ASSUME NEW w \in Panel, w # v, Edit(w)
      PROVE  panel'[v] = panel[v]
  BY <1>0, <1>5 DEF Edit, ShowPage, BeginSave, PutNote, PutRejected
<1>6. ASSUME NEW c \in Context, Execute(c) \/ Disturb(c)
      PROVE  panel' = panel
  BY <1>6 DEF Execute, Resume, ApplyDestinations, ApplyTombstones, ApplySettings, Rejected,
     Finalize, Disturb, Interrupted, TornWrite, ChangePreference
<1>7. ASSUME NEW o \in OptionsPage, Request(o)
      PROVE  panel' = panel
  BY <1>7 DEF Request, Start, MakePlan, BeginJournal, LoadView
<1>8. (UNCHANGED vars \/ Download) => panel' = panel
  BY DEF vars, Download
<1>. QED
  BY <1>1, <1>2, <1>3, <1>4, <1>5, <1>6, <1>7, <1>8 DEF Next, Edit

(* Only a begun journal brings a plan, for the notes of that moment.       *)
LEMMA PendingBegins ==
  ASSUME InvType, [Next]_vars, ~ Pending, Pending'
  PROVE  notes' = notes /\ journal'.plan.sources = notes
<1>1. ASSUME NEW o \in OptionsPage, BeginJournal(o)
      PROVE  notes' = notes /\ journal'.plan.sources = notes
  BY <1>1, JournalBegins DEF BeginJournal
<1>2. ASSUME NEW c \in Context, Execute(c) \/ Disturb(c)
      PROVE  journal' = journal
  BY <1>2 DEF Execute, Resume, ApplyDestinations, ApplyTombstones, ApplySettings, Rejected,
     Finalize, CanFinalize, Disturb, Interrupted, TornWrite, ChangePreference, CanApply,
     Undisturbed, stored
<1>3. ASSUME NEW o \in OptionsPage, Request(o), ~ BeginJournal(o)
      PROVE  journal' = journal
  BY <1>3 DEF Request, Start, MakePlan, LoadView, stored
<1>4. ASSUME NEW w \in Panel, Edit(w)
      PROVE  journal' = journal
  BY <1>4 DEF Edit, ShowPage, BeginSave, PutNote, PutRejected, stored
<1>5. (UNCHANGED vars \/ Download) => journal' = journal
  BY DEF vars, Download
<1>. QED
  BY <1>1, <1>2, <1>3, <1>4, <1>5 DEF Next, Pending

(* Every step keeps records at identities of their URLs.                   *)
LEMMA HomedStep == InvType /\ JournalInv /\ HomedInv /\ [Next]_vars => HomedInv'
<1>. SUFFICES ASSUME InvType, JournalInv, HomedInv, [Next]_vars PROVE HomedInv'
  OBVIOUS
<1>1. \A p \in Page : notes'[p] # Absent => Homed(notes'[p], p)
  BY HomedPending, HomedStored
<1>2. \A w \in Panel : /\ Homed(panel'[w], panel'[w].page)
                       /\ panel'[w].save # Absent => Homed(panel'[w].save, panel'[w].page)
  BY HomedPanel
<1>3. ASSUME Pending', NEW p \in Page, journal'.plan.sources[p] # Absent
      PROVE  Homed(journal'.plan.sources[p], p)
  <2>1. CASE ~ Pending
    BY <1>3, <2>1, PendingBegins DEF HomedInv
  <2>2. CASE Pending
    <3>1. journal'.plan = journal.plan
      BY <1>3, <2>2, JournalWriters, JournalType, WithPhaseType DEF InvType, Pending
    <3>. QED
      BY <1>3, <2>2, <3>1 DEF HomedInv
  <2>. QED
    BY <2>1, <2>2
<1>. QED
  BY <1>1, <1>2, <1>3 DEF HomedInv, Homed

(* Merges, tombstones, clears and saves from outdated panels included, a   *)
(* record is always at an identity of its URL.                             *)
THEOREM RecordsAlwaysAtIdentities == Spec => []RecordsAtIdentities
<1>1. HomedInv => RecordsAtIdentities
  BY DEF HomedInv, Homed, RecordsAtIdentities
<1>. QED
  BY JournalAlways, HomedInit, HomedStep, <1>1, PTL DEF Spec

(* With a single parameter to exclude, planning admits every record there  *)
(* can be, strayed ones included: what MigrationNextExclusion refutes for  *)
(* two holds for one.                                                      *)
THEOREM OneParameterPlannable ==
  ASSUME NEW x, Param = {x}
  PROVE  Spec => []SettingsChangePlannable
<1>1. TypeOK /\ RecordsAtIdentities => SettingsChangePlannable
  <2>. SUFFICES ASSUME TypeOK, RecordsAtIdentities, NEW requested \in Settings,
                       OneExclusion(settings, requested), NEW p \in Page, notes[p] # Absent
                PROVE  p \in {Identity(notes[p].url, settings.rules),
                              Identity(notes[p].url, requested.rules)}
    BY DEF SettingsChangePlannable, Legitimate
  <2>1. PICK rules \in SUBSET Param : Identity(notes[p].url, rules) = p
    BY DEF RecordsAtIdentities
  <2>2. settings.rules \in {{}, {x}} /\ rules \in {{}, {x}}
    BY DEF TypeOK, Settings
  <2>3. requested.rules = IF x \in settings.rules THEN {} ELSE {x}
    BY <2>2 DEF OneExclusion
  <2>. QED
    BY <2>1, <2>2, <2>3
<1>. QED
  BY MigrationTypeCorrect, RecordsAlwaysAtIdentities, <1>1, PTL
=============================================================================
