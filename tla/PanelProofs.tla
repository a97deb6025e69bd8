----------------------------- MODULE PanelProofs -----------------------------
(***************************************************************************)
(* Proofs about the side panel.  PageNoteDraft's operators preserve an     *)
(* invariant of one draft and the note of its page (DraftInv); the panel's *)
(* actions preserve that, and what the panel says of sessions, commits and *)
(* owners (PanelInv).                                                      *)
(***************************************************************************)
EXTENDS PanelSession, TLAPS

(* What a save under way says of the content and of the stored note n.     *)
SavingInv(d, n) ==
  d.saving # Nothing =>
    /\ d.handled < d.saving.revision /\ d.saving.revision <= d.revision
    /\ d.saving.revision <= d.eligible
    /\ n <= d.saving.text /\ d.saving.text <= d.text
    /\ d.saving.revision = d.revision => d.saving.text = d.text
    /\ d.saving.stored => n = d.saving.text
    /\ d.drain \/ d.flush

(* What is scheduled for content that is not saved.                        *)
ScheduleInv(d) ==
  /\ d.timer => Unsaved(d) /\ d.eligible < d.revision /\ ~ d.flush
  /\ d.flush => d.saving # Nothing
  /\ d.stop => d.flush /\ d.life = "stopping"
  /\ Unsaved(d) /\ ~ d.flush /\ d.life = "started" /\ d.eligible < d.revision => d.timer

(* A draft and the stored note n of its page.                              *)
DraftInv(d, n) ==
  /\ d \in Draft /\ n \in Nat
  /\ d.handled <= d.revision /\ d.eligible <= d.revision
  /\ d.load # "ready" => d.revision = 0 /\ d.text = 0
  /\ d.load = "ready" => n <= d.text /\ (Unsaved(d) \/ d.text = n)
  /\ d.phase = "saved" => ~ Unsaved(d)
  /\ SavingInv(d, n)
  /\ ScheduleInv(d)

(* Something brings unsaved content of a started draft to the storage.     *)
Underway(d) ==
  Unsaved(d) => d.timer \/ d.saving # Nothing \/ (d.life = "started" /\ d.phase = "error")

-----------------------------------------------------------------------------
(* Where the fields of a draft lie.                                        *)
LEMMA DraftTypes ==
  ASSUME NEW d \in Draft
  PROVE  /\ d.life \in {"started", "stopping", "stopped"}
         /\ d.load \in {"loading", "failed", "ready"}
         /\ d.phase \in {"idle", "saving", "saved", "error"}
         /\ d.text \in Nat /\ d.revision \in Nat /\ d.handled \in Nat /\ d.eligible \in Nat
         /\ d.timer \in BOOLEAN /\ d.drain \in BOOLEAN /\ d.flush \in BOOLEAN
         /\ d.stop \in BOOLEAN /\ d.saving \in Save \cup {Nothing}
  BY DEF Draft

LEMMA SaveTypes ==
  ASSUME NEW s \in Save
  PROVE  s.revision \in Nat /\ s.text \in Nat /\ s.stored \in BOOLEAN /\ s # Nothing
  BY NothingAssumption DEF Save

(* A new draft satisfies its invariant, whatever its page's note.          *)
LEMMA NewDraftInv ==
  ASSUME NEW n \in Nat
  PROVE  DraftInv(NewDraft, n) /\ ~ Unsaved(NewDraft)
  BY DEF DraftInv, SavingInv, ScheduleInv, NewDraft, Draft, Unsaved

(* A draft that has not loaded saves nothing.                              *)
LEMMA UnloadedSavesNothing ==
  ASSUME NEW d, NEW n, DraftInv(d, n), d.load # "ready"
  PROVE  ~ Unsaved(d) /\ d.saving = Nothing /\ ~ d.timer /\ ~ d.flush /\ ~ d.stop
  BY DraftTypes, SaveTypes DEF DraftInv, SavingInv, ScheduleInv, Unsaved

LEMMA LoadedInv ==
  ASSUME NEW d, NEW n, DraftInv(d, n), d.load = "loading"
  PROVE  /\ DraftInv(Loaded(d, n), n) /\ ~ Unsaved(Loaded(d, n))
         /\ DraftInv([d EXCEPT !.load = "failed"], n)
         /\ ~ Unsaved([d EXCEPT !.load = "failed"])
  <1>1. ~ Unsaved(d) /\ d.saving = Nothing /\ ~ d.timer /\ ~ d.flush /\ ~ d.stop
    BY UnloadedSavesNothing
  <1>2. /\ d \in Draft /\ n \in Nat /\ d.handled <= d.revision
        /\ d.revision = 0 /\ d.text = 0
    BY DEF DraftInv
  <1>3. Loaded(d, n) \in Draft /\ [d EXCEPT !.load = "failed"] \in Draft
    BY <1>2 DEF Loaded, Draft
  <1> QED
    BY <1>1, <1>2, <1>3, DraftTypes DEF DraftInv, SavingInv, ScheduleInv, Unsaved, Loaded, Draft

LEMMA ReloadInv ==
  ASSUME NEW d, NEW n, DraftInv(d, n), d.load = "failed"
  PROVE  LET e == [d EXCEPT !.load = "loading"] IN DraftInv(e, n) /\ ~ Unsaved(e)
  <1>1. ~ Unsaved(d) /\ d.saving = Nothing /\ ~ d.timer /\ ~ d.flush /\ ~ d.stop
    BY UnloadedSavesNothing
  <1>2. /\ d \in Draft /\ n \in Nat /\ d.handled <= d.revision
        /\ d.revision = 0 /\ d.text = 0
    BY DEF DraftInv
  <1>3. [d EXCEPT !.load = "loading"] \in Draft
    BY <1>2 DEF Draft
  <1> QED
    BY <1>1, <1>2, <1>3, DraftTypes DEF DraftInv, SavingInv, ScheduleInv, Unsaved, Draft

(* A save that starts reads the latest content.                            *)
LEMMA StartSaveInv ==
  ASSUME NEW d, NEW n,
         d \in Draft, n \in Nat, d.handled <= d.revision, d.load = "ready",
         n <= d.text, Unsaved(d), d.phase # "saved",
         SavingInv(d, n), d.eligible = d.revision,
         d.drain \/ d.flush, ~ d.timer, d.stop => d.flush /\ d.life = "stopping"
  PROVE  DraftInv(StartSave(d), n) /\ StartSave(d).saving # Nothing
  <1>1. CASE d.saving # Nothing
    <2>1. StartSave(d) = d
      BY <1>1 DEF StartSave
    <2> QED
      BY <1>1, <2>1, DraftTypes DEF DraftInv, ScheduleInv
  <1>2. CASE d.saving = Nothing
    <2> DEFINE s == [revision |-> d.revision, text |-> d.text, stored |-> FALSE]
    <2>0. d.revision \in Nat /\ d.text \in Nat
      BY DraftTypes
    <2>1. s \in Save
      BY <2>0 DEF Save
    <2>4. s # Nothing
      BY <2>1, NothingAssumption
    <2>2. StartSave(d) = [d EXCEPT !.saving = s]
      BY <1>2 DEF StartSave
    <2>3. [d EXCEPT !.saving = s] \in Draft
      BY <2>1 DEF Draft
    <2> QED
      BY <2>1, <2>2, <2>3, <2>4, DraftTypes DEF DraftInv, SavingInv, ScheduleInv, Unsaved, Draft
  <1> QED BY <1>1, <1>2

(* A save that starts changes nothing else.                                *)
LEMMA StartSaveKeeps ==
  ASSUME NEW d \in Draft
  PROVE  LET e == StartSave(d)
         IN /\ e.load = d.load /\ e.text = d.text /\ e.life = d.life /\ e.stop = d.stop
            /\ e.flush = d.flush /\ e.timer = d.timer /\ Unsaved(e) = Unsaved(d)
  BY DEF StartSave, Draft, Unsaved

(* A new revision of a started draft whose editor is open.                 *)
LEMMA ScheduledInv ==
  ASSUME NEW d, NEW n, DraftInv(d, n), Accepting(d), NEW t \in Nat, d.text <= t
  PROVE  LET e == Scheduled([d EXCEPT !.text = t])
         IN DraftInv(e, n) /\ Underway(e) /\ Accepting(e) /\ e.text = t /\ ~ e.stop
  <1> DEFINE e == Scheduled([d EXCEPT !.text = t])
  <1>1. /\ d \in Draft /\ n \in Nat /\ d.handled <= d.revision
        /\ d.load = "ready" /\ d.life = "started" /\ n <= d.text
        /\ SavingInv(d, n) /\ ScheduleInv(d)
    BY DEF DraftInv, Accepting
  <1>2. d.revision + 1 \in Nat /\ (~ d.flush) \in BOOLEAN
    BY <1>1, DraftTypes
  <1>3. e = [d EXCEPT !.text = t, !.revision = d.revision + 1, !.phase = "saving",
                      !.timer = ~ d.flush]
    BY <1>1 DEF Scheduled, Draft
  <1>4. e \in Draft
    BY <1>1, <1>2, <1>3 DEF Draft
  <1>5. /\ e.revision = d.revision + 1 /\ e.phase = "saving" /\ e.handled = d.handled
        /\ e.text = t /\ e.saving = d.saving /\ e.flush = d.flush /\ e.drain = d.drain
        /\ e.stop = d.stop /\ e.life = d.life /\ e.load = d.load /\ e.eligible = d.eligible
        /\ (e.timer <=> ~ d.flush)
    BY <1>1, <1>3 DEF Draft
  <1> HIDE DEF e
  <1>6. SavingInv(e, n)
    BY <1>1, <1>5, DraftTypes, SaveTypes DEF SavingInv
  <1>7. Unsaved(e)
    BY <1>1, <1>5, DraftTypes DEF Unsaved
  <1>8. ScheduleInv(e) /\ ~ e.stop
    <2>1. d.eligible <= d.revision /\ d.eligible \in Nat /\ d.revision \in Nat
      BY <1>1, DraftTypes DEF DraftInv
    <2>2. e.eligible < e.revision
      BY <1>5, <2>1
    <2> QED BY <1>1, <1>5, <1>7, <2>2 DEF ScheduleInv
  <1>9. Underway(e)
    BY <1>1, <1>5, <1>7 DEF Underway, ScheduleInv
  <1>10. e.text \in Nat /\ n <= e.text
    BY <1>1, <1>5, DraftTypes
  <1>11. DraftInv(e, n)
    BY <1>1, <1>4, <1>5, <1>6, <1>7, <1>8, <1>10, DraftTypes DEF DraftInv
  <1> QED BY <1>1, <1>5, <1>8, <1>9, <1>11 DEF e, Accepting

(* The debounce is over.                                                   *)
LEMMA DebouncedInv ==
  ASSUME NEW d, NEW n, DraftInv(d, n), d.timer
  PROVE  LET e == Debounced(d)
         IN /\ DraftInv(e, n) /\ Underway(e)
            /\ e.load = d.load /\ e.text = d.text /\ e.life = d.life /\ e.stop = d.stop
  <1> DEFINE c == [d EXCEPT !.timer = FALSE, !.eligible = d.revision, !.drain = TRUE]
  <1>1. d \in Draft /\ Unsaved(d) /\ d.load = "ready"
    BY UnloadedSavesNothing, DraftTypes DEF DraftInv, ScheduleInv
  <1>2. c \in Draft
    BY <1>1, DraftTypes DEF Draft
  <1>3. /\ ~ c.timer /\ c.eligible = d.revision /\ c.drain
        /\ c.life = d.life /\ c.load = d.load /\ c.phase = d.phase /\ c.text = d.text
        /\ c.revision = d.revision /\ c.handled = d.handled /\ c.flush = d.flush
        /\ c.stop = d.stop /\ c.saving = d.saving
    BY <1>1 DEF Draft
  <1> HIDE DEF c
  <1>4. SavingInv(c, n)
    BY <1>1, <1>3, DraftTypes, SaveTypes DEF DraftInv, SavingInv
  <1>5. DraftInv(StartSave(c), n) /\ StartSave(c).saving # Nothing
    BY <1>1, <1>2, <1>3, <1>4, StartSaveInv DEF DraftInv, ScheduleInv, Unsaved
  <1>6. StartSave(c).load = c.load /\ StartSave(c).text = c.text
        /\ StartSave(c).life = c.life /\ StartSave(c).stop = c.stop
    BY <1>2, StartSaveKeeps
  <1> QED
    BY <1>3, <1>5, <1>6 DEF Debounced, Underway, c

(* flushPendingSave.                                                       *)
LEMMA FlushingInv ==
  ASSUME NEW d, NEW n, DraftInv(d, n)
  PROVE  LET e == Flushing(d)
         IN /\ DraftInv(e, n)
            /\ e.load = d.load /\ e.text = d.text /\ e.life = d.life /\ e.stop = d.stop
            /\ Unsaved(d) => e.saving # Nothing /\ e.flush
            /\ Unsaved(e) = Unsaved(d)
            /\ ~ e.timer \/ ~ Unsaved(d) \/ d.flush
  <1> DEFINE c == [d EXCEPT !.timer = FALSE, !.flush = TRUE, !.eligible = d.revision]
  <1>1. CASE ~ Unsaved(d) \/ d.flush
    <2>1. Flushing(d) = d
      BY <1>1 DEF Flushing
    <2> QED BY <1>1, <2>1 DEF DraftInv, ScheduleInv
  <1>2. CASE Unsaved(d) /\ ~ d.flush
    <2>1. d \in Draft /\ Unsaved(d) /\ d.load = "ready"
      BY <1>2, UnloadedSavesNothing DEF DraftInv
    <2>2. c \in Draft
      BY <2>1, DraftTypes DEF Draft
    <2>3. /\ ~ c.timer /\ c.eligible = d.revision /\ c.flush
          /\ c.life = d.life /\ c.load = d.load /\ c.phase = d.phase /\ c.text = d.text
          /\ c.revision = d.revision /\ c.handled = d.handled /\ c.drain = d.drain
          /\ c.stop = d.stop /\ c.saving = d.saving
      BY <2>1 DEF Draft
    <2>4. Flushing(d) = StartSave(c)
      BY <1>2 DEF Flushing
    <2> HIDE DEF c
    <2>5. SavingInv(c, n)
      BY <2>1, <2>3, DraftTypes, SaveTypes DEF DraftInv, SavingInv
    <2>6. DraftInv(StartSave(c), n) /\ StartSave(c).saving # Nothing
      BY <2>1, <2>2, <2>3, <2>5, StartSaveInv DEF DraftInv, ScheduleInv, Unsaved
    <2>7. /\ StartSave(c).load = c.load /\ StartSave(c).text = c.text
          /\ StartSave(c).life = c.life /\ StartSave(c).stop = c.stop
          /\ StartSave(c).flush = c.flush /\ StartSave(c).timer = c.timer
          /\ Unsaved(StartSave(c)) = Unsaved(c)
      BY <2>2, StartSaveKeeps
    <2>8. Unsaved(c) = Unsaved(d)
      BY <2>3 DEF Unsaved
    <2> QED BY <2>3, <2>4, <2>6, <2>7, <2>8
  <1> QED BY <1>1, <1>2

(* stop: it waits for a flush, or all content is saved.                    *)
LEMMA StoppingInv ==
  ASSUME NEW d, NEW n, DraftInv(d, n)
  PROVE  LET e == Stopping(d)
         IN /\ e.life = "stopped" /\ d.load = "ready" => d.text = n
            /\ e.life # "stopped" =>
                 /\ DraftInv(e, n) /\ e.life = "stopping" /\ e.stop
                 /\ e.load = d.load /\ e.text = d.text
  <1> DEFINE c == [d EXCEPT !.life = "stopping", !.timer = FALSE]
             f == Flushing(c)
             g == [f EXCEPT !.stop = TRUE]
  <1>1. d \in Draft
    BY DEF DraftInv
  <1>2. c \in Draft
    BY <1>1 DEF Draft
  <1>3. /\ ~ c.timer /\ c.eligible = d.eligible /\ c.flush = d.flush
        /\ c.life = "stopping" /\ c.load = d.load /\ c.phase = d.phase /\ c.text = d.text
        /\ c.revision = d.revision /\ c.handled = d.handled /\ c.drain = d.drain
        /\ c.stop = d.stop /\ c.saving = d.saving
    BY <1>1 DEF Draft
  <1>4. CASE Unsaved(d)
    <2>1. Stopping(d) = g
      BY <1>4 DEF Stopping
    <2> HIDE DEF c
    <2>2. DraftInv(c, n) /\ Unsaved(c)
      BY <1>2, <1>3, <1>4 DEF DraftInv, SavingInv, ScheduleInv, Unsaved
    <2>3. /\ DraftInv(f, n) /\ f.load = d.load /\ f.text = d.text /\ f.life = "stopping"
          /\ f.saving # Nothing /\ f.flush /\ Unsaved(f)
      BY <1>3, <2>2, FlushingInv
    <2> HIDE DEF f
    <2>4. f \in Draft
      BY <2>3 DEF DraftInv
    <2>5. g \in Draft
      BY <2>4 DEF Draft
    <2>6. /\ g.timer = f.timer /\ g.eligible = f.eligible /\ g.flush = f.flush
          /\ g.life = f.life /\ g.load = f.load /\ g.phase = f.phase /\ g.text = f.text
          /\ g.revision = f.revision /\ g.handled = f.handled /\ g.drain = f.drain
          /\ g.stop /\ g.saving = f.saving
      BY <2>4 DEF Draft
    <2> HIDE DEF g
    <2>7. DraftInv(g, n)
      BY <2>3, <2>5, <2>6 DEF DraftInv, SavingInv, ScheduleInv, Unsaved
    <2> QED BY <2>1, <2>3, <2>6, <2>7
  <1>5. CASE ~ Unsaved(d)
    <2>1. Stopping(d) = [c EXCEPT !.life = "stopped"]
      BY <1>5 DEF Stopping
    <2>2. Stopping(d).life = "stopped"
      BY <1>2, <2>1 DEF Draft
    <2> QED BY <1>5, <2>2 DEF DraftInv
  <1> QED BY <1>4, <1>5

(* The note is stored: the save under way carries its text.                *)
LEMMA StoredInv ==
  ASSUME NEW d, NEW n, DraftInv(d, n), d.saving # Nothing
  PROVE  LET e == [d EXCEPT !.saving.stored = TRUE]
         IN /\ DraftInv(e, d.saving.text)
            /\ e.load = "ready" /\ e.load = d.load /\ e.text = d.text /\ e.life = d.life
            /\ e.stop = d.stop /\ e.saving # Nothing
            /\ n <= d.saving.text /\ d.saving.text <= d.text
            /\ n \in Nat /\ d.saving.text \in Nat /\ d.text \in Nat
  <1> DEFINE s == [d.saving EXCEPT !.stored = TRUE]
             e == [d EXCEPT !.saving = s]
  <1>1. d \in Draft /\ d.saving \in Save /\ d.load = "ready"
    BY DraftTypes, UnloadedSavesNothing DEF DraftInv
  <1>2. /\ s \in Save /\ s.revision = d.saving.revision /\ s.text = d.saving.text
        /\ s.text \in Nat
    BY <1>1 DEF Save
  <1>3. s # Nothing
    BY <1>2, NothingAssumption
  <1>4. e = [d EXCEPT !.saving.stored = TRUE]
    BY <1>1 DEF Draft
  <1>5. e \in Draft
    BY <1>1, <1>2 DEF Draft
  <1>6. /\ e.timer = d.timer /\ e.eligible = d.eligible /\ e.flush = d.flush
        /\ e.life = d.life /\ e.load = d.load /\ e.phase = d.phase /\ e.text = d.text
        /\ e.revision = d.revision /\ e.handled = d.handled /\ e.drain = d.drain
        /\ e.stop = d.stop /\ e.saving = s
    BY <1>1 DEF Draft
  <1>7. /\ d.handled < s.revision /\ s.revision <= d.revision /\ n <= s.text
        /\ s.text <= d.text /\ d.handled \in Nat /\ d.revision \in Nat
        /\ s.revision <= d.eligible /\ (s.revision = d.revision => s.text = d.text)
        /\ (d.drain \/ d.flush) /\ n \in Nat /\ d.text \in Nat
        /\ s.revision \in Nat
    BY <1>1, <1>2, DraftTypes, SaveTypes DEF DraftInv, SavingInv
  <1> HIDE DEF e, s
  <1>8. Unsaved(e) /\ Unsaved(d)
    BY <1>6, <1>7 DEF Unsaved
  <1>9. SavingInv(e, s.text)
    BY <1>2, <1>3, <1>6, <1>7 DEF SavingInv
  <1>10. ScheduleInv(e)
    BY <1>3, <1>6, <1>8 DEF DraftInv, ScheduleInv
  <1>11. DraftInv(e, s.text)
    BY <1>1, <1>2, <1>5, <1>6, <1>7, <1>8, <1>9, <1>10 DEF DraftInv
  <1> QED BY <1>1, <1>2, <1>3, <1>4, <1>6, <1>7, <1>11

(* What a save that settles writes into the draft.                         *)
Written(d, handled, drain, flush, eligible, phase, stop, life) ==
  [d EXCEPT !.saving = Nothing, !.handled = handled, !.drain = drain,
            !.flush = flush, !.eligible = eligible, !.phase = phase,
            !.stop = stop, !.life = life]

(* A save settles: the flush and the drain go on while content is unsaved, *)
(* and a stop that awaited the flush ends with it.                         *)
LEMMA SettledInv ==
  ASSUME NEW d, NEW n, DraftInv(d, n), d.saving # Nothing, d.life # "stopped"
  PROVE  LET e == Settled(d, d.saving.stored)
         IN /\ e.load = d.load /\ e.text = d.text
            /\ e.life = "stopped" => d.stop /\ d.text = n
            /\ e.life # "stopped" => DraftInv(e, n) /\ e.life = d.life
            /\ e.life = "started" => Underway(e)
            /\ e.flush => d.flush
            /\ e.stop => d.stop
  <1> DEFINE ok == d.saving.stored
             revision == d.saving.revision
             shown == d.saving.revision = d.revision
             rejected == ~ ok /\ revision = d.revision
             handled == IF ok /\ revision > d.handled THEN revision ELSE d.handled
             more == d.revision > handled /\ ~ rejected
             drain == d.drain /\ more /\ d.eligible >= d.revision
             flush == d.flush /\ more
             eligible == IF flush THEN d.revision ELSE d.eligible
             phase == IF shown /\ d.life = "started" THEN IF ok THEN "saved" ELSE "error"
                      ELSE d.phase
             stop == d.stop /\ flush
             life == IF d.stop /\ ~ more /\ ~ rejected THEN "stopped" ELSE d.life
             c == Written(d, handled, drain, flush, eligible, phase, stop, life)
             e == Settled(d, d.saving.stored)
  <1>1. e = IF drain \/ flush THEN StartSave(c) ELSE c
    BY DEF Settled, SettledWith, Written
  <1>2. /\ d \in Draft /\ d.saving \in Save /\ d.load = "ready" /\ n \in Nat
        /\ d.text \in Nat /\ d.revision \in Nat /\ d.handled \in Nat /\ d.eligible \in Nat
        /\ d.life \in {"started", "stopping"}
    BY DraftTypes, UnloadedSavesNothing DEF DraftInv
  <1>3. /\ d.handled < revision /\ revision <= d.revision /\ revision <= d.eligible
        /\ n <= d.text /\ (revision = d.revision /\ ok => d.text = n)
        /\ (d.drain \/ d.flush) /\ revision \in Nat
    BY <1>2, SaveTypes DEF DraftInv, SavingInv
  <1>4. /\ handled \in Nat /\ handled <= d.revision /\ eligible \in Nat
        /\ handled = (IF ok THEN revision ELSE d.handled)
    BY <1>2, <1>3
  <1>5. drain \in BOOLEAN /\ flush \in BOOLEAN /\ stop \in BOOLEAN
    OBVIOUS
  <1>6. phase \in {"idle", "saving", "saved", "error"} /\ life \in {"started", "stopping", "stopped"}
    BY <1>2, DraftTypes
  <1> HIDE DEF handled, drain, flush, eligible, phase, stop, life, more, rejected, shown, ok, revision
  <1>7. /\ c \in Draft
        /\ c.saving = Nothing /\ c.handled = handled /\ c.eligible = eligible
        /\ c.phase = phase /\ c.life = life /\ c.load = d.load /\ c.text = d.text
        /\ c.revision = d.revision /\ c.timer = d.timer
        /\ c.drain = drain /\ c.flush = flush /\ c.stop = stop
    <2> HIDE DEF c
    <2>1. c = Written(d, handled, drain, flush, eligible, phase, stop, life)
      BY DEF c
    <2>2. /\ d \in Draft /\ handled \in Nat /\ drain \in BOOLEAN /\ flush \in BOOLEAN
          /\ eligible \in Nat /\ phase \in {"idle", "saving", "saved", "error"}
          /\ stop \in BOOLEAN /\ life \in {"started", "stopping", "stopped"}
      BY <1>2, <1>4, <1>5, <1>6
    <2>3. PICK h \in Nat, dr \in BOOLEAN, fl \in BOOLEAN, el \in Nat,
               ph \in {"idle", "saving", "saved", "error"}, st \in BOOLEAN,
               li \in {"started", "stopping", "stopped"} :
            /\ h = handled /\ dr = drain /\ fl = flush /\ el = eligible
            /\ ph = phase /\ st = stop /\ li = life
      BY <2>2, Zenon
    <2>4. c = Written(d, h, dr, fl, el, ph, st, li)
      BY <2>1, <2>3
    <2> DEFINE w == Written(d, h, dr, fl, el, ph, st, li)
    <2>5. /\ w \in Draft
          /\ w.saving = Nothing /\ w.handled = h /\ w.eligible = el
          /\ w.phase = ph /\ w.life = li /\ w.load = d.load /\ w.text = d.text
          /\ w.revision = d.revision /\ w.timer = d.timer
          /\ w.drain = dr /\ w.flush = fl /\ w.stop = st
      BY <2>2 DEF Written, Draft
    <2> QED BY <2>3, <2>4, <2>5
  <1>8. /\ e.load = d.load /\ e.text = d.text /\ e.life = life /\ e.flush = flush
        /\ e.stop = stop
    BY <1>1, <1>7, StartSaveKeeps
  <1>9. Unsaved(c) <=> d.revision > handled
    BY <1>7 DEF Unsaved
  <1>10. ~ Unsaved(c) => d.text = n
    BY <1>2, <1>3, <1>4, <1>9
  <1>11. life = "stopped" => d.stop /\ ~ Unsaved(c)
    BY <1>2, <1>4, <1>9 DEF life, more, rejected
  <1>12. phase = "saved" => ~ Unsaved(c)
    <2>1. d.phase = "saved" => d.revision <= d.handled
      BY <1>2 DEF DraftInv, Unsaved
    <2>2. CASE shown /\ d.life = "started" /\ ok
      <3>1. handled = d.revision
        BY <1>4, <2>2 DEF shown, revision
      <3> QED BY <1>2, <1>9, <3>1
    <2>3. CASE shown /\ d.life = "started" /\ ~ ok
      <3>1. phase = "error"
        BY <2>3 DEF phase
      <3> QED BY <3>1
    <2>4. CASE ~ (shown /\ d.life = "started")
      <3>1. phase = d.phase
        BY <2>4 DEF phase
      <3> QED BY <1>2, <1>3, <2>1, <3>1
    <2> QED BY <2>2, <2>3, <2>4
  <1>13. /\ d.timer => Unsaved(d) /\ d.eligible < d.revision /\ ~ d.flush
         /\ d.stop => d.flush /\ d.life = "stopping"
         /\ Unsaved(d) /\ ~ d.flush /\ d.life = "started" /\ d.eligible < d.revision => d.timer
         /\ d.eligible <= d.revision
    BY DEF DraftInv, ScheduleInv
  <1>14. CASE drain \/ flush
    <2>1. more /\ Unsaved(c) /\ life = d.life
      BY <1>9, <1>14 DEF drain, flush, more, life
    <2>2. eligible = d.revision /\ ~ d.timer
      BY <1>2, <1>13, <1>14 DEF eligible, drain, flush
    <2>3. SavingInv(c, n)
      BY <1>7 DEF SavingInv
    <2>4. stop => flush /\ life = "stopping"
      BY <1>13, <2>1 DEF stop
    <2>5. DraftInv(StartSave(c), n) /\ StartSave(c).saving # Nothing
      BY <1>2, <1>3, <1>4, <1>7, <1>12, <1>14, <2>1, <2>2, <2>3, <2>4, StartSaveInv
    <2> QED
      BY <1>1, <1>2, <1>8, <1>14, <2>1, <2>5 DEF Underway, flush, stop
  <1>15. CASE ~ (drain \/ flush)
    <2>1. e = c
      BY <1>1, <1>15
    <2>2. ~ stop /\ ~ flush
      BY <1>15 DEF stop
    <2>3. eligible = d.eligible
      BY <1>15 DEF eligible
    <2>4. d.timer => revision < d.revision /\ Unsaved(c)
      BY <1>2, <1>3, <1>4, <1>9, <1>13 DEF Unsaved
    <2>5. Unsaved(c) => Unsaved(d)
      BY <1>2, <1>3, <1>4, <1>9 DEF Unsaved
    <2>6. Unsaved(c) /\ ~ more => rejected
      BY <1>9 DEF more
    <2>7. rejected => revision = d.revision /\ d.eligible = d.revision
      BY <1>2, <1>3, <1>13 DEF rejected
    <2>8. Unsaved(c) /\ ~ rejected => ~ d.flush /\ d.drain /\ d.eligible < d.revision
      BY <1>2, <1>3, <1>15, <2>6 DEF drain, flush
    <2>9. Unsaved(c) /\ d.life = "started" /\ ~ rejected => d.timer
      BY <1>13, <2>5, <2>8
    <2>10. rejected /\ d.life = "started" => phase = "error"
      BY DEF rejected, phase, shown, revision
    <2>11. life # "stopped" => life = d.life
      BY DEF life
    <2>12. ScheduleInv(c)
      BY <1>2, <1>7, <1>13, <2>2, <2>3, <2>4, <2>7, <2>9, <2>11 DEF ScheduleInv
    <2>13. SavingInv(c, n)
      BY <1>7 DEF SavingInv
    <2>14. DraftInv(c, n)
      BY <1>2, <1>3, <1>4, <1>7, <1>10, <1>12, <1>13, <2>3, <2>12, <2>13 DEF DraftInv
    <2>15. life = "started" => Underway(c)
      BY <1>2, <1>7, <2>9, <2>10, <2>11 DEF Underway
    <2> QED
      BY <1>2, <1>7, <1>8, <1>10, <1>11, <2>1, <2>2, <2>11, <2>14, <2>15
  <1> QED BY <1>14, <1>15

-----------------------------------------------------------------------------
(* The draft of the owner, and the ownership's failure to stop it.         *)
OwnerInv ==
  /\ owner # Nothing =>
       /\ DraftInv(owner.draft, note[owner.page])
       /\ owner.draft.life # "stopped"
       /\ owner.draft.life = "started" => Underway(owner.draft)
       /\ owner.draft.life = "stopping" => owner.draft.stop \/ failure
  /\ failure => owner # Nothing /\ owner.draft.life = "stopping" /\ ~ owner.draft.stop
  /\ view = "error" => failure

(* The commit that awaits a flush, the candidate behind it, the generation.*)
SessionInv ==
  /\ commit # Nothing /\ ~ commit.stale =>
       ~ resolving /\ queued = Nothing /\ commit.page \in {tab, None}
  /\ queued # Nothing =>
       commit # Nothing /\ commit.stale /\ ~ resolving /\ queued \in {tab, None}
  /\ commit # Nothing /\ commit.stale /\ ~ resolving => queued # Nothing
  /\ SessionIsCurrent

(* The notes follow the accepted edits, and those the counter.             *)
Counted == \A p \in Page : note[p] <= accepted[p] /\ accepted[p] <= edits

NotesInv == OwnerInv /\ NothingLost /\ Counted

PanelInv == TypeOK /\ NotesInv /\ SessionInv

LEMMA OwnerTypes ==
  ASSUME NEW o \in Owner
  PROVE  o.page \in Page /\ o.draft \in Draft /\ o # Nothing
  BY PanelAssumption DEF Owner

(* What the draft of the owner becomes in a step that stores nothing.      *)
LEMMA UpdateKeeps ==
  ASSUME TypeOK, NotesInv, owner # Nothing,
         NEW e, Update(e), UNCHANGED storeVars,
         DraftInv(e, note[owner.page]), e.life # "stopped",
         e.life = "started" => Underway(e),
         accepted[owner.page] = (IF e.load = "ready" THEN e.text ELSE note[owner.page]),
         e.life = "stopping" => e.stop \/ failure',
         failure' => e.life = "stopping" /\ ~ e.stop,
         view' = "error" => failure'
  PROVE  owner' \in Owner /\ NotesInv'
  <1>1. owner \in Owner /\ e \in Draft
    BY DEF TypeOK, DraftInv
  <1>2. owner' \in Owner /\ owner'.page = owner.page /\ owner'.draft = e
    BY <1>1 DEF Update, Owner
  <1>3. owner' # Nothing
    BY <1>2, OwnerTypes
  <1>4. OwnerInv'
    BY <1>2, <1>3 DEF OwnerInv, storeVars
  <1>5. NothingLost'
    BY <1>2, <1>3 DEF NotesInv, NothingLost, storeVars
  <1>6. Counted'
    BY DEF NotesInv, Counted, storeVars
  <1> QED BY <1>2, <1>4, <1>5, <1>6 DEF NotesInv

(* A draft is only replaced when all edits are stored.                     *)
LEMMA FreshKeeps ==
  ASSUME TypeOK, NotesInv, NEW want \in MaybePage, Fresh(want), UNCHANGED storeVars,
         \A p \in Page : accepted[p] = note[p], ~ failure'
  PROVE  owner' \in Owner \cup {Nothing} /\ view' \in {"none", "state"} /\ NotesInv'
  <1>1. CASE want = None
    BY <1>1 DEF Fresh, NotesInv, OwnerInv, NothingLost, Counted, storeVars
  <1>2. CASE want # None
    <2>1. want \in Page /\ note[want] \in Nat
      BY <1>2 DEF MaybePage, TypeOK
    <2>2. DraftInv(NewDraft, note[want]) /\ ~ Unsaved(NewDraft)
      BY <2>1, NewDraftInv
    <2>3. owner' = [page |-> want, draft |-> NewDraft] /\ view' = "state"
      BY <1>2 DEF Fresh
    <2>4. owner'.page = want /\ owner'.draft = NewDraft /\ owner' \in Owner
      BY <2>1, <2>2, <2>3 DEF DraftInv, Owner
    <2>5. OwnerInv'
      BY <2>2, <2>3, <2>4 DEF OwnerInv, Underway, NewDraft, storeVars
    <2>6. NothingLost'
      BY <2>4 DEF NothingLost, NewDraft, storeVars
    <2>7. Counted'
      BY DEF NotesInv, Counted, storeVars
    <2> QED BY <2>3, <2>4, <2>5, <2>6, <2>7 DEF NotesInv
  <1> QED BY <1>1, <1>2

(* The draft is stopped and, when all is saved at once, replaced.          *)
LEMMA ReplaceKeeps ==
  ASSUME TypeOK, NotesInv, owner # Nothing, NEW want \in MaybePage,
         NEW shown \in {"none", "state"}, Replace(want, shown),
         UNCHANGED storeVars, ~ failure'
  PROVE  owner' \in Owner \cup {Nothing} /\ view' \in {"none", "state"} /\ NotesInv'
  <1> DEFINE d == owner.draft
             e == Stopping(d)
  <1>1. owner \in Owner /\ DraftInv(d, note[owner.page])
    BY DEF TypeOK, NotesInv, OwnerInv
  <1>2. /\ e.life = "stopped" /\ d.load = "ready" => d.text = note[owner.page]
        /\ e.life # "stopped" =>
             /\ DraftInv(e, note[owner.page]) /\ e.life = "stopping" /\ e.stop
             /\ e.load = d.load /\ e.text = d.text
    BY <1>1, StoppingInv
  <1>3. CASE e.life = "stopped"
    <2>1. \A p \in Page : accepted[p] = note[p]
      BY <1>1, <1>2, <1>3 DEF NotesInv, NothingLost
    <2> QED BY <1>3, <2>1, FreshKeeps DEF Replace
  <1>4. CASE e.life # "stopped"
    <2>1. Update(e) /\ view' = shown
      BY <1>4 DEF Replace, Update
    <2>2. accepted[owner.page] = IF e.load = "ready" THEN e.text ELSE note[owner.page]
      BY <1>1, <1>2, <1>4, OwnerTypes DEF NotesInv, NothingLost
    <2> HIDE DEF e
    <2>3. owner' \in Owner /\ NotesInv'
      BY <1>2, <1>4, <2>1, <2>2, UpdateKeeps
    <2> QED BY <2>1, <2>3
  <1> QED BY <1>3, <1>4

-----------------------------------------------------------------------------
(* Every action keeps the invariant. *)

(* The draft of the owner in a state of the invariant.                     *)
LEMMA OwnedDraft ==
  ASSUME PanelInv, owner # Nothing
  PROVE  /\ TypeOK /\ NotesInv /\ owner \in Owner /\ owner.page \in Page
         /\ DraftInv(owner.draft, note[owner.page]) /\ owner.draft \in Draft
         /\ owner.draft.life \in {"started", "stopping"}
         /\ owner.draft.life = "started" => Underway(owner.draft)
         /\ owner.draft.life = "stopping" => owner.draft.stop \/ failure
         /\ failure => owner.draft.life = "stopping" /\ ~ owner.draft.stop
         /\ owner.draft.stop => owner.draft.life = "stopping"
         /\ accepted[owner.page] = (IF owner.draft.load = "ready" THEN owner.draft.text
                                                              ELSE note[owner.page])
         /\ view = "error" => failure
  <1>1. TypeOK /\ NotesInv /\ owner \in Owner
    BY DEF PanelInv, TypeOK
  <1>2. owner.page \in Page /\ owner.draft \in Draft
    BY <1>1, OwnerTypes
  <1>3. OwnerInv /\ NothingLost
    BY <1>1 DEF NotesInv
  <1>4. DraftInv(owner.draft, note[owner.page]) /\ owner.draft.life # "stopped"
    BY <1>3 DEF OwnerInv
  <1> QED
    BY <1>1, <1>2, <1>3, <1>4, DraftTypes DEF OwnerInv, NothingLost, DraftInv, ScheduleInv

(* A step of the draft that keeps its content and leaves the panel alone.  *)
LEMMA DraftStep ==
  ASSUME PanelInv, owner # Nothing, NEW e, Update(e),
         UNCHANGED <<sessionVars, desired, view, failure, storeVars>>,
         DraftInv(e, note[owner.page]),
         e.life = owner.draft.life, e.stop = owner.draft.stop,
         e.life = "started" => Underway(e),
         accepted[owner.page] = (IF e.load = "ready" THEN e.text ELSE note[owner.page])
  PROVE  PanelInv'
  <1>1. owner' \in Owner /\ NotesInv'
    <2>1. e.life # "stopped" /\ (e.life = "stopping" => e.stop \/ failure')
          /\ (failure' => e.life = "stopping" /\ ~ e.stop) /\ (view' = "error" => failure')
      BY OwnedDraft
    <2> QED BY <2>1, OwnedDraft, UpdateKeeps
  <1>2. TypeOK'
    BY <1>1 DEF PanelInv, TypeOK, sessionVars, storeVars
  <1>3. SessionInv'
    BY DEF PanelInv, SessionInv, SessionIsCurrent, sessionVars
  <1> QED BY <1>1, <1>2, <1>3 DEF PanelInv

LEMMA LoadStep == ASSUME PanelInv, Load PROVE PanelInv'
  <1> DEFINE d == owner.draft
             n == note[owner.page]
  <1>1. owner # Nothing /\ d.life = "started" /\ d.load = "loading"
    BY DEF Load
  <1>2. DraftInv(d, n) /\ accepted[owner.page] = n /\ d \in Draft
    BY <1>1, OwnedDraft
  <1>3. CASE Update(Loaded(d, n))
    <2> DEFINE e == Loaded(d, n)
    <2>1. DraftInv(e, n) /\ Underway(e)
      BY <1>1, <1>2, LoadedInv DEF Underway
    <2>2. e.life = d.life /\ e.stop = d.stop /\ e.text = n /\ e.load = "ready"
      BY <1>2 DEF Loaded, Draft
    <2> HIDE DEF e
    <2> QED BY <1>1, <1>2, <1>3, <2>1, <2>2, DraftStep DEF Load, e
  <1>4. CASE Update([d EXCEPT !.load = "failed"])
    <2> DEFINE e == [d EXCEPT !.load = "failed"]
    <2>1. DraftInv(e, n) /\ Underway(e)
      BY <1>1, <1>2, LoadedInv DEF Underway
    <2>2. e.life = d.life /\ e.stop = d.stop /\ e.load = "failed"
      BY <1>2 DEF Draft
    <2> HIDE DEF e
    <2> QED BY <1>1, <1>2, <1>4, <2>1, <2>2, DraftStep DEF Load, e
  <1> QED BY <1>3, <1>4 DEF Load

LEMMA RetryLoadStep == ASSUME PanelInv, RetryLoad PROVE PanelInv'
  <1> DEFINE d == owner.draft
             n == note[owner.page]
             e == [d EXCEPT !.load = "loading"]
  <1>1. owner # Nothing /\ d.load = "failed" /\ Update(e)
    BY DEF RetryLoad
  <1>2. DraftInv(d, n) /\ accepted[owner.page] = n /\ d \in Draft
    BY <1>1, OwnedDraft
  <1>3. DraftInv(e, n) /\ Underway(e)
    BY <1>1, <1>2, ReloadInv DEF Underway
  <1>4. e.life = d.life /\ e.stop = d.stop /\ e.load = "loading"
    BY <1>2 DEF Draft
  <1> HIDE DEF e
  <1> QED BY <1>1, <1>2, <1>3, <1>4, DraftStep DEF RetryLoad

LEMMA TimerStep == ASSUME PanelInv, TimerFires PROVE PanelInv'
  <1> DEFINE d == owner.draft
             n == note[owner.page]
             e == Debounced(d)
  <1>1. owner # Nothing /\ d.timer /\ Update(e)
    BY DEF TimerFires
  <1>2. /\ DraftInv(d, n)
        /\ accepted[owner.page] = IF d.load = "ready" THEN d.text ELSE n
    BY <1>1, OwnedDraft
  <1>3. /\ DraftInv(e, n) /\ Underway(e)
        /\ e.load = d.load /\ e.text = d.text /\ e.life = d.life /\ e.stop = d.stop
    BY <1>1, <1>2, DebouncedInv
  <1> HIDE DEF e
  <1> QED BY <1>1, <1>2, <1>3, DraftStep DEF TimerFires

LEMMA RetrySaveStep == ASSUME PanelInv, RetrySave PROVE PanelInv'
  <1> DEFINE d == owner.draft
             n == note[owner.page]
             e == Flushing(d)
  <1>1. owner # Nothing /\ Update(e)
    BY DEF RetrySave, Mounted
  <1>2. /\ DraftInv(d, n)
        /\ accepted[owner.page] = IF d.load = "ready" THEN d.text ELSE n
    BY <1>1, OwnedDraft
  <1>3. /\ DraftInv(e, n)
        /\ e.load = d.load /\ e.text = d.text /\ e.life = d.life /\ e.stop = d.stop
        /\ Unsaved(d) => e.saving # Nothing
        /\ Unsaved(e) = Unsaved(d)
    BY <1>2, FlushingInv
  <1> HIDE DEF e
  <1>4. Underway(e)
    BY <1>3 DEF Underway
  <1> QED BY <1>1, <1>2, <1>3, <1>4, DraftStep DEF RetrySave

LEMMA EditStep == ASSUME PanelInv, Edit PROVE PanelInv'
  <1> DEFINE d == owner.draft
             n == note[owner.page]
             t == edits + 1
             e == ContentChanged(d, t)
  <1>1. /\ owner # Nothing /\ Accepting(d) /\ edits' = t /\ Update(e)
        /\ accepted' = [accepted EXCEPT ![owner.page] = t]
        /\ UNCHANGED <<sessionVars, desired, view, failure, note>>
    BY DEF Edit, Mounted, Update
  <1>2. /\ DraftInv(d, n) /\ owner \in Owner /\ owner.page \in Page /\ d.text \in Nat
        /\ accepted[owner.page] = d.text /\ d.life = "started" /\ ~ failure
        /\ (view = "error" => failure)
    BY <1>1, OwnedDraft, DraftTypes DEF Accepting
  <1>3. /\ edits \in Nat /\ t \in Nat /\ edits < t /\ accepted \in [Page -> Nat]
        /\ note \in [Page -> Nat] /\ Counted /\ NothingLost
    BY DEF PanelInv, TypeOK, NotesInv
  <1>4. d.text <= t
    BY <1>2, <1>3 DEF Counted
  <1>5. DraftInv(e, n) /\ Underway(e) /\ Accepting(e) /\ e.text = t /\ ~ e.stop
    BY <1>1, <1>2, <1>3, <1>4, ScheduledInv DEF ContentChanged
  <1> HIDE DEF e, t
  <1>6. owner' \in Owner /\ owner'.page = owner.page /\ owner'.draft = e
    BY <1>1, <1>2, <1>5 DEF Update, Owner, DraftInv
  <1>7. owner' # Nothing
    BY <1>6, OwnerTypes
  <1>8. OwnerInv'
    BY <1>1, <1>2, <1>5, <1>6, <1>7 DEF OwnerInv, Accepting
  <1>9. accepted' \in [Page -> Nat] /\ NothingLost'
    BY <1>1, <1>2, <1>3, <1>5, <1>6, <1>7 DEF NothingLost, Accepting
  <1>10. Counted'
    <2> SUFFICES ASSUME NEW p \in Page
                 PROVE  note'[p] <= accepted'[p] /\ accepted'[p] <= edits'
      BY DEF Counted
    <2>1. note[p] <= accepted[p] /\ accepted[p] <= edits /\ note[p] \in Nat /\ accepted[p] \in Nat
      BY <1>3 DEF Counted
    <2> QED BY <1>1, <1>3, <2>1
  <1>11. TypeOK'
    BY <1>1, <1>3, <1>6, <1>9 DEF PanelInv, TypeOK, sessionVars
  <1>12. SessionInv'
    BY <1>1 DEF PanelInv, SessionInv, SessionIsCurrent, sessionVars
  <1> QED BY <1>8, <1>9, <1>10, <1>11, <1>12 DEF PanelInv, NotesInv

LEMMA PutStep == ASSUME PanelInv, PutNote PROVE PanelInv'
  <1> DEFINE d == owner.draft
             n == note[owner.page]
             m == d.saving.text
             e == [d EXCEPT !.saving.stored = TRUE]
  <1>1. /\ owner # Nothing /\ d.saving # Nothing /\ Update(e)
        /\ note' = [note EXCEPT ![owner.page] = m]
        /\ UNCHANGED <<sessionVars, desired, view, failure, edits, accepted>>
    BY DEF PutNote, Saving
  <1>2. /\ DraftInv(d, n) /\ owner \in Owner /\ owner.page \in Page
        /\ accepted[owner.page] = (IF d.load = "ready" THEN d.text ELSE n)
        /\ d.life \in {"started", "stopping"} /\ (d.life = "stopping" => d.stop \/ failure)
        /\ (failure => d.life = "stopping" /\ ~ d.stop) /\ (view = "error" => failure)
    BY <1>1, OwnedDraft
  <1>3. /\ edits \in Nat /\ accepted \in [Page -> Nat]
        /\ note \in [Page -> Nat] /\ Counted /\ NothingLost
    BY DEF PanelInv, TypeOK, NotesInv
  <1>4. /\ DraftInv(e, m)
        /\ e.load = "ready" /\ d.load = "ready" /\ e.text = d.text /\ e.life = d.life
        /\ e.stop = d.stop /\ e.saving # Nothing
        /\ m <= d.text /\ m \in Nat /\ d.text \in Nat
    BY <1>1, <1>2, StoredInv
  <1> HIDE DEF e, m
  <1>5. owner' \in Owner /\ owner'.page = owner.page /\ owner'.draft = e
    BY <1>1, <1>2, <1>4 DEF Update, Owner, DraftInv
  <1>6. owner' # Nothing
    BY <1>5, OwnerTypes
  <1>7. note' \in [Page -> Nat] /\ note'[owner'.page] = m
    BY <1>1, <1>2, <1>3, <1>4, <1>5
  <1>8. OwnerInv'
    BY <1>1, <1>2, <1>4, <1>5, <1>6, <1>7 DEF OwnerInv, Underway
  <1>9. NothingLost'
    BY <1>1, <1>2, <1>3, <1>4, <1>5, <1>6 DEF NothingLost
  <1>10. Counted'
    <2> SUFFICES ASSUME NEW p \in Page
                 PROVE  note'[p] <= accepted'[p] /\ accepted'[p] <= edits'
      BY DEF Counted
    <2>1. note[p] <= accepted[p] /\ accepted[p] <= edits
      BY <1>3 DEF Counted
    <2> QED BY <1>1, <1>2, <1>3, <1>4, <2>1
  <1>11. TypeOK'
    BY <1>1, <1>3, <1>5, <1>7 DEF PanelInv, TypeOK, sessionVars
  <1>12. SessionInv'
    BY <1>1 DEF PanelInv, SessionInv, SessionIsCurrent, sessionVars
  <1> QED BY <1>8, <1>9, <1>10, <1>11, <1>12 DEF PanelInv, NotesInv

LEMMA TabStep == ASSUME PanelInv, TabEvent PROVE PanelInv'
  <1>1. NotesInv'
    BY DEF PanelInv, NotesInv, OwnerInv, NothingLost, Counted, TabEvent, ownerVars, storeVars
  <1>2. commit' \in Candidate \cup {Nothing} /\ (commit' # Nothing => commit'.stale)
    BY PanelAssumption DEF PanelInv, TypeOK, TabEvent, Superseded, Candidate
  <1>3. TypeOK'
    BY <1>2 DEF PanelInv, TypeOK, TabEvent, ownerVars, storeVars
  <1>4. SessionInv'
    BY <1>2 DEF SessionInv, SessionIsCurrent, TabEvent
  <1> QED BY <1>1, <1>3, <1>4 DEF PanelInv

LEMMA CloseStep == ASSUME PanelInv, Close PROVE PanelInv'
  <1>1. NotesInv'
    BY DEF PanelInv, TypeOK, NotesInv, OwnerInv, NothingLost, Counted, Close
  <1>2. TypeOK'
    BY DEF PanelInv, TypeOK, Close, MaybePage
  <1>3. SessionInv'
    BY DEF SessionInv, SessionIsCurrent, Close
  <1> QED BY <1>1, <1>2, <1>3 DEF PanelInv

LEMMA InitInv == ASSUME Init PROVE PanelInv
  <1>1. NotesInv
    BY DEF NotesInv, OwnerInv, NothingLost, Counted, Init
  <1>2. TypeOK
    BY DEF TypeOK, Init, MaybePage
  <1>3. SessionInv
    BY DEF SessionInv, SessionIsCurrent, Init
  <1> QED BY <1>1, <1>2, <1>3 DEF PanelInv

LEMMA RetryOwnershipStep == ASSUME PanelInv, RetryOwnership PROVE PanelInv'
  <1>1. /\ view = "error" /\ desired \in MaybePage /\ ~ failure' /\ Replace(desired, "none")
        /\ UNCHANGED <<sessionVars, desired, storeVars>>
    BY DEF RetryOwnership, PanelInv, TypeOK
  <1>2. TypeOK /\ NotesInv /\ owner # Nothing
    BY <1>1 DEF PanelInv, NotesInv, OwnerInv
  <1>3. owner' \in Owner \cup {Nothing} /\ view' \in {"none", "state"} /\ NotesInv'
    BY <1>1, <1>2, ReplaceKeeps
  <1>4. failure' \in BOOLEAN
    BY DEF RetryOwnership
  <1>5. TypeOK'
    BY <1>1, <1>2, <1>3, <1>4 DEF TypeOK, sessionVars, storeVars
  <1>6. SessionInv'
    BY <1>1 DEF PanelInv, SessionInv, SessionIsCurrent, sessionVars
  <1> QED BY <1>3, <1>5, <1>6 DEF PanelInv

LEMMA RenderStep == ASSUME PanelInv, Render PROVE PanelInv'
  <1>1. /\ rendered' = TRUE /\ desired' = session
        /\ UNCHANGED <<tab, resolving, commit, queued, flushed, session, alert, failure, storeVars>>
    BY DEF Render
  <1>2. TypeOK /\ NotesInv /\ session \in MaybePage /\ view \in {"none", "state", "error"}
    BY DEF PanelInv, TypeOK
  <1>3. PICK touched \in Touches : Reconcile(session, touched)
    BY DEF Render
  <1>4. owner' \in Owner \cup {Nothing} /\ view' \in {"none", "state", "error"} /\ NotesInv'
    <2>1. CASE failure
      <3>1. view' = "error" /\ UNCHANGED owner
        BY <1>3, <2>1 DEF Reconcile
      <3> QED
        BY <1>1, <1>2, <2>1, <3>1
           DEF TypeOK, NotesInv, OwnerInv, NothingLost, Counted, storeVars
    <2>2. CASE ~ failure /\ owner = Nothing
      <3>1. Fresh(session) /\ ~ failure'
        BY <1>1, <1>3, <2>2 DEF Reconcile
      <3>2. \A p \in Page : accepted[p] = note[p]
        BY <1>2, <2>2 DEF NotesInv, NothingLost
      <3> QED BY <1>1, <1>2, <3>1, <3>2, FreshKeeps
    <2>3. CASE ~ failure /\ owner # Nothing /\ owner.draft.stop
      <3>1. UNCHANGED <<owner, view>>
        BY <1>3, <2>3 DEF Reconcile
      <3> QED
        BY <1>1, <1>2, <3>1 DEF TypeOK, NotesInv, OwnerInv, NothingLost, Counted, storeVars
    <2>4. CASE /\ ~ failure /\ owner # Nothing /\ ~ owner.draft.stop
               /\ owner.page # session \/ owner.draft.life # "started"
      <3>1. Replace(session, view) /\ ~ failure'
        BY <1>1, <1>3, <2>4 DEF Reconcile
      <3>2. view \in {"none", "state"}
        BY <1>2, <2>4 DEF NotesInv, OwnerInv
      <3> QED BY <1>1, <1>2, <2>4, <3>1, <3>2, ReplaceKeeps
    <2>5. CASE /\ ~ failure /\ owner # Nothing /\ ~ owner.draft.stop
               /\ owner.page = session /\ owner.draft.life = "started"
      <3> DEFINE d == owner.draft
                 n == note[owner.page]
                 e == IF touched THEN ContextChanged(d) ELSE d
      <3>1. owner' = (IF touched THEN [owner EXCEPT !.draft = ContextChanged(@)] ELSE owner)
            /\ view' = "state"
        BY <1>3, <2>5 DEF Reconcile
      <3>2. /\ DraftInv(d, n) /\ Underway(d) /\ d \in Draft /\ owner \in Owner
            /\ accepted[owner.page] = (IF d.load = "ready" THEN d.text ELSE n)
        BY <2>5, OwnedDraft
      <3>3. Update(e)
        BY <3>1, <3>2 DEF Update, Owner
      <3>4. /\ DraftInv(e, n) /\ Underway(e) /\ e.life = "started"
            /\ e.load = d.load /\ e.text = d.text
        <4>1. CASE touched /\ Unsaved(d)
          <5>1. Accepting(d)
            BY <2>5, <3>2, <4>1, UnloadedSavesNothing DEF Accepting, DraftInv
          <5>2. d.text \in Nat /\ d.text <= d.text
            BY <3>2, DraftTypes
          <5>3. [d EXCEPT !.text = d.text] = d
            BY <3>2 DEF Draft
          <5>4. e = Scheduled([d EXCEPT !.text = d.text])
            BY <2>5, <4>1, <5>3 DEF ContextChanged
          <5> HIDE DEF e
          <5>5. DraftInv(e, n) /\ Underway(e) /\ Accepting(e) /\ e.text = d.text
            BY <3>2, <5>1, <5>2, <5>4, ScheduledInv
          <5> QED BY <5>1, <5>5 DEF Accepting
        <4>2. CASE ~ (touched /\ Unsaved(d))
          <5>1. e = d
            BY <4>2 DEF ContextChanged
          <5> QED BY <2>5, <3>2, <5>1
        <4> QED BY <4>1, <4>2
      <3> HIDE DEF e
      <3>5. owner' \in Owner /\ NotesInv'
        BY <1>1, <1>2, <2>5, <3>1, <3>2, <3>3, <3>4, UpdateKeeps
      <3> QED BY <3>1, <3>5
    <2> QED BY <2>1, <2>2, <2>3, <2>4, <2>5
  <1>5. TypeOK'
    BY <1>1, <1>2, <1>4 DEF TypeOK, storeVars
  <1>6. SessionInv'
    BY <1>1 DEF PanelInv, SessionInv, SessionIsCurrent
  <1> QED BY <1>4, <1>5, <1>6 DEF PanelInv

(* A flush that is asked for keeps what is under way.                      *)
LEMMA FlushingKeeps ==
  ASSUME NEW d, NEW n, DraftInv(d, n)
  PROVE  LET e == Flushing(d)
         IN /\ DraftInv(e, n)
            /\ e.load = d.load /\ e.text = d.text /\ e.life = d.life /\ e.stop = d.stop
            /\ d.life = "started" /\ Underway(d) => Underway(e)
  <1> DEFINE e == Flushing(d)
  <1>1. /\ DraftInv(e, n)
        /\ e.load = d.load /\ e.text = d.text /\ e.life = d.life /\ e.stop = d.stop
        /\ Unsaved(d) => e.saving # Nothing
        /\ Unsaved(e) = Unsaved(d)
    BY FlushingInv
  <1> HIDE DEF e
  <1>2. Underway(e)
    BY <1>1 DEF Underway
  <1> QED BY <1>1, <1>2 DEF e

LEMMA ResolveStep == ASSUME PanelInv, Resolve PROVE PanelInv'
  <1>1. /\ resolving /\ resolving' = FALSE
        /\ UNCHANGED <<tab, desired, view, failure, storeVars>>
    BY DEF Resolve
  <1>2. PICK p \in {tab, None} :
          \/ commit = Nothing /\ Commit(p) /\ UNCHANGED queued
          \/ /\ commit # Nothing
             /\ queued' = p
             /\ UNCHANGED <<commit, flushed, session, rendered, alert, owner>>
    BY DEF Resolve
  <1>3. p \in MaybePage /\ TypeOK /\ NotesInv
    BY DEF PanelInv, TypeOK, MaybePage
  <1>4. UNCHANGED owner => NotesInv'
    BY <1>1, <1>3 DEF NotesInv, OwnerInv, NothingLost, Counted, storeVars
  <1>5. CASE commit # Nothing /\ queued' = p
             /\ UNCHANGED <<commit, flushed, session, rendered, alert, owner>>
    <2>1. TypeOK'
      BY <1>1, <1>3, <1>5 DEF TypeOK, storeVars
    <2>2. p # Nothing /\ commit.stale
      BY <1>1, <1>3, <1>5, PanelAssumption DEF PanelInv, SessionInv
    <2>3. SessionInv'
      BY <1>1, <1>2, <1>5, <2>2 DEF SessionInv, SessionIsCurrent
    <2> QED BY <1>4, <1>5, <2>1, <2>3 DEF PanelInv
  <1>6. CASE commit = Nothing /\ Publish(p) /\ UNCHANGED <<commit, owner, queued>>
    <2>1. TypeOK'
      BY <1>1, <1>3, <1>6 DEF TypeOK, Publish, storeVars
    <2>2. SessionInv'
      BY <1>1, <1>3, <1>6 DEF PanelInv, SessionInv, SessionIsCurrent, Publish
    <2> QED BY <1>4, <1>6, <2>1, <2>2 DEF PanelInv
  <1>7. CASE /\ commit = Nothing /\ MustFlush(p)
             /\ commit' = [page |-> p, stale |-> FALSE]
             /\ owner' = [owner EXCEPT !.draft = Flushing(@)]
             /\ UNCHANGED <<flushed, session, rendered, alert, queued>>
    <2> DEFINE d == owner.draft
               e == Flushing(d)
    <2>1. owner # Nothing
      BY <1>7 DEF MustFlush
    <2>2. /\ DraftInv(d, note[owner.page]) /\ (d.life = "started" => Underway(d))
          /\ d.life # "stopped" /\ (d.life = "stopping" => d.stop \/ failure)
          /\ (failure => d.life = "stopping" /\ ~ d.stop) /\ (view = "error" => failure)
          /\ accepted[owner.page] = (IF d.load = "ready" THEN d.text ELSE note[owner.page])
          /\ owner \in Owner
      BY <2>1, OwnedDraft
    <2>3. /\ DraftInv(e, note[owner.page])
          /\ e.load = d.load /\ e.text = d.text /\ e.life = d.life /\ e.stop = d.stop
          /\ d.life = "started" /\ Underway(d) => Underway(e)
      BY <2>2, FlushingKeeps
    <2>4. Update(e)
      BY <1>7, <2>2 DEF Update, Owner
    <2> HIDE DEF e
    <2>5. owner' \in Owner /\ NotesInv'
      BY <1>1, <1>3, <2>1, <2>2, <2>3, <2>4, UpdateKeeps
    <2>6. commit' \in Candidate /\ commit'.page = p /\ commit'.stale = FALSE
      BY <1>3, <1>7 DEF Candidate
    <2>7. TypeOK'
      BY <1>1, <1>3, <1>7, <2>5, <2>6 DEF TypeOK, storeVars
    <2>8. SessionInv'
      <3>1. commit' # Nothing /\ queued = Nothing
        BY <1>7, <2>6, PanelAssumption DEF PanelInv, SessionInv
      <3> QED BY <1>1, <1>2, <1>7, <2>6, <3>1 DEF SessionInv, SessionIsCurrent
    <2> QED BY <2>5, <2>7, <2>8 DEF PanelInv
  <1> QED BY <1>2, <1>5, <1>6, <1>7 DEF Commit

(* What the end of a save means for the session.                           *)
LEMMA SessionSettles ==
  ASSUME PanelInv, NEW failed \in BOOLEAN, UNCHANGED <<tab, resolving>>,
         \/ UNCHANGED <<commit, queued, flushed, session, rendered, alert>>
         \/ commit # Nothing /\ IF failed THEN FlushFailed ELSE FlushDone
  PROVE  /\ commit' \in Candidate \cup {Nothing} /\ queued' \in MaybePage \cup {Nothing}
         /\ session' \in MaybePage /\ flushed' \in BOOLEAN /\ rendered' \in BOOLEAN
         /\ alert' \in BOOLEAN
         /\ SessionInv'
         /\ session' \in {session, tab, None}
  <1>1. /\ SessionInv /\ commit \in Candidate \cup {Nothing} /\ queued \in MaybePage \cup {Nothing}
        /\ session \in MaybePage /\ flushed \in BOOLEAN /\ rendered \in BOOLEAN
        /\ alert \in BOOLEAN /\ tab \in MaybePage /\ None \in MaybePage
    BY DEF PanelInv, TypeOK, MaybePage
  <1>2. CASE UNCHANGED <<commit, queued, flushed, session, rendered, alert>>
    BY <1>1, <1>2 DEF SessionInv, SessionIsCurrent
  <1>3. CASE commit # Nothing /\ failed /\ FlushFailed
    <2>1. CASE queued = Nothing
      <3>1. commit' = Nothing /\ alert' = (alert \/ ~ commit.stale)
            /\ UNCHANGED <<queued, flushed, session, rendered>>
        BY <1>3, <2>1 DEF FlushFailed
      <3>2. alert' \in BOOLEAN
        BY <3>1
      <3>3. ~ resolving => ~ commit.stale
        BY <1>1, <1>3, <2>1 DEF SessionInv
      <3>4. SessionInv'
        BY <1>1, <2>1, <3>1, <3>3 DEF SessionInv, SessionIsCurrent
      <3> QED BY <1>1, <3>1, <3>2, <3>4
    <2>2. CASE queued # Nothing /\ queued # session
      <3>1. /\ queued' = Nothing /\ commit' = [page |-> queued, stale |-> FALSE]
            /\ UNCHANGED <<flushed, session, rendered, alert>>
        BY <1>3, <2>2 DEF FlushFailed
      <3>2. queued \in {tab, None} /\ ~ resolving /\ queued \in MaybePage
        BY <1>1, <2>2 DEF SessionInv
      <3>3. commit' \in Candidate /\ commit'.page = queued /\ commit'.stale = FALSE
        BY <3>1, <3>2 DEF Candidate
      <3>4. commit' # Nothing
        BY <3>3, PanelAssumption
      <3>5. SessionInv'
        BY <3>1, <3>2, <3>3, <3>4 DEF SessionInv, SessionIsCurrent
      <3> QED BY <1>1, <3>1, <3>3, <3>5
    <2>3. CASE queued # Nothing /\ queued = session
      BY <1>1, <1>3, <2>3 DEF FlushFailed, Publish, SessionInv, SessionIsCurrent
    <2> QED BY <2>1, <2>2, <2>3
  <1>4. CASE commit # Nothing /\ ~ failed /\ FlushDone
    <2>1. CASE commit.stale /\ queued = Nothing
      BY <1>1, <1>4, <2>1 DEF FlushDone, SessionInv, SessionIsCurrent
    <2>2. CASE commit.stale /\ queued # Nothing
      BY <1>1, <1>4, <2>2 DEF FlushDone, Publish, SessionInv, SessionIsCurrent
    <2>3. CASE ~ commit.stale
      BY <1>1, <1>4, <2>3 DEF FlushDone, Publish, SessionInv, SessionIsCurrent
    <2> QED BY <2>1, <2>2, <2>3
  <1> QED BY <1>2, <1>3, <1>4

LEMMA SettleStep == ASSUME PanelInv, SaveSettles PROVE PanelInv' /\ session' \in {session, tab, None}
  <1> DEFINE d == owner.draft
             n == note[owner.page]
             e == Settled(d, d.saving.stored)
             failed == Unsaved(e)
             f == IF commit' # Nothing THEN Flushing(e) ELSE e
  <1>1. /\ owner # Nothing /\ d.saving # Nothing
        /\ IF commit = Nothing \/ e.flush
           THEN UNCHANGED <<commit, queued, flushed, session, rendered, alert>>
           ELSE IF failed THEN FlushFailed ELSE FlushDone
        /\ IF d.stop /\ e.life = "stopped" THEN Fresh(desired) /\ UNCHANGED failure
           ELSE /\ Update(f)
                /\ IF d.stop /\ ~ e.stop
                   THEN failure' = TRUE /\ view' = "error"
                   ELSE UNCHANGED <<failure, view>>
        /\ UNCHANGED <<tab, resolving, desired, storeVars>>
    BY DEF SaveSettles, Saving, Update
  <1>2. /\ TypeOK /\ NotesInv /\ owner \in Owner /\ DraftInv(d, n)
        /\ d.life \in {"started", "stopping"}
        /\ d.life = "stopping" => d.stop \/ failure
        /\ failure => d.life = "stopping" /\ ~ d.stop
        /\ d.stop => d.life = "stopping"
        /\ accepted[owner.page] = (IF d.load = "ready" THEN d.text ELSE n)
        /\ view = "error" => failure
        /\ d.load = "ready"
    BY <1>1, OwnedDraft, UnloadedSavesNothing
  <1>3. /\ e.load = d.load /\ e.text = d.text
        /\ e.life = "stopped" => d.stop /\ d.text = n
        /\ e.life # "stopped" => DraftInv(e, n) /\ e.life = d.life
        /\ e.life = "started" => Underway(e)
        /\ e.stop => d.stop
    BY <1>1, <1>2, SettledInv
  <1>4. failed \in BOOLEAN
    BY DEF Unsaved
  <1> HIDE DEF e, failed
  <1>5. /\ commit' \in Candidate \cup {Nothing} /\ queued' \in MaybePage \cup {Nothing}
        /\ session' \in MaybePage /\ flushed' \in BOOLEAN /\ rendered' \in BOOLEAN
        /\ alert' \in BOOLEAN
        /\ SessionInv'
        /\ session' \in {session, tab, None}
    BY <1>1, <1>4, SessionSettles
  <1>6. /\ owner' \in Owner \cup {Nothing} /\ NotesInv'
        /\ view' \in {"none", "state", "error"} /\ failure' \in BOOLEAN
    <2>1. CASE d.stop /\ e.life = "stopped"
      <3>1. \A p \in Page : accepted[p] = note[p]
        BY <1>1, <1>2, <1>3, <2>1 DEF NotesInv, NothingLost
      <3>2. Fresh(desired) /\ ~ failure' /\ desired \in MaybePage /\ UNCHANGED storeVars
        BY <1>1, <1>2, <2>1 DEF TypeOK
      <3>3. failure' \in BOOLEAN
        BY <1>1, <1>2, <2>1 DEF TypeOK
      <3> QED BY <1>2, <3>1, <3>2, <3>3, FreshKeeps
    <2>2. CASE ~ (d.stop /\ e.life = "stopped")
      <3>1. /\ e.life # "stopped" /\ DraftInv(e, n) /\ e.life = d.life
        BY <1>3, <2>2
      <3>2. /\ DraftInv(f, n) /\ f.load = d.load /\ f.text = d.text /\ f.life = d.life
            /\ f.stop = e.stop /\ (f.life = "started" => Underway(f))
        BY <1>3, <3>1, FlushingKeeps
      <3>3. Update(f) /\ UNCHANGED storeVars
        BY <1>1, <2>2
      <3>4. IF d.stop /\ ~ e.stop THEN failure' = TRUE /\ view' = "error"
                                   ELSE UNCHANGED <<failure, view>>
        BY <1>1, <2>2
      <3> HIDE DEF f
      <3>5. /\ f.life = "stopping" => f.stop \/ failure'
            /\ failure' => f.life = "stopping" /\ ~ f.stop
            /\ view' = "error" => failure'
        BY <1>2, <1>3, <3>2, <3>4
      <3>6. owner' \in Owner /\ NotesInv'
        BY <1>1, <1>2, <3>1, <3>2, <3>3, <3>5, UpdateKeeps
      <3>7. view' \in {"none", "state", "error"} /\ failure' \in BOOLEAN
        BY <1>2, <3>4 DEF TypeOK
      <3> QED BY <3>6, <3>7
    <2> QED BY <2>1, <2>2
  <1>7. TypeOK'
    BY <1>1, <1>2, <1>5, <1>6 DEF TypeOK, storeVars
  <1> QED BY <1>5, <1>6, <1>7 DEF PanelInv

-----------------------------------------------------------------------------
(* The invariant holds in every state of every behaviour.                  *)
THEOREM PanelInvariant == Spec => []PanelInv
  <1>1. PanelInv /\ [Next]_vars => PanelInv'
    <2> SUFFICES ASSUME PanelInv, [Next]_vars PROVE PanelInv'
      OBVIOUS
    <2>1. CASE UNCHANGED vars
      BY <2>1 DEF vars, sessionVars, ownerVars, storeVars, PanelInv, TypeOK, NotesInv, OwnerInv,
                  NothingLost, Counted, SessionInv, SessionIsCurrent
    <2>2. CASE DraftNext
      BY <2>2, LoadStep, RetryLoadStep, EditStep, TimerStep, RetrySaveStep, PutStep, SettleStep
         DEF DraftNext
    <2> QED
      BY <2>1, <2>2, TabStep, ResolveStep, RenderStep, RetryOwnershipStep, CloseStep DEF Next
  <1> QED BY <1>1, InitInv, PTL DEF Spec

(* Every variable keeps its type, for any pages and bounds.                *)
THEOREM PanelTypeCorrect == Spec => []TypeOK
  <1>1. PanelInv => TypeOK
    BY DEF PanelInv
  <1> QED BY <1>1, PanelInvariant, PTL

(* Whatever navigations, failed saves, stops and retries: an accepted edit *)
(* is in the draft of its page or, when none is loaded, in the stored note.*)
THEOREM NoEditLost == Spec => []NothingLost
  <1>1. PanelInv => NothingLost
    BY DEF PanelInv, NotesInv
  <1> QED BY <1>1, PanelInvariant, PTL

(* Unsaved content always has a timer, a save or a reported failure.       *)
THEOREM UnsavedNeverForgotten == Spec => []UnsavedIsScheduled
  <1>1. PanelInv => UnsavedIsScheduled
    <2> SUFFICES ASSUME PanelInv, owner # Nothing, Unsaved(owner.draft)
                 PROVE  \/ owner.draft.timer \/ Saving
                        \/ owner.draft.phase = "error" \/ failure
      BY DEF UnsavedIsScheduled
    <2>1. CASE owner.draft.life = "started"
      BY <2>1, OwnedDraft DEF Underway, Saving
    <2>2. CASE owner.draft.life = "stopping" /\ owner.draft.stop
      BY <2>2, OwnedDraft DEF DraftInv, ScheduleInv, Saving
    <2> QED BY <2>1, <2>2, OwnedDraft
  <1> QED BY <1>1, PanelInvariant, PTL

(* "Saved" is only shown when the stored note is what the editor has.      *)
THEOREM SavedAlwaysStored == Spec => []SavedMeansStored
  <1>1. PanelInv => SavedMeansStored
    BY OwnedDraft DEF SavedMeansStored, Mounted, DraftInv
  <1> QED BY <1>1, PanelInvariant, PTL

(* At rest the session is that of the active tab, or an alert says why not.*)
THEOREM SessionFollowsTab == Spec => []SessionIsCurrent
  <1>1. PanelInv => SessionIsCurrent
    BY DEF PanelInv, SessionInv
  <1> QED BY <1>1, PanelInvariant, PTL

(* No stale candidate is ever published.                                   *)
THEOREM StaleNeverPublished == Spec => OnlyCurrentPublished
  <1>1. PanelInv /\ [Next]_vars => [session' \in {session, tab, None}]_vars
    <2> SUFFICES ASSUME PanelInv, Next PROVE session' \in {session, tab, None}
      OBVIOUS
    <2>1. CASE Resolve
      BY <2>1 DEF Resolve, Commit, Publish
    <2>2. CASE SaveSettles
      BY <2>2, SettleStep
    <2>3. CASE Close
      BY <2>3 DEF Close
    <2>4. CASE TabEvent \/ Render
      BY <2>4 DEF TabEvent, Render
    <2>5. CASE RetryOwnership \/ Load \/ RetryLoad \/ Edit \/ TimerFires \/ RetrySave \/ PutNote
      BY <2>5 DEF RetryOwnership, Load, RetryLoad, Edit, TimerFires, RetrySave, PutNote, sessionVars
    <2> QED BY <2>1, <2>2, <2>3, <2>4, <2>5 DEF Next, DraftNext
  <1> QED BY <1>1, PanelInvariant, PTL DEF Spec, OnlyCurrentPublished

-----------------------------------------------------------------------------
(* The panel implements DurableNotes. *)

(* A step that stores nothing and opens no editor.                         *)
LEMMA LeaveOrStutter ==
  ASSUME UNCHANGED <<note, accepted>>, Editing' \in {Editing, None}
  PROVE  [Durable!Next]_(Durable!vars)
  BY DEF Durable!Next, Durable!Leave, Durable!vars

LEMMA UpdateOpensNothing ==
  ASSUME owner \in Owner, NEW e \in Draft, Update(e), Accepting(e) => Accepting(owner.draft)
  PROVE  Editing' \in {Editing, None}
  <1>1. owner' \in Owner /\ owner'.page = owner.page /\ owner'.draft = e
    BY DEF Update, Owner
  <1>2. owner # Nothing /\ owner' # Nothing
    BY <1>1, OwnerTypes
  <1> QED BY <1>1, <1>2 DEF Editing

LEMMA FreshOpensNothing ==
  ASSUME NEW want, Fresh(want)
  PROVE  Editing' = None
  BY DEF Fresh, Editing, Accepting, NewDraft

LEMMA ReplaceOpensNothing ==
  ASSUME PanelInv, owner # Nothing, NEW want, NEW shown, Replace(want, shown)
  PROVE  Editing' \in {Editing, None}
  <1> DEFINE d == owner.draft
             e == Stopping(d)
  <1>1. owner \in Owner /\ DraftInv(d, note[owner.page])
    BY OwnedDraft
  <1>2. e.life # "stopped" => DraftInv(e, note[owner.page]) /\ e.life = "stopping"
    BY <1>1, StoppingInv
  <1>3. CASE e.life = "stopped"
    BY <1>3, FreshOpensNothing DEF Replace
  <1>4. CASE e.life # "stopped"
    <2>1. Update(e) /\ e \in Draft /\ ~ Accepting(e)
      BY <1>2, <1>4 DEF Replace, Update, DraftInv, Accepting
    <2> QED BY <1>1, <2>1, UpdateOpensNothing
  <1> QED BY <1>3, <1>4

LEMMA RenderOpensNothing ==
  ASSUME PanelInv, Render
  PROVE  Editing' \in {Editing, None}
  <1>1. PICK touched \in Touches : Reconcile(session, touched)
    BY DEF Render
  <1>2. CASE UNCHANGED owner
    BY <1>2 DEF Editing
  <1>3. CASE Fresh(session)
    BY <1>3, FreshOpensNothing
  <1>4. CASE owner # Nothing /\ Replace(session, view)
    BY <1>4, ReplaceOpensNothing
  <1>5. CASE owner # Nothing /\ owner' = [owner EXCEPT !.draft = ContextChanged(@)]
    <2> DEFINE d == owner.draft
               e == ContextChanged(d)
    <2>1. owner \in Owner /\ d \in Draft
      BY <1>5, OwnedDraft
    <2>2. Update(e)
      BY <1>5, <2>1 DEF Update, Owner
    <2>3. e \in Draft /\ e.life = d.life /\ e.load = d.load
      <3>1. CASE e = d
        BY <2>1, <3>1
      <3>2. CASE e = Scheduled(d)
        <4>1. d.revision + 1 \in Nat /\ (~ d.flush) \in BOOLEAN
          BY <2>1, DraftTypes
        <4> QED BY <2>1, <3>2, <4>1 DEF Scheduled, Draft
      <3> QED BY <3>1, <3>2 DEF ContextChanged
    <2> QED BY <2>1, <2>2, <2>3, UpdateOpensNothing DEF Accepting
  <1> QED BY <1>1, <1>2, <1>3, <1>4, <1>5 DEF Reconcile

LEMMA ResolveOpensNothing ==
  ASSUME PanelInv, Resolve
  PROVE  Editing' \in {Editing, None}
  <1>1. CASE UNCHANGED owner
    BY <1>1 DEF Editing
  <1>2. CASE owner # Nothing /\ owner' = [owner EXCEPT !.draft = Flushing(@)]
    <2> DEFINE d == owner.draft
               e == Flushing(d)
    <2>1. owner \in Owner /\ DraftInv(d, note[owner.page])
      BY <1>2, OwnedDraft
    <2>2. Update(e)
      BY <1>2, <2>1 DEF Update, Owner
    <2>3. e \in Draft /\ e.life = d.life /\ e.load = d.load
      BY <2>1, FlushingKeeps DEF DraftInv
    <2> QED BY <2>1, <2>2, <2>3, UpdateOpensNothing DEF Accepting
  <1> QED BY <1>1, <1>2 DEF Resolve, Commit, MustFlush

LEMMA SettleOpensNothing ==
  ASSUME PanelInv, SaveSettles
  PROVE  Editing' \in {Editing, None}
  <1> DEFINE d == owner.draft
             n == note[owner.page]
             e == Settled(d, d.saving.stored)
             f == IF commit' # Nothing THEN Flushing(e) ELSE e
  <1>1. /\ owner # Nothing /\ d.saving # Nothing
        /\ IF d.stop /\ e.life = "stopped" THEN Fresh(desired) ELSE Update(f)
    BY DEF SaveSettles, Saving, Update
  <1>2. owner \in Owner /\ DraftInv(d, n) /\ d.life # "stopped"
    BY <1>1, OwnedDraft
  <1>3. /\ e.load = d.load
        /\ e.life = "stopped" => d.stop
        /\ e.life # "stopped" => DraftInv(e, n) /\ e.life = d.life
    BY <1>1, <1>2, SettledInv
  <1>4. CASE d.stop /\ e.life = "stopped"
    BY <1>1, <1>4, FreshOpensNothing
  <1>5. CASE ~ (d.stop /\ e.life = "stopped")
    <2>1. DraftInv(e, n) /\ e.life = d.life
      BY <1>3, <1>5
    <2>2. f \in Draft /\ f.life = d.life /\ f.load = d.load
      BY <1>3, <2>1, FlushingKeeps DEF DraftInv
    <2>3. Update(f)
      BY <1>1, <1>5
    <2> HIDE DEF f
    <2> QED BY <1>2, <2>2, <2>3, UpdateOpensNothing DEF Accepting
  <1> QED BY <1>4, <1>5

LEMMA LoadOpens ==
  ASSUME PanelInv, Load
  PROVE  [Durable!Next]_(Durable!vars)
  <1> DEFINE d == owner.draft
             n == note[owner.page]
  <1>1. /\ owner # Nothing /\ d.life = "started" /\ d.load = "loading"
        /\ UNCHANGED <<note, accepted>>
    BY DEF Load, storeVars
  <1>2. /\ owner \in Owner /\ owner.page \in Page /\ d \in Draft /\ n \in Nat
        /\ accepted[owner.page] = n
    BY <1>1, OwnedDraft DEF DraftInv
  <1>3. CASE Update(Loaded(d, n))
    <2> DEFINE e == Loaded(d, n)
    <2>1. e \in Draft /\ Accepting(e)
      BY <1>1, <1>2 DEF Loaded, Draft, Accepting
    <2>2. owner' \in Owner /\ owner'.page = owner.page /\ owner'.draft = e
      BY <1>2, <1>3, <2>1 DEF Update, Owner
    <2>3. Editing = None /\ Editing' = owner.page
      BY <1>1, <2>1, <2>2, OwnerTypes DEF Editing, Accepting
    <2>4. Durable!Open
      BY <1>1, <1>2, <2>3 DEF Durable!Open
    <2> QED BY <2>4 DEF Durable!Next
  <1>4. CASE Update([d EXCEPT !.load = "failed"])
    <2> DEFINE e == [d EXCEPT !.load = "failed"]
    <2>1. e \in Draft /\ ~ Accepting(e)
      BY <1>2 DEF Draft, Accepting
    <2>2. Editing' \in {Editing, None}
      BY <1>2, <1>4, <2>1, UpdateOpensNothing
    <2> QED BY <1>1, <2>2, LeaveOrStutter
  <1> QED BY <1>3, <1>4 DEF Load

LEMMA EditEdits ==
  ASSUME PanelInv, Edit
  PROVE  [Durable!Next]_(Durable!vars)
  <1> DEFINE d == owner.draft
             t == edits + 1
             e == ContentChanged(d, t)
  <1>1. /\ owner # Nothing /\ Accepting(d) /\ Update(e)
        /\ accepted' = [accepted EXCEPT ![owner.page] = t] /\ note' = note
    BY DEF Edit, Mounted, Update
  <1>2. /\ DraftInv(d, note[owner.page]) /\ owner \in Owner /\ owner.page \in Page
        /\ d.text \in Nat /\ accepted[owner.page] = d.text
    BY <1>1, OwnedDraft, DraftTypes DEF Accepting
  <1>3. edits \in Nat /\ accepted \in [Page -> Nat] /\ Counted
    BY DEF PanelInv, TypeOK, NotesInv
  <1>4. t \in Nat /\ d.text < t /\ d.text <= t
    BY <1>2, <1>3 DEF Counted
  <1>5. e \in Draft /\ Accepting(e)
    BY <1>1, <1>2, <1>4, ScheduledInv DEF ContentChanged, DraftInv
  <1> HIDE DEF e, t
  <1>6. owner' \in Owner /\ owner'.page = owner.page /\ owner'.draft = e
    BY <1>1, <1>2, <1>5 DEF Update, Owner
  <1>7. Editing = owner.page /\ Editing' = owner.page
    BY <1>1, <1>5, <1>6, OwnerTypes DEF Editing
  <1>8. accepted'[owner.page] = t /\ owner.page # None
    BY <1>1, <1>2, <1>3, PanelAssumption
  <1>9. Durable!Edit
    BY <1>1, <1>2, <1>4, <1>7, <1>8 DEF Durable!Edit
  <1> QED BY <1>9 DEF Durable!Next

LEMMA PutStores ==
  ASSUME PanelInv, PutNote
  PROVE  [Durable!Next]_(Durable!vars)
  <1> DEFINE d == owner.draft
             n == note[owner.page]
             m == d.saving.text
             e == [d EXCEPT !.saving.stored = TRUE]
  <1>1. /\ owner # Nothing /\ d.saving # Nothing /\ Update(e)
        /\ note' = [note EXCEPT ![owner.page] = m] /\ accepted' = accepted
    BY DEF PutNote, Saving
  <1>2. /\ DraftInv(d, n) /\ owner \in Owner /\ owner.page \in Page
        /\ accepted[owner.page] = (IF d.load = "ready" THEN d.text ELSE n)
        /\ note \in [Page -> Nat]
    BY <1>1, OwnedDraft DEF TypeOK
  <1>3. /\ DraftInv(e, m) /\ d.load = "ready" /\ e.load = "ready" /\ e.life = d.life
        /\ n <= m /\ m <= d.text /\ m \in Nat /\ n \in Nat /\ d.text \in Nat
    BY <1>1, <1>2, StoredInv
  <1> HIDE DEF e, m
  <1>4. owner' \in Owner /\ owner'.page = owner.page /\ owner'.draft = e
    BY <1>1, <1>2, <1>3 DEF Update, Owner, DraftInv
  <1>5. Editing' = Editing
    BY <1>1, <1>3, <1>4, OwnerTypes DEF Editing, Accepting
  <1>6. CASE m = n
    <2>1. note' = note
      BY <1>1, <1>2, <1>6
    <2> QED BY <1>1, <1>5, <2>1 DEF Durable!vars
  <1>7. CASE n < m
    <2>1. note'[owner.page] = m /\ m <= accepted[owner.page]
      BY <1>1, <1>2, <1>3
    <2>2. Durable!Store
      BY <1>1, <1>2, <1>3, <1>5, <1>7, <2>1 DEF Durable!Store
    <2> QED BY <2>2 DEF Durable!Next
  <1> QED BY <1>3, <1>6, <1>7

(* Every step of the panel is a step of what it promises, or a stutter.    *)
THEOREM PanelImplementsDurable == Spec => ImplementsDurable
  <1>1. Init => Durable!Init
    BY DEF Init, Durable!Init, Editing
  <1>2. PanelInv /\ [Next]_vars => [Durable!Next]_(Durable!vars)
    <2> SUFFICES ASSUME PanelInv, [Next]_vars PROVE [Durable!Next]_(Durable!vars)
      OBVIOUS
    <2>1. CASE UNCHANGED vars
      BY <2>1 DEF vars, ownerVars, storeVars, Durable!vars, Editing
    <2>2. CASE TabEvent
      BY <2>2 DEF TabEvent, ownerVars, storeVars, Durable!vars, Editing
    <2>3. CASE Resolve
      BY <2>3, ResolveOpensNothing, LeaveOrStutter DEF Resolve, storeVars
    <2>4. CASE Render
      BY <2>4, RenderOpensNothing, LeaveOrStutter DEF Render, storeVars
    <2>5. CASE RetryOwnership
      <3>1. owner # Nothing
        BY <2>5 DEF RetryOwnership, PanelInv, NotesInv, OwnerInv
      <3> QED BY <2>5, <3>1, ReplaceOpensNothing, LeaveOrStutter DEF RetryOwnership, storeVars
    <2>6. CASE RetryLoad
      <3> DEFINE e == [owner.draft EXCEPT !.load = "loading"]
      <3>1. owner \in Owner /\ owner.draft \in Draft
        BY <2>6, OwnedDraft DEF RetryLoad
      <3>2. e \in Draft /\ ~ Accepting(e)
        BY <3>1 DEF Draft, Accepting
      <3> QED
        BY <2>6, <3>1, <3>2, UpdateOpensNothing, LeaveOrStutter DEF RetryLoad, storeVars
    <2>7. CASE TimerFires
      <3> DEFINE e == Debounced(owner.draft)
      <3>1. owner \in Owner /\ DraftInv(owner.draft, note[owner.page]) /\ owner.draft.timer
        BY <2>7, OwnedDraft DEF TimerFires
      <3>2. e \in Draft /\ e.life = owner.draft.life /\ e.load = owner.draft.load
        BY <3>1, DebouncedInv DEF DraftInv
      <3> QED
        BY <2>7, <3>1, <3>2, UpdateOpensNothing, LeaveOrStutter
           DEF TimerFires, storeVars, Accepting
    <2>8. CASE RetrySave
      <3> DEFINE e == Flushing(owner.draft)
      <3>1. owner \in Owner /\ DraftInv(owner.draft, note[owner.page])
        BY <2>8, OwnedDraft DEF RetrySave, Mounted
      <3>2. e \in Draft /\ e.life = owner.draft.life /\ e.load = owner.draft.load
        BY <3>1, FlushingKeeps DEF DraftInv
      <3> QED
        BY <2>8, <3>1, <3>2, UpdateOpensNothing, LeaveOrStutter
           DEF RetrySave, storeVars, Accepting
    <2>9. CASE SaveSettles
      BY <2>9, SettleOpensNothing, LeaveOrStutter DEF SaveSettles, storeVars
    <2>10. CASE Close
      <3>1. Durable!Close
        BY <2>10 DEF Close, Durable!Close, Editing
      <3> QED BY <3>1 DEF Durable!Next
    <2> QED
      BY <2>1, <2>2, <2>3, <2>4, <2>5, <2>6, <2>7, <2>8, <2>9, <2>10, LoadOpens, EditEdits, PutStores
         DEF Next, DraftNext
  <1> QED BY <1>1, <1>2, PanelInvariant, PTL DEF Spec, ImplementsDurable, Durable!Spec
=============================================================================
