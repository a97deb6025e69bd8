---------------------------- MODULE PageNoteDraft ----------------------------
(***************************************************************************)
(* The draft of one page in a side panel:                                  *)
(* src/src/side-panel/pageNoteDraft.ts, PageNoteDraftController.           *)
(*                                                                         *)
(* The operators say what one event does to a draft, with all promise      *)
(* continuations that run before the next event.  An edit is a number that *)
(* grows with every edit of the panel and stands for the content.          *)
(***************************************************************************)
EXTENDS Naturals

CONSTANT Nothing  \* undefined

Save == [revision : Nat, text : Nat, stored : BOOLEAN]
ASSUME NothingAssumption == Nothing \notin Save

Draft == [
  life : {"started", "stopping", "stopped"},
  load : {"loading", "failed", "ready"},
  phase : {"idle", "saving", "saved", "error"},  \* what the panel shows
  text : Nat,        \* latestContentHtml
  revision : Nat,    \* of the latest content and page context
  handled : Nat,     \* the last revision saved
  eligible : Nat,    \* the last revision whose debounce is over
  timer : BOOLEAN,   \* the debounce is running
  drain : BOOLEAN,   \* backgroundDrain awaits a save
  flush : BOOLEAN,   \* flushPromise awaits a save
  stop : BOOLEAN,    \* stopPromise awaits the flush
  saving : Save \cup {Nothing}]  \* activePersistence; stored: the note is durable

NewDraft == [life |-> "started", load |-> "loading", phase |-> "idle", text |-> 0,
             revision |-> 0, handled |-> 0, eligible |-> 0, timer |-> FALSE,
             drain |-> FALSE, flush |-> FALSE, stop |-> FALSE, saving |-> Nothing]

Unsaved(d) == d.revision > d.handled

(* A started draft takes edits. *)
Accepting(d) == d.life = "started" /\ d.load = "ready"

(* #getOrStartPersistence *)
StartSave(d) ==
  IF d.saving # Nothing THEN d ELSE
  [d EXCEPT !.saving = [revision |-> d.revision, text |-> d.text, stored |-> FALSE]]

Loaded(d, text) == [d EXCEPT !.load = "ready", !.text = text]

(* Mutant of Scheduled: nothing is scheduled during a background save.     *)
ScheduledWhenIdle(d) ==
  [d EXCEPT !.revision = @ + 1, !.phase = "saving", !.timer = ~ d.flush /\ ~ d.drain]

(* A new revision: the debounce starts again, unless a flush will see it.  *)
Scheduled(d) ==
  [d EXCEPT !.revision = @ + 1, !.phase = "saving", !.timer = ~ d.flush]

ContentChanged(d, text) == Scheduled([d EXCEPT !.text = text])

(* updatePageContext: unsaved content is scheduled again.                  *)
ContextChanged(d) == IF d.life = "started" /\ Unsaved(d) THEN Scheduled(d) ELSE d

(* The debounce is over: #startBackgroundDrain.                            *)
Debounced(d) ==
  StartSave([d EXCEPT !.timer = FALSE, !.eligible = d.revision, !.drain = TRUE])

(* flushPendingSave *)
Flushing(d) ==
  IF ~ Unsaved(d) \/ d.flush THEN d ELSE
  StartSave([d EXCEPT !.timer = FALSE, !.flush = TRUE, !.eligible = d.revision])

(* Mutant of Stopping: the draft does not wait for its last save.          *)
StoppingAtOnce(d) == [d EXCEPT !.life = "stopped", !.timer = FALSE]

(* stop: no more edits; stopped when all that was accepted is saved.       *)
Stopping(d) ==
  LET blocked == [d EXCEPT !.life = "stopping", !.timer = FALSE]
  IN IF Unsaved(d) THEN [Flushing(blocked) EXCEPT !.stop = TRUE]
                   ELSE [blocked EXCEPT !.life = "stopped"]

(* A save ends: #applyOutcome, and the loops that await it, the background *)
(* drain's and #flushUntilCurrent's; shown: the panel shows the outcome.   *)
SettledWith(d, ok, shown) ==
  LET revision == d.saving.revision
      rejected == ~ ok /\ revision = d.revision
      handled == IF ok /\ revision > d.handled THEN revision ELSE d.handled
      more == d.revision > handled /\ ~ rejected
      drain == d.drain /\ more /\ d.eligible >= d.revision
      flush == d.flush /\ more
      settled == [d EXCEPT
        !.saving = Nothing, !.handled = handled, !.drain = drain, !.flush = flush,
        !.eligible = IF flush THEN d.revision ELSE @,
        !.phase = IF shown /\ d.life = "started" THEN IF ok THEN "saved" ELSE "error"
                  ELSE @,
        !.stop = @ /\ flush,
        !.life = IF d.stop /\ ~ more /\ ~ rejected THEN "stopped" ELSE @]
  IN IF drain \/ flush THEN StartSave(settled) ELSE settled

(* Mutant of Settled: any save that succeeds is shown as the latest.       *)
SettledShownAlways(d, ok) == SettledWith(d, ok, TRUE)

(* Mutant of Settled: a flush is over after one save.                      *)
SettledOnce(d, ok) ==
  SettledWith([d EXCEPT !.flush = FALSE], ok, d.saving.revision = d.revision)

(* Only the outcome of the latest revision is shown.                       *)
Settled(d, ok) == SettledWith(d, ok, d.saving.revision = d.revision)
=============================================================================
