---------------------------- MODULE PanelSession ----------------------------
(***************************************************************************)
(* A side panel: the page session (src/src/side-panel/activePageSession.ts)*)
(* follows the active tab, the ownership (pageNoteOwnership.ts) gives the  *)
(* page of the session a draft, one at a time, and the draft               *)
(* (PageNoteDraft) loads and saves its note.                               *)
(*                                                                         *)
(* An action is one event of the panel's event loop - a tab event, an      *)
(* answer of the browser or of the storage, a timer, a render, input of    *)
(* the user - with every promise continuation that follows from it.  Only  *)
(* this panel writes the notes: synchronization and identity migration     *)
(* have models of their own.                                               *)
(***************************************************************************)
EXTENDS PageNoteDraft, FiniteSets

CONSTANTS
  Page,         \* page keys
  None,         \* no supported page
  MaxEdits,     \* bound: edits of the user
  MaxRevision   \* bound: changes of the page's title stop at this revision

MaybePage == Page \cup {None}
Candidate == [page : MaybePage, stale : BOOLEAN]  \* stale: not the latest generation
Owner == [page : Page, draft : Draft]

ASSUME PanelAssumption ==
  /\ None \notin Page
  /\ Nothing \notin MaybePage /\ Nothing \notin Candidate /\ Nothing \notin Owner
  /\ MaxEdits \in Nat /\ MaxRevision \in Nat

VARIABLES
  tab,       \* the page of the active tab
  resolving, \* the latest tab event has no candidate yet
  commit,    \* the candidate that awaits the flush of the page before it
  queued,    \* the candidate behind it in #commitTail
  flushed,   \* #currentDocumentFlushed
  session,   \* the published page: #currentDocumentPageKey
  rendered,  \* the view has passed the last publication on to the ownership
  alert,     \* the panel says that the flush failed
  desired,   \* the page the ownership is asked for
  owner,     \* its draft and the page of it
  view,      \* the ownership's last view
  failure,   \* the draft could not be stopped
  note,      \* per page: the edit in storage
  edits,     \* number of edits so far
  accepted   \* history; per page: the last edit a draft took

sessionVars == <<tab, resolving, commit, queued, flushed, session, rendered, alert>>
ownerVars == <<desired, owner, view, failure>>
storeVars == <<note, edits, accepted>>
vars == <<sessionVars, ownerVars, storeVars>>

(* start: the panel asks for the active tab.                               *)
Init ==
  /\ tab \in MaybePage
  /\ resolving = TRUE /\ commit = Nothing /\ queued = Nothing /\ flushed = FALSE
  /\ session = None /\ rendered = TRUE /\ alert = FALSE
  /\ desired = None /\ owner = Nothing /\ view = "none" /\ failure = FALSE
  /\ note = [p \in Page |-> 0]
  /\ edits = 0
  /\ accepted = note

-----------------------------------------------------------------------------
(* The ownership. *)

(* Mutant of Fresh: a draft also for no page.                              *)
FreshUnchecked(want) ==
  owner' = [page |-> want, draft |-> NewDraft] /\ view' = "state"

(* A stopped draft is replaced by one for the page that is wanted now.     *)
Fresh(want) ==
  IF want = None THEN owner' = Nothing /\ view' = "none"
  ELSE owner' = [page |-> want, draft |-> NewDraft] /\ view' = "state"

(* Mutant of Replace: the ownership does not await the draft's stop.       *)
ReplaceAtOnce(want, shown) == Fresh(want)

(* #stopOwner: at once when all is saved, else the ownership waits.        *)
Replace(want, shown) ==
  LET d == Stopping(owner.draft)
  IN IF d.life = "stopped" THEN Fresh(want)
                           ELSE owner' = [owner EXCEPT !.draft = d] /\ view' = shown

(* #reconcile; touched: the title or the URL of the page changed.          *)
Reconcile(want, touched) ==
  IF failure THEN view' = "error" /\ UNCHANGED owner
  ELSE IF owner = Nothing THEN Fresh(want)
  ELSE IF owner.draft.stop THEN UNCHANGED <<owner, view>>
  ELSE IF owner.page # want \/ owner.draft.life # "started" THEN Replace(want, view)
  ELSE /\ owner' = IF touched THEN [owner EXCEPT !.draft = ContextChanged(@)] ELSE owner
       /\ view' = "state"

Touches == {FALSE} \cup {owner # Nothing /\ owner.draft.revision < MaxRevision}

(* The effect of usePageNoteDraft: setSession.                             *)
Render ==
  /\ ~ rendered
  /\ rendered' = TRUE
  /\ desired' = session
  /\ \E touched \in Touches : Reconcile(session, touched)
  /\ UNCHANGED <<tab, resolving, commit, queued, flushed, session, alert, failure, storeVars>>

(* "Retry local note" *)
RetryOwnership ==
  /\ view = "error" /\ desired # None
  /\ failure' = FALSE
  /\ Replace(desired, "none")
  /\ UNCHANGED <<sessionVars, desired, storeVars>>

-----------------------------------------------------------------------------
(* The page session. *)

(* Mutant of Superseded: a commit does not check the generation again.     *)
NotSuperseded(c) == c

(* A commit that is not of the latest generation will not publish.         *)
Superseded(c) == IF c = Nothing THEN Nothing ELSE [c EXCEPT !.stale = TRUE]

(* handleActivated, handleUpdated: a new generation.                       *)
TabEvent ==
  /\ tab' \in MaybePage
  /\ resolving' = TRUE
  /\ queued' = Nothing
  /\ commit' = Superseded(commit)
  /\ UNCHANGED <<flushed, session, rendered, alert, ownerVars, storeVars>>

Publish(p) ==
  /\ session' = p
  /\ flushed' = FALSE
  /\ rendered' = FALSE
  /\ alert' = FALSE

MustFlush(p) ==
  session # None /\ p # session /\ owner # Nothing /\ Unsaved(owner.draft)

(* #commitCandidate: the draft of the page before is flushed first.        *)
Commit(p) ==
  \/ /\ MustFlush(p) /\ ~ flushed
     /\ commit' = [page |-> p, stale |-> FALSE]
     /\ owner' = [owner EXCEPT !.draft = Flushing(@)]
     /\ UNCHANGED <<flushed, session, rendered, alert>>
  \/ /\ ~ MustFlush(p) \/ flushed
     /\ Publish(p)
     /\ UNCHANGED <<commit, owner>>

(* The tab resolves to its page, or to none when a lookup fails.           *)
Resolve ==
  /\ resolving
  /\ resolving' = FALSE
  /\ \E p \in {tab, None} :
       \/ commit = Nothing /\ Commit(p) /\ UNCHANGED queued
       \/ /\ commit # Nothing
          /\ queued' = p
          /\ UNCHANGED <<commit, flushed, session, rendered, alert, owner>>
  /\ UNCHANGED <<tab, desired, view, failure, storeVars>>

-----------------------------------------------------------------------------
(* The draft. *)

Update(d) == owner' = [owner EXCEPT !.draft = d]

(* The page's editor is on the screen.                                     *)
Mounted ==
  /\ owner # Nothing /\ owner.page = desired /\ view = "state"
  /\ owner.draft.load = "ready"

(* #load of a started draft; the note service may fail.                    *)
Load ==
  /\ owner # Nothing /\ owner.draft.life = "started" /\ owner.draft.load = "loading"
  /\ \/ Update(Loaded(owner.draft, note[owner.page]))
     \/ Update([owner.draft EXCEPT !.load = "failed"])
  /\ UNCHANGED <<sessionVars, desired, view, failure, storeVars>>

(* "Retry loading note" *)
RetryLoad ==
  /\ owner # Nothing /\ owner.page = desired /\ view = "state"
  /\ owner.draft.life = "started" /\ owner.draft.load = "failed"
  /\ Update([owner.draft EXCEPT !.load = "loading"])
  /\ UNCHANGED <<sessionVars, desired, view, failure, storeVars>>

(* The user types; a draft that is not started any more ignores it.        *)
Edit ==
  /\ Mounted /\ Accepting(owner.draft)
  /\ edits < MaxEdits
  /\ edits' = edits + 1
  /\ Update(ContentChanged(owner.draft, edits'))
  /\ accepted' = [accepted EXCEPT ![owner.page] = edits']
  /\ UNCHANGED <<sessionVars, desired, view, failure, note>>

TimerFires ==
  /\ owner # Nothing /\ owner.draft.timer
  /\ Update(Debounced(owner.draft))
  /\ UNCHANGED <<sessionVars, desired, view, failure, storeVars>>

(* "Retry saving note" *)
RetrySave ==
  /\ Mounted /\ owner.draft.life = "started" /\ owner.draft.phase = "error"
  /\ Update(Flushing(owner.draft))
  /\ UNCHANGED <<sessionVars, desired, view, failure, storeVars>>

Saving == owner # Nothing /\ owner.draft.saving # Nothing

(* saveDraft, clearPage: the note is durable, the panel does not know yet. *)
PutNote ==
  /\ Saving /\ ~ owner.draft.saving.stored
  /\ note' = [note EXCEPT ![owner.page] = owner.draft.saving.text]
  /\ Update([owner.draft EXCEPT !.saving.stored = TRUE])
  /\ UNCHANGED <<sessionVars, desired, view, failure, edits, accepted>>

(* Mutant of FlushFailed: the failure ends the chain of candidates.        *)
FlushFailedUncaught ==
  /\ commit' = Nothing /\ queued' = Nothing
  /\ alert' = ~ commit.stale
  /\ UNCHANGED <<flushed, session, rendered>>

(* The alert, unless stale; the candidate behind flushes once more.        *)
FlushFailed ==
  IF queued = Nothing
  THEN /\ commit' = Nothing
       /\ alert' = (alert \/ ~ commit.stale)
       /\ UNCHANGED <<queued, flushed, session, rendered>>
  ELSE /\ queued' = Nothing
       /\ IF queued # session
          THEN /\ commit' = [page |-> queued, stale |-> FALSE]
               /\ UNCHANGED <<flushed, session, rendered, alert>>
          ELSE Publish(queued) /\ commit' = Nothing

(* The candidate, or the one behind it, is published.                      *)
FlushDone ==
  /\ commit' = Nothing /\ queued' = Nothing
  /\ IF commit.stale /\ queued = Nothing
     THEN flushed' = TRUE /\ UNCHANGED <<session, rendered, alert>>
     ELSE Publish(IF commit.stale THEN queued ELSE commit.page)

(* The save ends; a failed flush that another candidate awaits starts anew.*)
SaveSettles ==
  /\ Saving
  /\ LET before == owner.draft
         d == Settled(before, before.saving.stored)
         failed == Unsaved(d)
     IN /\ IF commit = Nothing \/ d.flush
           THEN UNCHANGED <<commit, queued, flushed, session, rendered, alert>>
           ELSE IF failed THEN FlushFailed ELSE FlushDone
        /\ IF before.stop /\ d.life = "stopped" THEN Fresh(desired) /\ UNCHANGED failure
           ELSE /\ Update(IF commit' # Nothing THEN Flushing(d) ELSE d)
                /\ IF before.stop /\ ~ d.stop
                   THEN failure' = TRUE /\ view' = "error"
                   ELSE UNCHANGED <<failure, view>>
  /\ UNCHANGED <<tab, resolving, desired, storeVars>>

(* The panel closes, with no flush, and is opened again.                   *)
Close ==
  /\ resolving' = TRUE /\ commit' = Nothing /\ queued' = Nothing /\ flushed' = FALSE
  /\ session' = None /\ rendered' = TRUE /\ alert' = FALSE
  /\ desired' = None /\ owner' = Nothing /\ view' = "none" /\ failure' = FALSE
  /\ accepted' = note
  /\ UNCHANGED <<tab, note, edits>>

DraftNext ==
  Load \/ RetryLoad \/ Edit \/ TimerFires \/ RetrySave \/ PutNote \/ SaveSettles
Next == TabEvent \/ Resolve \/ Render \/ RetryOwnership \/ DraftNext \/ Close

Fairness == WF_vars(TimerFires) /\ WF_vars(PutNote \/ SaveSettles)
Spec == Init /\ [][Next]_vars
FairSpec == Spec /\ Fairness

-----------------------------------------------------------------------------
(* Every variable has its type.                                            *)
TypeOK ==
  /\ tab \in MaybePage /\ session \in MaybePage /\ desired \in MaybePage
  /\ resolving \in BOOLEAN /\ flushed \in BOOLEAN /\ rendered \in BOOLEAN
  /\ alert \in BOOLEAN /\ failure \in BOOLEAN
  /\ commit \in Candidate \cup {Nothing}
  /\ queued \in MaybePage \cup {Nothing}
  /\ owner \in Owner \cup {Nothing}
  /\ view \in {"none", "state", "error"}
  /\ note \in [Page -> Nat] /\ edits \in Nat /\ accepted \in [Page -> Nat]

(* No accepted edit is lost or shown to be what it is not: while a draft of*)
(* a page has loaded, it has the last edit the panel took, whatever        *)
(* navigations, failed saves and retries there were; when none has, the    *)
(* stored note is that edit.                                               *)
NothingLost ==
  \A p \in Page :
    accepted[p] = IF owner # Nothing /\ owner.page = p /\ owner.draft.load = "ready"
                  THEN owner.draft.text ELSE note[p]

(* Unsaved content is never forgotten: a debounce or a save is under way,  *)
(* or the panel shows the failure and a way to retry.                      *)
UnsavedIsScheduled ==
  owner # Nothing /\ Unsaved(owner.draft) =>
    owner.draft.timer \/ Saving \/ owner.draft.phase = "error" \/ failure

(* "saved locally" is only shown when the stored note is what the editor   *)
(* has, also when edits and saves overlap.                                 *)
SavedMeansStored ==
  Mounted /\ owner.draft.life = "started" /\ owner.draft.phase = "saved"
    => note[owner.page] = owner.draft.text

(* When tab events, lookups and flushes have come to rest, the session is  *)
(* that of the active tab, or the panel says why it is not.                *)
SessionIsCurrent ==
  ~ resolving /\ commit = Nothing => session \in {tab, None} \/ alert

(* A candidate that a newer tab event has made stale is never published.   *)
OnlyCurrentPublished == [][session' \in {session, tab, None}]_vars

(* README.md: the panel saves an actual change when editing stops.  An     *)
(* editor on the screen takes edits.                                       *)
EditsAccepted == Mounted => Accepting(owner.draft)

(* An edit that was taken is stored, or the panel reports a failed save or *)
(* stop, or closes.                                                        *)
EditIsSaved ==
  \A p \in Page : (accepted[p] # note[p]) ~>
     (accepted[p] = note[p] \/ failure \/ alert \/ (owner # Nothing /\ owner.draft.phase = "error"))

(* The page whose draft takes edits.                                       *)
Editing == IF owner # Nothing /\ Accepting(owner.draft) THEN owner.page ELSE None

Durable == INSTANCE DurableNotes WITH stored <- note, editing <- Editing

(* The panel implements what DurableNotes promises.                        *)
ImplementsDurable == Durable!Spec
=============================================================================
