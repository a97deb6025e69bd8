------------------------------ MODULE PanelViews ------------------------------
(***************************************************************************)
(* What an extension page shows of storage while side panels save notes    *)
(* and the service worker synchronizes them (SyncedNotes): one of          *)
(*   "status"  the synchronization status of the side panel's page         *)
(*             (DefaultPageSyncVisibility and the panel's SyncEvidence),   *)
(*   "count"   the pending count of the options page                       *)
(*             (DefaultPendingSyncCount),                                  *)
(*   "recent"  the recent notes below the side panel's page                *)
(*             (DefaultRootRecentNotesIndex).                              *)
(* The view runs in another process than the writers: a storage event and  *)
(* the answer of a read reach it some time after the write and the read.   *)
(*                                                                         *)
(* Left out: builds without BYOS.  The connection changes between two runs *)
(* only: SyncRuntime has the runs that lose theirs.                        *)
(***************************************************************************)
EXTENDS SyncedNotes, SyncEvidence, FiniteSets

CONSTANTS
  Here,           \* the side panel the view belongs to
  Below,          \* <<p, q>>: recent notes of q include page p
  Kinds,          \* the views looked at
  MaxSuccess,     \* bound: successful synchronizations recorded
  MaxConnections, \* bound: connections
  MaxAbandoned,   \* bound: loads followed after their cycle is over
  MaxFaults       \* bound: failures of storage, of requests and of subscriptions

ASSUME ViewAssumption ==
  /\ Here \in Window /\ Shown \subseteq Nat /\ 0 \notin Page /\ None \notin Nat
  /\ Kinds \subseteq {"status", "count", "recent"}
  /\ MaxSuccess \in Nat /\ MaxConnections \in Nat
  /\ MaxAbandoned \in Nat /\ MaxFaults \in Nat

VARIABLES
  kind,       \* the view that is looked at
  used,       \* revisions that saves have generated or that were read
  connection, \* byosConnection: [id, success], or None
  connections,\* connections so far
  expired,    \* connections whose token has expired
  successes,  \* successful synchronizations recorded so far
  recording,  \* a synced run has not recorded its success yet
  faults,     \* failures so far
  news,       \* the keys of storage events that have not reached the view
  cycle,      \* #cycle
  abandoned,  \* the pages of loads whose cycle is over
  view,       \* #state
  phase,      \* the save phase of the draft of the page
  dirty,      \* the draft has content no save has taken
  evidence,   \* LocalSaveSyncEvidence
  since       \* history: what synchronization has done since three moments

settingsVars == <<connection, connections, expired, successes, recording>>
storeVars == <<surface, used, settingsVars>>
readerVars == <<kind, cycle, abandoned, view, phase, dirty, evidence>>
viewVars == <<storeVars, faults, news, readerVars, since>>

Fault == faults < MaxFaults /\ faults' = faults + 1

Connection == [id : Nat \ {0}, success : Nat]

ASSUME NoneAssumption == None \notin Connection

(* The storage keys with events: those of the pages, and the settings.     *)
Settings == 0
Key == Page \cup {Settings}

(* The options page has one view, whatever the page.                       *)
Views == IF kind = "count" THEN {0} ELSE Shown

-----------------------------------------------------------------------------
(* What the repositories answer. *)

Reads == CASE kind = "status" -> {"settings", "queue"}
            [] kind = "count"  -> {"queue"}
            [] OTHER           -> {"notes"}

Pending(p) ==
  IF p \in Page /\ waiting[p] # Absent THEN waiting[p] ELSE None

(* listRecentByOrigin and immutableEntries: live notes of other pages.     *)
Recent(q) ==
  {<<p, notes[p]>> : p \in {r \in Page \ {q} :
     <<r, q>> \in Below /\ notes[r] # Absent /\ notes[r].content # Cleared}}

Answer(source, q) ==
  CASE source = "settings" -> connection
    [] source = "queue" /\ kind = "status" -> Pending(q)
    [] source = "queue" /\ kind = "count" ->
         Cardinality({p \in Page : waiting[p] # Absent})
    [] OTHER -> Recent(q)

Stored(q) == [s \in Reads |-> Answer(s, q)]

(* Mutant of Matches: the status does not subscribe to the settings.       *)
MatchesPage(key, c) == kind = "status" => key = c.page

(* The subscriptions of chromeSyncVisibilityChanges.ts and                 *)
(* chromeRecentNoteChanges.ts.                                             *)
Matches(key, c) == kind = "status" => key \in {Settings, c.page}

-----------------------------------------------------------------------------
(* What the panel shows. *)

Without(q, status) == [page |-> q, status |-> status, value |-> << >>, reconnect |-> FALSE]
NoView == Without(None, "none")
Loading(q) == Without(q, "loading")
LoadError(q) == Without(q, "error")

(* reconnect: hasExpired, by the clock at the time of the publication.     *)
Ready(q, value) ==
  [page |-> q, status |-> "ready", value |-> value,
   reconnect |-> kind = "status" /\ value["settings"] # None
                 /\ value["settings"].id \in expired]

(* Recent notes stay on the screen while they are loaded again.            *)
Listed == kind = "recent" /\ view.status \in {"ready", "refreshing", "stale"}

(* readyPageState *)
Mode(v) ==
  LET c == v.value["settings"]
  IN IF v.value["queue"] # None
     THEN IF c = None \/ v.reconnect THEN "waiting-reconnect" ELSE "waiting"
     ELSE IF c = None THEN "local-only"
     ELSE IF v.reconnect THEN "reconnect-required"
     ELSE IF c.success = 0 THEN "checking" ELSE "synced"

Report(v) ==
  IF v.status = "ready"
  THEN [ready   |-> TRUE, pending |-> v.value["queue"],
        success |-> IF v.value["settings"] = None THEN 0 ELSE v.value["settings"].success]
  ELSE [ready |-> FALSE, pending |-> None, success |-> 0]

(* PageSyncStatus: what the panel says when the draft's save is over.      *)
SaysSynced ==
  /\ kind = "status" /\ view.status = "ready" /\ Mode(view) = "synced"
  /\ phase = "idle" \/ (phase = "saved-locally" /\ evidence.trust)

(* #publish, and the panel's connection to it.                             *)
Publish(v) ==
  /\ view' = v
  /\ evidence' = IF kind # "status" THEN evidence
                 ELSE IF v.page # view.page THEN ClearLocalSave(evidence)
                 ELSE ObserveSyncEvidence(evidence, Report(v))

(* The draft's save phase changes.                                         *)
Phase(next) ==
  /\ phase' = next
  /\ evidence' = Lifecycle(evidence, Report(view), phase, next)

NothingSince == [load |-> "nothing", screen |-> "nothing", save |-> "nothing"]
-----------------------------------------------------------------------------
Revisions ==
  {notes[p].revisionId : p \in {q \in Page : notes[q] # Absent}}

ViewInit ==
  /\ NotesInit
  /\ kind \in Kinds
  /\ used = Revisions /\ faults = 0
  /\ connection \in {None} \cup [id : {1}, success : 0..MaxSuccess]
  /\ connections = IF connection = None THEN 0 ELSE 1
  /\ successes = IF connection = None THEN 0 ELSE connection.success
  /\ expired = {} /\ recording = FALSE
  /\ news = {}
  /\ cycle = NoCycle /\ abandoned = {} /\ view = NoView
  /\ phase = "idle" /\ dirty = FALSE /\ evidence = NoEvidence
  /\ since = NothingSince

panelVars == <<kind, phase, dirty>>

-----------------------------------------------------------------------------
(* The load cycle. *)

OnPage(q) == cycle.page = q
Running == cycle.load.on

(* setPage, setContext, and connecting and disconnecting the options page. *)
(* The draft of the page before has been flushed.                          *)
Show(q) ==
  /\ q \in Views \cup {None} /\ ~ OnPage(q)
  /\ phase \in {"idle", "saved-locally"}
  /\ abandoned' =
       IF Running /\ Cardinality(abandoned) < MaxAbandoned
       THEN abandoned \cup {cycle.page} ELSE abandoned
  /\ IF q = None THEN cycle' = NoCycle /\ view' = NoView /\ UNCHANGED faults
     ELSE /\ \/ cycle' = NewCycle(q, TRUE) /\ UNCHANGED faults
             \/ cycle' = NewCycle(q, FALSE) /\ Fault
          /\ view' = Loading(q)
  /\ phase' = "idle" /\ dirty' = FALSE /\ evidence' = ClearLocalSave(evidence)
  /\ UNCHANGED <<storeVars, news, kind>>

(* #requestLoad; the recent notes show that they are loaded again.         *)
Request(c) ==
  /\ cycle' = Requested(c)
  /\ IF kind # "recent" THEN UNCHANGED <<view, evidence>>
     ELSE Publish(IF Listed THEN [view EXCEPT !.status = "refreshing"]
                            ELSE Loading(c.page))

(* A storage event reaches the page.                                       *)
Deliver(key) ==
  /\ key \in news
  /\ news' = news \ {key}
  /\ IF cycle.watching /\ Matches(key, cycle)
     THEN Request(cycle)
     ELSE UNCHANGED <<cycle, view, evidence>>
  /\ UNCHANGED <<storeVars, faults, panelVars, abandoned>>

Unread == Reads \ DOMAIN cycle.load.seen

(* The next repository call of the load: one critical section each, in the *)
(* order of the page's operation chain.                                    *)
Read ==
  /\ Running
  /\ \E source \in Unread :
       /\ "settings" \in Unread => source = "settings"
       /\ cycle' = Answered(cycle, source, Answer(source, cycle.page))
  /\ UNCHANGED <<storeVars, faults, news, panelVars, abandoned, view, evidence>>

(* The last answer arrives.                                                *)
CompleteLoad ==
  /\ Running /\ Unread = {}
  /\ cycle' = LoadEnds(cycle)
  /\ IF cycle.load.superseded THEN UNCHANGED <<view, evidence>>
     ELSE Publish(IF cycle.watching \/ kind = "recent"
                  THEN Ready(cycle.page, cycle.load.seen) ELSE LoadError(cycle.page))
  /\ UNCHANGED <<storeVars, faults, news, panelVars, abandoned>>

(* Mutant of FailLoad: an error whatever the panel shows.                  *)
FailLoadAlways ==
  /\ Fault /\ Running
  /\ cycle' = LoadEnds(cycle)
  /\ IF cycle.load.superseded THEN UNCHANGED <<view, evidence>>
     ELSE Publish(LoadError(cycle.page))
  /\ UNCHANGED <<storeVars, news, panelVars, abandoned>>

(* A repository call fails.                                                *)
FailLoad ==
  /\ Fault /\ Running
  /\ cycle' = LoadEnds(cycle)
  /\ IF cycle.load.superseded THEN UNCHANGED <<view, evidence>>
     ELSE Publish(IF Listed THEN [view EXCEPT !.status = "stale"]
                            ELSE LoadError(cycle.page))
  /\ UNCHANGED <<storeVars, news, panelVars, abandoned>>

(* Mutant of AbandonedReturns: no check that the cycle is still the one.   *)
AbandonedFails(q) ==
  /\ q \in abandoned
  /\ abandoned' = abandoned \ {q}
  /\ Publish(LoadError(q))
  /\ UNCHANGED <<storeVars, faults, news, panelVars, cycle>>

(* The load of a cycle that is over returns: this.#cycle !== cycle.        *)
AbandonedReturns(q) ==
  /\ q \in abandoned
  /\ abandoned' = abandoned \ {q}
  /\ UNCHANGED <<storeVars, faults, news, panelVars, cycle, view, evidence>>

(* "Retry recent notes"                                                    *)
Retry ==
  /\ kind = "recent"
  /\ view.status \in {"error", "stale"} \/ (view.status = "ready" /\ ~ cycle.watching)
  /\ \/ Request([cycle EXCEPT !.watching = TRUE]) /\ UNCHANGED faults
     \/ ~ cycle.watching /\ Request(cycle) /\ Fault
  /\ UNCHANGED <<storeVars, news, panelVars, abandoned>>

ViewStep == Read \/ CompleteLoad \/ \E k \in Key : Deliver(k)

-----------------------------------------------------------------------------
(* Every write of storage has an event.  Two events of a key under way are *)
(* one: the load that the first requests already reads both writes.  (An   *)
(* entry that is only rescheduled changes nothing that a view reads.)      *)
Announce(keys) == news' = news \cup keys

SettingsKeys == IF kind = "recent" THEN {} ELSE {Settings}

(* The keys of the pages the step writes to, as far as the view cares.     *)
Written ==
  IF kind = "recent" THEN {p \in Page : notes'[p] # notes[p]}
                     ELSE {p \in Page : waiting'[p] # waiting[p]}

viewOnly == <<cycle, abandoned, view>>

(* The service worker: ByosSyncRuntime#run, with one run at a time, ended  *)
(* when its success is recorded.                                           *)
CanRun ==
  /\ connection # None /\ connection.id \notin expired
  /\ ~ recording

Synchronize ==
  /\ \/ StartRun /\ CanRun /\ UNCHANGED faults
     \/ EndRun /\ UNCHANGED faults
     \/ \E p \in Page : Retire(p) /\ UNCHANGED faults
     \/ /\ kind = "recent" /\ UNCHANGED faults
        /\ \E p \in Page, record \in Record : Download(p, record)
     \/ \E p \in Page, revision \in used : Requeue(p, revision) /\ Fault
  /\ recording' = (synced' /\ successes < MaxSuccess)
  /\ used' = used \cup Revisions'
  /\ Announce(Written)
  /\ UNCHANGED <<connection, connections, expired, successes, readerVars>>

(* updateLastSuccessfulSyncAtIfCurrent; a later success has a later time.  *)
RecordSuccess ==
  /\ recording /\ recording' = FALSE
  /\ \/ /\ connection' = [connection EXCEPT !.success = successes + 1]
        /\ successes' = successes + 1
        /\ Announce(SettingsKeys)
        /\ UNCHANGED faults
     \/ Fault /\ UNCHANGED <<connection, successes, news>>
  /\ UNCHANGED <<surface, used, connections, expired, readerVars>>

(* Mutant of Reconnects: the success is recorded on another connection.    *)
ReconnectsKeeping(c) ==
  /\ ~ running
  /\ connection' = c
  /\ Announce(SettingsKeys)
  /\ UNCHANGED <<surface, used, recording, expired, successes, faults, readerVars>>

(* Between two runs.  The success of a run whose connection is replaced is *)
(* not recorded.                                                           *)
Reconnects(c) ==
  /\ ~ running
  /\ connection' = c /\ recording' = FALSE
  /\ Announce(SettingsKeys)
  /\ UNCHANGED <<surface, used, expired, successes, faults, readerVars>>

Connect ==
  /\ connection # None => connection.id \in expired
  /\ connections < MaxConnections
  /\ connections' = connections + 1
  /\ Reconnects([id |-> connections + 1, success |-> 0])

Disconnect == connection # None /\ Reconnects(None) /\ UNCHANGED connections

(* Nothing is written when a token expires.                                *)
Expire ==
  /\ connection # None /\ connection.id \notin expired
  /\ expired' = expired \cup {connection.id}
  /\ UNCHANGED <<surface, used, connection, connections, successes, recording,
                 faults, news, readerVars>>

-----------------------------------------------------------------------------
(* The saves.  With the status, those of the panel's own draft             *)
(* (PageNoteDraft) of the page it is on.                                   *)
Own(w) == kind = "status" /\ w = Here

(* The user types.                                                         *)
Edit ==
  /\ kind = "status" /\ cycle.page \in Page
  /\ ~ (dirty /\ phase = "saving") /\ dirty' = TRUE
  /\ Phase("saving")
  /\ UNCHANGED <<storeVars, faults, news, kind, viewOnly>>

(* The user asks for the failed save again; the panel goes on saying that  *)
(* it has failed until the new one is over.                                *)
RetrySave ==
  /\ phase = "save-error" /\ ~ dirty /\ saves[Here][cycle.page] = NoSave
  /\ dirty' = TRUE
  /\ UNCHANGED <<storeVars, faults, news, kind, viewOnly, phase, evidence>>

(* #saveValidated reads the note.                                          *)
StartSave(w, p) ==
  /\ Own(w) => OnPage(p) /\ dirty
  /\ \E record \in Record :
       /\ record.revisionId \notin used
       /\ used' = used \cup {record.revisionId}
       /\ BeginSave(w, p, record)
  /\ dirty' = (dirty /\ ~ Own(w))
  /\ UNCHANGED <<settingsVars, faults, news, kind, viewOnly, phase, evidence>>

(* A save is over; a newer edit has yet to be saved.                       *)
Saved(w, result) ==
  IF Own(w) /\ ~ dirty THEN Phase(result) ELSE UNCHANGED <<phase, evidence>>

(* Nothing has changed.                                                    *)
SaveUnchanged ==
  /\ dirty /\ saves[Here][cycle.page] = NoSave
  /\ dirty' = FALSE
  /\ Phase("saved-locally")
  /\ UNCHANGED <<storeVars, faults, news, kind, viewOnly>>

WriteNote(w, p) ==
  /\ PutNote(w, p)
  /\ Announce(Written)
  /\ UNCHANGED <<used, settingsVars, faults, readerVars>>

(* createLocalMutationSyncObserver: a revision is queued while connected.  *)
ObserveSave(w, p) ==
  /\ saves[w][p].stage = "observe"
  /\ IF connection # None THEN Observe(w, p) ELSE DropSave(w, p)
  /\ Announce(Written)
  /\ Saved(w, "saved-locally")
  /\ UNCHANGED <<used, settingsVars, faults, kind, viewOnly, dirty>>

(* The put fails, and the panel says so; or the observer does, silently.   *)
FailSave(w, p) ==
  /\ Fault /\ DropSave(w, p)
  /\ Saved(w, IF saves[w][p].stage = "put" THEN "save-error" ELSE "saved-locally")
  /\ UNCHANGED <<used, settingsVars, news, kind, viewOnly, dirty>>

-----------------------------------------------------------------------------
(* History: what synchronization has done for the page since what the      *)
(* load's answers, the screen and the evidence of the save rest on was     *)
(* read: "nothing"; "queued", another entry waits than was read; "synced", *)
(* such an entry has left the queue, or a run has recorded its success.    *)
Since(before) ==
  LET p == cycle.page
  IN IF \/ before = "synced" \/ successes' > successes
        \/ before = "queued" /\ Pending(p)' = None
     THEN "synced"
     ELSE IF Pending(p)' \notin {Pending(p), None} THEN "queued" ELSE before

SinceRead ==
  IF \/ "settings" \notin DOMAIN cycle'.load.seen
     \/ "queue" \notin DOMAIN cycle.load.seen /\ Since(since.load) # "synced"
  THEN "nothing" ELSE Since(since.load)

(* On a screen that shows no answer, whatever waits is another entry.      *)
SinceShown ==
  LET published == Running /\ ~ Running'
  IN CASE cycle'.page # cycle.page \/ (published /\ view'.status # "ready") ->
            IF Pending(cycle.page)' = None THEN "nothing" ELSE "queued"
       [] cycle'.page = cycle.page /\ published /\ view'.status = "ready" -> since.load
       [] OTHER -> Since(since.screen)

Saving == {"saving", "saved-locally"}

(* The save rests on what the screen showed when its phase began.          *)
SinceSave ==
  CASE phase' \notin Saving -> "nothing"
    [] phase' \in Saving /\ (phase \notin Saving \/ (phase' = "saving" /\ phase # "saving")) ->
         SinceShown
    [] OTHER -> Since(since.save)

Remember ==
  since' = IF kind # "status" THEN since
           ELSE [load |-> SinceRead, screen |-> SinceShown, save |-> SinceSave]

ViewerNext ==
  \/ \E q \in Views \cup {None} : Show(q)
  \/ \E q \in abandoned : AbandonedReturns(q)
  \/ ViewStep \/ FailLoad \/ Retry
WriterNext ==
  \/ Synchronize \/ RecordSuccess \/ Connect \/ Disconnect \/ Expire
  \/ Edit \/ RetrySave \/ SaveUnchanged
  \/ \E w \in Window, p \in Page :
       StartSave(w, p) \/ WriteNote(w, p) \/ ObserveSave(w, p) \/ FailSave(w, p)

ViewNext == (ViewerNext \/ WriterNext) /\ Remember

(* Chrome delivers events and answers; nothing else need happen.           *)
ViewFairness ==
  /\ WF_viewVars((Read \/ CompleteLoad) /\ Remember)
  /\ \A k \in Key : WF_viewVars(Deliver(k) /\ Remember)

ViewSpec == ViewInit /\ [][ViewNext]_viewVars
FairViewSpec == ViewSpec /\ ViewFairness

-----------------------------------------------------------------------------
(* Answers of repositories.                                                *)
AreAnswers(f) ==
  /\ DOMAIN f \subseteq Reads
  /\ "settings" \in DOMAIN f => f["settings"] \in Connection \cup {None}
  /\ kind = "status" /\ "queue" \in DOMAIN f => f["queue"] \in Revision \cup {None}

Statuses == {"none", "loading", "error", "ready"} \cup
            IF kind = "recent" THEN {"refreshing", "stale"} ELSE {}

Progress == {"nothing", "queued", "synced"}

Evidence == [phase : {"inactive", "saving", "saved"}, trust : BOOLEAN, known : BOOLEAN,
             success : Nat, pending : Revision \cup {None}, last : Revision \cup {None},
             observed : Revision \cup {None}]

(* Every variable of the views has its type.                               *)
ViewTypeOK ==
  /\ SurfaceTypeOK
  /\ kind \in Kinds /\ used \subseteq Revision /\ faults \in 0..MaxFaults
  /\ connection \in Connection \cup {None}
  /\ connections \in Nat /\ successes \in Nat /\ expired \subseteq Nat
  /\ recording \in BOOLEAN /\ (recording => connection # None)
  /\ news \subseteq Key /\ abandoned \subseteq Views
  /\ cycle \in [page : Views \cup {None}, watching : BOOLEAN, load : {cycle.load}]
  /\ cycle.load \in [on : BOOLEAN, seen : {cycle.load.seen}, superseded : BOOLEAN]
  /\ AreAnswers(cycle.load.seen)
  /\ view \in [page : Views \cup {None}, status : Statuses, value : {view.value},
               reconnect : BOOLEAN]
  /\ view.status = "ready" => DOMAIN view.value = Reads /\ AreAnswers(view.value)
  /\ phase \in {"idle", "saving", "saved-locally", "save-error"} /\ dirty \in BOOLEAN
  /\ (dirty \/ phase # "idle" => kind = "status") /\ (dirty => phase \in {"saving", "save-error"})
  /\ evidence \in Evidence
  /\ since \in [load : Progress, screen : Progress, save : Progress]

(* No storage event and no load is under way.                              *)
Settled ==
  /\ cycle.watching /\ ~ Running
  /\ \A k \in news : ~ Matches(k, cycle)

(* What a view shows is about the page it is on: no load of a page that    *)
(* the panel has left is published, however late it returns.               *)
ViewOfShownPage == view.page = cycle.page

(* A view that has heard of every write shows what is stored, one that     *)
(* could not read it says so, and none goes on loading: whatever was       *)
(* written during its loads, by the panel, the worker or the options page. *)
SettledViewIsTrue ==
  Settled =>
    /\ view.status \notin {"loading", "refreshing"}
    /\ view.status = "ready" => view.value = Stored(cycle.page)

(* "Synced to BYOS" is never said of a save on account of what the screen  *)
(* already showed when its save phase began: since that was read, a run    *)
(* has succeeded, or an entry that the screen did not show has left the    *)
(* queue.  That may be the run or the entry of an older save: the claim    *)
(* then is early, and lasts until the newer entry has been read            *)
(* (SettledViewIsTrue).                                                    *)
ClaimIsEarned ==
  SaysSynced /\ phase = "saved-locally" => since.save = "synced"

(* Recent notes on the screen stay there until the page changes: a failed  *)
(* or repeated load does not take them away.                               *)
ListedNotesStay ==
  [][Listed /\ cycle'.page = cycle.page => Listed']_viewVars

(* A view that watches storage comes to rest on its page, again and again, *)
(* unless the user goes from page to page for ever.                        *)
ViewCatchesUp ==
  \/ []<>(cycle.watching => Settled)
  \/ []<><<\E q \in Shown \cup {0, None} : Show(q)>>_viewVars
=============================================================================
