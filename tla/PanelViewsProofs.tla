--------------------------- MODULE PanelViewsProofs ---------------------------
(***************************************************************************)
(* What the views of PanelViews show, for every set of pages, revisions    *)
(* and side panels and every bound.                                        *)
(***************************************************************************)
EXTENDS PanelViews, TLAPS

(* The parts of ViewTypeOK that are about a load cycle and about a view.   *)
IsCycle(c) ==
  /\ c \in [page : Views \cup {None}, watching : BOOLEAN, load : {c.load}]
  /\ c.load \in [on : BOOLEAN, seen : {c.load.seen}, superseded : BOOLEAN]
  /\ AreAnswers(c.load.seen)

IsView(v) ==
  /\ v \in [page : Views \cup {None}, status : Statuses, value : {v.value},
            reconnect : BOOLEAN]
  /\ v.status = "ready" => DOMAIN v.value = Reads /\ AreAnswers(v.value)

-----------------------------------------------------------------------------
(* The notes and the queue. *)

(* Every step of SyncedNotes keeps its variables typed. *)
LEMMA SurfaceStepType == SurfaceTypeOK /\ [NotesNext]_surface => SurfaceTypeOK'
<1>. SUFFICES ASSUME SurfaceTypeOK, [NotesNext]_surface PROVE SurfaceTypeOK'
  OBVIOUS
<1>1. CASE UNCHANGED surface
  BY <1>1 DEF surface, SurfaceTypeOK
<1>2. CASE StartRun \/ EndRun
  BY <1>2 DEF StartRun, EndRun, NothingWaits, SurfaceTypeOK
<1>3. ASSUME NEW w \in Window, NEW p \in Page, NEW record \in Record, BeginSave(w, p, record)
      PROVE  SurfaceTypeOK'
  BY <1>3 DEF BeginSave, SurfaceTypeOK, Save
<1>4. ASSUME NEW w \in Window, NEW p \in Page, PutNote(w, p)
      PROVE  SurfaceTypeOK'
  <2>1. saves[w][p] \in [stage : {"put", "observe"}, record : Record]
    BY <1>4 DEF PutNote, SurfaceTypeOK, Save, NoSave
  <2>. QED
    BY <1>4, <2>1 DEF PutNote, SurfaceTypeOK, Save, Slot
<1>5. ASSUME NEW w \in Window, NEW p \in Page, Observe(w, p)
      PROVE  SurfaceTypeOK'
  <2>1. saves[w][p].record.revisionId \in Revision
    BY <1>5 DEF Observe, SurfaceTypeOK, Save, NoSave, Record
  <2>. QED
    BY <1>5, <2>1 DEF Observe, SurfaceTypeOK, Save
<1>6. ASSUME NEW w \in Window, NEW p \in Page, DropSave(w, p)
      PROVE  SurfaceTypeOK'
  BY <1>6 DEF DropSave, SurfaceTypeOK, Save
<1>7. ASSUME NEW p \in Page, NEW record \in Record, Download(p, record)
      PROVE  SurfaceTypeOK'
  BY <1>7 DEF Download, SurfaceTypeOK, Slot
<1>8. ASSUME NEW p \in Page, NEW revision \in Revision, Retire(p) \/ Requeue(p, revision)
      PROVE  SurfaceTypeOK'
  BY <1>8 DEF Retire, Requeue, SurfaceTypeOK
<1>9. ASSUME NEW p \in Page, Retire(p)
      PROVE  SurfaceTypeOK'
  BY <1>9 DEF Retire, SurfaceTypeOK
<1>. QED
  BY <1>1, <1>2, <1>3, <1>4, <1>5, <1>6, <1>7, <1>8, <1>9 DEF NotesNext

(* The steps that write nothing that the pages see. *)
LEMMA ViewerWritesNothing ==
  ASSUME ViewerNext
  PROVE  UNCHANGED <<storeVars, kind>>
BY DEF ViewerNext, Show, AbandonedReturns, ViewStep, Read, CompleteLoad, Deliver,
       FailLoad, Retry, panelVars

(* Whatever happens to the notes and the queue is a step of SyncedNotes.   *)
LEMMA StoreStep ==
  ASSUME used \subseteq Revision, [ViewNext]_viewVars
  PROVE  [NotesNext]_surface
<1>1. CASE UNCHANGED viewVars \/ ViewerNext
  BY <1>1, ViewerWritesNothing DEF viewVars, storeVars
<1>2. CASE Synchronize
  BY <1>2 DEF Synchronize, NotesNext
<1>3. CASE RecordSuccess \/ Connect \/ Disconnect \/ Expire \/ Edit \/ RetrySave \/ SaveUnchanged
  BY <1>3 DEF RecordSuccess, Connect, Disconnect, Reconnects, Expire, Edit, RetrySave,
     SaveUnchanged, storeVars
<1>4. ASSUME NEW w \in Window, NEW p \in Page,
             StartSave(w, p) \/ WriteNote(w, p) \/ ObserveSave(w, p) \/ FailSave(w, p)
      PROVE  NotesNext
  BY <1>4 DEF StartSave, WriteNote, ObserveSave, FailSave, NotesNext
<1>. QED
  BY <1>1, <1>2, <1>3, <1>4 DEF ViewNext, WriterNext

-----------------------------------------------------------------------------
(* The settings and the other variables of the store. *)

StoreTypeOK ==
  /\ kind \in Kinds /\ used \subseteq Revision /\ faults \in 0..MaxFaults
  /\ connection \in Connection \cup {None}
  /\ connections \in Nat /\ successes \in Nat /\ expired \subseteq Nat
  /\ recording \in BOOLEAN /\ (recording => connection # None)
  /\ running => connection # None /\ ~ synced

(* Fault counts up to its bound. *)
LEMMA FaultType == faults \in 0..MaxFaults /\ Fault => faults' \in 0..MaxFaults
BY ViewAssumption DEF Fault

(* Revisions of stored notes are revisions. *)
LEMMA RevisionsType == notes \in [Page -> Slot] => Revisions \subseteq Revision
BY DEF Revisions, Slot, Record

(* Every step keeps the store typed, and a run has a connection. *)
LEMMA StoreStepType ==
  ASSUME SurfaceTypeOK, SurfaceTypeOK', StoreTypeOK, [ViewNext]_viewVars
  PROVE  StoreTypeOK'
<1>1. CASE UNCHANGED viewVars
  BY <1>1 DEF viewVars, storeVars, settingsVars, readerVars, surface, StoreTypeOK
<1>2. CASE ViewerNext
  <2>1. faults' \in 0..MaxFaults
    BY <1>2, FaultType DEF ViewerNext, Show, AbandonedReturns, ViewStep, Read, CompleteLoad,
       Deliver, FailLoad, Retry, panelVars, StoreTypeOK
  <2>2. UNCHANGED <<kind, used, connection, connections, expired, successes, recording,
                    running, synced>>
    BY <1>2, ViewerWritesNothing DEF storeVars, settingsVars, surface
  <2>. QED
    BY <2>1, <2>2 DEF StoreTypeOK
<1>3. CASE Synchronize
  <2>1. faults' \in 0..MaxFaults
    BY <1>3, FaultType DEF Synchronize, StoreTypeOK
  <2>2. used' \subseteq Revision
    <3>1. (Revisions \subseteq Revision)'
      BY RevisionsType DEF SurfaceTypeOK, Revisions, Slot, Record
    <3>. QED
      BY <1>3, <3>1 DEF Synchronize, StoreTypeOK
  <2>3. /\ recording' = (synced' /\ successes < MaxSuccess)
        /\ UNCHANGED <<connection, connections, expired, successes, kind>>
    BY <1>3 DEF Synchronize, readerVars
  <2>4. /\ synced' => connection # None
        /\ running' => connection # None /\ ~ synced'
    <3>1. CASE StartRun /\ CanRun
      BY <3>1 DEF StartRun, CanRun
    <3>2. CASE EndRun
      BY <3>2 DEF EndRun, StoreTypeOK
    <3>3. CASE running /\ UNCHANGED <<running, synced>>
      BY <3>3 DEF StoreTypeOK
    <3>. QED
      BY <1>3, <3>1, <3>2, <3>3 DEF Synchronize, Retire, Download, Requeue
  <2>. QED
    BY <2>1, <2>2, <2>3, <2>4 DEF StoreTypeOK, SurfaceTypeOK
<1>4. CASE RecordSuccess
  <2>1. connection \in Connection /\ successes + 1 \in Nat
    BY <1>4 DEF RecordSuccess, StoreTypeOK
  <2>2. [connection EXCEPT !.success = successes + 1] \in Connection
    BY <2>1 DEF Connection
  <2>3. connection' \in Connection /\ successes' \in Nat
    BY <1>4, <2>1, <2>2 DEF RecordSuccess, StoreTypeOK
  <2>4. connection' # None
    BY <2>3, NoneAssumption
  <2>5. faults' \in 0..MaxFaults
    BY <1>4, FaultType DEF RecordSuccess, StoreTypeOK
  <2>6. recording' = FALSE /\ UNCHANGED <<kind, used, connections, expired, running, synced>>
    BY <1>4 DEF RecordSuccess, readerVars, surface
  <2>. QED
    BY <2>3, <2>4, <2>5, <2>6 DEF StoreTypeOK
<1>5. CASE Connect \/ Disconnect
  <2>1. [id |-> connections + 1, success |-> 0] \in Connection
    BY DEF StoreTypeOK, Connection
  <2>2. connection' \in Connection \cup {None} /\ connections' \in Nat
    BY <1>5, <2>1 DEF Connect, Disconnect, Reconnects, StoreTypeOK
  <2>3. recording' = FALSE /\ ~ running
        /\ UNCHANGED <<kind, used, faults, successes, expired, running, synced>>
    BY <1>5 DEF Connect, Disconnect, Reconnects, readerVars, surface
  <2>. QED
    BY <2>2, <2>3 DEF StoreTypeOK
<1>6. CASE Expire
  <2>1. connection.id \in Nat
    BY <1>6 DEF Expire, StoreTypeOK, Connection
  <2>2. UNCHANGED <<kind, used, faults, connection, connections, successes, recording,
                    running, synced>>
    BY <1>6 DEF Expire, readerVars, surface
  <2>. QED
    BY <1>6, <2>1, <2>2 DEF Expire, StoreTypeOK
<1>7. CASE Edit \/ RetrySave \/ SaveUnchanged
  <2>1. UNCHANGED <<kind, storeVars, faults>>
    BY <1>7 DEF Edit, RetrySave, SaveUnchanged
  <2>. QED
    BY <2>1 DEF StoreTypeOK, storeVars, settingsVars, surface
<1>8. ASSUME NEW w \in Window, NEW p \in Page, StartSave(w, p)
      PROVE  StoreTypeOK'
  BY <1>8 DEF StartSave, BeginSave, StoreTypeOK, Connection, settingsVars, Record
<1>9. ASSUME NEW w \in Window, NEW p \in Page,
             WriteNote(w, p) \/ ObserveSave(w, p) \/ FailSave(w, p)
      PROVE  StoreTypeOK'
  BY <1>9, FaultType DEF WriteNote, ObserveSave, FailSave, PutNote, Observe, DropSave,
     StoreTypeOK, Connection, settingsVars, readerVars
<1>. QED
  BY <1>1, <1>2, <1>3, <1>4, <1>5, <1>6, <1>7, <1>8, <1>9 DEF ViewNext, WriterNext

-----------------------------------------------------------------------------
(* The load cycle and the view. *)

(* No answer has come yet. *)
LEMMA NoAnswers == DOMAIN << >> = {} /\ AreAnswers(<< >>)
<1>1. DOMAIN << >> = {}
  OBVIOUS
<1>. QED
  BY <1>1 DEF AreAnswers

(* What the operators of StoredView do to a cycle. *)
LEMMA RequestedType ==
  ASSUME NEW c, IsCycle(c)
  PROVE  /\ IsCycle(Requested(c))
         /\ Requested(c).page = c.page /\ Requested(c).watching = c.watching
         /\ Requested(c).load.on
         /\ IF c.load.on
            THEN Requested(c).load.seen = c.load.seen /\ Requested(c).load.superseded
            ELSE Requested(c).load = NewLoad
<1>1. CASE c.load.on
  BY <1>1 DEF IsCycle, Requested
<1>2. CASE ~ c.load.on
  BY <1>2, NoAnswers DEF IsCycle, Requested, NewLoad
<1>. QED
  BY <1>1, <1>2

(* The end of a load. *)
LEMMA LoadEndsType ==
  ASSUME NEW c, IsCycle(c)
  PROVE  /\ IsCycle(LoadEnds(c))
         /\ LoadEnds(c).page = c.page /\ LoadEnds(c).watching = c.watching
         /\ LoadEnds(c).load = IF c.load.superseded THEN NewLoad ELSE NoLoad
BY NoAnswers DEF IsCycle, LoadEnds, NewLoad, NoLoad

(* A new cycle. *)
LEMMA NewCycleType ==
  ASSUME NEW q \in Views, NEW watching \in BOOLEAN
  PROVE  IsCycle(NewCycle(q, watching)) /\ IsCycle(NoCycle)
BY NoAnswers DEF IsCycle, NewCycle, NoCycle, NewLoad, NoLoad

(* What a repository answers has its type. *)
LEMMA AnswerType ==
  ASSUME SurfaceTypeOK, StoreTypeOK, NEW source, NEW q
  PROVE  /\ Answer("settings", q) \in Connection \cup {None}
         /\ kind = "status" => Answer("queue", q) \in Revision \cup {None}
BY DEF SurfaceTypeOK, StoreTypeOK, Answer, Pending

(* An answer reaches the load. *)
LEMMA AnsweredType ==
  ASSUME SurfaceTypeOK, StoreTypeOK, NEW c, IsCycle(c), NEW source \in Reads, NEW q,
         NEW d, d = Answered(c, source, Answer(source, q))
  PROVE  /\ IsCycle(d) /\ d.page = c.page /\ d.watching = c.watching
         /\ d.load.on = c.load.on /\ d.load.superseded = c.load.superseded
         /\ DOMAIN d.load.seen = DOMAIN c.load.seen \cup {source}
         /\ d.load.seen = [s \in DOMAIN d.load.seen |-> d.load.seen[s]]
         /\ d.load.seen[source] = Answer(source, q)
         /\ \A s \in DOMAIN c.load.seen \ {source} : d.load.seen[s] = c.load.seen[s]
<1>. DEFINE seen == [s \in DOMAIN c.load.seen \cup {source} |->
                       IF s = source THEN Answer(source, q) ELSE c.load.seen[s]]
<1>1. d = [c EXCEPT !.load.seen = seen]
  BY DEF Answered
<1>2. /\ d.page = c.page /\ d.watching = c.watching /\ d.load.seen = seen
      /\ d.load.on = c.load.on /\ d.load.superseded = c.load.superseded
      /\ d \in [page : Views \cup {None}, watching : BOOLEAN, load : {d.load}]
      /\ d.load \in [on : BOOLEAN, seen : {d.load.seen}, superseded : BOOLEAN]
  BY <1>1 DEF IsCycle
<1>3. AreAnswers(seen)
  BY AnswerType DEF IsCycle, AreAnswers
<1>. QED
  BY <1>2, <1>3 DEF IsCycle

-----------------------------------------------------------------------------
(* A stored answer makes a view. *)
LEMMA ReadyType ==
  ASSUME StoreTypeOK, NEW q \in Views, NEW f, DOMAIN f = Reads, AreAnswers(f)
  PROVE  IsView(Ready(q, f)) /\ Ready(q, f).page = q /\ Ready(q, f).status = "ready"
         /\ Ready(q, f).value = f
BY DEF Ready, IsView, Statuses

(* So does anything else that is published. *)
LEMMA WithoutType ==
  ASSUME NEW q \in Views \cup {None}, NEW status \in {"none", "loading", "error"}
  PROVE  IsView(Without(q, status)) /\ Without(q, status).page = q
         /\ Without(q, status).status = status
BY DEF Without, IsView, Statuses

(* Recent notes stay what they are when only their status changes. *)
LEMMA KeptType ==
  ASSUME NEW v, IsView(v), kind = "recent", NEW status \in {"refreshing", "stale"},
         NEW w, w = [v EXCEPT !.status = status]
  PROVE  IsView(w) /\ w.page = v.page /\ w.status = status
BY DEF IsView, Statuses

(* What the panel hears of a view. *)
Reports == [ready : BOOLEAN, pending : Revision \cup {None}, success : Nat]

(* A view is reported with its types. *)
LEMMA ReportType ==
  ASSUME StoreTypeOK, NEW v, IsView(v), kind = "status"
  PROVE  Report(v) \in Reports
<1>1. CASE v.status # "ready"
  BY <1>1 DEF Report, Reports
<1>2. CASE v.status = "ready"
  <2>1. /\ v.value["queue"] \in Revision \cup {None}
        /\ v.value["settings"] \in Connection \cup {None}
    BY <1>2 DEF IsView, AreAnswers, Reads
  <2>2. v.value["settings"] # None => v.value["settings"].success \in Nat
    BY <2>1 DEF Connection
  <2>. QED
    BY <1>2, <2>1, <2>2 DEF Report, Reports
<1>. QED
  BY <1>1, <1>2

-----------------------------------------------------------------------------
(* The evidence of the panel. *)

(* The evidence keeps its types when the panel hears of a view ... *)
LEMMA ObserveType ==
  ASSUME NEW e \in Evidence, NEW r \in Reports
  PROVE  ObserveSyncEvidence(e, r) \in Evidence
<1>1. CASE e.phase = "inactive" \/ ~ r.ready
  BY <1>1 DEF ObserveSyncEvidence
<1>2. CASE ~ (e.phase = "inactive" \/ ~ r.ready) /\ r.pending # None
  BY <1>2 DEF ObserveSyncEvidence, Evidence, Reports
<1>3. CASE ~ (e.phase = "inactive" \/ ~ r.ready) /\ r.pending = None
  <2>1. hasNewerSuccessfulSync(e, r) \in BOOLEAN
    BY DEF hasNewerSuccessfulSync, Evidence, Reports
  <2>. QED
    BY <1>3, <2>1 DEF ObserveSyncEvidence, Evidence
<1>. QED
  BY <1>1, <1>2, <1>3

(* ... and when the save phase changes. *)
LEMMA LifecycleType ==
  ASSUME NEW e \in Evidence, NEW r \in Reports, NEW before, NEW after
  PROVE  Lifecycle(e, r, before, after) \in Evidence
<1>1. NoEvidence \in Evidence
  BY DEF NoEvidence, Evidence
<1>2. BeginLocalSave(r) \in Evidence
  BY DEF BeginLocalSave, Evidence, Reports
<1>3. ASSUME NEW f \in Evidence PROVE CompleteLocalSave(f) \in Evidence
  BY <1>3 DEF CompleteLocalSave, Evidence
<1>. QED
  BY <1>1, <1>2, <1>3 DEF Lifecycle, ClearLocalSave

-----------------------------------------------------------------------------
(* The views.  A view is of the page of its cycle, and says that it loads  *)
(* only while a load is under way.                                         *)
IsSeen(f) == f = << >> \/ f = [s \in DOMAIN f |-> f[s]]

ViewsInv ==
  /\ news \subseteq Key /\ abandoned \subseteq Views
  /\ IsCycle(cycle) /\ IsSeen(cycle.load.seen)
  /\ IsView(view) /\ view.page = cycle.page
  /\ ~ cycle.load.on => view.status \notin {"loading", "refreshing"}
  /\ cycle.page = None => ~ cycle.load.on /\ ~ cycle.watching /\ view.status = "none"

(* The kind of view does not change. *)
LEMMA KindStays ==
  ASSUME [ViewNext]_viewVars
  PROVE  kind' = kind /\ Views' = Views /\ Reads' = Reads /\ Statuses' = Statuses
<1>1. kind' = kind
  BY ViewerWritesNothing DEF ViewNext, viewVars, readerVars, WriterNext, Synchronize,
     RecordSuccess, Connect, Disconnect, Reconnects, Expire, Edit, RetrySave, SaveUnchanged,
     StartSave, WriteNote, ObserveSave, FailSave
<1>. QED
  BY <1>1 DEF Views, Reads, Statuses

(* Typed before the step, typed after it. *)
LEMMA TypesStay ==
  ASSUME [ViewNext]_viewVars
  PROVE  /\ \A c : IsCycle(c) /\ cycle' = c => IsCycle(cycle)'
         /\ \A v : IsView(v) /\ view' = v => IsView(view)'
<1>1. ASSUME NEW c, IsCycle(c), cycle' = c PROVE IsCycle(cycle)'
  BY <1>1, KindStays DEF IsCycle, AreAnswers, Connection
<1>2. ASSUME NEW v, IsView(v), view' = v PROVE IsView(view)'
  BY <1>2, KindStays DEF IsView, AreAnswers, Connection
<1>. QED
  BY <1>1, <1>2

(* A publication publishes. *)
LEMMA PublishType ==
  ASSUME StoreTypeOK, evidence \in Evidence, NEW v, IsView(v), Publish(v)
  PROVE  view' = v /\ evidence' \in Evidence
<1>1. NoEvidence \in Evidence
  BY DEF NoEvidence, Evidence
<1>2. kind = "status" => ObserveSyncEvidence(evidence, Report(v)) \in Evidence
  BY ReportType, ObserveType
<1>. QED
  BY <1>1, <1>2 DEF Publish, ClearLocalSave

(* A request for a load, and what it shows. *)
LEMMA RequestType ==
  ASSUME StoreTypeOK, evidence \in Evidence, ViewsInv, NEW c, IsCycle(c),
         c.page = cycle.page, c.page # None, c.load = cycle.load, Request(c)
  PROVE  /\ cycle' = Requested(c) /\ evidence' \in Evidence
         /\ IsView(view') /\ view'.page = c.page
         /\ kind # "recent" => UNCHANGED <<view, evidence>>
         /\ kind = "recent" /\ Listed => view' = [view EXCEPT !.status = "refreshing"]
         /\ kind = "recent" /\ ~ Listed => view' = Loading(c.page)
<1>1. c.page \in Views
  BY DEF IsCycle
<1>2. CASE kind # "recent"
  BY <1>2 DEF Request, ViewsInv
<1>3. CASE kind = "recent" /\ Listed
  <2>. DEFINE v == [view EXCEPT !.status = "refreshing"]
  <2>1. IsView(v) /\ v.page = view.page
    BY <1>3, KeptType DEF ViewsInv
  <2>2. Publish(v) /\ cycle' = Requested(c)
    BY <1>3 DEF Request
  <2>. HIDE DEF v
  <2>. QED
    BY <1>3, <2>1, <2>2, PublishType DEF ViewsInv, v
<1>4. CASE kind = "recent" /\ ~ Listed
  <2>1. IsView(Loading(c.page)) /\ Loading(c.page).page = c.page
    BY <1>1, WithoutType DEF Loading
  <2>2. Publish(Loading(c.page)) /\ cycle' = Requested(c)
    BY <1>4 DEF Request
  <2>. QED
    BY <1>4, <2>1, <2>2, PublishType
<1>. QED
  BY <1>2, <1>3, <1>4

(* What a writer does to a view: it announces. *)
LEMMA WriterAnnounces ==
  ASSUME StoreTypeOK, WriterNext
  PROVE  /\ UNCHANGED <<kind, cycle, abandoned, view>>
         /\ news \subseteq news' /\ news' \subseteq news \cup Key
         /\ \A p \in Page : kind # "recent" /\ waiting'[p] # waiting[p] => p \in news'
         /\ \A p \in Page : kind = "recent" /\ notes'[p] # notes[p] => p \in news'
         /\ kind # "recent" /\ connection' # connection => Settings \in news'
<1>1. Written \subseteq Page /\ SettingsKeys \subseteq {Settings}
  BY DEF Written, SettingsKeys
<1>2. CASE Synchronize
  BY <1>1, <1>2 DEF Synchronize, Announce, Written, readerVars, Key
<1>3. CASE RecordSuccess \/ Connect \/ Disconnect
  BY <1>1, <1>3 DEF RecordSuccess, Connect, Disconnect, Reconnects, Announce, SettingsKeys,
     readerVars, surface, Key
<1>4. CASE Expire \/ Edit \/ RetrySave \/ SaveUnchanged
  BY <1>4 DEF Expire, Edit, RetrySave, SaveUnchanged, readerVars, viewOnly, storeVars,
     settingsVars, surface
<1>5. ASSUME NEW w \in Window, NEW p \in Page, StartSave(w, p) \/ FailSave(w, p)
      PROVE  UNCHANGED <<news, kind, cycle, abandoned, view, waiting, notes, connection>>
  BY <1>5 DEF StartSave, FailSave, BeginSave, DropSave, viewOnly, settingsVars
<1>6. ASSUME NEW w \in Window, NEW p \in Page, WriteNote(w, p) \/ ObserveSave(w, p)
      PROVE  /\ UNCHANGED <<kind, cycle, abandoned, view, connection>>
             /\ news' = news \cup Written
  BY <1>6 DEF WriteNote, ObserveSave, Announce, readerVars, viewOnly, settingsVars
<1>. QED
  BY <1>1, <1>2, <1>3, <1>4, <1>5, <1>6 DEF WriterNext, Written, Key

(* Showing another page. *)
LEMMA ShowViews ==
  ASSUME StoreTypeOK, ViewsInv, [ViewNext]_viewVars, NEW q \in Views \cup {None}, Show(q)
  PROVE  ViewsInv' /\ evidence' \in Evidence
<1>0. evidence' \in Evidence
  BY DEF Show, ClearLocalSave, NoEvidence, Evidence
<1>1. news' \subseteq Key'
  BY DEF Show, ViewsInv, Key
<1>2. (abandoned \subseteq Views)'
  BY KindStays DEF Show, ViewsInv, Running, IsCycle
<1>3. None \notin Views
  <2>1. Shown \subseteq Nat /\ None \notin Nat
    BY ViewAssumption
  <2>2. Views \subseteq Nat
    BY <2>1 DEF Views
  <2>. QED
    BY <2>1, <2>2
<1>4. CASE q = None
  <2>1. IsCycle(NoCycle) /\ IsView(NoView)
    BY NoAnswers, WithoutType DEF IsCycle, NoCycle, NoLoad, NoView
  <2>2. cycle' = NoCycle /\ view' = NoView
    BY <1>4 DEF Show
  <2>3. IsCycle(cycle)' /\ IsView(view)'
    BY <2>1, <2>2, TypesStay
  <2>. QED
    BY <1>0, <1>1, <1>2, <2>2, <2>3 DEF ViewsInv, NoCycle, NoLoad, NoView, Without, IsSeen
<1>5. CASE q # None
  <2>1. PICK watching \in BOOLEAN : cycle' = NewCycle(q, watching) /\ view' = Loading(q)
    BY <1>5 DEF Show
  <2>2. IsCycle(NewCycle(q, watching)) /\ IsView(Loading(q))
    BY <1>5, NewCycleType, WithoutType DEF Loading
  <2>3. IsCycle(cycle)' /\ IsView(view)'
    BY <2>1, <2>2, TypesStay
  <2>. QED
    BY <1>0, <1>1, <1>2, <1>5, <2>1, <2>3
       DEF ViewsInv, NewCycle, NewLoad, Loading, Without, IsSeen
<1>. QED
  BY <1>0, <1>4, <1>5

(* A request keeps the views in order. *)
LEMMA RequestViews ==
  ASSUME StoreTypeOK, evidence \in Evidence, ViewsInv, [ViewNext]_viewVars, NEW c, IsCycle(c),
         c.page = cycle.page, c.page # None, c.load = cycle.load, Request(c),
         news' \subseteq news, UNCHANGED abandoned
  PROVE  ViewsInv' /\ evidence' \in Evidence
<1>1. /\ IsCycle(Requested(c)) /\ Requested(c).page = c.page /\ Requested(c).load.on
      /\ Requested(c).load.seen = cycle.load.seen \/ Requested(c).load = NewLoad
  BY RequestedType
<1>2. /\ cycle' = Requested(c) /\ IsView(view') /\ view'.page = c.page
      /\ evidence' \in Evidence
  BY RequestType
<1>3. IsCycle(cycle)' /\ IsView(view)'
  BY <1>1, <1>2, TypesStay
<1>. QED
  BY <1>1, <1>2, <1>3, KindStays DEF ViewsInv, IsSeen, NewLoad, Key

(* The end of a load keeps the views in order. *)
LEMMA LoadEndsViews ==
  ASSUME StoreTypeOK, evidence \in Evidence, ViewsInv, [ViewNext]_viewVars,
         cycle.load.on, cycle' = LoadEnds(cycle), NEW v, IsView(v), v.page = cycle.page,
         v.status \notin {"loading", "refreshing"},
         IF cycle.load.superseded THEN UNCHANGED <<view, evidence>> ELSE Publish(v),
         UNCHANGED <<news, abandoned>>
  PROVE  ViewsInv' /\ evidence' \in Evidence
<1>1. /\ IsCycle(LoadEnds(cycle)) /\ LoadEnds(cycle).page = cycle.page
      /\ LoadEnds(cycle).load = IF cycle.load.superseded THEN NewLoad ELSE NoLoad
  BY LoadEndsType DEF ViewsInv
<1>2. evidence' \in Evidence /\ view' = IF cycle.load.superseded THEN view ELSE v
  BY PublishType
<1>3. IsCycle(cycle)' /\ IsView(view)'
  BY <1>1, <1>2, TypesStay DEF ViewsInv
<1>. QED
  BY <1>1, <1>2, <1>3, KindStays DEF ViewsInv, IsSeen, NewLoad, NoLoad, Key

(* Every step of the view keeps the views in order. *)
LEMMA ViewerViews ==
  ASSUME SurfaceTypeOK, StoreTypeOK, evidence \in Evidence, ViewsInv, [ViewNext]_viewVars, ViewerNext
  PROVE  ViewsInv' /\ evidence' \in Evidence
<1>. DEFINE Goal == ViewsInv' /\ evidence' \in Evidence
<1>1. ASSUME NEW q \in Views \cup {None}, Show(q) PROVE Goal
  BY <1>1, ShowViews
<1>2. ASSUME NEW q \in abandoned, AbandonedReturns(q) PROVE Goal
  <2>1. UNCHANGED <<news, cycle, view, evidence>> /\ abandoned' \subseteq abandoned
    BY <1>2 DEF AbandonedReturns
  <2>2. IsCycle(cycle)' /\ IsView(view)'
    BY <2>1, TypesStay DEF ViewsInv
  <2>. QED
    BY <2>1, <2>2, KindStays DEF ViewsInv, IsSeen, Key
<1>3. CASE Read
  <2>1. PICK source \in Reads : cycle' = Answered(cycle, source, Answer(source, cycle.page))
    BY <1>3 DEF Read, Unread
  <2>2. UNCHANGED <<news, abandoned, view, evidence>> /\ cycle.load.on
    BY <1>3 DEF Read, Running
  <2>3. /\ IsCycle(cycle') /\ cycle'.page = cycle.page /\ cycle'.watching = cycle.watching
        /\ cycle'.load.on = cycle.load.on
        /\ cycle'.load.seen = [s \in DOMAIN cycle'.load.seen |-> cycle'.load.seen[s]]
    BY <2>1, AnsweredType DEF ViewsInv
  <2>4. IsCycle(cycle)' /\ IsView(view)'
    BY <2>2, <2>3, TypesStay DEF ViewsInv
  <2>. QED
    BY <2>2, <2>3, <2>4, KindStays DEF ViewsInv, IsSeen, Key
<1>4. CASE CompleteLoad
  <2>1. /\ cycle.load.on /\ Reads \subseteq DOMAIN cycle.load.seen
        /\ cycle' = LoadEnds(cycle) /\ UNCHANGED <<news, abandoned>>
    BY <1>4 DEF CompleteLoad, Running, Unread
  <2>2. /\ cycle.page \in Views /\ AreAnswers(cycle.load.seen)
        /\ DOMAIN cycle.load.seen = Reads
    BY <2>1 DEF ViewsInv, IsCycle, AreAnswers
  <2>. DEFINE v == IF cycle.watching \/ kind = "recent"
                   THEN Ready(cycle.page, cycle.load.seen) ELSE LoadError(cycle.page)
  <2>3. IsView(v) /\ v.page = cycle.page /\ v.status \notin {"loading", "refreshing"}
    BY <2>2, ReadyType, WithoutType DEF LoadError
  <2>4. IF cycle.load.superseded THEN UNCHANGED <<view, evidence>> ELSE Publish(v)
    BY <1>4 DEF CompleteLoad
  <2>. HIDE DEF v
  <2>. QED
    BY <2>1, <2>3, <2>4, LoadEndsViews
<1>5. CASE FailLoad
  <2>1. /\ cycle.load.on /\ cycle' = LoadEnds(cycle) /\ UNCHANGED <<news, abandoned>>
    BY <1>5 DEF FailLoad, Running, panelVars
  <2>2. cycle.page \in Views
    BY <2>1 DEF ViewsInv, IsCycle
  <2>. DEFINE v == IF Listed THEN [view EXCEPT !.status = "stale"] ELSE LoadError(cycle.page)
  <2>3. IsView(v) /\ v.page = cycle.page /\ v.status \notin {"loading", "refreshing"}
    BY <2>2, KeptType, WithoutType DEF LoadError, Listed, ViewsInv
  <2>4. IF cycle.load.superseded THEN UNCHANGED <<view, evidence>> ELSE Publish(v)
    BY <1>5 DEF FailLoad
  <2>. HIDE DEF v
  <2>. QED
    BY <2>1, <2>3, <2>4, LoadEndsViews
<1>6. ASSUME NEW key \in Key, Deliver(key) PROVE Goal
  <2>1. news' \subseteq news /\ UNCHANGED abandoned
    BY <1>6 DEF Deliver
  <2>2. CASE cycle.watching /\ Matches(key, cycle)
    <3>1. Request(cycle) /\ cycle.page # None
      BY <1>6, <2>2 DEF Deliver, ViewsInv
    <3>. QED
      BY <2>1, <3>1, RequestViews DEF ViewsInv
  <2>3. CASE ~ (cycle.watching /\ Matches(key, cycle))
    <3>1. UNCHANGED <<cycle, view, evidence>>
      BY <1>6, <2>3 DEF Deliver
    <3>2. IsCycle(cycle)' /\ IsView(view)'
      BY <3>1, TypesStay DEF ViewsInv
    <3>. QED
      BY <2>1, <3>1, <3>2, KindStays DEF ViewsInv, IsSeen, Key
  <2>. QED
    BY <2>2, <2>3
<1>7. CASE Retry
  <2>1. UNCHANGED <<news, abandoned>> /\ cycle.page # None
    BY <1>7 DEF Retry, ViewsInv
  <2>2. CASE Request([cycle EXCEPT !.watching = TRUE])
    <3>. DEFINE c == [cycle EXCEPT !.watching = TRUE]
    <3>1. IsCycle(c) /\ c.page = cycle.page /\ c.load = cycle.load
      BY DEF ViewsInv, IsCycle
    <3>2. Request(c)
      BY <2>2
    <3>. HIDE DEF c
    <3>. QED
      BY <2>1, <3>1, <3>2, RequestViews
  <2>3. CASE Request(cycle)
    BY <2>1, <2>3, RequestViews DEF ViewsInv
  <2>. QED
    BY <1>7, <2>2, <2>3 DEF Retry
<1>. QED
  BY <1>1, <1>2, <1>3, <1>4, <1>5, <1>6, <1>7 DEF ViewerNext, ViewStep

(* So does every other step. *)
LEMMA ViewsStep ==
  ASSUME SurfaceTypeOK, StoreTypeOK, evidence \in Evidence, ViewsInv, [ViewNext]_viewVars
  PROVE  ViewsInv'
<1>1. CASE UNCHANGED viewVars
  BY <1>1, KindStays DEF viewVars, readerVars, ViewsInv, IsCycle, IsView, IsSeen, AreAnswers, Key,
     Connection
<1>2. CASE WriterNext
  <2>1. UNCHANGED <<cycle, abandoned, view>> /\ news' \subseteq news \cup Key
    BY <1>2, WriterAnnounces
  <2>2. IsCycle(cycle)' /\ IsView(view)'
    BY <2>1, TypesStay DEF ViewsInv
  <2>. QED
    BY <2>1, <2>2, KindStays DEF ViewsInv, IsSeen, Key
<1>. QED
  BY <1>1, <1>2, ViewerViews DEF ViewNext

-----------------------------------------------------------------------------
(* The draft, the evidence and the history. *)

Moments == [load : Progress, screen : Progress, save : Progress]

PanelTypeOK ==
  /\ phase \in {"idle", "saving", "saved-locally", "save-error"} /\ dirty \in BOOLEAN
  /\ (dirty \/ phase # "idle" => kind = "status") /\ (dirty => phase \in {"saving", "save-error"})
  /\ evidence \in Evidence /\ since \in Moments

(* The save phase changes. *)
LEMMA PhaseType ==
  ASSUME StoreTypeOK, ViewsInv, evidence \in Evidence, kind = "status", NEW next, Phase(next)
  PROVE  phase' = next /\ evidence' \in Evidence
BY ReportType, LifecycleType DEF Phase, ViewsInv

(* The history is remembered. *)
LEMMA RememberType ==
  ASSUME PanelTypeOK, Remember
  PROVE  since' \in Moments
<1>1. since.load \in Progress /\ since.screen \in Progress /\ since.save \in Progress
  BY DEF PanelTypeOK, Moments
<1>2. ASSUME NEW t \in Progress PROVE Since(t) \in Progress
  BY <1>2 DEF Since, Progress
<1>3. SinceRead \in Progress /\ SinceShown \in Progress
  BY <1>1, <1>2 DEF SinceRead, SinceShown, Progress
<1>4. SinceSave \in Progress
  BY <1>1, <1>2, <1>3 DEF SinceSave, Progress
<1>. QED
  BY <1>3, <1>4 DEF Remember, PanelTypeOK, Moments

(* Every step keeps the panel typed. *)
LEMMA PanelStepType ==
  ASSUME SurfaceTypeOK, SurfaceTypeOK', StoreTypeOK, ViewsInv, PanelTypeOK, [ViewNext]_viewVars
  PROVE  PanelTypeOK'
<1>1. CASE UNCHANGED viewVars
  BY <1>1 DEF viewVars, readerVars, PanelTypeOK
<1>2. kind' = kind
  BY KindStays
<1>3. CASE ViewNext
  <2>1. since' \in Moments
    BY <1>3, RememberType DEF ViewNext
  <2>. DEFINE Goal ==
         /\ phase' \in {"idle", "saving", "saved-locally", "save-error"} /\ dirty' \in BOOLEAN
         /\ (dirty' \/ phase' # "idle" => kind = "status")
         /\ (dirty' => phase' \in {"saving", "save-error"})
         /\ evidence' \in Evidence
  <2>2. ASSUME ViewerNext PROVE Goal
    <3>1. evidence' \in Evidence
      BY <2>2, ViewerViews DEF PanelTypeOK
    <3>2. UNCHANGED <<phase, dirty>> \/ (phase' = "idle" /\ dirty' = FALSE)
      BY <2>2 DEF ViewerNext, Show, AbandonedReturns, ViewStep, Read, CompleteLoad, Deliver,
         FailLoad, Retry, panelVars
    <3>3. CASE UNCHANGED <<phase, dirty>>
      BY <3>1, <3>3 DEF PanelTypeOK
    <3>4. CASE phase' = "idle" /\ dirty' = FALSE
      BY <3>1, <3>4
    <3>. QED
      BY <3>2, <3>3, <3>4
  <2>3. ASSUME Edit \/ RetrySave \/ SaveUnchanged PROVE Goal
    BY <2>3, PhaseType DEF Edit, RetrySave, SaveUnchanged, PanelTypeOK
  <2>4. ASSUME Synchronize \/ RecordSuccess \/ Connect \/ Disconnect \/ Expire PROVE Goal
    BY <2>4 DEF Synchronize, RecordSuccess, Connect, Disconnect, Reconnects, Expire, readerVars,
       PanelTypeOK
  <2>5. ASSUME NEW w \in Window, NEW p \in Page, StartSave(w, p) \/ WriteNote(w, p)
        PROVE  Goal
    <3>1. UNCHANGED <<phase, evidence>> /\ (dirty' = dirty \/ dirty' = FALSE)
      BY <2>5 DEF StartSave, WriteNote, readerVars, PanelTypeOK
    <3>2. CASE dirty' = dirty
      BY <3>1, <3>2 DEF PanelTypeOK
    <3>3. CASE dirty' = FALSE
      BY <3>1, <3>3 DEF PanelTypeOK
    <3>. QED
      BY <3>1, <3>2, <3>3
  <2>6. ASSUME NEW w \in Window, NEW p \in Page, ObserveSave(w, p) \/ FailSave(w, p)
        PROVE  Goal
    <3>1. UNCHANGED dirty
      BY <2>6 DEF ObserveSave, FailSave
    <3>2. UNCHANGED <<phase, evidence>> \/
            \E result \in {"saved-locally", "save-error"} :
              Phase(result) /\ ~ dirty /\ kind = "status"
      BY <2>6 DEF ObserveSave, FailSave, Saved, Own
    <3>3. CASE UNCHANGED <<phase, evidence>>
      BY <3>1, <3>3 DEF PanelTypeOK
    <3>4. ASSUME NEW result \in {"saved-locally", "save-error"},
                 Phase(result), ~ dirty, kind = "status"
          PROVE  Goal
      BY <3>1, <3>4, PhaseType DEF PanelTypeOK
    <3>. QED
      BY <3>2, <3>3, <3>4
  <2>7. Goal
    BY <1>3, <2>2, <2>3, <2>4, <2>5, <2>6 DEF ViewNext, WriterNext
  <2>. QED
    BY <1>2, <2>1, <2>7 DEF PanelTypeOK
<1>. QED
  BY <1>1, <1>3

-----------------------------------------------------------------------------
(* Everything typed and in order. *)
TypeInv == SurfaceTypeOK /\ StoreTypeOK /\ ViewsInv /\ PanelTypeOK

(* It is so at first. *)
LEMMA TypeInit == ViewInit => TypeInv
<1>. SUFFICES ASSUME ViewInit PROVE TypeInv
  OBVIOUS
<1>1. SurfaceTypeOK
  BY DEF ViewInit, NotesInit, SurfaceTypeOK, Save
<1>2. StoreTypeOK
  <2>1. used \subseteq Revision
    BY <1>1, RevisionsType DEF ViewInit, SurfaceTypeOK
  <2>2. connection = None \/ connection \in [id : {1}, success : 0..MaxSuccess]
    BY DEF ViewInit
  <2>3. /\ kind \in Kinds /\ faults \in 0..MaxFaults /\ expired \subseteq Nat
        /\ recording = FALSE /\ running = FALSE
        /\ connections = (IF connection = None THEN 0 ELSE 1)
        /\ successes = (IF connection = None THEN 0 ELSE connection.success)
    BY ViewAssumption DEF ViewInit, NotesInit
  <2>4. CASE connection = None
    BY <2>1, <2>3, <2>4 DEF StoreTypeOK
  <2>5. CASE connection \in [id : {1}, success : 0..MaxSuccess]
    <3>1. connection \in Connection /\ connection.success \in Nat
      BY <2>5, ViewAssumption DEF Connection
    <3>2. connection # None
      BY <3>1, NoneAssumption
    <3>. QED
      BY <2>1, <2>3, <3>1, <3>2 DEF StoreTypeOK
  <2>. QED
    BY <2>2, <2>4, <2>5
<1>3. ViewsInv
  <2>1. IsCycle(NoCycle) /\ IsView(NoView)
    BY NoAnswers, WithoutType DEF IsCycle, NoCycle, NoLoad, NoView
  <2>. QED
    BY <2>1 DEF ViewInit, ViewsInv, IsSeen, NoCycle, NoLoad, NoView, Without
<1>4. PanelTypeOK
  BY DEF ViewInit, PanelTypeOK, NoEvidence, Evidence, NothingSince, Moments, Progress
<1>. QED
  BY <1>1, <1>2, <1>3, <1>4 DEF TypeInv

(* And it stays so. *)
LEMMA TypeStep == TypeInv /\ [ViewNext]_viewVars => TypeInv'
<1>. SUFFICES ASSUME TypeInv, [ViewNext]_viewVars PROVE TypeInv'
  OBVIOUS
<1>1. [NotesNext]_surface
  BY StoreStep, KindStays DEF TypeInv, StoreTypeOK
<1>2. SurfaceTypeOK'
  BY <1>1, SurfaceStepType DEF TypeInv
<1>. QED
  BY <1>2, StoreStepType, ViewsStep, PanelStepType DEF TypeInv, PanelTypeOK

(* The views are typed and in order in every reachable state. *)
LEMMA TypeInvariant == ViewSpec => []TypeInv
BY TypeInit, TypeStep, PTL DEF ViewSpec

(* Every variable of the views has its type, whatever is read, announced,  *)
(* saved and synchronized, in whatever order.                              *)
THEOREM ViewsTypeCorrect == ViewSpec => []ViewTypeOK
<1>1. TypeInv => ViewTypeOK
  BY DEF TypeInv, StoreTypeOK, ViewsInv, PanelTypeOK, ViewTypeOK, IsCycle, IsView, Moments
<1>. QED
  BY TypeInvariant, <1>1, PTL

(* No view of a page the panel has left is published, however late a load  *)
(* returns: AbandonedReturns publishes nothing.                            *)
THEOREM ViewsOfShownPage == ViewSpec => []ViewOfShownPage
<1>1. TypeInv => ViewOfShownPage
  BY DEF TypeInv, ViewsInv, ViewOfShownPage
<1>. QED
  BY TypeInvariant, <1>1, PTL

(* The writers of the views are those of SyncedNotes, which every device   *)
(* of SyncEngine implements.                                               *)
THEOREM ViewsOverSyncedNotes == ViewSpec => NotesSpec
<1>1. ViewInit => NotesInit
  BY DEF ViewInit
<1>2. TypeInv /\ [ViewNext]_viewVars => [NotesNext]_surface
  BY StoreStep DEF TypeInv, StoreTypeOK
<1>. QED
  BY TypeInvariant, <1>1, <1>2, PTL DEF ViewSpec, NotesSpec

-----------------------------------------------------------------------------
(* Recent notes on the screen. *)

(* Whatever is loaded, announced or fails, notes that are listed stay      *)
(* listed on their page.                                                   *)
LEMMA ListedStep ==
  ASSUME TypeInv, [ViewNext]_viewVars, Listed, cycle'.page = cycle.page
  PROVE  Listed'
<1>1. kind' = kind /\ kind = "recent"
  BY KindStays DEF Listed
<1>2. CASE UNCHANGED view
  BY <1>1, <1>2 DEF Listed
<1>3. ASSUME NEW c, IsCycle(c), c.page = cycle.page, c.load = cycle.load, Request(c)
      PROVE  Listed'
  <2>1. c.page # None
    BY <1>1, <1>3 DEF TypeInv, ViewsInv, Listed
  <2>2. view' = [view EXCEPT !.status = "refreshing"]
    BY <1>1, <1>3, <2>1, RequestType DEF TypeInv, PanelTypeOK
  <2>3. view'.status = "refreshing"
    BY <2>2, KeptType, <1>1 DEF TypeInv, ViewsInv
  <2>. QED
    BY <1>1, <2>3 DEF Listed
<1>4. CASE ViewerNext
  <2>1. ASSUME NEW q \in Views \cup {None}, Show(q) PROVE FALSE
    BY <2>1 DEF Show, OnPage, NewCycle, NoCycle
  <2>2. CASE Read \/ \E q \in abandoned : AbandonedReturns(q)
    BY <1>2, <2>2 DEF Read, AbandonedReturns
  <2>3. CASE CompleteLoad
    BY <1>1, <1>2, <2>3 DEF CompleteLoad, Publish, Ready, Listed
  <2>4. CASE FailLoad
    <3>1. view' = view \/ view' = [view EXCEPT !.status = "stale"]
      BY <2>4 DEF FailLoad, Publish
    <3>2. view' = [view EXCEPT !.status = "stale"] => view'.status = "stale"
      BY <1>1, KeptType DEF TypeInv, ViewsInv
    <3>. QED
      BY <1>1, <1>2, <3>1, <3>2 DEF Listed
  <2>5. ASSUME NEW key \in Key, Deliver(key) PROVE Listed'
    BY <1>2, <1>3, <2>5 DEF Deliver, TypeInv, ViewsInv
  <2>6. CASE Retry
    <3>1. [cycle EXCEPT !.watching = TRUE].page = cycle.page
          /\ [cycle EXCEPT !.watching = TRUE].load = cycle.load
          /\ IsCycle([cycle EXCEPT !.watching = TRUE])
      BY DEF TypeInv, ViewsInv, IsCycle
    <3>. QED
      BY <1>3, <2>6, <3>1 DEF Retry, TypeInv, ViewsInv
  <2>. QED
    BY <1>4, <2>1, <2>2, <2>3, <2>4, <2>5, <2>6 DEF ViewerNext, ViewStep
<1>5. CASE WriterNext
  BY <1>2, <1>5, WriterAnnounces DEF TypeInv
<1>6. CASE UNCHANGED viewVars
  BY <1>2, <1>6 DEF viewVars, readerVars
<1>. QED
  BY <1>4, <1>5, <1>6 DEF ViewNext

(* ListedNotesStay, for every instance.                                    *)
THEOREM ListedNotesAlwaysStay == ViewSpec => ListedNotesStay
<1>1. TypeInv /\ [ViewNext]_viewVars
        => [Listed /\ cycle'.page = cycle.page => Listed']_viewVars
  BY ListedStep
<1>. QED
  BY TypeInvariant, <1>1, PTL DEF ViewSpec, ListedNotesStay

-----------------------------------------------------------------------------
(* Views that have heard of every write. *)

Quiet == \A k \in news : ~ Matches(k, cycle)

(* The answers of a load that has not been superseded are still the stored *)
(* ones, unless a storage event is under way that will supersede it; and   *)
(* so is what has been published of such a load.                           *)
TrueInv ==
  cycle.watching /\ Quiet =>
    /\ cycle.load.on /\ ~ cycle.load.superseded =>
         \A s \in DOMAIN cycle.load.seen : cycle.load.seen[s] = Answer(s, cycle.page)
    /\ ~ cycle.load.on /\ view.status = "ready" => view.value = Stored(cycle.page)

(* A write changes no answer the view reads, or is announced to it. *)
LEMMA AnswersStay ==
  ASSUME TypeInv, WriterNext, Quiet', NEW s \in Reads
  PROVE  Answer(s, cycle.page)' = Answer(s, cycle.page)
<1>1. /\ UNCHANGED <<kind, cycle, view>> /\ news \subseteq news'
      /\ \A p \in Page : kind # "recent" /\ waiting'[p] # waiting[p] => p \in news'
      /\ \A p \in Page : kind = "recent" /\ notes'[p] # notes[p] => p \in news'
      /\ kind # "recent" /\ connection' # connection => Settings \in news'
  BY WriterAnnounces DEF TypeInv
<1>2. \A k \in news' : ~ Matches(k, cycle)
  BY <1>1 DEF Quiet, Matches
<1>3. CASE kind = "status"
  <2>1. connection' = connection
    BY <1>1, <1>2, <1>3 DEF Matches
  <2>2. cycle.page \in Page => waiting'[cycle.page] = waiting[cycle.page]
    BY <1>1, <1>2, <1>3 DEF Matches
  <2>3. Pending(cycle.page)' = Pending(cycle.page)
    BY <1>1, <2>2 DEF Pending
  <2>. QED
    BY <1>1, <1>3, <2>1, <2>3 DEF Answer, Reads
<1>4. CASE kind = "count"
  <2>1. \A p \in Page : waiting'[p] = waiting[p]
    BY <1>1, <1>2, <1>4 DEF Matches
  <2>2. {p \in Page : waiting'[p] # Absent} = {p \in Page : waiting[p] # Absent}
    BY <2>1
  <2>. QED
    BY <1>1, <1>4, <2>2 DEF Answer, Reads
<1>5. CASE kind = "recent"
  <2>1. \A p \in Page : notes'[p] = notes[p]
    BY <1>1, <1>2, <1>5 DEF Matches
  <2>2. Recent(cycle.page)' = Recent(cycle.page)
    BY <1>1, <2>1 DEF Recent
  <2>. QED
    BY <1>1, <1>5, <2>2 DEF Answer, Reads
<1>. QED
  BY <1>3, <1>4, <1>5, ViewAssumption DEF TypeInv, StoreTypeOK

(* What is not written is answered as before. *)
LEMMA SameAnswers ==
  ASSUME UNCHANGED <<kind, connection, waiting, notes>>, cycle'.page = cycle.page
  PROVE  /\ \A s : Answer(s, cycle.page)' = Answer(s, cycle.page)
         /\ Stored(cycle.page)' = Stored(cycle.page)
<1>1. Pending(cycle.page)' = Pending(cycle.page) /\ Recent(cycle.page)' = Recent(cycle.page)
  BY DEF Pending, Recent
<1>2. ASSUME NEW s PROVE Answer(s, cycle.page)' = Answer(s, cycle.page)
  BY <1>1 DEF Answer
<1>. QED
  BY <1>2 DEF Stored, Reads

(* TrueInv looks at nothing else. *)
LEMMA TrueOfSame ==
  ASSUME TrueInv, UNCHANGED <<kind, connection, waiting, notes, cycle, view>>,
         cycle.watching /\ Quiet' => Quiet
  PROVE  TrueInv'
<1>1. /\ \A s : Answer(s, cycle.page)' = Answer(s, cycle.page)
      /\ Stored(cycle.page)' = Stored(cycle.page)
  BY SameAnswers
<1>. QED
  BY <1>1 DEF TrueInv

(* A load of which no answer has come says nothing yet. *)
LEMMA TrueOfNewLoad ==
  ASSUME cycle'.load.on, cycle'.load.superseded \/ cycle'.load.seen = << >>
  PROVE  TrueInv'
BY NoAnswers DEF TrueInv

(* A request: the load is a new one, or superseded. *)
LEMMA TrueOfRequest ==
  ASSUME TypeInv, NEW c, IsCycle(c), c.page = cycle.page, c.page # None, c.load = cycle.load,
         Request(c)
  PROVE  TrueInv'
<1>1. cycle' = Requested(c)
  BY RequestType DEF TypeInv, PanelTypeOK
<1>2. Requested(c).load.on /\ (Requested(c).load.superseded \/ Requested(c).load.seen = << >>)
  BY RequestedType DEF NewLoad
<1>. QED
  BY <1>1, <1>2, TrueOfNewLoad

(* The load of the view gets an answer. *)
LEMMA ReadAnswers ==
  ASSUME SurfaceTypeOK, StoreTypeOK, IsCycle(cycle), NEW source \in Reads,
         cycle' = Answered(cycle, source, Answer(source, cycle.page))
  PROVE  /\ cycle'.page = cycle.page /\ cycle'.watching = cycle.watching
         /\ cycle'.load.on = cycle.load.on /\ cycle'.load.superseded = cycle.load.superseded
         /\ DOMAIN cycle'.load.seen = DOMAIN cycle.load.seen \cup {source}
         /\ cycle'.load.seen[source] = Answer(source, cycle.page)
         /\ \A s \in DOMAIN cycle.load.seen \ {source} :
              cycle'.load.seen[s] = cycle.load.seen[s]
<1>. DEFINE seen == [s \in DOMAIN cycle.load.seen \cup {source} |->
                       IF s = source THEN Answer(source, cycle.page) ELSE cycle.load.seen[s]]
<1>1. cycle' = [cycle EXCEPT !.load.seen = seen]
  BY DEF Answered
<1>2. /\ cycle'.page = cycle.page /\ cycle'.watching = cycle.watching
      /\ cycle'.load.seen = seen
      /\ cycle'.load.on = cycle.load.on /\ cycle'.load.superseded = cycle.load.superseded
  BY <1>1 DEF IsCycle
<1>. QED
  BY <1>2

(* Every step keeps TrueInv. *)
LEMMA TrueStep ==
  ASSUME TypeInv, TrueInv, [ViewNext]_viewVars
  PROVE  TrueInv'
<1>1. CASE UNCHANGED viewVars
  <2>1. UNCHANGED <<kind, cycle, view, news, connection, waiting, notes>>
    BY <1>1 DEF viewVars, readerVars, storeVars, settingsVars, surface
  <2>2. Quiet' = Quiet
    BY <2>1 DEF Quiet, Matches
  <2>. QED
    BY <2>1, <2>2, TrueOfSame
<1>2. ASSUME WriterNext PROVE TrueInv'
  <2>1. UNCHANGED <<kind, cycle, view>> /\ news \subseteq news'
    BY <1>2, WriterAnnounces DEF TypeInv
  <2>2. CASE ~ Quiet'
    BY <2>2 DEF TrueInv
  <2>3. CASE Quiet'
    <3>1. Quiet
      BY <2>1, <2>3 DEF Quiet, Matches
    <3>2. Reads' = Reads /\ \A s \in Reads : Answer(s, cycle.page)' = Answer(s, cycle.page)
      BY <1>2, <2>1, <2>3, AnswersStay DEF Reads
    <3>3. Stored(cycle.page)' = Stored(cycle.page)
      BY <3>2 DEF Stored
    <3>4. DOMAIN cycle.load.seen \subseteq Reads
      BY DEF TypeInv, ViewsInv, IsCycle, AreAnswers
    <3>. QED
      BY <2>1, <3>1, <3>2, <3>3, <3>4 DEF TrueInv
  <2>. QED
    BY <2>2, <2>3
<1>3. ASSUME ViewerNext PROVE TrueInv'
  <2>1. UNCHANGED <<kind, connection, waiting, notes>>
    BY <1>3, ViewerWritesNothing DEF storeVars, settingsVars, surface
  <2>2. ASSUME NEW q \in Views \cup {None}, Show(q) PROVE TrueInv'
    <3>1. CASE q = None
      BY <2>2, <3>1 DEF Show, NoCycle, TrueInv
    <3>2. CASE q # None
      BY <2>2, <3>2, TrueOfNewLoad DEF Show, NewCycle, NewLoad
    <3>. QED
      BY <3>1, <3>2
  <2>3. ASSUME NEW q \in abandoned, AbandonedReturns(q) PROVE TrueInv'
    <3>1. UNCHANGED <<cycle, view, news>>
      BY <2>3 DEF AbandonedReturns
    <3>2. Quiet' = Quiet
      BY <2>1, <3>1 DEF Quiet, Matches
    <3>. QED
      BY <2>1, <3>1, <3>2, TrueOfSame
  <2>4. CASE Read
    <3>1. PICK source \in Reads : cycle' = Answered(cycle, source, Answer(source, cycle.page))
      BY <2>4 DEF Read, Unread
    <3>2. UNCHANGED <<view, news>> /\ cycle.load.on
      BY <2>4 DEF Read, Running
    <3>3. /\ cycle'.page = cycle.page /\ cycle'.watching = cycle.watching
          /\ cycle'.load.on = cycle.load.on /\ cycle'.load.superseded = cycle.load.superseded
          /\ DOMAIN cycle'.load.seen = DOMAIN cycle.load.seen \cup {source}
          /\ cycle'.load.seen[source] = Answer(source, cycle.page)
          /\ \A s \in DOMAIN cycle.load.seen \ {source} :
               cycle'.load.seen[s] = cycle.load.seen[s]
      BY <3>1, ReadAnswers DEF TypeInv, ViewsInv
    <3>4. \A s : Answer(s, cycle.page)' = Answer(s, cycle.page)
      BY <2>1, <3>3, SameAnswers
    <3>5. Quiet' = Quiet
      BY <2>1, <3>2, <3>3 DEF Quiet, Matches
    <3>. QED
      BY <3>2, <3>3, <3>4, <3>5 DEF TrueInv
  <2>5. ASSUME cycle.load.on, cycle' = LoadEnds(cycle), UNCHANGED news,
               IF cycle.load.superseded THEN UNCHANGED view
               ELSE view'.status = "ready" /\ cycle.watching
                    => view'.value = cycle.load.seen /\ Reads = DOMAIN cycle.load.seen
        PROVE  TrueInv'
    <3>1. /\ cycle'.page = cycle.page /\ cycle'.watching = cycle.watching
          /\ cycle'.load = IF cycle.load.superseded THEN NewLoad ELSE NoLoad
      BY <2>5, LoadEndsType DEF TypeInv, ViewsInv
    <3>2. CASE cycle.load.superseded
      BY <3>1, <3>2, TrueOfNewLoad DEF NewLoad
    <3>3. CASE ~ cycle.load.superseded /\ view'.status = "ready" /\ cycle.watching /\ Quiet'
      <4>1. Quiet
        BY <2>1, <2>5, <3>1, <3>3 DEF Quiet, Matches
      <4>2. view'.value = cycle.load.seen /\ DOMAIN cycle.load.seen = Reads
        BY <2>5, <3>3
      <4>3. \A s \in Reads : cycle.load.seen[s] = Answer(s, cycle.page)
        BY <2>5, <3>3, <4>1, <4>2 DEF TrueInv
      <4>4. Reads # {}
        BY DEF Reads
      <4>5. cycle.load.seen = [s \in Reads |-> cycle.load.seen[s]]
        BY <4>2, <4>4, NoAnswers DEF TypeInv, ViewsInv, IsSeen
      <4>6. cycle.load.seen = Stored(cycle.page)
        BY <4>3, <4>5 DEF Stored
      <4>7. view'.value = Stored(cycle.page)'
        BY <2>1, <3>1, <4>2, <4>6, SameAnswers
      <4>. QED
        BY <3>1, <3>3, <4>7 DEF TrueInv, NoLoad
    <3>4. CASE ~ cycle.load.superseded /\ ~ (view'.status = "ready" /\ cycle.watching /\ Quiet')
      BY <3>1, <3>4 DEF TrueInv, NoLoad
    <3>. QED
      BY <3>2, <3>3, <3>4
  <2>6. CASE CompleteLoad
    <3>1. /\ cycle.load.on /\ Reads \subseteq DOMAIN cycle.load.seen
          /\ cycle' = LoadEnds(cycle) /\ UNCHANGED news
      BY <2>6 DEF CompleteLoad, Running, Unread
    <3>2. DOMAIN cycle.load.seen = Reads
      BY <3>1 DEF TypeInv, ViewsInv, IsCycle, AreAnswers
    <3>3. IF cycle.load.superseded THEN UNCHANGED view
          ELSE cycle.watching => view' = Ready(cycle.page, cycle.load.seen)
      BY <2>6 DEF CompleteLoad, Publish
    <3>. QED
      BY <2>5, <3>1, <3>2, <3>3 DEF Ready
  <2>7. CASE FailLoad
    <3>1. cycle.load.on /\ cycle' = LoadEnds(cycle) /\ UNCHANGED news
      BY <2>7 DEF FailLoad, Running, panelVars
    <3>2. IF cycle.load.superseded THEN UNCHANGED view
          ELSE \/ view' = LoadError(cycle.page)
               \/ Listed /\ view' = [view EXCEPT !.status = "stale"]
      BY <2>7 DEF FailLoad, Publish
    <3>3. Listed /\ view' = [view EXCEPT !.status = "stale"] => view'.status = "stale"
      BY KeptType DEF TypeInv, ViewsInv, Listed
    <3>4. IF cycle.load.superseded THEN UNCHANGED view ELSE view'.status # "ready"
      BY <3>2, <3>3 DEF LoadError, Without
    <3>5. IF cycle.load.superseded THEN UNCHANGED view
          ELSE view'.status = "ready" /\ cycle.watching
               => view'.value = cycle.load.seen /\ Reads = DOMAIN cycle.load.seen
      BY <3>4
    <3>. QED
      BY <2>5, <3>1, <3>5
  <2>8. ASSUME NEW key \in Key, Deliver(key) PROVE TrueInv'
    <3>1. news' = news \ {key}
      BY <2>8 DEF Deliver
    <3>2. CASE cycle.watching /\ Matches(key, cycle)
      BY <2>8, <3>2, TrueOfRequest DEF Deliver, TypeInv, ViewsInv
    <3>3. CASE ~ (cycle.watching /\ Matches(key, cycle))
      <4>1. UNCHANGED <<cycle, view>>
        BY <2>8, <3>3 DEF Deliver
      <4>2. cycle.watching /\ Quiet' => Quiet
        BY <2>1, <3>1, <3>3, <4>1 DEF Quiet, Matches
      <4>. QED
        BY <2>1, <4>1, <4>2, TrueOfSame
    <3>. QED
      BY <3>2, <3>3
  <2>9. CASE Retry
    <3>1. cycle.page # None
      BY <2>9 DEF Retry, TypeInv, ViewsInv
    <3>2. /\ IsCycle([cycle EXCEPT !.watching = TRUE])
          /\ [cycle EXCEPT !.watching = TRUE].page = cycle.page
          /\ [cycle EXCEPT !.watching = TRUE].load = cycle.load
      BY DEF TypeInv, ViewsInv, IsCycle
    <3>. QED
      BY <2>9, <3>1, <3>2, TrueOfRequest DEF Retry, TypeInv, ViewsInv
  <2>. QED
    BY <1>3, <2>2, <2>3, <2>4, <2>6, <2>7, <2>8, <2>9 DEF ViewerNext, ViewStep
<1>. QED
  BY <1>1, <1>2, <1>3 DEF ViewNext

(* Nothing is shown at first. *)
LEMMA TrueInit == ViewInit => TrueInv
BY DEF ViewInit, NoCycle, TrueInv

(* A view that has heard of every write shows what is stored or says that  *)
(* it could not be read, whatever was written, announced and read in       *)
(* whatever order.                                                         *)
THEOREM SettledViewsAreTrue == ViewSpec => []SettledViewIsTrue
<1>1. TypeInv /\ TrueInv => SettledViewIsTrue
  BY DEF TypeInv, ViewsInv, TrueInv, SettledViewIsTrue, Settled, Quiet, Running
<1>. QED
  BY TypeInvariant, TrueInit, TrueStep, <1>1, PTL DEF ViewSpec
-----------------------------------------------------------------------------
(* The claim "Synced to BYOS".  What the panel has heard of the page, what *)
(* a load has read of it and what is stored agree as far as the history    *)
(* has it: of a report since which nothing has been synced, no newer       *)
(* success is stored or read, and the queue holds what it held or nothing, *)
(* unless another entry waits, which no load can then miss.                *)
LastSuccess(c) == IF c = None THEN 0 ELSE c.success

UpTo(progress, report, waits, stored, seen) ==
  progress # "synced" =>
    /\ progress = "queued" => waits # None
    /\ progress = "nothing" =>
         /\ waits \in {report.pending, None}
         /\ "queue" \in DOMAIN seen => seen["queue"] \in {report.pending, None}
    /\ report.ready =>
         /\ LastSuccess(stored) <= report.success
         /\ "settings" \in DOMAIN seen => LastSuccess(seen["settings"]) <= report.success

Waits == Pending(cycle.page)
Baseline(e) == [ready |-> e.known, pending |-> e.pending, success |-> e.success]

LoadInv ==
  /\ "queue" \in DOMAIN cycle.load.seen => "settings" \in DOMAIN cycle.load.seen
  /\ "settings" \in DOMAIN cycle.load.seen /\ since.load # "synced" =>
       /\ LastSuccess(connection) <= LastSuccess(cycle.load.seen["settings"])
       /\ since.load = "queued" => Waits # None
       /\ since.load = "nothing" /\ "queue" \in DOMAIN cycle.load.seen =>
            Waits \in {cycle.load.seen["queue"], None}

ScreenInv == UpTo(since.screen, Report(view), Waits, connection, cycle.load.seen)

Untrusted ==
  since.save # "synced" =>
    /\ ~ evidence.trust
    /\ evidence.observed # None =>
         /\ since.save = "queued"
         /\ "queue" \in DOMAIN cycle.load.seen => cycle.load.seen["queue"] # None

SaveInv == UpTo(since.save, Baseline(evidence), Waits, connection, cycle.load.seen) /\ Untrusted

ClaimInv ==
  kind = "status" => LoadInv /\ ScreenInv /\ (phase \in Saving => SaveInv)

(* The successes that are compared are numbers. *)
LEMMA SuccessType ==
  ASSUME NEW c \in Connection \cup {None}
  PROVE  LastSuccess(c) \in Nat
BY DEF LastSuccess, Connection

(* What the history says of a step. *)
LEMMA SinceSays ==
  ASSUME NEW t, NEW u, u = Since(t), u # "synced"
  PROVE  /\ t # "synced" /\ ~ (successes' > successes)
         /\ t = "queued" => Pending(cycle.page)' # None
         /\ u = IF Pending(cycle.page)' \notin {Waits, None} THEN "queued" ELSE t
BY DEF Since, Waits

(* A report stays up to date, as far as the history has it, when the queue *)
(* moves and the success does not grow.                                    *)
LEMMA UpToMoves ==
  ASSUME NEW t, NEW u, NEW report, NEW waits, NEW moved, NEW stored, NEW kept, NEW seen,
         report.success \in Nat, LastSuccess(stored) \in Nat, LastSuccess(kept) \in Nat,
         UpTo(t, report, waits, stored, seen),
         u # "synced" =>
           /\ t # "synced" /\ LastSuccess(kept) <= LastSuccess(stored)
           /\ t = "queued" => moved # None
           /\ u = IF moved \notin {waits, None} THEN "queued" ELSE t
  PROVE  UpTo(u, report, moved, kept, seen)
<1>. SUFFICES ASSUME u # "synced"
              PROVE  UpTo(u, report, moved, kept, seen)
  BY DEF UpTo
<1>1. report.ready => LastSuccess(kept) <= report.success
  BY DEF UpTo
<1>. QED
  BY <1>1 DEF UpTo

-----------------------------------------------------------------------------
(* A step of a writer changes the save phase by Phase, or not at all. *)
LEMMA WriterPhase ==
  ASSUME WriterNext
  PROVE  UNCHANGED <<phase, evidence>> \/ \E next : Phase(next)
<1>1. CASE Synchronize \/ RecordSuccess \/ Connect \/ Disconnect \/ Expire
  BY <1>1 DEF Synchronize, RecordSuccess, Connect, Disconnect, Reconnects, Expire, readerVars
<1>2. CASE Edit \/ RetrySave \/ SaveUnchanged
  BY <1>2 DEF Edit, RetrySave, SaveUnchanged
<1>3. ASSUME NEW w \in Window, NEW p \in Page,
             StartSave(w, p) \/ WriteNote(w, p) \/ ObserveSave(w, p) \/ FailSave(w, p)
      PROVE  UNCHANGED <<phase, evidence>> \/ \E next : Phase(next)
  BY <1>3 DEF StartSave, WriteNote, ObserveSave, FailSave, Saved, readerVars
<1>. QED
  BY <1>1, <1>2, <1>3 DEF WriterNext

(* A new success is counted, and a new connection has none. *)
LEMMA WriterSuccess ==
  ASSUME TypeInv, WriterNext, ~ (successes' > successes)
  PROVE  LastSuccess(connection') <= LastSuccess(connection)
<1>. DEFINE Linked == \/ connection' = connection \/ connection' = None
                      \/ connection'.success = 0
<1>1. LastSuccess(connection) \in Nat
  BY SuccessType DEF TypeInv, StoreTypeOK
<1>. SUFFICES Linked
  BY <1>1 DEF LastSuccess
<1>. HIDE DEF Linked
<1>2. CASE Synchronize \/ Expire
  BY <1>2 DEF Synchronize, Expire, Linked
<1>3. CASE RecordSuccess
  <2>1. successes' = successes + 1 \/ UNCHANGED connection
    BY <1>3 DEF RecordSuccess
  <2>. QED
    BY <2>1 DEF TypeInv, StoreTypeOK, Linked
<1>4. ASSUME NEW c, Reconnects(c), c = None \/ c.success = 0 PROVE Linked
  BY <1>4 DEF Reconnects, Linked
<1>5. CASE Connect \/ Disconnect
  BY <1>4, <1>5 DEF Connect, Disconnect
<1>6. CASE Edit \/ RetrySave \/ SaveUnchanged
  BY <1>6 DEF Edit, RetrySave, SaveUnchanged, storeVars, settingsVars, Linked
<1>7. ASSUME NEW w \in Window, NEW p \in Page,
             StartSave(w, p) \/ WriteNote(w, p) \/ ObserveSave(w, p) \/ FailSave(w, p)
      PROVE  Linked
  BY <1>7 DEF StartSave, WriteNote, ObserveSave, FailSave, settingsVars, Linked
<1>. QED
  BY <1>2, <1>3, <1>5, <1>6, <1>7 DEF WriterNext

(* A save phase begins with what the screen shows; one that goes on keeps  *)
(* what it began with.                                                     *)
Begins == phase' \in Saving /\ (phase \notin Saving \/ (phase' = "saving" /\ phase # "saving"))

LEMMA WriterEvidence ==
  ASSUME TypeInv, WriterNext, kind = "status", phase' \in Saving,
         NEW e, e = IF Begins THEN BeginLocalSave(Report(view)) ELSE evidence
  PROVE  /\ Baseline(evidence') = Baseline(e)
         /\ evidence'.trust = e.trust /\ evidence'.observed = e.observed
<1>1. e \in Evidence
  BY ReportType DEF TypeInv, PanelTypeOK, ViewsInv, BeginLocalSave, Evidence, Reports
<1>2. evidence' = e \/ evidence' = CompleteLocalSave(e)
  <2>1. CASE UNCHANGED <<phase, evidence>>
    BY <2>1 DEF Begins, Saving
  <2>2. ASSUME NEW next, Phase(next)
        PROVE  evidence' = e \/ evidence' = CompleteLocalSave(e)
    <3>1. phase' = next /\ evidence' = Lifecycle(evidence, Report(view), phase, next)
      BY <2>2 DEF Phase
    <3>2. CASE next = "saving"
      BY <3>1, <3>2 DEF Lifecycle, Begins, Saving
    <3>3. CASE next = "saved-locally"
      BY <3>1, <3>3 DEF Lifecycle, Begins, Saving
    <3>. QED
      BY <3>1, <3>2, <3>3 DEF Saving
  <2>. QED
    BY <2>1, <2>2, WriterPhase
<1>. QED
  BY <1>1, <1>2 DEF CompleteLocalSave, Baseline, Evidence


-----------------------------------------------------------------------------
(* The writers. *)

(* A writer moves the queue and the success; the history moves with them.  *)
LEMMA WriterUpTo ==
  ASSUME TypeInv, ViewNext, WriterNext, NEW t, NEW report, report.success \in Nat,
         UpTo(t, report, Waits, connection, cycle.load.seen), NEW u, u = Since(t)
  PROVE  UpTo(u, report, Waits', connection', cycle'.load.seen)
<1>1. UNCHANGED cycle
  BY WriterAnnounces DEF TypeInv
<1>2. Pending(cycle.page)' = Waits'
  BY DEF Waits
<1>3. connection \in Connection \cup {None} /\ connection' \in Connection \cup {None}
  <2>1. TypeInv'
    BY TypeStep
  <2>. QED
    BY <2>1 DEF TypeInv, StoreTypeOK, Connection
<1>4. LastSuccess(connection) \in Nat /\ LastSuccess(connection') \in Nat
  BY <1>3, SuccessType
<1>5. u # "synced" => ~ (successes' > successes)
  BY SinceSays
<1>6. u # "synced" => LastSuccess(connection') <= LastSuccess(connection)
  BY <1>5, WriterSuccess
<1>7. u # "synced" =>
        /\ t # "synced" /\ (t = "queued" => Waits' # None)
        /\ u = IF Waits' \notin {Waits, None} THEN "queued" ELSE t
  BY <1>2, SinceSays
<1>8. UpTo(u, report, Waits', connection', cycle.load.seen)
  BY <1>4, <1>6, <1>7, UpToMoves
<1>. QED
  BY <1>1, <1>8

(* A writer leaves the load and the screen alone. *)
LEMMA WriterSince ==
  ASSUME TypeInv, WriterNext
  PROVE  /\ UNCHANGED <<kind, cycle, view>>
         /\ SinceShown = Since(since.screen)
         /\ SinceSave = IF phase' \notin Saving THEN "nothing"
                        ELSE IF Begins THEN SinceShown ELSE Since(since.save)
<1>1. UNCHANGED <<kind, cycle, view>>
  BY WriterAnnounces DEF TypeInv
<1>2. SinceShown = Since(since.screen)
  BY <1>1 DEF SinceShown, Running
<1>. QED
  BY <1>1, <1>2 DEF SinceSave, Begins

(* Whatever a writer does, the load has not missed it. *)
LEMMA WriterLoad ==
  ASSUME TypeInv, LoadInv, ViewNext, WriterNext, since'.load = SinceRead
  PROVE  LoadInv'
<1>. DEFINE seen == cycle.load.seen
<1>1. UNCHANGED <<kind, cycle>> /\ Pending(cycle.page)' = Waits'
  BY WriterAnnounces DEF TypeInv, Waits
<1>. SUFFICES ASSUME "settings" \in DOMAIN seen, since'.load # "synced"
              PROVE  /\ LastSuccess(connection') <= LastSuccess(seen["settings"])
                     /\ since'.load = "queued" => Waits' # None
                     /\ since'.load = "nothing" /\ "queue" \in DOMAIN seen =>
                          Waits' \in {seen["queue"], None}
  BY <1>1 DEF LoadInv
<1>2. Since(since.load) # "synced"
        /\ since'.load = IF "queue" \in DOMAIN seen THEN Since(since.load) ELSE "nothing"
  BY <1>1 DEF SinceRead
<1>3. /\ since.load # "synced" /\ ~ (successes' > successes)
      /\ since.load = "queued" => Waits' # None
      /\ Since(since.load) = IF Waits' \notin {Waits, None} THEN "queued" ELSE since.load
  BY <1>1, <1>2, SinceSays
<1>4. LastSuccess(connection') <= LastSuccess(seen["settings"])
  <2>1. seen["settings"] \in Connection \cup {None}
    BY DEF TypeInv, ViewsInv, IsCycle, AreAnswers
  <2>2. connection \in Connection \cup {None} /\ connection' \in Connection \cup {None}
    <3>1. TypeInv'
      BY TypeStep
    <3>. QED
      BY <3>1 DEF TypeInv, StoreTypeOK, Connection
  <2>3. LastSuccess(seen["settings"]) \in Nat /\ LastSuccess(connection) \in Nat
        /\ LastSuccess(connection') \in Nat
    BY <2>1, <2>2, SuccessType
  <2>4. LastSuccess(connection') <= LastSuccess(connection)
    BY <1>3, WriterSuccess
  <2>. QED
    BY <1>3, <2>3, <2>4 DEF LoadInv
<1>. QED
  BY <1>2, <1>3, <1>4 DEF LoadInv

(* The reports the panel has heard of have successes that are numbers. *)
LEMMA ReportsSucceed ==
  ASSUME TypeInv, kind = "status"
  PROVE  Report(view).success \in Nat /\ Baseline(evidence).success \in Nat
BY ReportType DEF TypeInv, ViewsInv, PanelTypeOK, Reports, Baseline, Evidence

(* A save phase of the panel begins, or goes on, while the writers write. *)
LEMMA WriterSave ==
  ASSUME TypeInv, ClaimInv, ViewNext, WriterNext, kind = "status", phase' \in Saving,
         since'.save = SinceSave
  PROVE  SaveInv'
<1>1. /\ UNCHANGED <<kind, cycle, view>>
      /\ since'.save = IF Begins THEN Since(since.screen) ELSE Since(since.save)
  BY WriterSince
<1>2. CASE Begins
  <2>1. /\ Baseline(evidence') = Baseline(BeginLocalSave(Report(view)))
        /\ evidence'.trust = FALSE /\ evidence'.observed = None
    BY <1>2, WriterEvidence DEF BeginLocalSave
  <2>2. /\ Baseline(evidence').ready = Report(view).ready
        /\ Baseline(evidence').pending = Report(view).pending
        /\ Baseline(evidence').success = Report(view).success
    BY <2>1 DEF BeginLocalSave, Baseline
  <2>3. UpTo(since'.save, Report(view), Waits', connection', cycle'.load.seen)
    BY <1>1, <1>2, ReportsSucceed, WriterUpTo DEF ClaimInv, ScreenInv
  <2>4. UpTo(since'.save, Baseline(evidence'), Waits', connection', cycle'.load.seen)
    BY <2>2, <2>3 DEF UpTo
  <2>. QED
    BY <2>1, <2>4 DEF SaveInv, Untrusted
<1>3. CASE ~ Begins
  <2>1. phase \in Saving /\ SaveInv
    BY <1>3 DEF Begins, ClaimInv
  <2>2. /\ Baseline(evidence') = Baseline(evidence)
        /\ evidence'.trust = evidence.trust /\ evidence'.observed = evidence.observed
    BY <1>3, WriterEvidence
  <2>3. since'.save = Since(since.save)
    BY <1>1, <1>3
  <2>4. UpTo(since'.save, Baseline(evidence'), Waits', connection', cycle'.load.seen)
    BY <2>1, <2>2, <2>3, ReportsSucceed, WriterUpTo DEF SaveInv
  <2>5. since'.save # "synced" =>
          /\ since.save # "synced"
          /\ since.save = "queued" => since'.save = "queued"
    BY <2>3, SinceSays
  <2>. QED
    BY <1>1, <2>1, <2>2, <2>4, <2>5 DEF SaveInv, Untrusted
<1>. QED
  BY <1>2, <1>3

(* No writer earns the claim and is not remembered for it. *)
LEMMA ClaimOfWriter ==
  ASSUME TypeInv, ClaimInv, ViewNext, WriterNext, kind = "status"
  PROVE  ClaimInv'
<1>1. /\ since'.load = SinceRead /\ since'.screen = SinceShown /\ since'.save = SinceSave
  BY DEF ViewNext, Remember
<1>2. LoadInv'
  BY <1>1, WriterLoad DEF ClaimInv
<1>3. ScreenInv'
  <2>1. UNCHANGED view /\ since'.screen = Since(since.screen) /\ Report(view)' = Report(view)
    BY <1>1, WriterSince DEF Report
  <2>2. UpTo(since'.screen, Report(view), Waits', connection', cycle'.load.seen)
    BY <2>1, ReportsSucceed, WriterUpTo DEF ClaimInv, ScreenInv
  <2>. QED
    BY <2>1, <2>2 DEF ScreenInv
<1>4. phase' \in Saving => SaveInv'
  BY <1>1, WriterSave
<1>. QED
  BY <1>2, <1>3, <1>4 DEF ClaimInv, Saving


-----------------------------------------------------------------------------
(* The view. *)

(* On the page it is on, the view moves nothing that the history counts.   *)
LEMMA ViewerSince ==
  ASSUME ViewerNext, cycle'.page = cycle.page
  PROVE  /\ UNCHANGED <<kind, connection>> /\ Waits' = Waits
         /\ \A t, u : u = Since(t) /\ u # "synced" => t = u
<1>1. UNCHANGED <<kind, connection, waiting>>
  BY ViewerWritesNothing DEF storeVars, settingsVars, surface
<1>2. Pending(cycle.page)' = Waits /\ Waits' = Waits
  BY <1>1 DEF Pending, Waits
<1>3. ASSUME NEW t, NEW u, u = Since(t), u # "synced" PROVE t = u
  BY <1>2, <1>3, SinceSays
<1>. QED
  BY <1>1, <1>2, <1>3

(* The answers that have reached the load of the status were true when     *)
(* they were read; this one is true now.                                   *)
Hears ==
  /\ "queue" \in DOMAIN cycle'.load.seen => "settings" \in DOMAIN cycle'.load.seen
  /\ \A s \in DOMAIN cycle'.load.seen :
       \/ s \in DOMAIN cycle.load.seen /\ cycle'.load.seen[s] = cycle.load.seen[s]
       \/ cycle'.load.seen[s] = Answer(s, cycle.page)

(* A report stays up to date while a load reads. *)
LEMMA UpToReads ==
  ASSUME kind = "status", Hears, NEW t, NEW u, u # "synced" => t = u, NEW report,
         UpTo(t, report, Waits, connection, cycle.load.seen)
  PROVE  UpTo(u, report, Waits, connection, cycle'.load.seen)
<1>1. Answer("settings", cycle.page) = connection /\ Answer("queue", cycle.page) = Waits
  BY DEF Answer, Waits
<1>. QED
  BY <1>1 DEF UpTo, Hears

(* The load does not miss what happens after it has read. *)
LEMMA ViewerLoad ==
  ASSUME TypeInv, LoadInv, ViewerNext, kind = "status", cycle'.page = cycle.page, Hears,
         since'.load = SinceRead
  PROVE  LoadInv'
<1>. DEFINE seen == cycle.load.seen
            read == cycle'.load.seen
<1>1. /\ Answer("settings", cycle.page) = connection /\ Answer("queue", cycle.page) = Waits
      /\ UNCHANGED connection /\ Waits' = Waits
  BY ViewerSince DEF Answer, Waits
<1>. SUFFICES ASSUME "settings" \in DOMAIN read, since'.load # "synced"
              PROVE  /\ LastSuccess(connection) <= LastSuccess(read["settings"])
                     /\ since'.load = "queued" => Waits # None
                     /\ since'.load = "nothing" /\ "queue" \in DOMAIN read =>
                          Waits \in {read["queue"], None}
  BY <1>1 DEF LoadInv, Hears
<1>2. /\ since'.load = IF "queue" \in DOMAIN seen THEN Since(since.load) ELSE "nothing"
      /\ Since(since.load) = since.load /\ since.load # "synced"
  <2>1. /\ since'.load = IF "queue" \in DOMAIN seen THEN Since(since.load) ELSE "nothing"
        /\ Since(since.load) # "synced"
    BY DEF SinceRead
  <2>. QED
    BY <2>1, ViewerSince
<1>3. LastSuccess(connection) <= LastSuccess(read["settings"])
  <2>1. CASE "settings" \in DOMAIN seen /\ read["settings"] = seen["settings"]
    BY <1>2, <2>1 DEF LoadInv
  <2>2. CASE read["settings"] = connection
    <3>1. LastSuccess(connection) \in Nat
      BY SuccessType DEF TypeInv, StoreTypeOK
    <3>. QED
      BY <2>2, <3>1
  <2>. QED
    BY <1>1, <2>1, <2>2 DEF Hears
<1>. QED
  BY <1>1, <1>2, <1>3 DEF LoadInv, Hears

(* The load of the status reads, or is asked for again. *)
LEMMA ClaimOfReader ==
  ASSUME TypeInv, ClaimInv, ViewNext, ViewerNext, kind = "status", cycle'.page = cycle.page,
         Hears, Running => Running', UNCHANGED <<phase, view, evidence>>
  PROVE  ClaimInv'
<1>1. /\ UNCHANGED <<kind, connection>> /\ Waits' = Waits
      /\ \A t, u : u = Since(t) /\ u # "synced" => t = u
  BY ViewerSince
<1>2. /\ since'.load = SinceRead /\ since'.screen = Since(since.screen)
      /\ phase \in Saving => since'.save = Since(since.save)
  BY DEF ViewNext, Remember, SinceShown, SinceSave, Saving
<1>3. LoadInv'
  BY <1>2, ViewerLoad DEF ClaimInv
<1>4. ScreenInv'
  <2>1. since'.screen # "synced" => since.screen = since'.screen
    BY <1>1, <1>2
  <2>2. UpTo(since'.screen, Report(view), Waits, connection, cycle'.load.seen)
    BY <2>1, UpToReads DEF ClaimInv, ScreenInv
  <2>. QED
    BY <1>1, <2>2 DEF ScreenInv, Report
<1>5. ASSUME phase \in Saving PROVE SaveInv'
  <2>1. since'.save # "synced" => since.save = since'.save
    BY <1>1, <1>2, <1>5
  <2>2. UpTo(since.save, Baseline(evidence), Waits, connection, cycle.load.seen) /\ Untrusted
    BY <1>5 DEF ClaimInv, SaveInv
  <2>3. UpTo(since'.save, Baseline(evidence), Waits, connection, cycle'.load.seen)
    BY <2>1, <2>2, UpToReads
  <2>4. Answer("queue", cycle.page) = Waits
    BY DEF Answer, Waits
  <2>5. Untrusted'
    BY <2>1, <2>2, <2>4 DEF Untrusted, UpTo, Hears
  <2>. QED
    BY <1>1, <2>3, <2>5 DEF SaveInv, Baseline
<1>. QED
  BY <1>3, <1>4, <1>5 DEF ClaimInv, Saving

(* The panel hears of a load that is over: what it knows of the queue and  *)
(* of the last success is as old as the load, and earns nothing that the   *)
(* history does not have.                                                  *)
LEMMA ObservesNothingNew ==
  ASSUME TypeInv, ClaimInv, kind = "status", phase \in Saving, since.save # "synced",
         NEW r \in Reports,
         r.ready => /\ DOMAIN cycle.load.seen = Reads
                    /\ r.pending = cycle.load.seen["queue"]
                    /\ r.success = LastSuccess(cycle.load.seen["settings"]),
         NEW e, e = ObserveSyncEvidence(evidence, r)
  PROVE  /\ Baseline(e) = Baseline(evidence) /\ ~ e.trust
         /\ e.observed # None => since.save = "queued"
<1>1. evidence \in Evidence
  BY DEF TypeInv, PanelTypeOK
<1>2. UpTo(since.save, Baseline(evidence), Waits, connection, cycle.load.seen) /\ Untrusted
  BY DEF ClaimInv, SaveInv
<1>3. since.save \in Progress
  BY DEF TypeInv, PanelTypeOK, Moments
<1>4. CASE evidence.phase = "inactive" \/ ~ r.ready
  BY <1>2, <1>4 DEF ObserveSyncEvidence, Untrusted
<1>5. CASE ~ (evidence.phase = "inactive" \/ ~ r.ready)
  <2>1. "queue" \in DOMAIN cycle.load.seen /\ "settings" \in DOMAIN cycle.load.seen
    BY <1>5 DEF Reads
  <2>2. /\ since.save = "queued" \/ r.pending \in {evidence.pending, None}
        /\ evidence.observed # None => since.save = "queued" /\ r.pending # None
    BY <1>2, <1>3, <1>5, <2>1 DEF UpTo, Untrusted, Baseline, Progress
  <2>3. ~ hasNewerSuccessfulSync(evidence, r)
    BY <1>1, <1>2, <1>5, <2>1 DEF UpTo, Baseline, hasNewerSuccessfulSync, Evidence, Reports
  <2>4. CASE r.pending # None
    BY <1>1, <1>2, <1>5, <2>2, <2>4 DEF ObserveSyncEvidence, Evidence, Baseline, Untrusted
  <2>5. CASE r.pending = None
    BY <1>1, <1>2, <1>5, <2>2, <2>3, <2>5 DEF ObserveSyncEvidence, Evidence, Baseline, Untrusted
  <2>. QED
    BY <2>4, <2>5
<1>. QED
  BY <1>4, <1>5


(* The load of the status is over, and the panel shows what it has read,   *)
(* or that it could not.                                                   *)
LEMMA ClaimOfReport ==
  ASSUME TypeInv, ClaimInv, ViewNext, ViewerNext, kind = "status",
         cycle.load.on, ~ cycle.load.superseded, cycle' = LoadEnds(cycle), UNCHANGED phase,
         NEW v, IsView(v), v.page = cycle.page, Publish(v),
         v.status = "ready" => v.value = cycle.load.seen /\ DOMAIN cycle.load.seen = Reads
  PROVE  ClaimInv'
<1>1. /\ cycle'.page = cycle.page /\ ~ cycle'.load.on /\ DOMAIN cycle'.load.seen = {}
  BY LoadEndsType, NoAnswers DEF TypeInv, ViewsInv, NoLoad
<1>2. view' = v /\ evidence' = ObserveSyncEvidence(evidence, Report(v))
  BY DEF Publish, TypeInv, ViewsInv
<1>3. /\ UNCHANGED <<kind, connection>> /\ Waits' = Waits /\ Pending(cycle.page)' = Waits'
      /\ \A t, u : u = Since(t) /\ u # "synced" => t = u
  BY <1>1, ViewerSince DEF Waits
<1>4. /\ since'.load = SinceRead /\ since'.screen = SinceShown
      /\ phase \in Saving => since'.save = Since(since.save)
  BY DEF ViewNext, Remember, SinceSave, Saving
<1>5. since'.screen = IF v.status = "ready" THEN since.load
                      ELSE IF Waits = None THEN "nothing" ELSE "queued"
  BY <1>1, <1>2, <1>3, <1>4 DEF SinceShown, Running
<1>6. Report(v) \in Reports
  BY ReportType DEF TypeInv
<1>7. v.status = "ready" =>
        /\ Report(v).ready /\ Report(v).pending = cycle.load.seen["queue"]
        /\ Report(v).success = LastSuccess(cycle.load.seen["settings"])
  BY DEF Report, LastSuccess
<1>8. v.status # "ready" => ~ Report(v).ready /\ Report(v).pending = None
  BY DEF Report
<1>9. LoadInv'
  BY <1>1 DEF LoadInv
<1>10. ScreenInv'
  <2>1. UpTo(since'.screen, Report(v), Waits, connection, cycle'.load.seen)
    <3>1. CASE v.status = "ready"
      <4>1. "queue" \in DOMAIN cycle.load.seen /\ "settings" \in DOMAIN cycle.load.seen
        BY <3>1 DEF Reads
      <4>. QED
        BY <1>1, <1>5, <1>7, <3>1, <4>1 DEF ClaimInv, LoadInv, UpTo
    <3>2. CASE v.status # "ready"
      BY <1>1, <1>5, <1>8, <3>2 DEF UpTo
    <3>. QED
      BY <3>1, <3>2
  <2>2. Report(view)' = Report(v)
    BY <1>2 DEF Report
  <2>. QED
    BY <1>3, <2>1, <2>2 DEF ScreenInv
<1>11. ASSUME phase \in Saving PROVE SaveInv'
  <2>1. CASE since'.save = "synced"
    BY <2>1 DEF SaveInv, UpTo, Untrusted
  <2>2. CASE since'.save # "synced"
    <3>1. since'.save = since.save
      BY <1>3, <1>4, <1>11, <2>2
    <3>2. Report(v).ready =>
            /\ DOMAIN cycle.load.seen = Reads
            /\ Report(v).pending = cycle.load.seen["queue"]
            /\ Report(v).success = LastSuccess(cycle.load.seen["settings"])
      BY <1>7, <1>8
    <3>3. /\ Baseline(evidence') = Baseline(evidence) /\ ~ evidence'.trust
          /\ evidence'.observed # None => since.save = "queued"
      BY <1>2, <1>6, <1>11, <2>2, <3>1, <3>2, ObservesNothingNew
    <3>4. UpTo(since'.save, Baseline(evidence'), Waits', connection', cycle'.load.seen)
      BY <1>1, <1>3, <1>11, <3>1, <3>3 DEF ClaimInv, SaveInv, UpTo
    <3>. QED
      BY <1>1, <3>1, <3>3, <3>4 DEF SaveInv, Untrusted
  <2>. QED
    BY <2>1, <2>2
<1>. QED
  BY <1>9, <1>10, <1>11 DEF ClaimInv, Saving

(* Another page is shown. *)
LEMMA ClaimOfShow ==
  ASSUME TypeInv, ViewNext, ViewerNext, kind = "status", NEW q \in Views \cup {None}, Show(q)
  PROVE  ClaimInv'
<1>1. /\ cycle'.page = q /\ cycle'.page # cycle.page /\ phase' = "idle"
      /\ DOMAIN cycle'.load.seen = {} /\ view'.status # "ready"
  BY NoAnswers DEF Show, OnPage, NewCycle, NoCycle, NewLoad, NoLoad, Loading, NoView, Without
<1>2. since'.screen = IF Waits' = None THEN "nothing" ELSE "queued"
  BY <1>1 DEF ViewNext, Remember, SinceShown, Waits
<1>3. LoadInv'
  BY <1>1 DEF LoadInv
<1>4. ScreenInv'
  <2>1. ~ Report(view').ready /\ Report(view').pending = None
    BY <1>1 DEF Report
  <2>. QED
    BY <1>1, <1>2, <2>1 DEF ScreenInv, UpTo
<1>. QED
  BY <1>1, <1>3, <1>4 DEF ClaimInv, Saving

(* Whatever the view does, it hears of nothing that the history does not   *)
(* have.                                                                   *)
LEMMA ClaimOfViewer ==
  ASSUME TypeInv, ClaimInv, ViewNext, ViewerNext, kind = "status"
  PROVE  ClaimInv'
<1>1. "queue" \in DOMAIN cycle.load.seen => "settings" \in DOMAIN cycle.load.seen
  BY DEF ClaimInv, LoadInv
<1>2. ASSUME cycle'.page = cycle.page, Running => Running', UNCHANGED <<phase, view, evidence>>,
             \/ cycle'.load.seen = cycle.load.seen
             \/ DOMAIN cycle'.load.seen = {}
      PROVE  ClaimInv'
  BY <1>1, <1>2, ClaimOfReader DEF Hears
<1>3. ASSUME NEW q \in Views \cup {None}, Show(q) PROVE ClaimInv'
  BY <1>3, ClaimOfShow
<1>4. ASSUME NEW q \in abandoned, AbandonedReturns(q) PROVE ClaimInv'
  BY <1>2, <1>4 DEF AbandonedReturns, panelVars, Running
<1>5. CASE Read
  <2>1. PICK source \in Unread : /\ "settings" \in Unread => source = "settings"
                                 /\ cycle' = Answered(cycle, source, Answer(source, cycle.page))
    BY <1>5 DEF Read
  <2>2. UNCHANGED <<phase, view, evidence>>
    BY <1>5 DEF Read, panelVars
  <2>3. /\ cycle'.page = cycle.page /\ cycle'.load.on = cycle.load.on
        /\ DOMAIN cycle'.load.seen = DOMAIN cycle.load.seen \cup {source}
        /\ cycle'.load.seen[source] = Answer(source, cycle.page)
        /\ \A s \in DOMAIN cycle.load.seen \ {source} :
              cycle'.load.seen[s] = cycle.load.seen[s]
    BY <2>1, ReadAnswers DEF Unread, TypeInv, ViewsInv
  <2>4. Hears
    BY <1>1, <2>1, <2>3 DEF Hears, Unread, Reads
  <2>. QED
    BY <2>2, <2>3, <2>4, ClaimOfReader DEF Running
<1>6. ASSUME cycle.load.on, cycle.load.superseded, cycle' = LoadEnds(cycle),
             UNCHANGED <<phase, view, evidence>>
      PROVE  ClaimInv'
  <2>1. cycle'.page = cycle.page /\ cycle'.load.on /\ DOMAIN cycle'.load.seen = {}
    BY <1>6, LoadEndsType, NoAnswers DEF TypeInv, ViewsInv, NewLoad
  <2>. QED
    BY <1>2, <1>6, <2>1 DEF Running
<1>7. CASE CompleteLoad
  <2>1. /\ cycle.load.on /\ Reads \subseteq DOMAIN cycle.load.seen
        /\ cycle' = LoadEnds(cycle) /\ UNCHANGED phase
    BY <1>7 DEF CompleteLoad, Running, Unread, panelVars
  <2>2. /\ DOMAIN cycle.load.seen = Reads /\ AreAnswers(cycle.load.seen)
        /\ cycle.page \in Views
    BY <2>1 DEF TypeInv, ViewsInv, IsCycle, AreAnswers
  <2>3. CASE cycle.load.superseded
    BY <1>6, <1>7, <2>1, <2>3 DEF CompleteLoad
  <2>4. CASE ~ cycle.load.superseded
    <3>. DEFINE v == IF cycle.watching THEN Ready(cycle.page, cycle.load.seen)
                                       ELSE LoadError(cycle.page)
    <3>1. Publish(v)
      BY <1>7, <2>4 DEF CompleteLoad
    <3>2. /\ IsView(v) /\ v.page = cycle.page
          /\ v.status = "ready" => v.value = cycle.load.seen
      BY <2>2, ReadyType, WithoutType DEF LoadError, TypeInv
    <3>. HIDE DEF v
    <3>. QED
      BY <2>1, <2>2, <2>4, <3>1, <3>2, ClaimOfReport
  <2>. QED
    BY <2>3, <2>4
<1>8. CASE FailLoad
  <2>1. cycle.load.on /\ cycle' = LoadEnds(cycle) /\ UNCHANGED phase
    BY <1>8 DEF FailLoad, Running, panelVars
  <2>2. cycle.page \in Views
    BY <2>1 DEF TypeInv, ViewsInv, IsCycle
  <2>3. CASE cycle.load.superseded
    BY <1>6, <1>8, <2>1, <2>3 DEF FailLoad
  <2>4. CASE ~ cycle.load.superseded
    <3>1. Publish(LoadError(cycle.page))
      BY <1>8, <2>4 DEF FailLoad, Listed
    <3>2. /\ IsView(LoadError(cycle.page)) /\ LoadError(cycle.page).page = cycle.page
          /\ LoadError(cycle.page).status = "error"
      BY <2>2, WithoutType DEF LoadError
    <3>. QED
      BY <2>1, <2>4, <3>1, <3>2, ClaimOfReport
  <2>. QED
    BY <2>3, <2>4
<1>9. ASSUME NEW key \in Key, Deliver(key) PROVE ClaimInv'
  <2>1. /\ UNCHANGED <<phase, view, evidence>>
        /\ cycle' = cycle \/ cycle' = Requested(cycle)
    BY <1>9 DEF Deliver, Request, panelVars
  <2>2. CASE cycle' = cycle
    BY <1>2, <2>1, <2>2 DEF Running
  <2>3. CASE cycle' = Requested(cycle)
    <3>1. /\ cycle'.page = cycle.page /\ cycle'.load.on
          /\ IF cycle.load.on THEN cycle'.load.seen = cycle.load.seen
             ELSE cycle'.load = NewLoad
      BY <2>3, RequestedType DEF TypeInv, ViewsInv
    <3>2. \/ cycle'.load.seen = cycle.load.seen
          \/ DOMAIN cycle'.load.seen = {}
      BY <3>1, NoAnswers DEF NewLoad
    <3>. QED
      BY <1>2, <2>1, <3>1, <3>2 DEF Running
  <2>. QED
    BY <2>1, <2>2, <2>3
<1>10. ~ Retry
  BY DEF Retry
<1>. QED
  BY <1>3, <1>4, <1>5, <1>7, <1>8, <1>9, <1>10 DEF ViewerNext, ViewStep

-----------------------------------------------------------------------------
(* Every step keeps ClaimInv. *)
LEMMA ClaimStep ==
  ASSUME TypeInv, ClaimInv, [ViewNext]_viewVars
  PROVE  ClaimInv'
<1>1. CASE UNCHANGED viewVars
  <2>1. UNCHANGED <<kind, phase, since, evidence, connection, cycle, view, waiting>>
    BY <1>1 DEF viewVars, readerVars, storeVars, settingsVars, surface
  <2>. QED
    BY <2>1 DEF ClaimInv, LoadInv, ScreenInv, SaveInv, Untrusted, Waits, Pending, Report,
       Baseline
<1>2. CASE ViewNext /\ kind = "status"
  BY <1>2, ClaimOfWriter, ClaimOfViewer DEF ViewNext
<1>3. CASE ViewNext /\ kind # "status"
  BY <1>3, KindStays DEF ClaimInv
<1>. QED
  BY <1>1, <1>2, <1>3

(* Nothing is read, shown or saved at first. *)
LEMMA ClaimInit == ViewInit => ClaimInv
<1>. SUFFICES ASSUME ViewInit PROVE ClaimInv
  OBVIOUS
<1>1. DOMAIN cycle.load.seen = {} /\ phase = "idle" /\ view.status # "ready"
  BY NoAnswers DEF ViewInit, NoCycle, NoLoad, NoView, Without
<1>2. Waits = None
  BY DEF ViewInit, NotesInit, NoCycle, Waits, Pending
<1>3. since.screen = "nothing"
  BY DEF ViewInit, NothingSince
<1>. QED
  BY <1>1, <1>2, <1>3 DEF ClaimInv, LoadInv, ScreenInv, UpTo, Report, Saving

(* "Synced to BYOS" is never said of a save on account of what the screen  *)
(* already showed when its save phase began, whatever the saves of the     *)
(* other panels, the runs of the worker and the reads of the page, loads   *)
(* and events that were under way then included.                           *)
THEOREM ClaimIsAlwaysEarned == ViewSpec => []ClaimIsEarned
<1>1. ClaimInv => ClaimIsEarned
  BY DEF ClaimInv, SaveInv, Untrusted, ClaimIsEarned, SaysSynced, Saving
<1>. QED
  BY TypeInvariant, ClaimInit, ClaimStep, <1>1, PTL DEF ViewSpec
=============================================================================
