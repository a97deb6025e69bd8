# PagePerch: models, checks and proofs

PagePerch is a Chrome side-panel extension that keeps one note per web page. Notes live in
`chrome.storage.local`; with a connected BYOS account they are also synchronized with an S3
bucket of the user's. This directory holds TLA+ models of the program, the TLC runs that check
them on small instances, and TLAPS proofs of the properties that matter most for every instance.

Paths below are relative to `src/src/`.

## 1. Inventory

Three kinds of JavaScript contexts share `chrome.storage.local`: the **service worker** (one per
profile; Chrome may end it at any `await`), the **side panels** (one per window) and the **options
pages**. Repository operations of one context are chained in a promise queue and each one runs
under one exclusive Web Lock (`repositories/chromeStorage.ts:87`), so a repository operation is a
critical section and everything else interleaves between two of them.

| Component | State | Operations | Interacts with | Correct when |
|---|---|---|---|---|
| Note records (`domain/note.ts`) | page key, content, `savedAt`, `revisionId`, `deletedAt` (tombstone) | compare | everything | one deterministic winner on every device |
| Note repository (`repositories/chromeLocalNoteRepository.ts`) | a record per page, an index per origin | get, put, putIfCurrent, listAll, listByOrigin, delete | panels, engine, migration | every record indexed exactly under its origin; a conditional put never overwrites another record |
| Note service (`services/note.ts`) | a mutation chain per page | save, clear, load | draft, repository, observer | a save writes a fresh version or nothing; clearing leaves a tombstone |
| Save observer (`side-panel/localMutationSync.ts`) | – | enqueue the revision, then trigger the worker | queue, runtime messages | a durable note is queued or found by reconciliation |
| Sync queue (`repositories/chromeLocalSyncQueue.ts`, `sync/syncQueue.ts`) | an entry per page: revision, attempts, next attempt | enqueue, complete, fail, count, listAll, listDue | observer, engine, runtime | removal and failure are conditional on the revision; back-off never restarts for the same revision |
| Sync engine (`sync/syncEngine.ts`) | the run: listings, counters, issues | sync | repositories, queue, S3 | replicas converge; nothing newer is lost; "synced" is true |
| S3 replica (`repositories/s3ReplicaRepository.ts`) | bucket objects | get, put, listAll | engine, credentials | – (a plain store with unconditional writes) |
| Sync runtime (`background/byosSyncRuntime.ts`, `syncRuntimeMessages.ts`) | in-flight run, connection generation, alarms | start, trigger, alarm, invalidateCredentials | engine, settings, panels | runs never overlap; a retry is always scheduled; no result of an old connection is recorded |
| BYOS connection (`services/byosCoordinator.ts`, `byosOAuth.ts`, `byosProtocolCredentials.ts`, `byosPkceSession.ts`) | settings' connection, PKCE session, cached credentials | connect, disconnect, getProtocolCredentials | settings, runtime | credentials of one connection are never used for another |
| Identity migration (`services/identityMigration*.ts`, `repositories/chromeLocalIdentityMigrationPersistence.ts`) | a journal with a phase | start, resumePending, apply, finalize | note repository, settings, queue | after a crash the migration completes exactly; nothing else writes notes meanwhile |
| Note draft (`side-panel/pageNoteDraft.ts`) | draft, pending save, saved revision | contentChanged, flush, stop, load | note service | what the user typed last is saved, once, in order |
| Page session and ownership (`side-panel/activePageSession.ts`, `pageNoteOwnership.ts`) | the active page; one owner per page | tab events, reconcile, start, stop | draft, tabs | one live draft owner per page; a page is left only after its draft is flushed |
| Visibility and recent notes (`sync/syncVisibility.ts`, `side-panel/rootRecentNotes.ts`, `repositories/chromeSyncVisibilityChanges.ts`, `side-panel/chromeRecentNoteChanges.ts`) | the load cycle of one page, the published state | setPage, setSession, retry, storage events | queue, settings, repository, panel | a change notified during a load is shown eventually; no stale load is shown over a newer one; lists do not vanish on a failure |
| Sync evidence (`side-panel/App.tsx`, `usePageSyncVisibility`) | baseline of the last save, what was heard since | begin, complete, clear a save; observe a state | visibility, draft | "Synced to BYOS" is never said of a save on account of what the screen already showed when it began; a view that has heard of the save says so |
| Rest of the user interface, build scripts | – | rendering, packaging | – | not modelled |

Behaviours that are hard to test: a save between two steps of a run; two devices' runs against one
bucket; a worker that dies between an upload and the queue's completion; a panel that dies between
a save and its enqueue; lost answers; clocks apart; retries meeting late enqueues; triggers that
arrive during a run; disconnects during a run; a migration interrupted in any phase; edits during a
save or a flush; storage events that arrive while a view loads, and loads that return after their
page was left. `PROJECT.json` lists each at its line under `hazards`.

## 2. Modules

| Module | Models |
|---|---|
| `ReplicaRecords` | records and the comparison that picks a winner |
| `SyncQueue` | the queue's operations as operators on one page's entry, with the back-off |
| `SyncEngine` | runs of every device's engine against saves, other devices and failures |
| `MCSyncEngine` | values for TLC |
| `SyncLemmas`, `SyncEngineProofs`, `SyncBackoffProofs`, `SyncSafetyProofs` | theorems about `SyncEngine` |
| `NoteIdentity` | notes of one origin, exclusions, and the page identity they give a URL |
| `AtomicMigration` | what a migration promises: notes and settings change in one step |
| `IdentityMigration` | planning, the journal and its phases, executors, and what runs against them |
| `MCIdentityMigration` | values for TLC |
| `MigrationProofs` | theorems about `IdentityMigration`, with the refinement of `AtomicMigration` |
| `PageNoteDraft` | one page's draft: what each event does to it, as operators |
| `DurableNotes` | what a panel promises: edits stored in order, editors that open on the last edit |
| `PanelSession` | a panel: session, ownership and draft composed, with user, browser and storage |
| `MCPanelSession` | values for TLC |
| `PanelProofs` | theorems about `PanelSession`, with the refinement of `DurableNotes` |
| `ByosConnection` | options pages that connect to BYOS and disconnect |
| `SyncRuntime` | the worker's runs, their triggers and credentials, composed with `ByosConnection` |
| `MCSyncRuntime` | values for TLC |
| `SyncRuntimeProofs` | theorems about `SyncRuntime` |
| `SyncedNotes` | what the pages of one device see of saves and synchronization; `SyncEngine` implements it |
| `StoredView` | the load cycle that keeps a view up to date with storage, as operators |
| `SyncEvidence` | what the panel must have heard before it says "Synced to BYOS", as operators |
| `PanelViews` | sync status, pending count and recent notes, composed with `SyncedNotes`, the connection and the panel's saves |
| `MCPanelViews` | values for TLC |
| `PanelViewsProofs` | theorems about `PanelViews` |

What composes what: `SyncEngine` uses `ReplicaRecords` and `SyncQueue`; `SyncRuntime` extends
`ByosConnection`; `PanelSession` extends `PageNoteDraft`; `PanelViews` extends `SyncedNotes` and
`SyncEvidence`, which extends `StoredView`. The abstract specifications are `SyncedNotes` (of
`SyncEngine`), `AtomicMigration` (of `IdentityMigration`) and `DurableNotes` (of `PanelSession`).

### SyncEngine

An action is one await of the program: one critical section on storage or one request.

| Code | Model |
|---|---|
| `chrome.storage.local` notes, queue entries | `local[d][p]`, `queue[d][p]` |
| objects `pageperch/v1/notes/{pageKey}.json` | `remote[p]` |
| the local variables of `SyncEngine.#run` | `run[d]`: `pc`, `now`, the three listings, pages still to visit, whether an issue or a deferral was counted |
| `NoteService.#saveValidated` up to `put`, the `put`, the observer | `BeginSave`, `PutNote`, `Observe`; `SaveInterrupted` is the failing or closing panel |
| preparation and listings | `StartRun`, `ListLocal`, `ListQueue` (in this order: they share the worker's chain), `ListRemoteKeys` and `GetRemote` (interleaved with them) |
| the loop's branches | `ReportConflict`, `Defer`, `RecheckLocal` + `Upload`/`UploadFails`, `Download`, `CompleteSynced` + `CompleteListed` |
| `#recordUploadFailure` | `RetireStaleIntent`, `RecordFailure` |
| `catch` blocks of the loop | `StorageFails` |
| `#handleGlobalFailure` of the runtime | `RunFails`, `ListDue`, `FailDueEntry`, `FailureNotRecorded`, `EndFailedRun` |
| Chrome ends the worker | `WorkerTerminated` |

Data is abstracted to what the comparison and the properties tell apart: a record has `savedAt`,
`revisionId` and one `content` field; `Cleared` is a tombstone's content. Page keys and revision
identifiers are naturals because the code compares them by code units, a total order. Random
revision identifiers do not repeat (`used`). The random retry delay is any value of its range.

History variables (`used`, `published`, `newest`, `skewed`, `quiet`) appear in properties only,
except `used`.

### IdentityMigration

An action is one critical section of a repository or of the migration's persistence; planning
happens on the snapshot its section read, so it is part of it.

| Code | Model |
|---|---|
| canonical URLs, page keys, `derivePageIdentity` | `Page` (a value per query parameter), `Identity(url, rules)` |
| note records of the origin; the text of a document | `notes[p]`; a set of texts, as merging concatenates them |
| settings record | `settings`: the exclusions, and `preference` for everything else |
| the journal key | `journal`: `Absent`, or a plan and its phase |
| `IdentityMigrationExecutor.start` | `Start` or `Resume`, `MakePlan`, `BeginJournal`, then as below |
| `resumePending` (each worker boot and synchronization run) | `Resume`, `ApplyDestinations`, `ApplyTombstones`, `ApplySettings`, `Finalize` |
| `#validateOperationState`, `#assertPersistedPhaseIsConsistent` | `Undisturbed`, `ConsistentPhase`; `Rejected` is every error path |
| `planIdentityMigration` | `Legitimate`, `Destinations`, `Moving`, `Representatives`, `Merged`, `PlanFor` |
| a storage write that fails or is cut off | `TornWrite`, `Interrupted` |
| options page | `LoadView`, `ChangePreference`; the request is made from `view` |
| side panel, note service | `ShowPage`, `BeginSave`, `PutNote`, `PutRejected` |
| a download of the sync engine | `Download`, with the exclusions of the device it comes from |

`revision` numbers all writes and plans: it stands for `savedAt`, `revisionId`, `plannedAt` and
`operationId`. `strayed` is a history variable: the pages written under an identity that the
exclusions of that moment do not give. Left out: titles, the origin index (the migration rewrites it
with every phase), the provenance check and validation (what is stored was written by this code).

### PanelSession

The panel is one JavaScript thread. An action is one event of its event loop with all promise
continuations that follow from it until the next event; the two awaits that last, storage and timers,
separate actions.

| Code | Model |
|---|---|
| the active tab; `#generation` and the candidate being resolved | `tab`, `resolving` |
| `#commitTail`: the candidate awaiting the flush, the one behind it | `commit`, `queued`; stale candidates behind the first do nothing and are left out |
| `#currentDocumentPageKey`, `#currentDocumentFlushed` | `session`, `flushed` |
| `setSession` in an effect after the session is published | `rendered`, `Render`: other events may come in between |
| `#desired`, `#owner`, `#view`, `#failure` of the ownership | `desired`, `owner`, `view`, `failure` |
| fields of `PageNoteDraftController` | `Draft`; `activePersistence`, `backgroundDrain`, `flushPromise`, `stopPromise` are `saving`, `drain`, `flush`, `stop` |
| `handleActivated`, `handleUpdated`; lookups | `TabEvent`; `Resolve`, to the tab's page, or to none when a lookup fails or the page is unsupported |
| `#commitCandidate` | `Commit`, and after its await `FlushFailed`, `FlushDone` |
| `#reconcile`, `#stopOwner`, `#createOwner` | `Reconcile`, `Replace`, `Fresh`; after the await of `stop`, in `SaveSettles` |
| note service: a save is durable, then its promise settles | `PutNote`, `SaveSettles`; a save that settles without `PutNote` has failed |
| the three retry buttons | `RetryOwnership`, `RetryLoad`, `RetrySave` |
| the panel is closed and opened | `Close`; a write in flight is done before, or never |

An edit is a number that grows with every edit and stands for the content; `accepted` is a history
variable: the last edit of each page that a draft took. Left out: edits that do not change the
content, errors of React and of listener registration, StrictMode's double effects, and the
rescheduling at the end of a flush (`pageNoteDraft.ts:330-337`), which no event can reach because a
flush ends handled or with an error. Only this panel writes: the other writers of notes are in
`SyncEngine` and `IdentityMigration`. The view of a draft's own state is taken to be on the screen
at once; the session's is not.

### SyncRuntime

An action is one await: a critical section on storage, a request, or a message.

| Code | Model |
|---|---|
| stored `byosConnection` | `connection`, the number of the authorization it comes from, with `synced` for `lastSuccessfulSyncAt`; `expired` |
| PKCE session | `pending` |
| `#inFlight`, `#inFlightGeneration`, `#followUp` | `run`, `run.current`, `followUp`; `Trigger`, `EndRun` |
| `#connectionGeneration` | `generation`; `InvalidateCredentials` |
| `#run` | `ReadSettings`, `Bind`, `EngineThrows` or `EngineEnds`, `Record`, `Schedule`, `SetAlarm` |
| `createByosS3ReplicaCredentialProvider` | `binding`; `StartOperation` and `Send`, before and after the coordinator's credentials |
| `getProtocolCredentials` | `ReadBefore`, then the memory provider, then `ReadAfter` |
| `MemoryByosProtocolCredentialProvider` | `cache`, `Lookup`, `Issue`; its generation moves with the runtime's, so `epoch` is compared with `generation` |
| S3 request | `Send`, `Respond` |
| messages to the worker | `message`, `Deliver`, `Lose`; an options page waits for the answer to `invalidate` |
| `performByosAction`, `#runConnect`, `disconnect` | the stages of `page[o]`; `Close` when the page is closed under them |
| the worker's boot, alarms, suspension | `Start`, `PeriodicAlarm`, `RetryAlarm`, `Terminate` |

The engine is reduced to what it asks of credentials: a list and then a put for each queued save, one
at a time. The worker's other triggers (a panel that opens, a saved note, a finished identity
migration) do what `PeriodicAlarm` does. `owed` and `finished` are history variables. Left out: token and
credential formats, expiry of cached credentials, delays, and the exchange of the code as a step
of its own (it precedes the write that stores its token).

### SyncedNotes

The surface of a device: `local[d]` is `notes`, the revisions in `queue[d]` are `waiting`, the saves of
its panels are `saves`, a run under way is `running`, and `synced` says that the last run ended with the
summary `synced`. Everything else of `SyncEngine` is hidden: the listings, the bucket, the other devices,
the schedules of retries. What is left of a run: it may download records that win over the notes, retire
entries, queue the revision of a failed upload where nothing waits, and end as synced only if nothing
waited since its summary was made. `SyncEngine!Surface(d)` is the refinement mapping.

### PanelViews

`PanelViews` has the surface of `SyncedNotes` where the program has the storage of the device, and takes
its steps together with what the views need to know of them (`PanelViewsProofs!ViewsOverSyncedNotes` proves
that it adds none). One view is looked at, in one page of the extension.

| Code | Model |
|---|---|
| `#cycle`: page key, `requestedRevision`, `completedRevision`, `running`, `subscriptionError` | `cycle`: `page`, `watching` (no subscription error), `load`: under way, the answers it has, whether a later request has `superseded` it |
| loads whose cycle is over | `abandoned`, `AbandonedReturns` |
| `#setPage`, `#setContext`, connecting the options page | `Show` |
| `chrome.storage.onChanged` | `news`, with one event per key under way; `Deliver`, `Matches` |
| `#requestLoad`, `#runLoads`, `#publish` | `Request`; `Read` per repository call, `CompleteLoad`, `FailLoad`; `Publish` |
| `readyPageState`, `hasExpired` at the time of the publication | `Ready`, `Mode` |
| "Retry recent notes" | `Retry` |
| `LocalSaveSyncEvidence`, `observeSyncEvidence` | `evidence`, `ObserveSyncEvidence` |
| `beginLocalSave`, `completeLocalSave`, `clearLocalSave`, called as the draft's phase changes | `Lifecycle`, `Phase` |
| `PageSyncStatus` | `SaysSynced` |
| the panel's own draft, as far as its save phase goes | `phase`, `dirty`, `Edit`, `RetrySave`, `StartSave`, `SaveUnchanged`, `ObserveSave`, `FailSave` |
| runs of the worker; the record of their success | `Synchronize`, `RecordSuccess`; `lastSuccessfulSyncAt` is the number of the success |
| options page: connect, disconnect; the token's expiry | `Connect`, `Disconnect`, `Expire` |

`since` is a history variable: what synchronization has done for the page since the answers of the load
under way were read, since those on the screen were, and since those the evidence of the save rests on were:
`nothing`, another entry `queued`, or `synced`, that is, such an entry has left the queue or a run has recorded
its success. A load hands what it knows to the screen and the screen to a save phase that begins, so
the loads and events that were under way at that moment are counted too. Left out:
builds without BYOS (the states `unavailable`), formatting and the filter of the recent notes, events of an entry that is only
rescheduled (no view reads schedules), downloads while the view is not of notes (they write nothing that
it reads). The connection changes between two runs; `SyncRuntime` has the runs that lose theirs. The page
changes when its draft is idle or saved, as `PanelSession` flushes it before.

## 3. Runs

| Run | Question | Bounds |
|---|---|---|
| `sync_one_device` | types and the attempt cap; "synced" means agreement; retries wait until due; schedules never rewind; intents leave after publication; an undisturbed run settles every page and raises no false alarm; the engine implements `SyncedNotes` | 1 device, 1 panel, 2 pages, 2 revisions, clock 0..2, 3 faults, attempts ≤ 2 |
| `sync_two_devices` | the greatest version survives; downloads never regress a note; no integrity conflict of PagePerch's own making; replicas that agree are left alone; liveness: replicas agree, on the greatest version, and queues drain | 2 devices with a panel each, 1 page, equal time stamps, one fault |
| `sync_lost_intent` | violation: DECISIONS.md "stale completion cannot remove newer intent" | 1 device, 1 page, no fault |
| `sync_stale_upload` | violation: DECISIONS.md "Stale devices cannot resurrect deleted notes" | 2 devices, 1 page, no fault |
| `migration` | a migration is one step for everyone outside; a pending one is never stuck; merging and moving lose no text; notes stay where their URLs lead; every record is at an identity of its URL; executors only carry a migration forward; liveness: a pending migration completes, also when options page, worker and failures race | 1 parameter (2 pages), 2 texts, 2 preferences, 1 options page, worker, 1 panel, downloads of a device with no exclusion, 3 writes, 1 fault |
| `migration_next_exclusion` | violation: MIGRATION_STRATEGY.md "explicitly admits old-key tombstones produced by an earlier addition" | 2 parameters, 3 writes, no fault |
| `panel_drafts` | nothing accepted is lost; unsaved content is scheduled; saved means stored; the session is current; stale candidates are never published; the panel implements `DurableNotes`; liveness: accepted edits are stored or the failure shown | 2 pages, 3 edits, title changes up to revision 2 of a draft |
| `panel_dropped_edit` | violation: README.md "saves an actual change 750 milliseconds after editing stops" | 2 pages, 2 edits |
| `sync_runtime` | requests carry fresh credentials of the run's connection; a new connection is synchronized; success is recorded of the right connection; liveness: queued saves are synchronized | 1 options page, 2 authorizations, 1 disconnect, 1 save, 1 fault |
| `sync_disconnect` | violation: README.md "Disconnect clears [...] in-memory S3 credentials" | 1 options page, 1 authorization, 1 disconnect, no fault |
| `panel_status` | types; a settled status is what is stored; "Synced to BYOS" of a save never rests on what the screen already showed when its save phase began | the status of 1 page, 1 panel, 2 revisions, 1 connection, 1 recorded success, 1 fault |
| `panel_lists` | late loads are not shown; lists stay on the screen; liveness: a view comes to rest | count and recent notes, 1 page below another, the panel goes between both and none, 2 revisions, 1 abandoned load, 1 fault |

Why these are enough: pages interact only through a run's counters and its order of visits, so two
pages show every interaction; a race is of the listed version and one saved
during the run or by another device; for more versions there are the theorems. With `MaxClock = 0` all versions tie on `savedAt` and the revision
decides, the case the tie-break exists for; `sync_one_device` moves the clock. Three faults allow a
failed upload whose failure is recorded late, and a termination. A retry scheduled past `MaxClock` is due
at `MaxClock`, so that the bounded clock does not starve it.

A migration moves notes between the pages that differ in one parameter, so two pages show a move and
a collision; `migration_next_exclusion` has four, which show what another parameter keeps apart, and the
theorems are for every number. Three writes are a note, its migration and another note or migration.

In a panel a page is left, stored or returned to: two pages and no page show every switch. Three
edits are one being saved, one made meanwhile, and one after it or on another page; a title change
is one more revision of any of them.

A connection is replaced by disconnecting and connecting again, or by connecting over it: one
disconnect and a second authorization give both, at any await of a run. One fault is a
termination, a lost message or a failed storage write.

A view races one writer: one page's two revisions are one that waits when the load reads and one that
replaces it, and one fault is a load, a subscription, a save, an upload or the record of a success that
fails. The false claim that `ObserveAnyEntry` makes needs two revisions and no fault, and so does the early
one of section 5, which the run reaches. A second page
matters only for loads that return late, which `panel_lists` has; status and lists share `StoredView`, so
liveness is checked for the lists and the truth of a settled view for the status; `SettledViewsAreTrue` is
for every kind of view.

Deadlock is checked in every run: a device can always start another run, a panel can always show a
page, the periodic alarm always fires, and a view can always be asked for another page.

Fairness of `ViewCatchesUp` (`FairViewSpec` of `PanelViews`): Chrome delivers each storage event, and the
repositories answer or fail. No writer, no user and no run is fair. A user who goes from page to page for
ever may never see a load end, so the property excludes that; writers cannot go on for ever,
because revisions, successes, connections and faults are finitely many.

Fairness of `SavedIsSynced` (`FairSpec` of `SyncRuntime`): weak fairness of the run's steps, of the boot
after a start, of the periodic alarm (Chrome keeps it across suspensions) and of the delivery of
messages. Nothing the user does is fair, and the token may expire at any time; faults are at most
`MaxFaults`.

Fairness of `EditIsSaved` (`FairSpec` of `PanelSession`): the debounce timer fires, and storage
answers a save. Nothing the user or the browser does is fair: tab events may go on for ever,
and no retry is assumed. Edits and title changes are finitely many. This matters: a page that changes its title
more often than every 750 ms restarts the debounce each time (`pageNoteDraft.ts:294-303`), and then
only leaving the page saves.

Fairness of `MigrationCompletes` (`FairSpec` of `IdentityMigration`): weak fairness of the worker's
executor only. The worker resumes at every boot and before every synchronization run, and the
15-minute alarm boots it. Options pages need not run at all; interruptions are at most `MaxFaults`.

Fairness of `Convergence` (`FairSpec` of `SyncEngine`): weak fairness of each device's engine steps (promise
continuations run, and the 15-minute alarm starts runs), of its clock, and of a panel's pending
save steps. Saves, failures and terminations are not fair; they are finitely many (`Revision`,
`MaxFaults`).

## 4. Proofs

`TypeOK` and the other nine safety properties of the first two runs are theorems for all sets of devices,
panels, pages and revisions, all clocks and fault counts, from the named assumptions of
`ReplicaRecords`, `SyncQueue` and `SyncEngine`.

- `InvType` = `TypeOK` and `RunShape`: what the program counter says about the listings (the verdict
  of the page being uploaded, that the retired or failed entry was listed). Without it an action's
  `Queued(d).revisionId` has no type.
- `BackoffInv`: a page a run still has to visit is settled: its stored entry is the listed one,
  possibly failed since, or one enqueued later for another revision; from `RecheckLocal` to
  `RecordFailure` the page is not `Deferred`; the entries `#handleGlobalFailure` still has to
  advance are due. Then `BackoffRespected`, and `BackoffNeverRewound`, because `fail` only meets
  due entries.
- `NewestSurvives` is inductive with `InvType`: only `Download` and `PutNote` write notes, the first
  by a winning record, the second by a greater one unless `skewed`.
- `PublishedInv`: `published` wins or draws with the bucket, every bucket listing, and the record a
  run is completing. `CompletionFollowsPublication` follows.
- `AgreementInv`: while a run is `quiet`, its listings are accurate for the pages to visit and the
  visited pages agree. `SyncedMeansAgreed` follows at `Finish`.
- `SettlingInv` carries the converse, `UndisturbedRunSettles`, with `AgreementInv`: before the first failure,
  and while a run is `quiet`, each page of its listings is still to visit or already agrees, conflicts or is
  queued; an issue was counted only for a conflict, a deferral only for an entry that is still there.
  A late completion or a recheck that fails would need a save or an upload, which end `quiet`.
- `CopiesUsed`: the revision identifier of every copy of a page, stored, listed or being saved, has been
  generated. Only `BeginSave` makes a copy that is not a copy of another, and its identifier is new:
  `NoNewConflict`. `ConflictsComeFromOutside` is its consequence for a device that started from what the
  bucket held: no run ever meets a conflict.
- `AgreementLasts` needs no more than `InvType`: over listings that are what is stored, no verdict is a win, so no
  action but a save is enabled that writes. With `AgreementIsNewest`, from `NewestSurvives`, it says of
  `Convergence` what is not liveness: replicas that agree are on the latest save, and stay there. That an
  undisturbed run brings them to agree is `UndisturbedRunsSettle`.
- `RunsAdvance` needs `InvType` only: each engine step moves its run down a lexicographic order (phase, pages
  to visit, listings and objects to read, step on the page) or ends it, and nothing moves a run back. It is
  what termination of a run rests on besides fairness.
- Retry delays: the exponential delay is a recursive function. `DelayDefined` shows that the function
  its definition chooses exists: solutions up to each attempt exist and agree (`DelaysUpToExist`, `DelaysUpToAgree`),
  so together they solve it. As the induction theorems cannot be used, each of these facts is shown by the least
  attempt it would fail for (`LeastOf`). `RetryDelayRange` and `FailuresCanBeRecorded` follow: the
  delay is in its range for every attempt, and a failure can always be recorded.

`MigrationProofs` proves `TypeOK` and the six other safety properties of `migration` for all parameters, values,
texts, preferences, panels, options pages and faults, from the named assumptions of `NoteIdentity` and
`IdentityMigration`.

- `InvType` = `TypeOK` and the shape of a run: an executor past `snapshot` has a plan.
- `PlanFacts`: every plan, in a run or in the journal, is of its own sources, legitimate and of one
  exclusion, and writes what `PlanForFacts` says. `PlansAreDisjoint` follows from legitimacy: of the
  two sides of one exclusion only one moves notes onto a page.
- `JournalInv`: while a journal is stored, each page holds its source or its write of a phase already
  applied or begun, settings change only once both note phases are complete, and the stored phase
  never claims more than what is stored. Torn writes are inside it because the journal is the last
  key of its phase. `PendingCanComplete` is a part of it, and `NoTextLost` follows with
  `PlansAreDisjoint`: tombstones are only written when all destinations are.
- Refinement: what is seen from outside is the journal's sources and settings while a migration is
  pending, and storage otherwise. `BeginJournal` and all phases stutter; `Finalize` is the atomic
  step; everybody else writes only while nothing is pending.
- `MigrationNeverUndone` follows from `JournalInv`: an executor that is behind writes what is already there
  (a page past its source has its planned record), and a phase that is stored is never replaced by a smaller one.
- `HomedInv`: each stored record, each page a panel shows or saves, and each source of a pending plan is at an
  identity of its URL under some exclusions. Merges keep it because the representative is a note that
  moves to the destination under the requested exclusions. `RecordsAtIdentities` is a part of it.
  `OneParameterPlannable`: with a single parameter this makes every change plannable, strayed notes or
  not; `migration_next_exclusion` shows that two parameters are enough to refute it.
- `ReachableUnlessStrayed` follows for saves from the definition of `strayed`, and for `Finalize` from
  the atomic step.

`PanelProofs` proves the seven safety results of `panel_drafts` for all pages and bounds, from
`NothingAssumption` and `PanelAssumption`.

- About a draft: handled and eligible revisions never pass the latest; a save has the text of its
  revision; a drain or a flush under way has a save; a draft that is stopping takes no edit and has a
  flush, a failure, or nothing unsaved; unsaved content has a timer, a save or an error. Each
  operator of `PageNoteDraft` has a lemma that preserves this (`NewDraftInv` to `SettledInv`).
- `PanelInv` = `TypeOK`, the notes and the session. The notes' part: the draft's invariant, `NothingLost`,
  and that a handled revision is in storage. It is what makes a replacement safe: a draft is replaced
  only when stopped, stopped means nothing unsaved, so the fresh draft loads what was last accepted.
  The session's part: a candidate that is not stale is the tab's or none, and something awaits a flush
  only while a flush is under way.
- Refinement: `editing` is the page whose draft is started and loaded. `SaveSettles` opens no editor,
  because a fresh draft has not loaded; `Load` opens one on what is stored, by `NothingLost`.

`SyncRuntimeProofs` proves `TypeOK` and the four safety properties of `sync_runtime` for all options pages,
authorizations, disconnects, saves and faults. `RuntimeInv` is inductive with `TypeOK`:

- `OperationInv`: an operation exists only while its run's engine does and is of its connection. A
  termination ends both, and a run never ends under an operation, so a later run never meets an
  answer to an earlier one.
- `EpochInv`: what is cached is of the current generation, and so is an operation that has its
  credentials, as long as the binding stands. `FreshCredentials` follows, because `Send` needs a
  binding.
- `TriggerInv`: a run in flight was triggered in the current generation or before, so the trigger of a
  new connection, which comes with a new generation, cannot join it. `ConnectionServed` is a part of it.
- `SuccessInv`: a run that will record is of a finished connection, and so is a recorded one.

`SyncSafetyProofs` also proves the refinement, `EngineImplementsSyncedNotes`: for each device an engine step is
a step of `SyncedNotes` or a stutter. `InvType` types the save or the listed entry a step is about;
`NoOutcomeYet` (a run under way has no outcome) makes the end of a run the only step that sets `synced`.

`PanelViewsProofs` proves all six safety properties of `panel_status` and `panel_lists` for all pages,
revisions, panels, kinds of view and bounds, from the named assumptions of `ReplicaRecords` and
`PanelViews`. Three invariants, each inductive with the ones before:

- `TypeInv`: types, that a view is of its cycle's page (`ViewOfShownPage`), and that it says "loading" or
  "refreshing" only while a load is under way. `ListedNotesStay` follows step by step.
- `TrueInv`: as long as no event that the view listens to is under way, the answers of a load that is not
  superseded are the stored ones, and so is what was published of the last load. A write breaks neither,
  because it is announced (`WriterAnnounces`); the delivery of the event supersedes the load
  (`TrueOfRequest`). `SettledViewIsTrue` is its case without a load.
- `ClaimInv`: as long as nothing has been `synced` since a report was read, nothing that is stored, or that
  the load under way has read, is newer than the report (`UpTo`): no success is greater, and what waits is what the
  report says or nothing, unless another entry is `queued`, which then still waits. It holds of the load's own
  answers (`LoadInv`), of the screen (`ScreenInv`) and of the baseline of a save phase (`SaveInv`), and the proof
  follows a report from one to the next: `ClaimOfReport` from the load to the screen, `WriterSave` from the screen
  to the evidence. The evidence is then not trusted (`Untrusted`), because a load cannot
  find the queue empty once the panel has seen such an entry (`ObservesNothingNew`). `ClaimIsEarned` follows, with
  no assumption on the state in which the save began.

Model-checked only: `Convergence`, `MigrationCompletes`, `EditIsSaved`, `SavedIsSynced` and `ViewCatchesUp`
(liveness under fairness and ENABLED are out of the prover's reach). What a function defined by recursion
computes is proved for the retry delay only.

## 5. Findings

- *Lost intent* (`sync_lost_intent`): notes and queue are listed in two critical sections. A save
  between them is in the queue listing and not in the note listing. If the listed note equals the
  bucket's, `#completeQueue` retires the listed, newer revision; the run reports `synced` and the
  durable flag is gone until the next run compares the replicas. `Convergence` shows that it is repaired.
- *Stale upload* (`sync_stale_upload`): a device uploads over a tombstone written after its listing.
  The bucket holds the old note until the tombstone's device runs again; `NewestSurvives` and
  `Convergence` show that the tombstone wins in the end.
- *Next exclusion* (`migration_next_exclusion`): a note is moved by excluding `x` and leaves a
  tombstone at its old key, whose representative URL has `x`. Excluding `y` next checks that tombstone
  against the rules with `x` and with `x` and `y`; its key is from before both. Planning fails with
  `mismatched-identity`, at every attempt, for as long as the tombstone exists, that is, for ever.
- *Dropped edits* (`panel_dropped_edit`): `#stopOwner` leaves the published view in place while it
  awaits the draft's last save. When the session returns to the page meanwhile, the editor is on the
  screen with the content of the draft's load, and the stopping draft ignores what is typed. When the
  save ends, a fresh draft replaces the editor.
- *Kept credentials* (`sync_disconnect`): Disconnect has the worker drop its credentials and removes the
  connection several awaits later. A run that awaits its settings when the invalidation arrives asks for
  credentials after it, finds the connection still there, and caches them. The request is refused,
  as `FreshCredentials` and the binding require, but the secret stays in memory until the worker is
  suspended: later runs end as disconnected and clear nothing.
- Not a run: the same with two options pages. docs/ARCHITECTURE.md:17 says that lifecycle generations make
  disconnect final; a generation belongs to one page's coordinator, and a connect under way in another
  page stores its connection after the disconnect.
- Not a run: a save whose message joins a run that has already listed the queue for its retry alarm
  (`background/byosSyncRuntime.ts:353`) has no alarm of its own and waits for the periodic one. `SavedIsSynced`
  shows that it is then synchronized.
- Not a run: README.md:102 says that navigating flushes a pending save before the editor switches. A stale navigation's
  flush sets `currentDocumentFlushed` (`activePageSession.ts:682`); after further edits the next navigation
  to another page skips the flush, and the draft's stop saves them instead. `NothingLost`
  and `EditIsSaved` show that they are saved or the failure is shown.
- Not a run: MIGRATION_STRATEGY.md:9 says that a migration enqueues all changed keys for replication.
  The code enqueues none; the full comparison of the next synchronization uploads them.
- Not a run: README.md:109 says "Synced to BYOS" comes "after the queued revision has been reconciled", and
  docs/ARCHITECTURE.md:29 that a claim advances "only after observing that save's pending revision disappear or a
  strictly newer successful-sync watermark". The evidence begins with the save phase, before the save has a
  revision, and takes what it hears for that save's. Revision A waits and a run has listed it when the user types
  B. The run retires A and records its success, the view loads that, and the trust is set while
  the panel still says "Saving" (`App.tsx:450`). B is stored and queued, and `completeLocalSave` (`App.tsx:503`) shows
  the trust it finds: "Synced to BYOS" of B, which waits and was never sent. Or A's own event has not arrived
  when B's phase begins: A then is the observed revision, and its leaving the queue earns the claim with no success
  at all, against the second document too. `ClaimIsEarned` allows both, as the progress is newer than what the screen
  showed, and `panel_status` reaches both. What ends the claim is B's event: once it has
  been delivered and loaded the panel says that B waits (`SettledViewIsTrue`). If queueing B fails, which the
  panel does not hear of, no event comes, and the claim stands until a run compares the replicas.

- Not a disagreement, but worth knowing: a token that expires changes nothing in storage, so a status on the
  screen keeps saying "Synced to BYOS" until something is written (`hasExpired` is asked when a state is
  published). `Ready` has this, and `SettledViewIsTrue` is therefore about what is stored.

## 6. Not modelled

- `PageNoteEditor.tsx` and the rest of the rendering: an editor around a third-party block editor whose
  state is not in this repository. What it hands to the draft is `Edit`.
- The origin indexes of the note repository: they are written with the note in one storage call under one
  lock. Two-step deletion is used by no component.
- Paging, signing and parsing of S3 and of OAuth; validation and normalization of records and URLs.
- Two options pages at once (`services/byosOAuth.ts:453`): `ByosConnection` has any number of pages, the run
  has one.
- Build and release scripts: no state at run time.

## 7. Plan

Done: `SyncEngine` with `SyncedNotes`, `IdentityMigration`, `PanelSession`, `SyncRuntime`, `PanelViews`.
What could follow: measures like that of `RunsAdvance` for the migration's executors, the runtime's runs and the
draft's saves; two options pages that connect and disconnect at the same time, with the property that
a disconnect is final; the note repository's indexes; `PanelSession` and `PanelViews` composed, so that the
panel's save phases are the draft's own.
