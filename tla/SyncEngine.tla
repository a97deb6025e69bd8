------------------------------ MODULE SyncEngine ------------------------------
(***************************************************************************)
(* Synchronization of page notes between devices and one S3 bucket:        *)
(* src/src/sync/syncEngine.ts run by the service worker of each device,    *)
(* against the saves its side panels make (src/src/services/note.ts with   *)
(* the observer of src/src/side-panel/localMutationSync.ts) and against    *)
(* the other devices.                                                      *)
(*                                                                         *)
(* One action is one storage or network operation: each repository call is *)
(* a critical section under the storage Web Lock, and everything else may  *)
(* happen between two of them.  What the engine computes between two       *)
(* awaits belongs to the action of the operation that follows.             *)
(*                                                                         *)
(* Left out: note texts, validation of stored and remote data, credentials *)
(* and connection state, the identity migration.                           *)
(***************************************************************************)
EXTENDS SyncQueue

CONSTANTS
  Device,     \* one browser profile each: a service worker and its storage
  Panel,      \* open side panels, one per browser window
  DeviceOf,   \* the profile a side panel belongs to
  Synchronized, \* what an earlier synchronization left: notes and bucket
  MaxFaults   \* bound: failed operations and terminations in a behaviour

ASSUME DeviceAssumption == Device # {}
ASSUME DeviceOfAssumption == DeviceOf \in [Panel -> Device]
(* The same versions everywhere.  The content of an object in the user's   *)
(* bucket may differ: it may have been rewritten outside PagePerch.        *)
ASSUME SynchronizedAssumption ==
  /\ Synchronized \subseteq [local : [Page -> Slot], remote : [Page -> Slot]]
  /\ \A s \in Synchronized : \A p \in Page :
       \/ s.local[p] = Absent /\ s.remote[p] = Absent
       \/ /\ s.local[p] # Absent /\ s.remote[p] # Absent
          /\ SameVersion(s.local[p], s.remote[p])
ASSUME MaxFaultsAssumption == MaxFaults \in Nat

VARIABLES
  remote,   \* the bucket: the record under each page key
  local,    \* the notes of each device
  queue,    \* the sync queue of each device
  clock,    \* what Date shows on each device
  save,     \* the save each side panel has in progress on each page
  run,      \* the engine run of each device
  outcome,  \* how the last run of each device ended, "none" while one is under way
  used,     \* history: revision identifiers generated so far
  published,\* history: the greatest version the bucket has held, per page
  newest,   \* history: the greatest version ever stored, per page
  skewed,   \* history: a save was not newer than the record it replaced
  quiet,    \* history: nothing was saved around the device's last run
  faults    \* failures so far

vars == <<remote, local, queue, clock, save, run, outcome, used, published,
          newest, skewed, quiet, faults>>

history == <<used, published, newest, skewed, quiet>>

-----------------------------------------------------------------------------
(* The local variables of #run: the clock reading, the three listings, the *)
(* pages still to visit, and what the summary counts.  unread holds the    *)
(* listed object keys whose GET is outstanding.                            *)
Source == {"local", "remote", "queue"}

PC == {"idle", "listing", "page", "put", "retire", "record", "complete",
       "completeOther", "failing", "recordingFailure"}

EmptyPages == [p \in Page |-> Absent]

IdleRun ==
  [pc |-> "idle", now |-> 0, listed |-> {}, unread |-> {}, local |-> EmptyPages,
   remote |-> EmptyPages, queue |-> EmptyPages, todo |-> {},
   issues |-> FALSE, deferred |-> FALSE]

Run == [pc : PC, now : Instant, listed : SUBSET Source, unread : SUBSET Page,
        local : [Page -> Slot], remote : [Page -> Slot],
        queue : [Page -> QueueSlot], todo : SUBSET Page,
        issues : BOOLEAN, deferred : BOOLEAN]

NoSave == [stage |-> "none"]

Save == {NoSave} \cup [stage : {"put", "observe"}, record : Record]

Outcome == {"none", "synced", "pending", "partial", "failed"}

Least(S) == CHOOSE p \in S : \A q \in S : p <= q

(* The page the loop of #run is at. *)
Current(d) == Least(run[d].todo)

Local(d)  == run[d].local[Current(d)]
Remote(d) == run[d].remote[Current(d)]
Queued(d) == run[d].queue[Current(d)]

(* Mutant of Verdict: the bucket wins whenever it holds another record. *)
VerdictBucketFirst(l, r) ==
  CASE l = Absent /\ r = Absent -> "orphan"
    [] l # Absent /\ r = Absent -> "local-wins"
    [] r # Absent /\ l = r -> "equal"
    [] r # Absent /\ l # r -> "remote-wins"

(* Mutant of Verdict: the note is uploaded unless the bucket's wins.       *)
VerdictLocalUnlessNewer(l, r) ==
  CASE l = Absent /\ r = Absent -> "orphan"
    [] r # Absent /\ (l = Absent \/ Newer(r, l)) -> "remote-wins"
    [] l # Absent /\ (r = Absent \/ ~Newer(r, l)) -> "local-wins"

(* What the listings say about a page. *)
Verdict(l, r) ==
  CASE l = Absent /\ r = Absent -> "orphan"
    [] l = Absent /\ r # Absent -> "remote-wins"
    [] l # Absent /\ r = Absent -> "local-wins"
    [] l # Absent /\ r # Absent -> compareReplicaRecords(l, r)

At(d, pc) == run[d].pc = pc

Visiting(d, verdict) ==
  /\ At(d, "page") /\ run[d].todo # {}
  /\ Verdict(Local(d), Remote(d)) = verdict

Goto(d, pc) == run' = [run EXCEPT ![d].pc = pc]

(* continue: on to the next page, perhaps with an issue or a deferral.     *)
NextPage(d, issue, deferral) ==
  run' = [run EXCEPT ![d].pc = "page",
                     ![d].todo = @ \ {Current(d)},
                     ![d].issues = @ \/ issue,
                     ![d].deferred = @ \/ deferral]

EndRun(d, result) ==
  /\ run' = [run EXCEPT ![d] = IdleRun]
  /\ outcome' = [outcome EXCEPT ![d] = result]

Fault == faults < MaxFaults /\ faults' = faults + 1

-----------------------------------------------------------------------------
Revisions(slots) == {slots[p].revisionId : p \in {q \in Page : slots[q] # Absent}}

Init ==
  \E s \in Synchronized :
    /\ remote = s.remote
    /\ local = [d \in Device |-> s.local]
    /\ queue = [d \in Device |-> EmptyPages]
    /\ clock = [d \in Device |-> 0]
    /\ save = [w \in Panel |-> [p \in Page |-> NoSave]]
    /\ run = [d \in Device |-> IdleRun]
    /\ outcome = [d \in Device |-> "none"]
    /\ used = Revisions(s.remote)
    /\ published = s.remote
    /\ newest = s.remote
    /\ skewed = FALSE
    /\ quiet = [d \in Device |-> FALSE]
    /\ faults = 0

Tick(d) ==
  /\ clock[d] < MaxClock
  /\ clock' = [clock EXCEPT ![d] = @ + 1]
  /\ UNCHANGED <<remote, local, queue, save, run, outcome, history, faults>>

-----------------------------------------------------------------------------
(* Saves.  A panel's mutations of one page are chained.  Reading the note, *)
(* writing it and queueing its revision are three critical sections; the   *)
(* version is stamped after the first.                                     *)

(* Mutant of BeginSave: an existing note keeps its revision identifier.    *)
BeginSaveInPlace(w, p) ==
  LET existing == local[DeviceOf[w]][p] IN
  /\ save[w][p] = NoSave
  /\ \E r \in Revision, c \in Content :
       /\ IF existing = Absent THEN r \notin used /\ c # Cleared
                               ELSE r = existing.revisionId /\ c # existing.content
       /\ save' = [save EXCEPT ![w][p] =
            [stage |-> "put",
             record |-> [savedAt |-> clock[DeviceOf[w]], revisionId |-> r,
                         content |-> c]]]
       /\ used' = used \cup {r}
  /\ UNCHANGED <<remote, local, queue, clock, run, outcome, published, newest,
                 skewed, quiet, faults>>

(* #saveValidated, up to the repository.put, on the path that writes: the  *)
(* other paths (nothing to clear, cleared already, unchanged) end here.    *)
BeginSave(w, p) ==
  LET existing == local[DeviceOf[w]][p] IN
  /\ save[w][p] = NoSave
  /\ \E r \in Revision \ used, c \in Content :
       /\ IF existing = Absent THEN c # Cleared ELSE c # existing.content
       /\ save' = [save EXCEPT ![w][p] =
            [stage |-> "put",
             record |-> [savedAt |-> clock[DeviceOf[w]], revisionId |-> r,
                         content |-> c]]]
       /\ used' = used \cup {r}
  /\ UNCHANGED <<remote, local, queue, clock, run, outcome, published, newest,
                 skewed, quiet, faults>>

(* The unconditional repository.put. *)
PutNote(w, p) ==
  LET d == DeviceOf[w]
      record == save[w][p].record IN
  /\ save[w][p].stage = "put"
  /\ local' = [local EXCEPT ![d][p] = record]
  /\ save' = [save EXCEPT ![w][p].stage = "observe"]
  /\ newest' = [newest EXCEPT ![p] = IF AtLeast(@, record) THEN @ ELSE record]
  /\ skewed' = (skewed \/ AtLeast(local[d][p], record))
  /\ quiet' = [quiet EXCEPT ![d] = FALSE]
  /\ UNCHANGED <<remote, queue, clock, run, outcome, used, published, faults>>

(* The observer of a connected device.  Its message to the worker is one   *)
(* more reason for StartRun, which needs none.                             *)
Observe(w, p) ==
  LET d == DeviceOf[w] IN
  /\ save[w][p].stage = "observe"
  /\ queue' = [queue EXCEPT ![d][p] =
                 Enqueued(@, save[w][p].record.revisionId, clock[d])]
  /\ save' = [save EXCEPT ![w][p] = NoSave]
  /\ UNCHANGED <<remote, local, clock, run, outcome, history, faults>>

(* The put fails, the observer fails (its error is swallowed), or the      *)
(* panel is closed before the next operation.                              *)
SaveInterrupted(w, p) ==
  /\ Fault
  /\ save[w][p] # NoSave
  /\ save' = [save EXCEPT ![w][p] = NoSave]
  /\ UNCHANGED <<remote, local, queue, clock, run, outcome, history>>

-----------------------------------------------------------------------------
(* A run: preparation, the clock, and three listings side by side.  The    *)
(* local and the queue listing share the worker's operation chain, so they *)
(* happen in that order.                                                   *)

StartRun(d) ==
  /\ At(d, "idle")
  /\ run' = [run EXCEPT ![d] = [IdleRun EXCEPT !.pc = "listing", !.now = clock[d]]]
  /\ outcome' = [outcome EXCEPT ![d] = "none"]
  /\ quiet' = [quiet EXCEPT ![d] = TRUE]
  /\ UNCHANGED <<remote, local, queue, clock, save, used, published, newest,
                 skewed, faults>>

ListLocal(d) ==
  /\ At(d, "listing") /\ "local" \notin run[d].listed
  /\ run' = [run EXCEPT ![d].local = local[d], ![d].listed = @ \cup {"local"}]
  /\ UNCHANGED <<remote, local, queue, clock, save, outcome, history, faults>>

ListQueue(d) ==
  /\ At(d, "listing") /\ "local" \in run[d].listed /\ "queue" \notin run[d].listed
  /\ run' = [run EXCEPT ![d].queue = queue[d], ![d].listed = @ \cup {"queue"}]
  /\ UNCHANGED <<remote, local, queue, clock, save, outcome, history, faults>>

(* The bucket: one ListObjects for the keys, then one GET per key. *)
ListRemoteKeys(d) ==
  /\ At(d, "listing") /\ "remote" \notin run[d].listed
  /\ run' = [run EXCEPT ![d].unread = {p \in Page : remote[p] # Absent},
                        ![d].listed = @ \cup {"remote"}]
  /\ UNCHANGED <<remote, local, queue, clock, save, outcome, history, faults>>

GetRemote(d) ==
  LET p == Least(run[d].unread) IN
  /\ At(d, "listing") /\ run[d].unread # {}
  /\ run' = [run EXCEPT ![d].remote[p] = remote[p], ![d].unread = @ \ {p}]
  /\ UNCHANGED <<remote, local, queue, clock, save, outcome, history, faults>>

(* The union of the page keys of the three listings. *)
MergeListings(d) ==
  /\ At(d, "listing") /\ run[d].listed = Source /\ run[d].unread = {}
  /\ run' = [run EXCEPT ![d].pc = "page",
        ![d].todo = {p \in Page : \/ run[d].local[p] # Absent
                                  \/ run[d].remote[p] # Absent
                                  \/ run[d].queue[p] # Absent}]
  /\ UNCHANGED <<remote, local, queue, clock, save, outcome, history, faults>>

-----------------------------------------------------------------------------
(* The loop over the pages. *)

(* Mutant of ReportConflict: no issue for the summary. *)
ReportConflictSilently(d) ==
  /\ Visiting(d, "integrity-conflict")
  /\ NextPage(d, FALSE, FALSE)
  /\ UNCHANGED <<remote, local, queue, clock, save, outcome, history, faults>>

(* The same version with different content on both sides: left alone. *)
ReportConflict(d) ==
  /\ Visiting(d, "integrity-conflict")
  /\ NextPage(d, TRUE, FALSE)
  /\ UNCHANGED <<remote, local, queue, clock, save, outcome, history, faults>>

(* Mutant of Deferred: an entry of this revision never waits. *)
DeferredNever(d) == Queued(d) = Absent /\ Local(d) = Absent

(* #upload: the entry listed for this very revision is not due yet. *)
Deferred(d) ==
  /\ Queued(d) # Absent
  /\ Queued(d).revisionId = Local(d).revisionId
  /\ Queued(d).nextAttemptAt > run[d].now

(* Mutant of Defer: a page that waits is an issue.                         *)
DeferAsIssue(d) ==
  /\ Visiting(d, "local-wins") /\ Deferred(d)
  /\ NextPage(d, TRUE, FALSE)
  /\ UNCHANGED <<remote, local, queue, clock, save, outcome, history, faults>>

Defer(d) ==
  /\ Visiting(d, "local-wins") /\ Deferred(d)
  /\ NextPage(d, FALSE, TRUE)
  /\ UNCHANGED <<remote, local, queue, clock, save, outcome, history, faults>>

(* #upload: the note must still be the listed record. *)
RecheckLocal(d) ==
  /\ Visiting(d, "local-wins") /\ ~Deferred(d)
  /\ IF local[d][Current(d)] = Local(d)
     THEN Goto(d, "put")
     ELSE NextPage(d, TRUE, FALSE)
  /\ UNCHANGED <<remote, local, queue, clock, save, outcome, history, faults>>

(* PutObject has no condition: the object is replaced whatever it holds. *)
WriteRemote(d) ==
  LET p == Current(d) IN
  /\ remote' = [remote EXCEPT ![p] = Local(d)]
  /\ published' = [published EXCEPT ![p] = IF AtLeast(@, Local(d)) THEN @ ELSE Local(d)]
  /\ quiet' = [e \in Device |-> quiet[e] /\ e = d]

Upload(d) ==
  /\ At(d, "put")
  /\ WriteRemote(d)
  /\ Goto(d, "complete")
  /\ UNCHANGED <<local, queue, clock, save, outcome, used, newest, skewed, faults>>

(* Mutant of UploadFails: a failed request counts as an upload. *)
UploadFailsUnnoticed(d) ==
  /\ Fault
  /\ At(d, "put")
  /\ Goto(d, "complete")
  /\ UNCHANGED <<remote, local, queue, clock, save, outcome, history>>

(* The request fails, or only its answer is lost.  #recordUploadFailure    *)
(* first retires the listed entry when it is for another revision.         *)
UploadFails(d) ==
  /\ Fault
  /\ At(d, "put")
  /\ WriteRemote(d) \/ UNCHANGED <<remote, published, quiet>>
  /\ Goto(d, IF Queued(d) # Absent /\ Queued(d).revisionId # Local(d).revisionId
             THEN "retire" ELSE "record")
  /\ UNCHANGED <<local, queue, clock, save, outcome, used, newest, skewed>>

RetireStaleIntent(d) ==
  LET p == Current(d) IN
  /\ At(d, "retire")
  /\ queue' = [queue EXCEPT ![d][p] = Completed(@, Queued(d).revisionId)]
  /\ Goto(d, "record")
  /\ UNCHANGED <<remote, local, clock, save, outcome, history, faults>>

RecordFailure(d) ==
  LET p == Current(d) IN
  /\ At(d, "record")
  /\ \E delay \in RetryDelays(NextAttempt(queue[d][p])) :
       queue' = [queue EXCEPT ![d][p] =
                   Failed(@, Local(d).revisionId, clock[d], delay)]
  /\ NextPage(d, TRUE, FALSE)
  /\ UNCHANGED <<remote, local, clock, save, outcome, history, faults>>

(* Mutant of Download: an unconditional put. *)
DownloadBlindly(d) ==
  /\ Visiting(d, "remote-wins")
  /\ local' = [local EXCEPT ![d][Current(d)] = Remote(d)]
  /\ Goto(d, "complete")
  /\ UNCHANGED <<remote, queue, clock, save, outcome, history, faults>>

(* #download: putIfCurrent, one critical section. *)
Download(d) ==
  LET p == Current(d) IN
  /\ Visiting(d, "remote-wins")
  /\ IF local[d][p] = Local(d)
     THEN /\ local' = [local EXCEPT ![d][p] = Remote(d)]
          /\ Goto(d, "complete")
     ELSE /\ NextPage(d, TRUE, FALSE)
          /\ UNCHANGED local
  /\ UNCHANGED <<remote, queue, clock, save, outcome, history, faults>>

(* #completeQueue: the synchronized revision, then the listed one if it is *)
(* another.  Equal and orphaned pages come here without looking at the     *)
(* note or the queue again.                                                *)
SyncedRevision(d) ==
  CASE Verdict(Local(d), Remote(d)) = "orphan"      -> Queued(d).revisionId
    [] Verdict(Local(d), Remote(d)) = "remote-wins" -> Remote(d).revisionId
    [] OTHER                                        -> Local(d).revisionId

Completing(d) ==
  At(d, "complete") \/ Visiting(d, "orphan") \/ Visiting(d, "equal")

CompleteSynced(d) ==
  LET p == Current(d) IN
  /\ Completing(d)
  /\ queue' = [queue EXCEPT ![d][p] = Completed(@, SyncedRevision(d))]
  /\ IF Queued(d) # Absent /\ Queued(d).revisionId # SyncedRevision(d)
     THEN Goto(d, "completeOther")
     ELSE NextPage(d, FALSE, FALSE)
  /\ UNCHANGED <<remote, local, clock, save, outcome, history, faults>>

CompleteListed(d) ==
  LET p == Current(d) IN
  /\ At(d, "completeOther")
  /\ queue' = [queue EXCEPT ![d][p] = Completed(@, Queued(d).revisionId)]
  /\ NextPage(d, FALSE, FALSE)
  /\ UNCHANGED <<remote, local, clock, save, outcome, history, faults>>

(* A storage operation of the page fails: an issue, and on to the next. *)
StorageFails(d) ==
  /\ Fault
  /\ \/ Visiting(d, "local-wins") /\ ~Deferred(d)
     \/ Visiting(d, "remote-wins")
     \/ Completing(d)
     \/ run[d].pc \in {"completeOther", "retire", "record"}
  /\ NextPage(d, TRUE, FALSE)
  /\ UNCHANGED <<remote, local, queue, clock, save, outcome, history>>

(* Mutant of Finish: the entries that are left are not counted. *)
FinishUncounted(d) ==
  /\ At(d, "page") /\ run[d].todo = {}
  /\ EndRun(d, IF run[d].issues THEN "partial"
               ELSE IF run[d].deferred THEN "pending" ELSE "synced")
  /\ UNCHANGED <<remote, local, queue, clock, save, history, faults>>

(* queue.count and the status of the summary. *)
Finish(d) ==
  /\ At(d, "page") /\ run[d].todo = {}
  /\ EndRun(d, IF run[d].issues THEN "partial"
               ELSE IF run[d].deferred \/ \E p \in Page : queue[d][p] # Absent
               THEN "pending" ELSE "synced")
  /\ UNCHANGED <<remote, local, queue, clock, save, history, faults>>

-----------------------------------------------------------------------------
(* Preparation, a listing or the final count fails: the run is over, and   *)
(* the runtime (#handleGlobalFailure) advances the schedule of every due   *)
(* entry, one critical section each.                                       *)
RunFails(d) ==
  /\ Fault
  /\ At(d, "idle") \/ At(d, "listing") \/ (At(d, "page") /\ run[d].todo = {})
  /\ run' = [run EXCEPT ![d] = [IdleRun EXCEPT !.pc = "failing"]]
  /\ outcome' = [outcome EXCEPT ![d] = "none"]
  /\ UNCHANGED <<remote, local, queue, clock, save, history>>

ListDue(d) ==
  /\ At(d, "failing")
  /\ run' = [run EXCEPT ![d].pc = "recordingFailure", ![d].queue = queue[d],
                        ![d].todo = {p \in Page : Due(queue[d][p], clock[d])}]
  /\ UNCHANGED <<remote, local, queue, clock, save, outcome, history, faults>>

FailDueEntry(d) ==
  LET p == Current(d) IN
  /\ At(d, "recordingFailure") /\ run[d].todo # {}
  /\ \E delay \in RetryDelays(NextAttempt(queue[d][p])) :
       queue' = [queue EXCEPT ![d][p] =
                   Failed(@, Queued(d).revisionId, clock[d], delay)]
  /\ run' = [run EXCEPT ![d].todo = @ \ {p}]
  /\ UNCHANGED <<remote, local, clock, save, outcome, history, faults>>

(* Storage fails there too: without the list there is nothing to advance,  *)
(* and an entry that cannot be written keeps its schedule.                 *)
FailureNotRecorded(d) ==
  /\ Fault
  /\ \/ At(d, "failing") /\ EndRun(d, "failed")
     \/ /\ At(d, "recordingFailure") /\ run[d].todo # {}
        /\ run' = [run EXCEPT ![d].todo = @ \ {Current(d)}]
        /\ UNCHANGED outcome
  /\ UNCHANGED <<remote, local, queue, clock, save, history>>

EndFailedRun(d) ==
  /\ At(d, "recordingFailure") /\ run[d].todo = {}
  /\ EndRun(d, "failed")
  /\ UNCHANGED <<remote, local, queue, clock, save, history, faults>>

(* Chrome may end the worker at any await; nothing of the run survives. *)
WorkerTerminated(d) ==
  /\ Fault
  /\ ~At(d, "idle")
  /\ run' = [run EXCEPT ![d] = IdleRun]
  /\ UNCHANGED <<remote, local, queue, clock, save, outcome, history>>

-----------------------------------------------------------------------------
EngineStep(d) ==
  \/ StartRun(d) \/ ListLocal(d) \/ ListQueue(d) \/ ListRemoteKeys(d)
  \/ GetRemote(d) \/ MergeListings(d)
  \/ ReportConflict(d) \/ Defer(d) \/ RecheckLocal(d) \/ Upload(d)
  \/ RetireStaleIntent(d) \/ RecordFailure(d) \/ Download(d)
  \/ CompleteSynced(d) \/ CompleteListed(d) \/ Finish(d)
  \/ ListDue(d) \/ FailDueEntry(d) \/ EndFailedRun(d)

EngineFault(d) ==
  \/ UploadFails(d) \/ StorageFails(d) \/ RunFails(d)
  \/ FailureNotRecorded(d) \/ WorkerTerminated(d)

PanelStep(w, p) == PutNote(w, p) \/ Observe(w, p)

Next ==
  \/ \E d \in Device : Tick(d) \/ EngineStep(d) \/ EngineFault(d)
  \/ \E w \in Panel, p \in Page :
       BeginSave(w, p) \/ PanelStep(w, p) \/ SaveInterrupted(w, p)

(* Promise continuations run, the periodic alarm starts runs, and time     *)
(* passes.  Users need not save, and nothing need fail.                    *)
Fairness ==
  /\ \A d \in Device : WF_vars(EngineStep(d)) /\ WF_vars(Tick(d))
  /\ \A w \in Panel, p \in Page : WF_vars(PanelStep(w, p))

Spec == Init /\ [][Next]_vars

FairSpec == Spec /\ Fairness

-----------------------------------------------------------------------------
TypeOK ==
  /\ remote \in [Page -> Slot]
  /\ local \in [Device -> [Page -> Slot]]
  /\ queue \in [Device -> [Page -> QueueSlot]]
  /\ clock \in [Device -> Instant]
  /\ save \in [Panel -> [Page -> Save]]
  /\ run \in [Device -> Run]
  /\ \A d \in Device :
       run[d].pc \notin {"idle", "listing", "page", "failing", "recordingFailure"}
         => run[d].todo # {}
  /\ outcome \in [Device -> Outcome]
  /\ used \subseteq Revision
  /\ published \in [Page -> Slot]
  /\ newest \in [Page -> Slot]
  /\ skewed \in BOOLEAN
  /\ quiet \in [Device -> BOOLEAN]
  /\ faults \in 0..MaxFaults

(* As long as every save is stamped later than the record it replaces, the *)
(* greatest version of a page that was ever stored is still stored on some *)
(* device: no download, stale listing, failed request or worker            *)
(* termination discards it, although every upload overwrites blindly.      *)
NewestSurvives ==
  ~skewed => \A p \in Page : \/ newest[p] = Absent
                             \/ \E d \in Device : AtLeast(local[d][p], newest[p])

(* A run reported as synced, which lastSuccessfulSyncAt records for the    *)
(* user, means the device and the bucket agree on every page, unless       *)
(* something was saved here or uploaded elsewhere since the run started.   *)
SyncedMeansAgreed ==
  \A d \in Device :
    outcome[d] = "synced" /\ run[d].pc = "idle" /\ quiet[d] => local[d] = remote

(* No request is sent for a revision before its retry is due, whatever was *)
(* queued or failed since the listings.                                    *)
BackoffRespected ==
  \A d \in Device : At(d, "put") =>
    LET entry == queue[d][Current(d)] IN
    entry # Absent /\ entry.revisionId = Local(d).revisionId
      => Due(entry, clock[d])

(* While a revision stays queued its schedule only moves forward: a late   *)
(* enqueue of a revision whose upload already failed does not restart it.  *)
BackoffNeverRewound ==
  [][\A d \in Device, p \in Page :
       /\ queue[d][p] # Absent /\ queue'[d][p] # Absent
       /\ queue[d][p].revisionId = queue'[d][p].revisionId
       => /\ queue[d][p].attemptCount <= queue'[d][p].attemptCount
          /\ queue[d][p].nextAttemptAt <= queue'[d][p].nextAttemptAt]_vars

(* A run takes the intent of the record it listed out of the queue only    *)
(* when the bucket has held that version or one that wins over it.         *)
CompletionFollowsPublication ==
  [][\A d \in Device, p \in Page :
       LET listed == run[d].local[p] IN
       /\ queue[d][p] # Absent /\ queue'[d][p] = Absent
       /\ listed # Absent /\ listed.revisionId = queue[d][p].revisionId
       => AtLeast(published[p], listed)]_vars

(* Synchronization changes a note only to a version that wins over the one *)
(* it replaces, whatever was saved while the run was under way.            *)
SyncNeverRegressesLocal ==
  [][\A d \in Device, p \in Page :
       local'[d][p] # local[d][p] /\ save' = save
         => local[d][p] = Absent \/ Newer(local'[d][p], local[d][p])]_vars

(* Every copy of a page's note: stored, listed by a run, or about to be    *)
(* stored by a side panel.                                                 *)
Copies(p) ==
  LET stored == {remote[p]} \cup {local[d][p] : d \in Device}
      listed == {run[d].local[p] : d \in Device} \cup {run[d].remote[p] : d \in Device}
      saving == {save[w][p].record : w \in {v \in Panel : save[v][p] # NoSave}}
  IN  (stored \cup listed \cup saving) \ {Absent}

Conflicting(p) ==
  \E a \in Copies(p), b \in Copies(p) : SameVersion(a, b) /\ a # b

(* An integrity conflict, one version with two contents, is never of       *)
(* PagePerch's own making: unless copies of the page differ already (an    *)
(* object was rewritten outside PagePerch), no saves of any panels in the  *)
(* same millisecond, stale listings, repeated uploads or failures bring    *)
(* two such copies about.                                                  *)
NoNewConflict ==
  [][\A p \in Page : ~ Conflicting(p) => ~ Conflicting(p)']_vars

(* What a run has listed is what is stored.                                *)
ListingAccurate(d) ==
  /\ "local" \in run[d].listed => run[d].local = local[d]
  /\ "remote" \notin run[d].listed => run[d].unread = {} /\ run[d].remote = EmptyPages
  /\ "remote" \in run[d].listed =>
       \A p \in Page \ run[d].unread : run[d].remote[p] = remote[p]

(* A run, if there is one, remembers no other notes, and no queue entry.   *)
UpToDate(d) ==
  /\ run[d].pc \in {"idle", "listing", "page", "failing", "recordingFailure"}
  /\ ListingAccurate(d) /\ run[d].queue = EmptyPages
  /\ run[d].pc = "page" => run[d].listed = Source /\ run[d].unread = {}
  /\ run[d].pc = "recordingFailure" => run[d].todo = {}

(* Devices and bucket agree, and nothing is queued or being saved.         *)
AllAgree ==
  /\ \A d \in Device : local[d] = remote /\ queue[d] = EmptyPages /\ UpToDate(d)
  /\ \A w \in Panel, p \in Page : save[w][p] = NoSave

(* Agreement lasts: runs of any devices over replicas that agree, however  *)
(* they overlap, fail or are terminated, write no note, no object and no   *)
(* queue entry.  Only a save ends it.                                      *)
AgreementLasts == [][AllAgree /\ save' = save => AllAgree']_vars

InConflict(d, p) == Verdict(local[d][p], remote[p]) = "integrity-conflict"

(* The counterpart of SyncedMeansAgreed: a run that nothing disturbed - no *)
(* failure, nothing saved here, nothing uploaded elsewhere since it began  *)
(* - does all there is to do and raises no false alarm.  Every page agrees *)
(* with the bucket, is in conflict with it or still has its queue entry;   *)
(* "partial" is reported only of a conflict and "pending" only of entries. *)
UndisturbedRunSettles ==
  \A d \in Device :
    faults = 0 /\ quiet[d] /\ At(d, "idle") /\ outcome[d] # "none" =>
      /\ outcome[d] # "failed"
      /\ outcome[d] = "partial" => \E p \in Page : InConflict(d, p)
      /\ outcome[d] = "pending" => \E p \in Page : queue[d][p] # Absent
      /\ \A p \in Page :
           \/ local[d][p] = remote[p]
           \/ InConflict(d, p) /\ outcome[d] = "partial"
           \/ queue[d][p] # Absent /\ outcome[d] # "synced"

(* DECISIONS.md: "stale completion cannot remove newer intent".  A note    *)
(* the bucket does not hold yet keeps its queue entry until its save has   *)
(* been queued and while no operation fails.                               *)
UnsyncedNoteIsQueued ==
  faults = 0 =>
    \A d \in Device, p \in Page :
      \/ AtLeast(remote[p], local[d][p])
      \/ queue[d][p] # Absent
      \/ \E w \in Panel : DeviceOf[w] = d /\ save[w][p] # NoSave

(* DECISIONS.md: "Stale devices cannot resurrect deleted notes".  A        *)
(* tombstone in the bucket gives way to a note only if the note wins.      *)
TombstoneNotResurrected ==
  [][\A p \in Page :
       /\ remote[p] # Absent /\ remote[p].content = Cleared
       /\ remote'[p] # Absent /\ remote'[p].content # Cleared
       => Newer(remote'[p], remote[p])]_vars

(* Once users stop saving and operations stop failing, every device and    *)
(* the bucket hold the same record of every page, the latest save unless   *)
(* some save was stamped too early, and no intent is left.                 *)
Convergence ==
  <>[](\A d \in Device :
         /\ local[d] = remote
         /\ queue[d] = EmptyPages
         /\ skewed \/ \A p \in Page : AtLeast(local[d][p], newest[p]))
-----------------------------------------------------------------------------
(* What the extension pages of a device see of it.                         *)
Surface(d) == INSTANCE SyncedNotes WITH
  Window  <- {w \in Panel : DeviceOf[w] = d},
  notes   <- local[d],
  waiting <- [p \in Page |-> IF queue[d][p] = Absent THEN Absent
                                                    ELSE queue[d][p].revisionId],
  saves   <- [w \in {v \in Panel : DeviceOf[v] = d} |-> save[w]],
  running <- ~At(d, "idle"),
  synced  <- outcome[d] = "synced"

(* Every device implements SyncedNotes: notes change only by its own saves *)
(* and by downloads that win, an entry appears only by a save or a failed  *)
(* upload and leaves only while a run is under way, and a run that leaves  *)
(* an entry does not report synced.                                        *)
ImplementsSyncedNotes ==
  /\ \A d \in Device : Surface(d)!NotesInit
  /\ [][\A d \in Device :
           UNCHANGED Surface(d)!surface \/ Surface(d)!NotesNext]_vars
=============================================================================
