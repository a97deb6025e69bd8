--------------------------- MODULE SyncBackoffProofs ---------------------------
(***************************************************************************)
(* The retry schedule of SyncEngine, for every value of its constants: no  *)
(* request goes out before its retry is due, and no schedule restarts.     *)
(***************************************************************************)
EXTENDS SyncEngineProofs

(* Since the listing, the entry of a page still to visit has not changed,  *)
(* has been completed, or has been replaced by one that is due.            *)
Settled(d, p) ==
  \/ queue[d][p] = Absent
  \/ queue[d][p] = run[d].queue[p]
  \/ Due(queue[d][p], clock[d])

Backoff(d) ==
  /\ run[d].now <= clock[d]
  /\ run[d].pc = "listing" /\ "queue" \in run[d].listed => \A p \in Page : Settled(d, p)
  /\ run[d].pc \in {"page", "put", "retire", "record", "complete", "completeOther"}
       => \A p \in run[d].todo : Settled(d, p)
  /\ run[d].pc \in {"put", "retire", "record"} => ~Deferred(d)
  /\ run[d].pc = "recordingFailure" =>
       \A p \in run[d].todo : Due(queue[d][p], clock[d])

BackoffInv == \A d \in Device : Backoff(d)

-----------------------------------------------------------------------------
(* The queue's operations and due entries. *)

LEMMA EnqueuedDue ==
  ASSUME NEW slot \in QueueSlot, NEW revision \in Revision, NEW now \in Instant
  PROVE  \/ Enqueued(slot, revision, now) = slot
         \/ Due(Enqueued(slot, revision, now), now)
<1>1. now <= now
  BY MaxClockAssumption DEF Instant
<1>2. [revisionId |-> revision, attemptCount |-> 0, nextAttemptAt |-> now] \in Entry
  BY MaxAttemptsAssumption DEF Entry
<1>. QED
  BY <1>1, <1>2, AbsentEntryAssumption DEF Enqueued, Due

(* An entry that is due stays due as time passes. *)
LEMMA DueLater ==
  ASSUME NEW slot \in QueueSlot, NEW now \in Instant, NEW later \in Instant,
         now <= later, Due(slot, now)
  PROVE  Due(slot, later)
<1>1. slot.nextAttemptAt \in Instant
  BY Entries DEF QueueSlot, Due
<1>. QED
  BY <1>1, MaxClockAssumption DEF Due, Instant

(* A due entry that fails is scheduled later than it was. *)
LEMMA FailedLater ==
  ASSUME NEW slot \in QueueSlot, NEW revision, NEW now \in Instant, NEW delay \in Nat,
         Due(slot, now)
  PROVE  LET failed == Failed(slot, revision, now, delay) IN
         failed.revisionId = slot.revisionId =>
           /\ slot.attemptCount <= failed.attemptCount
           /\ slot.nextAttemptAt <= failed.nextAttemptAt
<1>1. slot \in Entry /\ slot # Absent /\ slot.nextAttemptAt <= now
  BY DEF QueueSlot, Due
<1>2. slot.attemptCount \in 0..MaxAttempts
  BY <1>1, Entries
<1>3. slot.nextAttemptAt \in 0..MaxClock
  BY <1>1, Entries DEF Instant
<1>4. slot.attemptCount <= NextAttempt(slot)
  BY <1>1, <1>2, MaxAttemptsAssumption DEF NextAttempt, AtMost
<1>5. slot.nextAttemptAt <= AtMost(MaxClock, now + delay)
  BY <1>1, <1>3, MaxClockAssumption DEF AtMost, Instant
<1>6. CASE slot.revisionId # revision
  BY <1>1, <1>2, <1>3, <1>6, MaxClockAssumption, MaxAttemptsAssumption DEF Failed
<1>7. CASE slot.revisionId = revision
  <2>1. Failed(slot, revision, now, delay) =
          [revisionId |-> revision, attemptCount |-> NextAttempt(slot),
           nextAttemptAt |-> AtMost(MaxClock, now + delay)]
    BY <1>1, <1>7 DEF Failed
  <2>. QED
    BY <1>4, <1>5, <2>1
<1>. QED
  BY <1>6, <1>7

-----------------------------------------------------------------------------
(* How the updates of a run carry Backoff over. *)

LEMMA BackoffElsewhere ==
  ASSUME NEW d \in Device, Backoff(d), run'[d] = run[d], queue'[d] = queue[d],
         clock'[d] = clock[d]
  PROVE  Backoff(d)'
BY DEF Backoff, Settled, Due, Deferred, Queued, Local, Current

(* Moving within the page preserves Backoff. *)
LEMMA BackoffGoto ==
  ASSUME InvType, NEW d \in Device, NEW pc \in PC, Backoff(d), Goto(d, pc),
         clock' = clock,
         run[d].pc \in {"page", "put", "retire", "record", "complete", "completeOther"},
         pc \in {"put", "retire", "record", "complete", "completeOther"},
         pc \in {"put", "retire", "record"} => ~Deferred(d),
         \A q \in Page : queue'[d][q] = queue[d][q] \/ queue'[d][q] = Absent
  PROVE  Backoff(d)'
<1>1. run \in [Device -> Run] /\ run[d].todo \subseteq Page
  BY DEF InvType, TypeOK, Run
<1>2. /\ run'[d].pc = pc /\ run'[d].todo = run[d].todo
      /\ run'[d].now = run[d].now /\ run'[d].local = run[d].local
      /\ run'[d].queue = run[d].queue
  BY <1>1, GotoFields DEF SameListings
<1>3. Deferred(d)' = Deferred(d)
  BY <1>2 DEF Deferred, Queued, Local, Current
<1>4. \A q \in run[d].todo : Settled(d, q)'
  BY <1>1, <1>2 DEF Backoff, Settled, Due
<1>. QED
  BY <1>2, <1>3, <1>4 DEF Backoff

(* Moving on to the next page preserves Backoff. *)
LEMMA BackoffNextPage ==
  ASSUME InvType, NEW d \in Device, Backoff(d),
         NEW issue \in BOOLEAN, NEW deferral \in BOOLEAN, NextPage(d, issue, deferral),
         clock' = clock,
         run[d].pc \in {"page", "put", "retire", "record", "complete", "completeOther"},
         \A q \in Page \ {Current(d)} : queue'[d][q] = queue[d][q]
  PROVE  Backoff(d)'
<1>1. run \in [Device -> Run] /\ run[d].todo \subseteq Page
  BY DEF InvType, TypeOK, Run
<1>2. /\ run'[d].pc = "page" /\ run'[d].todo = run[d].todo \ {Current(d)}
      /\ run'[d].now = run[d].now /\ run'[d].queue = run[d].queue
  <2>1. SameListings(d) /\ run'[d].pc = "page" /\ run'[d].todo = run[d].todo \ {Current(d)}
    BY <1>1, NextPageFields, Zenon
  <2>. QED
    BY <2>1 DEF SameListings
<1>3. \A q \in run[d].todo \ {Current(d)} : Settled(d, q)'
  BY <1>1, <1>2 DEF Backoff, Settled, Due
<1>. QED
  BY <1>2, <1>3 DEF Backoff

(* Backoff says nothing of a run outside the loop. *)
LEMMA BackoffNowhere ==
  ASSUME InvType, NEW d \in Device, run'[d].now = 0, clock' = clock,
         run'[d].pc \in {"idle", "failing"}
  PROVE  Backoff(d)'
<1>1. 0 <= clock[d]
  BY MaxClockAssumption DEF InvType, TypeOK, Instant
<1>. QED
  BY <1>1 DEF Backoff

-----------------------------------------------------------------------------
(* Initially no run is in the loop. *)
LEMMA BackoffInit == Init => BackoffInv
<1>. SUFFICES ASSUME Init, NEW d \in Device PROVE Backoff(d)
  BY DEF BackoffInv
<1>1. run[d] = IdleRun /\ clock[d] = 0
  BY DEF Init
<1>. QED
  BY <1>1 DEF Backoff, IdleRun

(* The listings establish Backoff from what they read. *)
LEMMA BackoffListing ==
  ASSUME InvType, NEW d \in Device, Backoff(d),
         \/ StartRun(d) \/ ListLocal(d) \/ ListQueue(d) \/ ListRemoteKeys(d)
         \/ GetRemote(d) \/ MergeListings(d)
  PROVE  Backoff(d)'
<1>1. run \in [Device -> Run] /\ run[d] \in Run /\ clock[d] \in Instant
  BY DEF InvType, TypeOK
<1>2. CASE StartRun(d)
  <2>1. run'[d].pc = "listing" /\ run'[d].now = clock[d] /\ run'[d].listed = {}
    BY <1>1, <1>2, IdleRunType DEF StartRun, IdleRun
  <2>2. clock[d] <= clock'[d]
    BY <1>1, <1>2, MaxClockAssumption DEF StartRun, Instant
  <2>. QED
    BY <2>1, <2>2 DEF Backoff
<1>3. CASE ListQueue(d)
  <2>1. run'[d].pc = "listing" /\ run'[d].now = run[d].now /\ run'[d].queue = queue[d]
    BY <1>1, <1>3 DEF ListQueue, At, Run
  <2>2. queue' = queue /\ clock' = clock
    BY <1>3 DEF ListQueue
  <2>. QED
    BY <2>1, <2>2 DEF Backoff, Settled
<1>4. CASE ListLocal(d) \/ ListRemoteKeys(d) \/ GetRemote(d)
  <2>1. /\ run[d].pc = "listing" /\ run'[d].pc = "listing" /\ run'[d].now = run[d].now
        /\ run'[d].queue = run[d].queue
    BY <1>1, <1>4 DEF ListLocal, ListRemoteKeys, GetRemote, At, Run
  <2>2. "queue" \in run'[d].listed => "queue" \in run[d].listed
    BY <1>1, <1>4 DEF ListLocal, ListRemoteKeys, GetRemote, Run
  <2>3. queue' = queue /\ clock' = clock
    BY <1>4 DEF ListLocal, ListRemoteKeys, GetRemote
  <2>. QED
    BY <2>1, <2>2, <2>3 DEF Backoff, Settled, Due
<1>5. CASE MergeListings(d)
  <2>1. /\ run[d].pc = "listing" /\ "queue" \in run[d].listed
        /\ run'[d].pc = "page" /\ run'[d].now = run[d].now
        /\ run'[d].queue = run[d].queue /\ run'[d].todo \subseteq Page
    BY <1>1, <1>5 DEF MergeListings, At, Run, Source
  <2>2. queue' = queue /\ clock' = clock
    BY <1>5 DEF MergeListings
  <2>. QED
    BY <2>1, <2>2 DEF Backoff, Settled, Due
<1>. QED
  BY <1>2, <1>3, <1>4, <1>5

(* The loop over the pages preserves Backoff. *)
LEMMA BackoffLoop ==
  ASSUME InvType, NEW d \in Device, Backoff(d),
         \/ ReportConflict(d) \/ Defer(d) \/ RecheckLocal(d) \/ Upload(d)
         \/ RetireStaleIntent(d) \/ RecordFailure(d) \/ Download(d)
         \/ CompleteSynced(d) \/ CompleteListed(d)
         \/ UploadFails(d) \/ StorageFails(d)
  PROVE  Backoff(d)'
<1>1. run \in [Device -> Run] /\ queue \in [Device -> [Page -> QueueSlot]]
  BY DEF InvType, TypeOK
<1>2. ASSUME NEW issue \in BOOLEAN, NEW deferral \in BOOLEAN, NextPage(d, issue, deferral),
             clock' = clock,
             run[d].pc \in {"page", "put", "retire", "record", "complete", "completeOther"},
             \A q \in Page \ {Current(d)} : queue'[d][q] = queue[d][q]
      PROVE  Backoff(d)'
  BY <1>2, BackoffNextPage, Zenon
<1>3. CASE ReportConflict(d) \/ Defer(d)
  <2>1. run[d].pc = "page" /\ queue' = queue /\ clock' = clock
    BY <1>3 DEF ReportConflict, Defer, Visiting, At
  <2>2. \E issue, deferral \in BOOLEAN : NextPage(d, issue, deferral)
    BY <1>3, Zenon DEF ReportConflict, Defer
  <2>. QED
    BY <1>2, <2>1, <2>2
<1>4. CASE RecheckLocal(d)
  <2>1. run[d].pc = "page" /\ queue' = queue /\ clock' = clock /\ ~Deferred(d)
    BY <1>4 DEF RecheckLocal, Visiting, At
  <2>2. CASE Goto(d, "put")
    BY <2>1, <2>2, BackoffGoto DEF PC
  <2>3. CASE NextPage(d, TRUE, FALSE)
    BY <1>2, <2>1, <2>3
  <2>. QED
    BY <1>4, <2>2, <2>3 DEF RecheckLocal
<1>5. CASE Upload(d)
  <2>1. run[d].pc = "put" /\ queue' = queue /\ clock' = clock /\ Goto(d, "complete")
    BY <1>5 DEF Upload, At
  <2>. QED
    BY <2>1, BackoffGoto DEF PC
<1>6. CASE UploadFails(d)
  <2>1. run[d].pc = "put" /\ queue' = queue /\ clock' = clock
    BY <1>6 DEF UploadFails, At
  <2>2. PICK pc \in {"retire", "record"} : Goto(d, pc)
    BY <1>6 DEF UploadFails
  <2>3. ~Deferred(d)
    BY <2>1 DEF Backoff
  <2>. QED
    BY <2>1, <2>2, <2>3, BackoffGoto DEF PC
<1>7. CASE RetireStaleIntent(d)
  <2>1. run[d].pc = "retire" /\ clock' = clock /\ Goto(d, "record")
    BY <1>7 DEF RetireStaleIntent, At
  <2>2. \A q \in Page : queue'[d][q] = queue[d][q] \/ queue'[d][q] = Absent
    BY <1>1, <1>7 DEF RetireStaleIntent, Completed
  <2>3. ~Deferred(d)
    BY <2>1 DEF Backoff
  <2>. QED
    BY <2>1, <2>2, <2>3, BackoffGoto DEF PC
<1>8. CASE RecordFailure(d)
  <2>1. run[d].pc = "record" /\ clock' = clock
    BY <1>8 DEF RecordFailure, At
  <2>2. \A q \in Page \ {Current(d)} : queue'[d][q] = queue[d][q]
    BY <1>1, <1>8 DEF RecordFailure
  <2>3. NextPage(d, TRUE, FALSE)
    BY <1>8, Zenon DEF RecordFailure
  <2>. QED
    BY <1>2, <2>1, <2>2, <2>3
<1>9. CASE Download(d)
  <2>1. run[d].pc = "page" /\ queue' = queue /\ clock' = clock
    BY <1>9 DEF Download, Visiting, At
  <2>2. CASE Goto(d, "complete")
    BY <2>1, <2>2, BackoffGoto DEF PC
  <2>3. CASE NextPage(d, TRUE, FALSE)
    BY <1>2, <2>1, <2>3
  <2>. QED
    BY <1>9, <2>2, <2>3 DEF Download
<1>10. CASE CompleteSynced(d)
  <2>1. run[d].pc \in {"page", "complete"} /\ clock' = clock
    BY <1>10 DEF CompleteSynced, Completing, Visiting, At
  <2>2. \A q \in Page : queue'[d][q] = queue[d][q]
                         \/ (q = Current(d) /\ queue'[d][q] = Absent)
    BY <1>1, <1>10 DEF CompleteSynced, Completed
  <2>3. CASE Goto(d, "completeOther")
    BY <2>1, <2>2, <2>3, BackoffGoto DEF PC
  <2>4. CASE NextPage(d, FALSE, FALSE)
    BY <1>2, <2>1, <2>2, <2>4
  <2>. QED
    BY <1>10, <2>3, <2>4 DEF CompleteSynced
<1>11. CASE CompleteListed(d)
  <2>1. run[d].pc = "completeOther" /\ clock' = clock
    BY <1>11 DEF CompleteListed, At
  <2>2. \A q \in Page \ {Current(d)} : queue'[d][q] = queue[d][q]
    BY <1>1, <1>11 DEF CompleteListed
  <2>3. NextPage(d, FALSE, FALSE)
    BY <1>11, Zenon DEF CompleteListed
  <2>. QED
    BY <1>2, <2>1, <2>2, <2>3
<1>12. CASE StorageFails(d)
  <2>1. run[d].pc \in {"page", "complete", "completeOther", "retire", "record"}
        /\ queue' = queue /\ clock' = clock
    BY <1>12 DEF StorageFails, Completing, Visiting, At
  <2>2. NextPage(d, TRUE, FALSE)
    BY <1>12, Zenon DEF StorageFails
  <2>. QED
    BY <1>2, <2>1, <2>2
<1>. QED
  BY <1>3, <1>4, <1>5, <1>6, <1>7, <1>8, <1>9, <1>10, <1>11, <1>12

(* The end of a run, however it ends, preserves Backoff. *)
LEMMA BackoffEnd ==
  ASSUME InvType, NEW d \in Device, Backoff(d),
         \/ Finish(d) \/ RunFails(d) \/ ListDue(d) \/ FailDueEntry(d)
         \/ FailureNotRecorded(d) \/ EndFailedRun(d) \/ WorkerTerminated(d)
  PROVE  Backoff(d)'
<1>1. /\ run \in [Device -> Run] /\ run[d] \in Run
      /\ queue \in [Device -> [Page -> QueueSlot]]
  BY DEF InvType, TypeOK
<1>2. clock' = clock
  BY DEF Finish, RunFails, ListDue, FailDueEntry, FailureNotRecorded, EndFailedRun,
         WorkerTerminated, history
<1>3. CASE run' = [run EXCEPT ![d] = IdleRun]
           \/ run' = [run EXCEPT ![d] = [IdleRun EXCEPT !.pc = "failing"]]
  <2>1. run'[d].now = 0 /\ run'[d].pc \in {"idle", "failing"}
    BY <1>1, <1>3 DEF IdleRun
  <2>. QED
    BY <1>2, <2>1, BackoffNowhere
<1>4. CASE ListDue(d)
  <2>1. /\ run'[d].now = run[d].now /\ run'[d].pc = "recordingFailure"
        /\ run'[d].todo = {p \in Page : Due(queue[d][p], clock[d])}
    BY <1>1, <1>4 DEF ListDue, Run
  <2>2. queue' = queue
    BY <1>4 DEF ListDue
  <2>3. \A p \in run'[d].todo : Due(queue'[d][p], clock'[d])
    BY <1>2, <2>1, <2>2
  <2>. QED
    BY <1>2, <2>1, <2>3 DEF Backoff
<1>5. ASSUME run[d].pc = "recordingFailure", run[d].todo # {},
             run' = [run EXCEPT ![d].todo = @ \ {Current(d)}],
             \A q \in Page \ {Current(d)} : queue'[d][q] = queue[d][q]
      PROVE  Backoff(d)'
  <2>1. /\ run'[d].now = run[d].now /\ run'[d].pc = "recordingFailure"
        /\ run'[d].todo = run[d].todo \ {Current(d)} /\ run[d].todo \subseteq Page
    BY <1>1, <1>5 DEF Run
  <2>2. \A p \in run'[d].todo : Due(queue'[d][p], clock'[d])
    BY <1>2, <1>5, <2>1 DEF Backoff
  <2>. QED
    BY <1>2, <2>1, <2>2 DEF Backoff
<1>6. CASE FailDueEntry(d)
  <2>1. run[d].pc = "recordingFailure" /\ run[d].todo # {}
        /\ run' = [run EXCEPT ![d].todo = @ \ {Current(d)}]
    BY <1>6 DEF FailDueEntry, At
  <2>2. \A q \in Page \ {Current(d)} : queue'[d][q] = queue[d][q]
    BY <1>1, <1>6 DEF FailDueEntry
  <2>. QED
    BY <1>5, <2>1, <2>2
<1>7. CASE FailureNotRecorded(d) /\ At(d, "recordingFailure")
           /\ run' = [run EXCEPT ![d].todo = @ \ {Current(d)}]
  <2>1. queue' = queue /\ run[d].todo # {} /\ run[d].pc = "recordingFailure"
    BY <1>7 DEF FailureNotRecorded, At
  <2>. QED
    BY <1>5, <1>7, <2>1
<1>. QED
  BY <1>3, <1>4, <1>6, <1>7
     DEF Finish, RunFails, FailureNotRecorded, EndFailedRun, WorkerTerminated, EndRun

(* Saves queue due entries, and due entries stay due. *)
LEMMA BackoffPanel ==
  ASSUME InvType, NEW d \in Device, Backoff(d), NEW w \in Panel, NEW p \in Page,
         BeginSave(w, p) \/ PanelStep(w, p) \/ SaveInterrupted(w, p)
  PROVE  Backoff(d)'
<1>1. run' = run /\ clock' = clock
  BY DEF BeginSave, PanelStep, PutNote, Observe, SaveInterrupted, history
<1>2. CASE queue' = queue
  BY <1>1, <1>2, BackoffElsewhere
<1>3. CASE Observe(w, p)
  <2>1. /\ queue \in [Device -> [Page -> QueueSlot]] /\ clock[d] \in Instant
        /\ run[d] \in Run
    BY DEF InvType, TypeOK
  <2>2. save[w][p].record.revisionId \in Revision
    <3>1. save[w][p] \in Save /\ save[w][p].stage = "observe"
      BY <1>3 DEF Observe, InvType, TypeOK
    <3>. QED
      BY <3>1 DEF Save, NoSave, Record
  <2>3. ASSUME NEW q \in Page
        PROVE  queue'[d][q] = queue[d][q] \/ Due(queue'[d][q], clock[d])
    <3>1. queue' = [queue EXCEPT ![DeviceOf[w]][p] =
            Enqueued(@, save[w][p].record.revisionId, clock[DeviceOf[w]])]
      BY <1>3 DEF Observe
    <3>2. CASE DeviceOf[w] = d /\ q = p
      <4>1. queue'[d][q] = Enqueued(queue[d][q], save[w][p].record.revisionId, clock[d])
        BY <2>1, <3>1, <3>2
      <4>. QED
        BY <2>1, <2>2, <4>1, EnqueuedDue
    <3>3. CASE ~(DeviceOf[w] = d /\ q = p)
      BY <2>1, <3>1, <3>3
    <3>. QED
      BY <3>2, <3>3
  <2>4. run[d].todo \subseteq Page
    BY <2>1 DEF Run
  <2>5. \A q \in Page : Settled(d, q) => Settled(d, q)'
    BY <1>1, <2>3 DEF Settled, Due
  <2>6. \A q \in Page : Due(queue[d][q], clock[d]) => Due(queue[d][q], clock[d])'
    BY <1>1, <2>3
  <2>7. Deferred(d)' = Deferred(d)
    BY <1>1 DEF Deferred, Queued, Local, Current
  <2>. QED
    BY <1>1, <2>4, <2>5, <2>6, <2>7 DEF Backoff
<1>. QED
  BY <1>2, <1>3 DEF BeginSave, PanelStep, PutNote, SaveInterrupted

(* The passing of time preserves Backoff. *)
LEMMA BackoffTick ==
  ASSUME InvType, NEW d \in Device, Backoff(d), NEW e \in Device, Tick(e)
  PROVE  Backoff(d)'
<1>1. /\ run' = run /\ queue' = queue
      /\ queue \in [Device -> [Page -> QueueSlot]] /\ run[d] \in Run
  BY DEF Tick, InvType, TypeOK
<1>2. clock[d] \in Instant /\ clock'[d] \in Instant
  BY TickType DEF InvType, TypeOK
<1>3. clock[d] <= clock'[d]
  BY <1>2, MaxClockAssumption DEF Tick, InvType, TypeOK, Instant
<1>4. \A q \in Page : Due(queue[d][q], clock[d]) => Due(queue[d][q], clock[d])'
  BY <1>1, <1>2, <1>3, DueLater
<1>5. \A q \in Page : Settled(d, q) => Settled(d, q)'
  BY <1>1, <1>4 DEF Settled
<1>6. run[d].todo \subseteq Page /\ run[d].now \in Instant
  BY <1>1 DEF Run
<1>7. Deferred(d)' = Deferred(d)
  BY <1>1 DEF Deferred, Queued, Local, Current
<1>8. run[d].now <= clock[d] => run[d].now <= clock'[d]
  BY <1>2, <1>3, <1>6, MaxClockAssumption DEF Instant
<1>. QED
  BY <1>1, <1>4, <1>5, <1>6, <1>7, <1>8 DEF Backoff

(* Every step preserves BackoffInv. *)
LEMMA BackoffStep == InvType /\ BackoffInv /\ [Next]_vars => BackoffInv'
<1>. SUFFICES ASSUME InvType, BackoffInv, [Next]_vars, NEW d \in Device
              PROVE  Backoff(d)'
  BY DEF BackoffInv
<1>1. Backoff(d) /\ run \in [Device -> Run]
      /\ queue \in [Device -> [Page -> QueueSlot]]
  BY DEF BackoffInv, InvType, TypeOK
<1>2. CASE UNCHANGED vars
  BY <1>1, <1>2, BackoffElsewhere DEF vars
<1>3. ASSUME NEW e \in Device, Tick(e)
      PROVE  Backoff(d)'
  BY <1>1, <1>3, BackoffTick
<1>4. CASE EngineStep(d) \/ EngineFault(d)
  BY <1>1, <1>4, BackoffListing, BackoffLoop, BackoffEnd DEF EngineStep, EngineFault
<1>5. ASSUME NEW e \in Device, e # d, EngineStep(e) \/ EngineFault(e)
      PROVE  Backoff(d)'
  <2>1. run'[d] = run[d] /\ queue'[d] = queue[d] /\ clock'[d] = clock[d]
    BY <1>1, <1>5 DEF EngineStep, EngineFault, history, Goto, NextPage, EndRun,
         StartRun, ListLocal, ListQueue, ListRemoteKeys, GetRemote, MergeListings,
         ReportConflict, Defer, RecheckLocal, Upload, RetireStaleIntent,
         RecordFailure, Download, CompleteSynced, CompleteListed, Finish, ListDue,
         FailDueEntry, EndFailedRun, UploadFails, StorageFails, RunFails,
         FailureNotRecorded, WorkerTerminated
  <2>. QED
    BY <1>1, <2>1, BackoffElsewhere
<1>6. ASSUME NEW w \in Panel, NEW p \in Page,
             BeginSave(w, p) \/ PanelStep(w, p) \/ SaveInterrupted(w, p)
      PROVE  Backoff(d)'
  BY <1>1, <1>6, BackoffPanel
<1>. QED
  BY <1>2, <1>3, <1>4, <1>5, <1>6 DEF Next

(* BackoffInv holds in every reachable state. *)
LEMMA BackoffInvariant == Spec => [](InvType /\ BackoffInv)
<1>. QED
  BY TypeCorrect, BackoffInit, BackoffStep, PTL DEF Spec

(* From the moment a run decides to upload a revision until the outcome is *)
(* recorded, an entry of that revision is due.                             *)
LEMMA UploadedRevisionDue ==
  ASSUME InvType, BackoffInv, NEW d \in Device, run[d].pc \in {"put", "record"},
         queue[d][Current(d)] # Absent,
         queue[d][Current(d)].revisionId = Local(d).revisionId
  PROVE  Due(queue[d][Current(d)], clock[d])
<1>1. run[d].todo # {}
  BY AtPage
<1>2. Settled(d, Current(d)) /\ ~Deferred(d) /\ run[d].now <= clock[d]
  BY <1>1, CurrentPage DEF BackoffInv, Backoff
<1>3. CASE queue[d][Current(d)] = Queued(d)
  <2>1. Queued(d) \in Entry
    BY <1>1, <1>3, CurrentPage DEF QueueSlot
  <2>2. ~(Queued(d).nextAttemptAt > run[d].now)
    BY <1>2, <1>3 DEF Deferred
  <2>3. Queued(d).nextAttemptAt \in Instant /\ run[d].now \in Instant
        /\ clock[d] \in Instant
    BY <2>1, Entries DEF InvType, TypeOK, Run
  <2>4. Queued(d).nextAttemptAt <= clock[d]
    BY <1>2, <2>2, <2>3, MaxClockAssumption DEF Instant
  <2>. QED
    BY <1>3, <2>4 DEF Due
<1>. QED
  BY <1>2, <1>3 DEF Settled, Queued

(* A request for a revision goes out only when the retry of that revision  *)
(* is due, although the decision was taken on an older listing.            *)
THEOREM BackoffAlwaysRespected == Spec => []BackoffRespected
<1>1. InvType /\ BackoffInv => BackoffRespected
  BY UploadedRevisionDue DEF BackoffRespected, At
<1>. QED
  BY BackoffInvariant, <1>1, PTL

(* Nothing restarts or shortens the schedule of a revision that stays      *)
(* queued: neither its late enqueue, nor a second failure path.            *)
THEOREM BackoffNeverRestarts == Spec => BackoffNeverRewound
<1>. DEFINE Forward ==
       \A d \in Device, p \in Page :
         /\ queue[d][p] # Absent /\ queue'[d][p] # Absent
         /\ queue[d][p].revisionId = queue'[d][p].revisionId
         => /\ queue[d][p].attemptCount <= queue'[d][p].attemptCount
            /\ queue[d][p].nextAttemptAt <= queue'[d][p].nextAttemptAt
<1>1. InvType /\ BackoffInv /\ [Next]_vars => Forward
  <2>. SUFFICES ASSUME InvType, BackoffInv, [Next]_vars,
                       NEW d \in Device, NEW p \in Page,
                       queue[d][p] # Absent, queue'[d][p] # Absent,
                       queue[d][p].revisionId = queue'[d][p].revisionId
                PROVE  /\ queue[d][p].attemptCount <= queue'[d][p].attemptCount
                       /\ queue[d][p].nextAttemptAt <= queue'[d][p].nextAttemptAt
    OBVIOUS
  <2>1. /\ queue \in [Device -> [Page -> QueueSlot]] /\ queue[d][p] \in Entry
        /\ clock[d] \in Instant
    BY DEF InvType, TypeOK, QueueSlot
  <2>2. CASE queue'[d][p] = queue[d][p]
    <3>1. queue[d][p].attemptCount \in Nat
      BY <2>1, Entries, MaxAttemptsAssumption
    <3>2. queue[d][p].nextAttemptAt \in Nat
      BY <2>1, Entries, MaxClockAssumption DEF Instant
    <3>. QED
      BY <2>2, <3>1, <3>2
  <2>3. CASE RetireStaleIntent(d) \/ CompleteSynced(d) \/ CompleteListed(d)
    <3>1. queue'[d][p] = queue[d][p]
      BY <2>1, <2>3 DEF RetireStaleIntent, CompleteSynced, CompleteListed, Completed
    <3>. QED
      BY <2>2, <3>1
  <2>4. CASE RecordFailure(d)
    <3>1. PICK delay \in RetryDelays(NextAttempt(queue[d][Current(d)])) :
            queue' = [queue EXCEPT ![d][Current(d)] =
                        Failed(@, Local(d).revisionId, clock[d], delay)]
      BY <2>4 DEF RecordFailure
    <3>2. delay \in Nat
      BY RetryDelaysType
    <3>3. CASE p = Current(d) /\ queue[d][p].revisionId = Local(d).revisionId
      <4>1. Due(queue[d][p], clock[d])
        BY <2>4, <3>3, UploadedRevisionDue DEF RecordFailure, At
      <4>2. queue'[d][p] = Failed(queue[d][p], Local(d).revisionId, clock[d], delay)
        BY <2>1, <3>1, <3>3
      <4>. QED
        BY <2>1, <3>2, <4>1, <4>2, FailedLater DEF QueueSlot
    <3>4. CASE p # Current(d) \/ queue[d][p].revisionId # Local(d).revisionId
      <4>1. queue'[d][p] = queue[d][p]
        BY <2>1, <3>1, <3>4 DEF Failed
      <4>. QED
        BY <2>2, <4>1
    <3>. QED
      BY <3>3, <3>4
  <2>5. CASE FailDueEntry(d)
    <3>1. PICK delay \in RetryDelays(NextAttempt(queue[d][Current(d)])) :
            queue' = [queue EXCEPT ![d][Current(d)] =
                        Failed(@, Queued(d).revisionId, clock[d], delay)]
      BY <2>5 DEF FailDueEntry
    <3>2. delay \in Nat
      BY RetryDelaysType
    <3>3. CASE p = Current(d)
      <4>1. run[d].pc = "recordingFailure" /\ run[d].todo # {}
        BY <2>5 DEF FailDueEntry, At
      <4>2. Due(queue[d][p], clock[d])
        BY <3>3, <4>1, CurrentPage DEF BackoffInv, Backoff
      <4>3. queue'[d][p] = Failed(queue[d][p], Queued(d).revisionId, clock[d], delay)
        BY <2>1, <3>1, <3>3
      <4>. QED
        BY <2>1, <3>2, <4>2, <4>3, FailedLater DEF QueueSlot
    <3>4. CASE p # Current(d)
      <4>1. queue'[d][p] = queue[d][p]
        BY <2>1, <3>1, <3>4
      <4>. QED
        BY <2>2, <4>1
    <3>. QED
      BY <3>3, <3>4
  <2>6. ASSUME NEW w \in Panel, NEW q \in Page, Observe(w, q)
        PROVE  queue'[d][p] = queue[d][p]
    BY <2>1, <2>6 DEF Observe, Enqueued
  <2>. QED
    BY <2>2, <2>3, <2>4, <2>5, <2>6, QueueWriters
<1>2. InvType /\ BackoffInv /\ [Next]_vars => [Forward]_vars
  BY <1>1
<1>. QED
  BY BackoffInvariant, <1>2, PTL DEF Spec, BackoffNeverRewound

-----------------------------------------------------------------------------
(* Recording a failure. *)

(* calculateSyncRetryDelayMs, for every attempt count, beyond the cap as   *)
(* well: there is a delay to choose, it is between the base and the        *)
(* maximum, and the shortest one doubles with every attempt until it is    *)
(* the maximum.                                                            *)
THEOREM RetryDelayRange ==
  ASSUME NEW attempt \in Nat
  PROVE  /\ ExponentialDelay[attempt] \in RetryDelays(attempt)
         /\ RetryDelays(attempt) \subseteq ExponentialDelay[attempt]..MaxDelay
         /\ ExponentialDelay[attempt] \in BaseDelay..MaxDelay
         /\ ExponentialDelay[attempt] <= ExponentialDelay[attempt + 1]
         /\ attempt > 0 =>
              ExponentialDelay[attempt + 1] \in {MaxDelay, 2 * ExponentialDelay[attempt]}
<1>1. ExponentialDelay[attempt] \in BaseDelay..MaxDelay
  BY DelayBounds
<1>2. ExponentialDelay[attempt] \in RetryDelays(attempt)
  BY <1>1, DelayAssumption DEF RetryDelays
<1>3. RetryDelays(attempt) \subseteq ExponentialDelay[attempt]..MaxDelay
  BY <1>1, DelayAssumption DEF RetryDelays
<1>. QED
  BY <1>1, <1>2, <1>3, DelayGrows

(* Whenever the engine or the runtime has a failure to record, it can, and *)
(* the entry it stores is one that the queue reads back: the attempt count *)
(* is capped, and the retry is not due before the shortest delay of that   *)
(* attempt has passed (or at the last instant of the clock).               *)
THEOREM FailuresCanBeRecorded ==
  Spec => [](\A d \in Device, revision \in Revision :
    At(d, "record") \/ (At(d, "recordingFailure") /\ run[d].todo # {}) =>
      LET slot    == queue[d][Current(d)]
          attempt == NextAttempt(slot)
      IN  /\ RetryDelays(attempt) # {}
          /\ slot = Absent \/ slot.revisionId = revision =>
               \A delay \in RetryDelays(attempt) :
                 LET failed == Failed(slot, revision, clock[d], delay)
                 IN  /\ failed \in Entry /\ failed.attemptCount = attempt
                     /\ AtMost(MaxClock, clock[d] + ExponentialDelay[attempt])
                          <= failed.nextAttemptAt)
<1>. DEFINE Recordable(slot, revision, now) ==
       LET attempt == NextAttempt(slot)
       IN  /\ RetryDelays(attempt) # {}
           /\ slot = Absent \/ slot.revisionId = revision =>
                \A delay \in RetryDelays(attempt) :
                  LET failed == Failed(slot, revision, now, delay)
                  IN  /\ failed \in Entry /\ failed.attemptCount = attempt
                      /\ AtMost(MaxClock, now + ExponentialDelay[attempt])
                           <= failed.nextAttemptAt
<1>1. ASSUME NEW slot \in QueueSlot, NEW revision \in Revision, NEW now \in Instant
      PROVE  Recordable(slot, revision, now)
  <2>. DEFINE attempt == NextAttempt(slot)
  <2>1. attempt \in Nat /\ attempt \in 0..MaxAttempts
    BY NextAttemptType, MaxAttemptsAssumption
  <2>2. RetryDelays(attempt) # {} /\ ExponentialDelay[attempt] \in Nat
    BY <2>1, RetryDelayRange, DelayAssumption
  <2>3. ASSUME slot = Absent \/ slot.revisionId = revision, NEW delay \in RetryDelays(attempt)
        PROVE  LET failed == Failed(slot, revision, now, delay)
               IN  /\ failed \in Entry /\ failed.attemptCount = attempt
                   /\ AtMost(MaxClock, now + ExponentialDelay[attempt]) <= failed.nextAttemptAt
    <3>1. delay \in Nat /\ ExponentialDelay[attempt] <= delay
      BY <2>3, RetryDelaysType DEF RetryDelays
    <3>. DEFINE failed == [revisionId |-> revision, attemptCount |-> attempt,
                           nextAttemptAt |-> AtMost(MaxClock, now + delay)]
    <3>2. Failed(slot, revision, now, delay) = failed
      BY <2>3 DEF Failed
    <3>3. now \in Nat /\ MaxClock \in Nat
      BY MaxClockAssumption DEF Instant
    <3>4. failed \in Entry
      BY <2>1, <3>1, <3>3 DEF Entry, Instant, AtMost
    <3>5. AtMost(MaxClock, now + ExponentialDelay[attempt]) <= AtMost(MaxClock, now + delay)
      BY <2>2, <3>1, <3>3 DEF AtMost
    <3>. QED
      BY <3>2, <3>4, <3>5
  <2>. QED
    BY <2>2, <2>3
<1>2. InvType => \A d \in Device, revision \in Revision :
        At(d, "record") \/ (At(d, "recordingFailure") /\ run[d].todo # {}) =>
          Recordable(queue[d][Current(d)], revision, clock[d])
  <2>. SUFFICES ASSUME InvType, NEW d \in Device, NEW revision \in Revision,
                       At(d, "record") \/ (At(d, "recordingFailure") /\ run[d].todo # {})
                PROVE  Recordable(queue[d][Current(d)], revision, clock[d])
    OBVIOUS
  <2>1. Current(d) \in Page
    BY AtPage, CurrentPage DEF At
  <2>2. queue[d][Current(d)] \in QueueSlot /\ clock[d] \in Instant
    BY <2>1 DEF InvType, TypeOK
  <2>. HIDE DEF Recordable
  <2>. QED
    BY <1>1, <2>2
<1>. QED
  BY TypeCorrect, <1>2, PTL
=============================================================================
