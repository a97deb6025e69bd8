--------------------------- MODULE SyncEngineProofs ---------------------------
(***************************************************************************)
(* What SyncEngine guarantees for every set of devices, panels, pages and  *)
(* revisions and every bound.                                              *)
(***************************************************************************)
EXTENDS SyncLemmas

(* What the program counter says about the page a run is at. *)
RunShape(r) ==
  LET p == Least(r.todo) IN
  /\ r.pc \in {"put", "retire", "record"} =>
       Verdict(r.local[p], r.remote[p]) = "local-wins"
  /\ r.pc \in {"complete", "completeOther"} =>
       Verdict(r.local[p], r.remote[p]) # "integrity-conflict"
  /\ r.pc = "retire" => r.queue[p] # Absent /\ r.queue[p].revisionId # r.local[p].revisionId
  /\ r.pc = "recordingFailure" => \A q \in r.todo : r.queue[q] # Absent

Shape == \A d \in Device : RunShape(run[d])

InvType == TypeOK /\ Shape

(* The initial states are typed and well shaped. *)
LEMMA InitType == Init => InvType
<1>. SUFFICES ASSUME Init PROVE InvType
  OBVIOUS
<1>1. PICK s \in Synchronized :
        /\ remote = s.remote
        /\ local = [d \in Device |-> s.local]
        /\ queue = [d \in Device |-> EmptyPages]
        /\ clock = [d \in Device |-> 0]
        /\ save = [w \in Panel |-> [p \in Page |-> NoSave]]
        /\ run = [d \in Device |-> IdleRun]
        /\ outcome = [d \in Device |-> "none"]
        /\ used = Revisions(s.remote)
        /\ published = s.remote
        /\ newest = s.remote
        /\ skewed = FALSE
        /\ quiet = [d \in Device |-> FALSE]
        /\ faults = 0
  BY DEF Init
<1>2. s.local \in [Page -> Slot] /\ s.remote \in [Page -> Slot]
  BY SynchronizedAssumption
<1>3. EmptyPages \in [Page -> QueueSlot] /\ 0 \in Instant /\ 0 \in 0..MaxFaults
  BY MaxClockAssumption, MaxFaultsAssumption DEF EmptyPages, QueueSlot, Instant
<1>4. [p \in Page |-> NoSave] \in [Page -> Save]
  BY DEF Save
<1>5. used \subseteq Revision
  BY <1>1, <1>2, SlotCases DEF Revisions, Record
<1>6. run \in [Device -> Run] /\ \A d \in Device : run[d].pc = "idle"
  BY <1>1, IdleRunType DEF IdleRun
<1>7. TypeOK
  BY <1>1, <1>2, <1>3, <1>4, <1>5, <1>6 DEF TypeOK, Outcome
<1>8. Shape
  BY <1>6 DEF Shape, RunShape
<1>. QED
  BY <1>7, <1>8 DEF InvType

-----------------------------------------------------------------------------
(* Only the run of d has moved, and it is in order. *)
RunMoved(d) ==
  /\ run' \in [Device -> Run]
  /\ \A e \in Device \ {d} : run'[e] = run[e]
  /\ RunShape(run'[d])
  /\ run'[d].pc \in {"put", "retire", "record", "complete", "completeOther"}
       => run'[d].todo # {}

(* Moving one run to a well-shaped one keeps all runs well shaped. *)
LEMMA RunMovedInv ==
  ASSUME InvType, NEW d \in Device, RunMoved(d)
  PROVE  /\ Shape'
         /\ run' \in [Device -> Run]
         /\ \A e \in Device :
              run'[e].pc \notin {"idle", "listing", "page", "failing", "recordingFailure"}
                => run'[e].todo # {}
<1>1. \A e \in Device : run[e] \in Run /\ RunShape(run[e])
  BY DEF InvType, TypeOK, Shape
<1>2. Shape'
  BY <1>1 DEF Shape, RunMoved
<1>3. \A e \in Device :
        run[e].pc \notin {"idle", "listing", "page", "failing", "recordingFailure"}
          => run[e].todo # {}
  BY DEF InvType, TypeOK
<1>4. run'[d].pc \in PC
  BY DEF RunMoved, Run
<1>5. run'[d].pc \notin {"idle", "listing", "page", "failing", "recordingFailure"}
        => run'[d].todo # {}
  BY <1>4 DEF RunMoved, PC
<1>. QED
  BY <1>2, <1>3, <1>5 DEF RunMoved

(* Goto to a well-shaped program counter moves one run. *)
LEMMA GotoMoved ==
  ASSUME InvType, NEW d \in Device, NEW pc \in PC, Goto(d, pc), run[d].todo # {},
         RunShape([run[d] EXCEPT !.pc = pc])
  PROVE  RunMoved(d)
<1>1. run[d] \in Run /\ run \in [Device -> Run]
  BY DEF InvType, TypeOK
<1>. QED
  BY <1>1, GotoRun DEF RunMoved, Run

(* NextPage moves one run. *)
LEMMA NextPageMoved ==
  ASSUME InvType, NEW d \in Device, NEW issue \in BOOLEAN, NEW deferral \in BOOLEAN,
         NextPage(d, issue, deferral)
  PROVE  RunMoved(d)
<1>1. run[d] \in Run /\ run \in [Device -> Run]
  BY DEF InvType, TypeOK
<1>2. /\ run' \in [Device -> Run]
      /\ \A e \in Device \ {d} : run'[e] = run[e]
      /\ run'[d] = [run[d] EXCEPT !.pc = "page", !.todo = @ \ {Current(d)},
                                  !.issues = @ \/ issue,
                                  !.deferred = @ \/ deferral]
  BY <1>1, NextPageRun, Zenon
<1>3. run'[d].pc = "page"
  BY <1>1, <1>2 DEF Run
<1>4. RunShape(run'[d])
  BY <1>3 DEF RunShape
<1>. QED
  BY <1>2, <1>3, <1>4 DEF RunMoved

(* So does replacing a run by one outside the loop. *)
LEMMA IdleMoved ==
  ASSUME InvType, NEW d \in Device, NEW r \in Run, run' = [run EXCEPT ![d] = r],
         r.pc \in {"idle", "listing", "page", "failing"}
  PROVE  RunMoved(d)
BY DEF InvType, TypeOK, RunMoved, RunShape

(* The listings, and what comes before and after them. *)
LEMMA FaultType ==
  ASSUME InvType, Fault
  PROVE  faults' \in 0..MaxFaults
BY MaxFaultsAssumption DEF InvType, TypeOK, Fault

(* The listings preserve the type invariant. *)
LEMMA ListingType ==
  ASSUME InvType, NEW d \in Device,
         \/ StartRun(d) \/ ListLocal(d) \/ ListQueue(d) \/ ListRemoteKeys(d)
         \/ GetRemote(d) \/ MergeListings(d)
  PROVE  InvType'
<1>. DEFINE r == run[d]
<1>1. r \in Run /\ run \in [Device -> Run]
  BY DEF InvType, TypeOK
<1>2. CASE StartRun(d)
  <2>1. [IdleRun EXCEPT !.pc = "listing", !.now = clock[d]] \in Run
    BY IdleRunType DEF InvType, TypeOK, Run, PC
  <2>2. RunMoved(d)
    BY <1>2, <2>1, IdleMoved DEF StartRun, IdleRun
  <2>. QED
    BY <1>2, <2>2, RunMovedInv DEF StartRun, InvType, TypeOK, Outcome
<1>3. CASE ListLocal(d)
  <2>. DEFINE s == [r EXCEPT !.local = local[d], !.listed = @ \cup {"local"}]
  <2>1. s \in Run /\ s.pc = "listing"
    BY <1>1, <1>3 DEF ListLocal, At, InvType, TypeOK, Run, Source
  <2>2. run' = [run EXCEPT ![d] = s]
    BY <1>3 DEF ListLocal
  <2>3. RunMoved(d)
    BY <2>1, <2>2, IdleMoved
  <2>. QED
    BY <1>3, <2>3, RunMovedInv DEF ListLocal, InvType, TypeOK, history
<1>4. CASE ListQueue(d)
  <2>. DEFINE s == [r EXCEPT !.queue = queue[d], !.listed = @ \cup {"queue"}]
  <2>1. s \in Run /\ s.pc = "listing"
    BY <1>1, <1>4 DEF ListQueue, At, InvType, TypeOK, Run, Source
  <2>2. run' = [run EXCEPT ![d] = s]
    BY <1>4 DEF ListQueue
  <2>3. RunMoved(d)
    BY <2>1, <2>2, IdleMoved
  <2>. QED
    BY <1>4, <2>3, RunMovedInv DEF ListQueue, InvType, TypeOK, history
<1>5. CASE ListRemoteKeys(d)
  <2>. DEFINE s == [r EXCEPT !.unread = {p \in Page : remote[p] # Absent},
                             !.listed = @ \cup {"remote"}]
  <2>1. s \in Run /\ s.pc = "listing"
    BY <1>1, <1>5 DEF ListRemoteKeys, At, Run, Source
  <2>2. run' = [run EXCEPT ![d] = s]
    BY <1>5 DEF ListRemoteKeys
  <2>3. RunMoved(d)
    BY <2>1, <2>2, IdleMoved
  <2>. QED
    BY <1>5, <2>3, RunMovedInv DEF ListRemoteKeys, InvType, TypeOK, history
<1>6. CASE GetRemote(d)
  <2>. DEFINE p == Least(r.unread)
              s == [r EXCEPT !.remote[p] = remote[p], !.unread = @ \ {p}]
  <2>1. p \in Page
    BY <1>1, <1>6, LeastElement, PageAssumption DEF GetRemote, Run
  <2>2. s \in Run /\ s.pc = "listing"
    BY <1>1, <1>6, <2>1 DEF GetRemote, At, InvType, TypeOK, Run
  <2>3. run' = [run EXCEPT ![d] = s]
    BY <1>6 DEF GetRemote
  <2>4. RunMoved(d)
    BY <2>2, <2>3, IdleMoved
  <2>. QED
    BY <1>6, <2>4, RunMovedInv DEF GetRemote, InvType, TypeOK, history
<1>7. CASE MergeListings(d)
  <2>. DEFINE s == [r EXCEPT !.pc = "page",
                      !.todo = {p \in Page : \/ run[d].local[p] # Absent
                                             \/ run[d].remote[p] # Absent
                                             \/ run[d].queue[p] # Absent}]
  <2>1. s \in Run /\ s.pc = "page"
    BY <1>1 DEF Run, PC
  <2>2. run' = [run EXCEPT ![d] = s]
    BY <1>7 DEF MergeListings
  <2>3. RunMoved(d)
    BY <2>1, <2>2, IdleMoved
  <2>. QED
    BY <1>7, <2>3, RunMovedInv DEF MergeListings, InvType, TypeOK, history
<1>. QED
  BY <1>2, <1>3, <1>4, <1>5, <1>6, <1>7

(* The page a run is at is one of the pages it has still to visit. *)
LEMMA CurrentPage ==
  ASSUME InvType, NEW d \in Device, run[d].todo # {}
  PROVE  /\ Current(d) \in run[d].todo /\ Current(d) \in Page
         /\ Local(d) \in Slot /\ Remote(d) \in Slot /\ Queued(d) \in QueueSlot
<1>1. run[d] \in Run /\ run[d].todo \subseteq Page
  BY DEF InvType, TypeOK, Run
<1>2. Current(d) \in run[d].todo
  BY <1>1, LeastElement, PageAssumption DEF Current
<1>. QED
  BY <1>1, <1>2 DEF Local, Remote, Queued, Run

(* A run in the middle of a page has a page. *)
LEMMA AtPage ==
  ASSUME InvType, NEW d \in Device,
         run[d].pc \in {"put", "retire", "record", "complete", "completeOther"}
  PROVE  run[d].todo # {}
BY DEF InvType, TypeOK, Run, PC

(* The loop over the pages. *)
LEMMA LoopType ==
  ASSUME InvType, NEW d \in Device,
         \/ ReportConflict(d) \/ Defer(d) \/ RecheckLocal(d) \/ Upload(d)
         \/ RetireStaleIntent(d) \/ RecordFailure(d) \/ Download(d)
         \/ CompleteSynced(d) \/ CompleteListed(d)
         \/ UploadFails(d) \/ StorageFails(d)
  PROVE  InvType'
<1>. DEFINE r == run[d]
            p == Current(d)
<1>1. r \in Run /\ run \in [Device -> Run] /\ RunShape(r)
  BY DEF InvType, TypeOK, Shape
<1>2. Local(d) = r.local[p] /\ Remote(d) = r.remote[p] /\ Queued(d) = r.queue[p]
      /\ p = Least(r.todo)
  BY DEF Local, Remote, Queued, Current
<1>3. r.todo # {} => /\ p \in r.todo /\ p \in Page
                     /\ Local(d) \in Slot /\ Remote(d) \in Slot
                     /\ Queued(d) \in QueueSlot
  BY CurrentPage
<1>4. r.pc \in {"put", "retire", "record", "complete", "completeOther"} => r.todo # {}
  BY AtPage
<1>5. \A issue, deferral \in BOOLEAN : NextPage(d, issue, deferral) => RunMoved(d)
  BY NextPageMoved
<1>6. CASE ReportConflict(d)
  <2>1. RunMoved(d)
    BY <1>5, <1>6, Zenon DEF ReportConflict
  <2>. QED
    BY <1>6, <2>1, RunMovedInv DEF ReportConflict, InvType, TypeOK, history
<1>7. CASE Defer(d)
  <2>1. RunMoved(d)
    BY <1>5, <1>7, Zenon DEF Defer
  <2>. QED
    BY <1>7, <2>1, RunMovedInv DEF Defer, InvType, TypeOK, history
<1>8. CASE RecheckLocal(d)
  <2>1. ASSUME Goto(d, "put") PROVE RunMoved(d)
    <3>1. r.todo # {} /\ Verdict(r.local[p], r.remote[p]) = "local-wins"
      BY <1>8, <1>2 DEF RecheckLocal, Visiting
    <3>2. RunShape([r EXCEPT !.pc = "put"])
      BY <1>1, <1>2, <3>1 DEF RunShape, Run
    <3>. QED
      BY <2>1, <3>1, <3>2, GotoMoved DEF PC
  <2>2. ASSUME NextPage(d, TRUE, FALSE) PROVE RunMoved(d)
    BY <2>2, <1>5, Zenon
  <2>3. RunMoved(d)
    BY <1>8, <2>1, <2>2 DEF RecheckLocal
  <2>. QED
    BY <1>8, <2>3, RunMovedInv DEF RecheckLocal, InvType, TypeOK, history
<1>9. ASSUME WriteRemote(d), r.todo # {}
      PROVE  remote' \in [Page -> Slot] /\ published' \in [Page -> Slot]
             /\ quiet' \in [Device -> BOOLEAN]
  BY <1>3, <1>9 DEF WriteRemote, InvType, TypeOK
<1>10. CASE Upload(d)
  <2>1. r.pc = "put" /\ r.todo # {} /\ Goto(d, "complete")
    BY <1>4, <1>10 DEF Upload, At
  <2>2. Verdict(r.local[p], r.remote[p]) = "local-wins"
    BY <1>1, <1>2, <2>1 DEF RunShape
  <2>3. RunShape([r EXCEPT !.pc = "complete"])
    BY <1>1, <1>2, <2>2 DEF RunShape, Run
  <2>4. RunMoved(d)
    BY <2>1, <2>3, GotoMoved DEF PC
  <2>. QED
    BY <1>9, <1>10, <2>1, <2>4, RunMovedInv DEF Upload, InvType, TypeOK
<1>11. CASE UploadFails(d)
  <2>1. r.pc = "put" /\ r.todo # {}
    BY <1>4, <1>11 DEF UploadFails, At
  <2>2. Verdict(r.local[p], r.remote[p]) = "local-wins"
    BY <1>1, <1>2, <2>1 DEF RunShape
  <2>3. CASE r.queue[p] # Absent /\ r.queue[p].revisionId # r.local[p].revisionId
    <3>1. Goto(d, "retire")
      BY <1>2, <1>11, <2>3 DEF UploadFails
    <3>2. RunShape([r EXCEPT !.pc = "retire"])
      BY <1>1, <1>2, <2>2, <2>3 DEF RunShape, Run
    <3>3. RunMoved(d)
      BY <2>1, <3>1, <3>2, GotoMoved DEF PC
    <3>. QED
      BY <1>9, <1>11, <2>1, <3>3, RunMovedInv, FaultType DEF UploadFails, InvType, TypeOK
  <2>4. CASE ~(r.queue[p] # Absent /\ r.queue[p].revisionId # r.local[p].revisionId)
    <3>1. Goto(d, "record")
      BY <1>2, <1>11, <2>4 DEF UploadFails
    <3>2. RunShape([r EXCEPT !.pc = "record"])
      BY <1>1, <1>2, <2>2 DEF RunShape, Run
    <3>3. RunMoved(d)
      BY <2>1, <3>1, <3>2, GotoMoved DEF PC
    <3>. QED
      BY <1>9, <1>11, <2>1, <3>3, RunMovedInv, FaultType DEF UploadFails, InvType, TypeOK
  <2>. QED
    BY <2>3, <2>4
<1>12. CASE RetireStaleIntent(d)
  <2>1. r.pc = "retire" /\ r.todo # {} /\ Goto(d, "record")
    BY <1>4, <1>12 DEF RetireStaleIntent, At
  <2>2. Verdict(r.local[p], r.remote[p]) = "local-wins"
    BY <1>1, <1>2, <2>1 DEF RunShape
  <2>3. RunShape([r EXCEPT !.pc = "record"])
    BY <1>1, <1>2, <2>2 DEF RunShape, Run
  <2>4. RunMoved(d)
    BY <2>1, <2>3, GotoMoved DEF PC
  <2>5. queue' \in [Device -> [Page -> QueueSlot]]
    BY <1>3, <1>12, <2>1, CompletedType DEF RetireStaleIntent, InvType, TypeOK
  <2>. QED
    BY <1>12, <2>4, <2>5, RunMovedInv DEF RetireStaleIntent, InvType, TypeOK, history
<1>13. CASE RecordFailure(d)
  <2>1. r.pc = "record" /\ r.todo # {} /\ NextPage(d, TRUE, FALSE)
    BY <1>4, <1>13, Zenon DEF RecordFailure, At
  <2>2. Local(d).revisionId \in Revision
    <3>1. Verdict(Local(d), Remote(d)) = "local-wins"
      BY <1>1, <1>2, <2>1 DEF RunShape
    <3>. QED
      BY <1>3, <2>1, <3>1, VerdictLocalWins DEF Record
  <2>3. RunMoved(d)
    BY <1>5, <2>1, Zenon
  <2>4. queue' \in [Device -> [Page -> QueueSlot]]
    <3>1. PICK delay \in RetryDelays(NextAttempt(queue[d][p])) :
            queue' = [queue EXCEPT ![d][p] =
                        Failed(@, Local(d).revisionId, clock[d], delay)]
      BY <1>13 DEF RecordFailure
    <3>2. queue[d][p] \in QueueSlot /\ clock[d] \in Instant
      BY <1>3, <2>1 DEF InvType, TypeOK
    <3>3. Failed(queue[d][p], Local(d).revisionId, clock[d], delay) \in QueueSlot
      BY <2>2, <3>2, FailedType, RetryDelaysType
    <3>. QED
      BY <3>1, <3>3 DEF InvType, TypeOK
  <2>. QED
    BY <1>13, <2>3, <2>4, RunMovedInv DEF RecordFailure, InvType, TypeOK, history
<1>14. CASE Download(d)
  <2>1. r.pc = "page" /\ r.todo # {} /\ Verdict(r.local[p], r.remote[p]) = "remote-wins"
    BY <1>2, <1>14 DEF Download, Visiting, At
  <2>2. ASSUME Goto(d, "complete") PROVE RunMoved(d)
    <3>1. RunShape([r EXCEPT !.pc = "complete"])
      BY <1>1, <1>2, <2>1 DEF RunShape, Run
    <3>. QED
      BY <2>1, <2>2, <3>1, GotoMoved DEF PC
  <2>3. ASSUME NextPage(d, TRUE, FALSE) PROVE RunMoved(d)
    BY <1>5, <2>3, Zenon
  <2>4. RunMoved(d)
    BY <1>14, <2>2, <2>3 DEF Download
  <2>5. local' \in [Device -> [Page -> Slot]]
    <3>1. CASE local' = [local EXCEPT ![d][p] = Remote(d)]
      BY <1>3, <2>1, <3>1 DEF InvType, TypeOK
    <3>2. CASE UNCHANGED local
      BY <3>2 DEF InvType, TypeOK
    <3>. QED
      BY <1>14, <3>1, <3>2 DEF Download
  <2>. QED
    BY <1>14, <2>4, <2>5, RunMovedInv DEF Download, InvType, TypeOK, history
<1>15. CASE CompleteSynced(d)
  <2>1. r.todo # {} /\ Verdict(r.local[p], r.remote[p]) # "integrity-conflict"
    BY <1>1, <1>2, <1>4, <1>15 DEF CompleteSynced, Completing, Visiting, At, RunShape
  <2>2. ASSUME Goto(d, "completeOther") PROVE RunMoved(d)
    <3>1. RunShape([r EXCEPT !.pc = "completeOther"])
      BY <1>1, <1>2, <2>1 DEF RunShape, Run
    <3>. QED
      BY <2>1, <2>2, <3>1, GotoMoved DEF PC
  <2>3. ASSUME NextPage(d, FALSE, FALSE) PROVE RunMoved(d)
    BY <1>5, <2>3, Zenon
  <2>4. RunMoved(d)
    BY <1>15, <2>2, <2>3 DEF CompleteSynced
  <2>5. queue' \in [Device -> [Page -> QueueSlot]]
    BY <1>3, <1>15, <2>1, CompletedType DEF CompleteSynced, InvType, TypeOK
  <2>. QED
    BY <1>15, <2>4, <2>5, RunMovedInv DEF CompleteSynced, InvType, TypeOK, history
<1>16. CASE CompleteListed(d)
  <2>1. r.todo # {} /\ NextPage(d, FALSE, FALSE)
    BY <1>4, <1>16, Zenon DEF CompleteListed, At
  <2>2. RunMoved(d)
    BY <1>5, <2>1, Zenon
  <2>3. queue' \in [Device -> [Page -> QueueSlot]]
    BY <1>3, <1>16, <2>1, CompletedType DEF CompleteListed, InvType, TypeOK
  <2>. QED
    BY <1>16, <2>2, <2>3, RunMovedInv DEF CompleteListed, InvType, TypeOK, history
<1>17. CASE StorageFails(d)
  <2>1. RunMoved(d)
    BY <1>5, <1>17, Zenon DEF StorageFails
  <2>. QED
    BY <1>17, <2>1, RunMovedInv, FaultType DEF StorageFails, InvType, TypeOK, history
<1>. QED
  BY <1>6, <1>7, <1>8, <1>10, <1>11, <1>12, <1>13, <1>14, <1>15, <1>16, <1>17

(* Global failures, and the end of a run. *)
LEMMA EndType ==
  ASSUME InvType, NEW d \in Device,
         \/ Finish(d) \/ RunFails(d) \/ ListDue(d) \/ FailDueEntry(d)
         \/ FailureNotRecorded(d) \/ EndFailedRun(d) \/ WorkerTerminated(d)
  PROVE  InvType'
<1>. DEFINE r == run[d]
            p == Current(d)
<1>1. r \in Run /\ run \in [Device -> Run] /\ RunShape(r)
  BY DEF InvType, TypeOK, Shape
<1>2. ASSUME NEW result \in Outcome, EndRun(d, result)
      PROVE  RunMoved(d) /\ outcome' \in [Device -> Outcome]
  <2>1. run' = [run EXCEPT ![d] = IdleRun] /\ outcome' \in [Device -> Outcome]
    BY <1>2 DEF EndRun, InvType, TypeOK
  <2>. QED
    BY <2>1, IdleRunType, IdleMoved DEF IdleRun
<1>3. CASE Finish(d)
  <2>1. PICK result \in {"partial", "pending", "synced"} : EndRun(d, result)
    BY <1>3 DEF Finish
  <2>2. RunMoved(d) /\ outcome' \in [Device -> Outcome]
    BY <1>2, <2>1 DEF Outcome
  <2>. QED
    BY <1>3, <2>2, RunMovedInv DEF Finish, InvType, TypeOK, history
<1>4. CASE RunFails(d)
  <2>1. [IdleRun EXCEPT !.pc = "failing"] \in Run
    BY IdleRunType DEF Run, PC
  <2>2. RunMoved(d)
    BY <1>4, <2>1, IdleMoved DEF RunFails, IdleRun
  <2>. QED
    BY <1>4, <2>2, RunMovedInv, FaultType DEF RunFails, InvType, TypeOK, Outcome, history
<1>5. CASE ListDue(d)
  <2>. DEFINE s == [r EXCEPT !.pc = "recordingFailure", !.queue = queue[d],
                             !.todo = {q \in Page : Due(queue[d][q], clock[d])}]
  <2>1. s \in Run
    BY <1>1 DEF InvType, TypeOK, Run, PC
  <2>2. run' = [run EXCEPT ![d] = s]
    BY <1>5 DEF ListDue
  <2>3. RunShape(s)
    BY <1>1 DEF RunShape, Due, Run
  <2>4. RunMoved(d)
    BY <1>1, <2>1, <2>2, <2>3 DEF RunMoved, Run
  <2>. QED
    BY <1>5, <2>4, RunMovedInv DEF ListDue, InvType, TypeOK, history
<1>6. ASSUME r.pc = "recordingFailure", run' = [run EXCEPT ![d].todo = @ \ {p}]
      PROVE  RunMoved(d)
  <2>. DEFINE s == [r EXCEPT !.todo = @ \ {p}]
  <2>1. s \in Run /\ run' = [run EXCEPT ![d] = s]
    BY <1>1, <1>6 DEF Run
  <2>2. RunShape(s)
    BY <1>1, <1>6 DEF RunShape, Run
  <2>. QED
    <3>1. s.pc = "recordingFailure"
      BY <1>1, <1>6 DEF Run
    <3>2. /\ run' \in [Device -> Run] /\ run'[d] = s
          /\ \A e \in Device \ {d} : run'[e] = run[e]
      BY <1>1, <2>1
    <3>. QED
      BY <2>2, <3>1, <3>2 DEF RunMoved
<1>7. CASE FailDueEntry(d)
  <2>1. r.pc = "recordingFailure" /\ r.todo # {}
    BY <1>7 DEF FailDueEntry, At
  <2>2. RunMoved(d)
    BY <1>6, <1>7, <2>1 DEF FailDueEntry
  <2>3. p \in r.todo /\ p \in Page
    BY <2>1, CurrentPage
  <2>4. Queued(d).revisionId \in Revision
    BY <1>1, <2>1, <2>3, Entries DEF RunShape, Queued, Run, QueueSlot
  <2>5. PICK delay \in RetryDelays(NextAttempt(queue[d][p])) :
          queue' = [queue EXCEPT ![d][p] =
                      Failed(@, Queued(d).revisionId, clock[d], delay)]
    BY <1>7 DEF FailDueEntry
  <2>6. queue[d][p] \in QueueSlot /\ clock[d] \in Instant
    BY <2>3 DEF InvType, TypeOK
  <2>7. Failed(queue[d][p], Queued(d).revisionId, clock[d], delay) \in QueueSlot
    BY <2>4, <2>6, FailedType, RetryDelaysType
  <2>8. queue' \in [Device -> [Page -> QueueSlot]]
    BY <2>5, <2>7 DEF InvType, TypeOK
  <2>. QED
    BY <1>7, <2>2, <2>8, RunMovedInv DEF FailDueEntry, InvType, TypeOK, history
<1>8. CASE FailureNotRecorded(d)
  <2>1. RunMoved(d) /\ outcome' \in [Device -> Outcome]
    <3>1. CASE EndRun(d, "failed")
      BY <1>2, <3>1 DEF Outcome
    <3>2. CASE /\ At(d, "recordingFailure")
               /\ run' = [run EXCEPT ![d].todo = @ \ {p}]
               /\ UNCHANGED outcome
      BY <1>6, <3>2 DEF At, InvType, TypeOK
    <3>. QED
      BY <1>8, <3>1, <3>2 DEF FailureNotRecorded
  <2>. QED
    BY <1>8, <2>1, RunMovedInv, FaultType DEF FailureNotRecorded, InvType, TypeOK, history
<1>9. CASE EndFailedRun(d)
  <2>1. RunMoved(d) /\ outcome' \in [Device -> Outcome]
    BY <1>2, <1>9 DEF EndFailedRun, Outcome
  <2>. QED
    BY <1>9, <2>1, RunMovedInv DEF EndFailedRun, InvType, TypeOK, history
<1>10. CASE WorkerTerminated(d)
  <2>1. RunMoved(d)
    BY <1>10, IdleRunType, IdleMoved DEF WorkerTerminated, IdleRun
  <2>. QED
    BY <1>10, <2>1, RunMovedInv, FaultType DEF WorkerTerminated, InvType, TypeOK, history
<1>. QED
  BY <1>3, <1>4, <1>5, <1>7, <1>8, <1>9, <1>10

(* Saves and the passage of time leave every run where it is. *)
LEMMA PanelType ==
  ASSUME InvType, NEW w \in Panel, NEW p \in Page,
         BeginSave(w, p) \/ PanelStep(w, p) \/ SaveInterrupted(w, p)
  PROVE  InvType'
<1>1. DeviceOf[w] \in Device
  BY DeviceOfAssumption
<1>2. save[w][p] \in Save
  BY DEF InvType, TypeOK
<1>3. save[w][p].stage \in {"put", "observe"} => save[w][p].record \in Record
  BY <1>2 DEF Save, NoSave
<1>4. CASE BeginSave(w, p)
  <2>1. PICK r \in Revision \ used, c \in Content :
          /\ save' = [save EXCEPT ![w][p] =
               [stage |-> "put",
                record |-> [savedAt |-> clock[DeviceOf[w]], revisionId |-> r,
                            content |-> c]]]
          /\ used' = used \cup {r}
    BY <1>4 DEF BeginSave
  <2>2. save' \in [Panel -> [Page -> Save]]
    BY <1>1, <2>1 DEF InvType, TypeOK, Save, Record
  <2>3. Shape'
    BY <1>4 DEF BeginSave, InvType, Shape
  <2>. QED
    BY <1>4, <2>1, <2>2, <2>3 DEF BeginSave, InvType, TypeOK
<1>5. CASE PutNote(w, p)
  <2>1. save' \in [Panel -> [Page -> Save]]
    BY <1>2, <1>5 DEF PutNote, InvType, TypeOK, Save, NoSave
  <2>2. /\ local' \in [Device -> [Page -> Slot]]
        /\ newest' \in [Page -> Slot]
    BY <1>1, <1>3, <1>5 DEF PutNote, InvType, TypeOK, Slot
  <2>3. skewed' \in BOOLEAN /\ quiet' \in [Device -> BOOLEAN]
    BY <1>5 DEF PutNote, InvType, TypeOK
  <2>4. Shape'
    BY <1>5 DEF PutNote, InvType, Shape
  <2>. QED
    BY <1>5, <2>1, <2>2, <2>3, <2>4 DEF PutNote, InvType, TypeOK
<1>6. CASE Observe(w, p)
  <2>1. save' \in [Panel -> [Page -> Save]]
    BY <1>6 DEF Observe, InvType, TypeOK, Save
  <2>2. Enqueued(queue[DeviceOf[w]][p], save[w][p].record.revisionId,
                 clock[DeviceOf[w]]) \in QueueSlot
    BY <1>1, <1>3, <1>6, EnqueuedType DEF Observe, InvType, TypeOK, Record
  <2>3. queue' \in [Device -> [Page -> QueueSlot]]
    BY <1>6, <2>2 DEF Observe, InvType, TypeOK
  <2>4. Shape'
    BY <1>6 DEF Observe, InvType, Shape
  <2>. QED
    BY <1>6, <2>1, <2>3, <2>4 DEF Observe, InvType, TypeOK, history
<1>7. CASE SaveInterrupted(w, p)
  <2>1. save' \in [Panel -> [Page -> Save]]
    BY <1>7 DEF SaveInterrupted, InvType, TypeOK, Save
  <2>2. Shape'
    BY <1>7 DEF SaveInterrupted, InvType, Shape
  <2>. QED
    BY <1>7, <2>1, <2>2, FaultType DEF SaveInterrupted, InvType, TypeOK, history
<1>. QED
  BY <1>4, <1>5, <1>6, <1>7 DEF PanelStep

(* So does the passing of time. *)
LEMMA TickType ==
  ASSUME InvType, NEW d \in Device, Tick(d)
  PROVE  InvType'
<1>1. clock' \in [Device -> Instant]
  BY MaxClockAssumption DEF Tick, InvType, TypeOK, Instant
<1>2. Shape'
  BY DEF Tick, InvType, Shape
<1>. QED
  BY <1>1, <1>2 DEF Tick, InvType, TypeOK, history

(* Every step preserves the type invariant. *)
LEMMA StepType == InvType /\ [Next]_vars => InvType'
<1>. SUFFICES ASSUME InvType, [Next]_vars PROVE InvType'
  OBVIOUS
<1>1. CASE UNCHANGED vars
  BY <1>1 DEF vars, InvType, TypeOK, Shape
<1>2. ASSUME NEW d \in Device, Tick(d) \/ EngineStep(d) \/ EngineFault(d)
      PROVE  InvType'
  BY <1>2, ListingType, LoopType, EndType, TickType DEF EngineStep, EngineFault
<1>3. ASSUME NEW w \in Panel, NEW p \in Page,
             BeginSave(w, p) \/ PanelStep(w, p) \/ SaveInterrupted(w, p)
      PROVE  InvType'
  BY <1>3, PanelType
<1>. QED
  BY <1>1, <1>2, <1>3 DEF Next

(* Every state of the program has the right type, and the steps of a run   *)
(* find the listings they rely on.                                         *)
THEOREM TypeCorrect == Spec => []InvType
<1>. QED
  BY InitType, StepType, PTL DEF Spec

(* The type invariant the runs check holds in every reachable state. *)
THEOREM TypeCorrectness == Spec => []TypeOK
<1>1. InvType => TypeOK
  BY DEF InvType
<1>. QED
  BY TypeCorrect, <1>1, PTL

-----------------------------------------------------------------------------
(* Which steps write the run and the queue of a device. *)

LEMMA RunWriters ==
  ASSUME [Next]_vars, InvType, NEW d \in Device
  PROVE  \/ EngineStep(d) \/ EngineFault(d)
         \/ run'[d] = run[d] /\ outcome'[d] = outcome[d]
<1>1. CASE UNCHANGED vars
  BY <1>1 DEF vars
<1>2. ASSUME NEW e \in Device, e # d, EngineStep(e) \/ EngineFault(e)
      PROVE  run'[d] = run[d] /\ outcome'[d] = outcome[d]
  BY <1>2 DEF InvType, TypeOK, EngineStep, EngineFault, Goto, NextPage, EndRun,
       StartRun, ListLocal, ListQueue, ListRemoteKeys, GetRemote, MergeListings,
       ReportConflict, Defer, RecheckLocal, Upload, RetireStaleIntent,
       RecordFailure, Download, CompleteSynced, CompleteListed, Finish, ListDue,
       FailDueEntry, EndFailedRun, UploadFails, StorageFails, RunFails,
       FailureNotRecorded, WorkerTerminated
<1>3. ASSUME NEW e \in Device, Tick(e)
      PROVE  run' = run /\ outcome' = outcome
  BY <1>3 DEF Tick
<1>4. ASSUME NEW w \in Panel, NEW p \in Page,
             BeginSave(w, p) \/ PanelStep(w, p) \/ SaveInterrupted(w, p)
      PROVE  run' = run /\ outcome' = outcome
  BY <1>4 DEF PanelStep, PutNote, BeginSave, Observe, SaveInterrupted
<1>. QED
  BY <1>1, <1>2, <1>3, <1>4 DEF Next

(* Which steps write a device's queue. *)
LEMMA QueueWriters ==
  ASSUME [Next]_vars, NEW d \in Device, InvType
  PROVE  \/ queue'[d] = queue[d]
         \/ RetireStaleIntent(d) \/ CompleteSynced(d) \/ CompleteListed(d)
         \/ RecordFailure(d) \/ FailDueEntry(d)
         \/ \E w \in Panel, p \in Page : Observe(w, p)
<1>1. CASE UNCHANGED vars
  BY <1>1 DEF vars
<1>2. ASSUME NEW e \in Device, Tick(e) \/ EngineStep(e) \/ EngineFault(e), e # d
      PROVE  queue'[d] = queue[d]
  BY <1>2 DEF InvType, TypeOK, EngineStep, EngineFault, Tick,
       StartRun, ListLocal, ListQueue, ListRemoteKeys, GetRemote, MergeListings,
       ReportConflict, Defer, RecheckLocal, Upload, RetireStaleIntent,
       RecordFailure, Download, CompleteSynced, CompleteListed, Finish, ListDue,
       FailDueEntry, EndFailedRun, UploadFails, StorageFails, RunFails,
       FailureNotRecorded, WorkerTerminated
<1>3. CASE Tick(d) \/ EngineStep(d) \/ EngineFault(d)
  BY <1>3 DEF EngineStep, EngineFault, Tick,
       StartRun, ListLocal, ListQueue, ListRemoteKeys, GetRemote, MergeListings,
       ReportConflict, Defer, RecheckLocal, Upload, Download, Finish, ListDue,
       EndFailedRun, UploadFails, StorageFails, RunFails,
       FailureNotRecorded, WorkerTerminated
<1>4. ASSUME NEW w \in Panel, NEW p \in Page,
             BeginSave(w, p) \/ PanelStep(w, p) \/ SaveInterrupted(w, p)
      PROVE  queue'[d] = queue[d] \/ Observe(w, p)
  BY <1>4 DEF PanelStep, BeginSave, PutNote, SaveInterrupted
<1>. QED
  BY <1>1, <1>2, <1>3, <1>4 DEF Next
=============================================================================
