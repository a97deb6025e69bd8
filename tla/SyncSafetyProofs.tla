--------------------------- MODULE SyncSafetyProofs ---------------------------
(***************************************************************************)
(* The safety properties of SyncEngine, for every value of its constants.  *)
(***************************************************************************)
EXTENDS SyncEngineProofs

-----------------------------------------------------------------------------
(* Downloads and saves are the only steps that write a note. *)

(* A download never replaces a note by one that does not win over it: it   *)
(* is decided on the listed note and applied only while that is still the  *)
(* stored one.                                                             *)
LEMMA DownloadWins ==
  ASSUME InvType, NEW d \in Device, Download(d), NEW e \in Device, NEW q \in Page
  PROVE  \/ local'[e][q] = local[e][q]
         \/ /\ local[e][q] = Absent \/ Newer(local'[e][q], local[e][q])
            /\ AtLeast(local'[e][q], local[e][q])
<1>. DEFINE p == Current(d)
<1>1. run[d] \in Run /\ local \in [Device -> [Page -> Slot]]
  BY DEF InvType, TypeOK
<1>2. CASE e = d /\ q = p /\ local[d][p] = Local(d) /\ local' = [local EXCEPT ![d][p] = Remote(d)]
  <2>1. Verdict(Local(d), Remote(d)) = "remote-wins"
    BY DEF Download, Visiting
  <2>2. Local(d) \in Slot /\ Remote(d) \in Slot
    BY <1>1, <1>2 DEF Local, Remote, Run
  <2>3. AtLeast(Remote(d), Local(d)) /\ (Local(d) = Absent \/ Newer(Remote(d), Local(d)))
    BY <2>1, <2>2, VerdictRemoteWins
  <2>4. local'[e][q] = Remote(d) /\ local[e][q] = Local(d)
    BY <1>1, <1>2
  <2>. QED
    BY <2>3, <2>4
<1>3. CASE ~(e = d /\ q = p) /\ local' = [local EXCEPT ![d][p] = Remote(d)]
  BY <1>1, <1>3
<1>4. CASE UNCHANGED local
  BY <1>4
<1>. QED
  BY <1>2, <1>3, <1>4 DEF Download

(* Which steps write notes: downloads and saves. *)
LEMMA NoteWriters ==
  ASSUME [Next]_vars
  PROVE  \/ UNCHANGED <<local, newest, skewed>>
         \/ \E d \in Device : Download(d) /\ UNCHANGED <<newest, skewed>>
         \/ \E w \in Panel, p \in Page : PutNote(w, p)
<1>1. CASE UNCHANGED vars
  BY <1>1 DEF vars
<1>2. ASSUME NEW d \in Device, Tick(d) \/ EngineStep(d) \/ EngineFault(d)
      PROVE  UNCHANGED <<local, newest, skewed>>
             \/ (Download(d) /\ UNCHANGED <<newest, skewed>>)
  BY <1>2 DEF EngineStep, EngineFault, Tick, history,
       StartRun, ListLocal, ListQueue, ListRemoteKeys, GetRemote, MergeListings,
       ReportConflict, Defer, RecheckLocal, Upload, RetireStaleIntent,
       RecordFailure, Download, CompleteSynced, CompleteListed, Finish, ListDue,
       FailDueEntry, EndFailedRun, UploadFails, StorageFails, RunFails,
       FailureNotRecorded, WorkerTerminated
<1>3. ASSUME NEW w \in Panel, NEW p \in Page,
             BeginSave(w, p) \/ PanelStep(w, p) \/ SaveInterrupted(w, p)
      PROVE  UNCHANGED <<local, newest, skewed>> \/ PutNote(w, p)
  BY <1>3 DEF PanelStep, BeginSave, Observe, SaveInterrupted, history
<1>. QED
  BY <1>1, <1>2, <1>3 DEF Next

(* However runs, saves, failures and terminations interleave, the greatest *)
(* version ever saved of a page is still on some device, as long as saves  *)
(* carry increasing versions.                                              *)
LEMMA NewestSurvivesStep ==
  InvType /\ NewestSurvives /\ [Next]_vars => NewestSurvives'
<1>. SUFFICES ASSUME InvType, NewestSurvives, [Next]_vars, ~skewed', NEW p \in Page
              PROVE  newest'[p] = Absent
                     \/ \E d \in Device : AtLeast(local'[d][p], newest'[p])
  BY DEF NewestSurvives
<1>1. /\ newest[p] \in Slot /\ local \in [Device -> [Page -> Slot]]
      /\ local' \in [Device -> [Page -> Slot]] /\ newest'[p] \in Slot
  BY StepType DEF InvType, TypeOK
<1>2. CASE UNCHANGED <<local, newest, skewed>>
  BY <1>2 DEF NewestSurvives
<1>3. ASSUME NEW d \in Device, Download(d), UNCHANGED <<newest, skewed>>,
             newest[p] # Absent
      PROVE  \E e \in Device : AtLeast(local'[e][p], newest'[p])
  <2>1. PICK e \in Device : AtLeast(local[e][p], newest[p])
    BY <1>3 DEF NewestSurvives
  <2>2. AtLeast(local'[e][p], local[e][p])
    BY <1>1, <1>3, DownloadWins, AtLeastReflexive
  <2>. QED
    BY <1>1, <1>3, <2>1, <2>2, AtLeastTransitive
<1>4. ASSUME NEW w \in Panel, NEW q \in Page, PutNote(w, q)
      PROVE  newest'[p] = Absent \/ \E e \in Device : AtLeast(local'[e][p], newest'[p])
  <2>. DEFINE d == DeviceOf[w]
              record == save[w][q].record
  <2>1. d \in Device /\ record \in Record /\ record \in Slot
    <3>1. save[w][q] \in Save /\ save[w][q].stage = "put"
      BY <1>4 DEF PutNote, InvType, TypeOK
    <3>. QED
      BY <3>1, DeviceOfAssumption DEF Save, NoSave, Slot
  <2>2. CASE p # q
    <3>1. newest'[p] = newest[p] /\ \A e \in Device : local'[e][p] = local[e][p]
      BY <1>1, <1>4, <2>2 DEF PutNote, InvType, TypeOK
    <3>. QED
      BY <1>4, <3>1 DEF NewestSurvives, PutNote
  <2>3. CASE p = q
    <3>1. /\ local'[d][p] = record
          /\ newest'[p] = IF AtLeast(newest[p], record) THEN newest[p] ELSE record
          /\ ~AtLeast(local[d][p], record) /\ ~skewed
      BY <1>1, <1>4, <2>1, <2>3 DEF PutNote, InvType, TypeOK
    <3>2. CASE newest[p] = Absent
      BY <2>1, <3>1, <3>2, AtLeastReflexive
    <3>3. CASE newest[p] # Absent
      <4>1. PICK e \in Device : AtLeast(local[e][p], newest[p])
        BY <3>1, <3>3 DEF NewestSurvives
      <4>2. CASE newest'[p] = record
        BY <2>1, <3>1, <4>2, AtLeastReflexive
      <4>3. CASE newest'[p] = newest[p] /\ e = d
        <5>1. AtLeast(record, local[d][p])
          BY <1>1, <2>1, <3>1, AtLeastTotal
        <5>. QED
          BY <1>1, <2>1, <3>1, <4>1, <4>3, <5>1, AtLeastTransitive
      <4>4. CASE newest'[p] = newest[p] /\ e # d
        <5>1. local'[e][p] = local[e][p]
          BY <1>1, <1>4, <4>4 DEF PutNote
        <5>. QED
          BY <4>1, <4>4, <5>1
      <4>. QED
        BY <3>1, <4>2, <4>3, <4>4
    <3>. QED
      BY <3>2, <3>3
  <2>. QED
    BY <2>2, <2>3
<1>. QED
  BY <1>2, <1>3, <1>4, NoteWriters

(* Initially every device holds the greatest version. *)
LEMMA InitNewestSurvives == Init => NewestSurvives
<1>. SUFFICES ASSUME Init, NEW p \in Page, newest[p] # Absent
              PROVE  \E d \in Device : AtLeast(local[d][p], newest[p])
  BY DEF NewestSurvives
<1>1. PICK s \in Synchronized : /\ local = [d \in Device |-> s.local]
                                /\ newest = s.remote
  BY DEF Init
<1>2. s.local[p] \in Record /\ s.remote[p] \in Record /\ SameVersion(s.local[p], s.remote[p])
  <2>1. s.local[p] \in Slot /\ s.remote[p] \in Slot
    BY SynchronizedAssumption
  <2>. QED
    BY <1>1, <2>1, SynchronizedAssumption, SlotCases
<1>3. AtLeast(s.local[p], s.remote[p])
  BY <1>2, Versions DEF AtLeast, SameVersion, Newer
<1>4. PICK d \in Device : TRUE
  BY DeviceAssumption
<1>. QED
  BY <1>1, <1>3, <1>4

(* No download, stale listing, failure or termination discards the greatest
   version ever stored, as long as saves are stamped later than what they replace. *)
THEOREM NewestAlwaysSurvives == Spec => []NewestSurvives
<1>. QED
  BY TypeCorrect, InitNewestSurvives, NewestSurvivesStep, PTL DEF Spec

(* Whatever is saved while a run is under way, only a winning version      *)
(* replaces a note through synchronization.                                *)
THEOREM SyncNeverRegresses == Spec => SyncNeverRegressesLocal
<1>. DEFINE Advance ==
       \A d \in Device, p \in Page :
         local'[d][p] # local[d][p] /\ save' = save
           => local[d][p] = Absent \/ Newer(local'[d][p], local[d][p])
<1>1. InvType /\ [Next]_vars => Advance
  <2>. SUFFICES ASSUME InvType, [Next]_vars, NEW e \in Device, NEW q \in Page,
                       local'[e][q] # local[e][q], save' = save
                PROVE  local[e][q] = Absent \/ Newer(local'[e][q], local[e][q])
    OBVIOUS
  <2>1. ASSUME NEW d \in Device, Download(d)
        PROVE  local[e][q] = Absent \/ Newer(local'[e][q], local[e][q])
    BY <2>1, DownloadWins
  <2>2. ASSUME NEW w \in Panel, NEW p \in Page, PutNote(w, p)
        PROVE  FALSE
    BY <2>2 DEF PutNote, InvType, TypeOK, Save
  <2>. QED
    BY <2>1, <2>2, NoteWriters
<1>2. InvType /\ [Next]_vars => [Advance]_vars
  BY <1>1
<1>. QED
  BY TypeCorrect, <1>2, PTL DEF Spec, SyncNeverRegressesLocal

-----------------------------------------------------------------------------
(* Publication: what the bucket has held. *)

Published(d) ==
  /\ \A p \in Page : AtLeast(published[p], run[d].remote[p])
  /\ run[d].pc \in {"complete", "completeOther"} =>
       AtLeast(published[Current(d)], Local(d))

PublishedInv ==
  /\ \A p \in Page : AtLeast(published[p], remote[p])
  /\ \A d \in Device : Published(d)

(* Which steps write the bucket: an upload, or one whose answer is lost. *)
LEMMA BucketWriters ==
  ASSUME [Next]_vars
  PROVE  \/ UNCHANGED <<remote, published>>
         \/ \E d \in Device : WriteRemote(d) /\ (Upload(d) \/ UploadFails(d))
<1>1. CASE UNCHANGED vars
  BY <1>1 DEF vars
<1>2. ASSUME NEW d \in Device, Tick(d) \/ EngineStep(d) \/ EngineFault(d)
      PROVE  UNCHANGED <<remote, published>>
             \/ (WriteRemote(d) /\ (Upload(d) \/ UploadFails(d)))
  BY <1>2 DEF EngineStep, EngineFault, Tick, history,
       StartRun, ListLocal, ListQueue, ListRemoteKeys, GetRemote, MergeListings,
       ReportConflict, Defer, RecheckLocal, Upload, RetireStaleIntent,
       RecordFailure, Download, CompleteSynced, CompleteListed, Finish, ListDue,
       FailDueEntry, EndFailedRun, UploadFails, StorageFails, RunFails,
       FailureNotRecorded, WorkerTerminated
<1>3. ASSUME NEW w \in Panel, NEW p \in Page,
             BeginSave(w, p) \/ PanelStep(w, p) \/ SaveInterrupted(w, p)
      PROVE  UNCHANGED <<remote, published>>
  BY <1>3 DEF PanelStep, PutNote, BeginSave, Observe, SaveInterrupted, history
<1>. QED
  BY <1>1, <1>2, <1>3 DEF Next

(* An upload publishes the listed record, and nothing is unpublished. *)
LEMMA WriteRemotePublishes ==
  ASSUME InvType, NEW d \in Device, WriteRemote(d), run[d].todo # {}
  PROVE  /\ AtLeast(published'[Current(d)], Local(d))
         /\ remote'[Current(d)] = Local(d)
         /\ \A p \in Page : AtLeast(published'[p], published[p])
         /\ \A p \in Page \ {Current(d)} : /\ remote'[p] = remote[p]
                                           /\ published'[p] = published[p]
<1>1. /\ published \in [Page -> Slot] /\ remote \in [Page -> Slot]
      /\ Current(d) \in Page /\ Local(d) \in Slot
  BY CurrentPage DEF InvType, TypeOK
<1>2. published' = [published EXCEPT ![Current(d)] =
        IF AtLeast(published[Current(d)], Local(d)) THEN published[Current(d)] ELSE Local(d)]
  BY DEF WriteRemote
<1>3. CASE AtLeast(published[Current(d)], Local(d))
  <2>1. published' = published
    BY <1>1, <1>2, <1>3
  <2>. QED
    BY <1>1, <1>3, <2>1, AtLeastReflexive DEF WriteRemote
<1>4. CASE ~AtLeast(published[Current(d)], Local(d))
  <2>1. AtLeast(Local(d), published[Current(d)]) /\ AtLeast(Local(d), Local(d))
    BY <1>1, <1>4, AtLeastTotal, AtLeastReflexive
  <2>2. /\ published'[Current(d)] = Local(d)
        /\ \A p \in Page \ {Current(d)} : published'[p] = published[p]
    BY <1>1, <1>2, <1>4
  <2>. QED
    BY <1>1, <2>1, <2>2, AtLeastReflexive DEF WriteRemote
<1>. QED
  BY <1>3, <1>4

(* The greatest version the bucket has held never decreases. *)
LEMMA PublishedGrows ==
  ASSUME InvType, [Next]_vars, NEW p \in Page
  PROVE  AtLeast(published'[p], published[p])
<1>1. published[p] \in Slot
  BY DEF InvType, TypeOK
<1>2. ASSUME NEW d \in Device, WriteRemote(d), Upload(d) \/ UploadFails(d)
      PROVE  AtLeast(published'[p], published[p])
  <2>1. run[d].todo # {}
    BY <1>2, AtPage DEF Upload, UploadFails, At
  <2>. QED
    BY <1>2, <2>1, WriteRemotePublishes
<1>. QED
  BY <1>1, <1>2, BucketWriters, AtLeastReflexive

(* What the bucket holds never wins over the greatest it has held. *)
LEMMA RemotePublished ==
  ASSUME InvType, PublishedInv, [Next]_vars, NEW p \in Page
  PROVE  AtLeast(published'[p], remote'[p])
<1>1. CASE UNCHANGED <<remote, published>>
  BY <1>1 DEF PublishedInv
<1>2. ASSUME NEW d \in Device, WriteRemote(d), Upload(d) \/ UploadFails(d)
      PROVE  AtLeast(published'[p], remote'[p])
  <2>1. run[d].todo # {}
    BY <1>2, AtPage DEF Upload, UploadFails, At
  <2>2. CASE p = Current(d)
    BY <1>2, <2>1, <2>2, WriteRemotePublishes
  <2>3. CASE p # Current(d)
    BY <1>2, <2>1, <2>3, WriteRemotePublishes DEF PublishedInv
  <2>. QED
    BY <2>2, <2>3
<1>. QED
  BY <1>1, <1>2, BucketWriters

(* A run whose remote listing and page stay as they are. *)
LEMMA PublishedKept ==
  ASSUME InvType, InvType', PublishedInv, [Next]_vars, NEW d \in Device,
         run'[d].remote = run[d].remote,
         run'[d].pc \in {"complete", "completeOther"} =>
           AtLeast(published'[Current(d)'], Local(d)')
  PROVE  Published(d)'
<1>1. ASSUME NEW p \in Page
      PROVE  AtLeast(published'[p], run'[d].remote[p])
  <2>1. published[p] \in Slot /\ published'[p] \in Slot /\ run[d].remote[p] \in Slot
    BY DEF InvType, TypeOK, Run
  <2>2. AtLeast(published[p], run[d].remote[p])
    BY DEF PublishedInv, Published
  <2>. QED
    BY <2>1, <2>2, PublishedGrows, AtLeastTransitive
<1>. QED
  BY <1>1 DEF Published

(* An engine step preserves Published for its own run. *)
LEMMA PublishedEngine ==
  ASSUME InvType, InvType', PublishedInv, [Next]_vars, NEW d \in Device,
         EngineStep(d) \/ EngineFault(d)
  PROVE  Published(d)'
<1>1. /\ run \in [Device -> Run] /\ run[d] \in Run /\ run' \in [Device -> Run]
      /\ Published(d) /\ RunShape(run[d])
  BY DEF InvType, TypeOK, PublishedInv, Shape
<1>2. ASSUME run'[d].remote = EmptyPages, run'[d].pc \notin {"complete", "completeOther"}
      PROVE  Published(d)'
  BY <1>2 DEF Published, EmptyPages, AtLeast
<1>3. ASSUME run'[d].remote = run[d].remote,
             run'[d].pc \notin {"complete", "completeOther"}
      PROVE  Published(d)'
  BY <1>3, PublishedKept
<1>4. ASSUME NEW issue \in BOOLEAN, NEW deferral \in BOOLEAN, NextPage(d, issue, deferral)
      PROVE  Published(d)'
  <2>1. SameListings(d) /\ run'[d].pc = "page"
    BY <1>1, <1>4, NextPageFields, Zenon
  <2>. QED
    BY <1>3, <2>1 DEF SameListings
<1>5. ASSUME NEW pc \in PC \ {"complete", "completeOther"}, Goto(d, pc)
      PROVE  Published(d)'
  <2>1. SameListings(d) /\ run'[d].pc = pc
    BY <1>1, <1>5, GotoFields
  <2>. QED
    BY <1>3, <2>1 DEF SameListings
(* The page stays the same, so what is listed about it does. *)
<1>6. ASSUME NEW pc \in {"complete", "completeOther"}, Goto(d, pc),
             AtLeast(published'[Current(d)], Local(d))
      PROVE  Published(d)'
  <2>1. SameListings(d) /\ run'[d].todo = run[d].todo
    BY <1>1, <1>6, GotoFields DEF PC
  <2>2. Current(d)' = Current(d) /\ Local(d)' = Local(d)
    BY <2>1 DEF SameListings, Current, Local
  <2>. QED
    BY <1>6, <2>1, <2>2, PublishedKept DEF SameListings
<1>7. CASE StartRun(d) \/ RunFails(d) \/ Finish(d) \/ EndFailedRun(d)
           \/ WorkerTerminated(d) \/ (FailureNotRecorded(d) /\ EndRun(d, "failed"))
  <2>1. \/ run' = [run EXCEPT ![d] = IdleRun]
        \/ run' = [run EXCEPT ![d] = [IdleRun EXCEPT !.pc = "failing"]]
        \/ run' = [run EXCEPT ![d] = [IdleRun EXCEPT !.pc = "listing", !.now = clock[d]]]
    BY <1>7 DEF StartRun, RunFails, Finish, EndFailedRun, WorkerTerminated, EndRun
  <2>2. run'[d].remote = EmptyPages /\ run'[d].pc \in {"idle", "listing", "failing"}
    <3>1. CASE run' = [run EXCEPT ![d] = IdleRun]
      BY <1>1, <3>1 DEF IdleRun
    <3>2. CASE run' = [run EXCEPT ![d] = [IdleRun EXCEPT !.pc = "failing"]]
      BY <1>1, <3>2 DEF IdleRun
    <3>3. CASE run' = [run EXCEPT ![d] = [IdleRun EXCEPT !.pc = "listing", !.now = clock[d]]]
      BY <1>1, <3>3 DEF IdleRun
    <3>. QED
      BY <2>1, <3>1, <3>2, <3>3
  <2>. QED
    BY <1>2, <2>2
<1>8. CASE ListLocal(d) \/ ListQueue(d) \/ ListRemoteKeys(d) \/ MergeListings(d)
           \/ ListDue(d) \/ FailDueEntry(d)
           \/ (/\ At(d, "recordingFailure")
               /\ run' = [run EXCEPT ![d].todo = @ \ {Current(d)}])
  <2>1. run'[d].remote = run[d].remote /\ run'[d].pc \notin {"complete", "completeOther"}
    BY <1>1, <1>8 DEF ListLocal, ListQueue, ListRemoteKeys, MergeListings, ListDue,
                      FailDueEntry, At, Run
  <2>. QED
    BY <1>3, <2>1
<1>9. CASE GetRemote(d)
  <2>1. /\ Least(run[d].unread) \in Page
        /\ run'[d].remote = [run[d].remote EXCEPT ![Least(run[d].unread)] =
                               remote[Least(run[d].unread)]]
        /\ run'[d].pc = "listing" /\ published' = published
    BY <1>1, <1>9, LeastElement, PageAssumption DEF GetRemote, At, Run, history
  <2>2. run[d].remote \in [Page -> Slot]
    BY <1>1 DEF Run
  <2>3. \A p \in Page : AtLeast(published'[p], run'[d].remote[p])
    BY <1>1, <2>1, <2>2 DEF Published, PublishedInv
  <2>. QED
    BY <2>1, <2>3 DEF Published
<1>10. CASE ReportConflict(d) \/ Defer(d) \/ RecordFailure(d) \/ CompleteListed(d)
            \/ StorageFails(d)
  <2>1. \E issue, deferral \in BOOLEAN : NextPage(d, issue, deferral)
    BY <1>10, Zenon DEF ReportConflict, Defer, RecordFailure, CompleteListed, StorageFails
  <2>. QED
    BY <1>4, <2>1
<1>11. CASE RecheckLocal(d)
  BY <1>4, <1>5, <1>11 DEF RecheckLocal, PC
<1>12. CASE UploadFails(d) \/ RetireStaleIntent(d)
  BY <1>5, <1>12 DEF UploadFails, RetireStaleIntent, PC
<1>13. CASE Upload(d)
  <2>1. run[d].todo # {} /\ WriteRemote(d) /\ Goto(d, "complete")
    BY <1>13, AtPage DEF Upload, At
  <2>. QED
    BY <1>6, <2>1, WriteRemotePublishes
<1>14. CASE Download(d)
  <2>1. run[d].todo # {} /\ Verdict(Local(d), Remote(d)) = "remote-wins"
        /\ published' = published
    BY <1>14 DEF Download, Visiting, history
  <2>2. /\ Local(d) \in Slot /\ Remote(d) \in Slot /\ Current(d) \in Page
        /\ published[Current(d)] \in Slot
    BY <2>1, CurrentPage DEF InvType, TypeOK
  <2>3. AtLeast(published[Current(d)], Remote(d)) /\ AtLeast(Remote(d), Local(d))
    BY <1>1, <2>1, <2>2, VerdictRemoteWins DEF Published, Remote
  <2>4. AtLeast(published'[Current(d)], Local(d))
    BY <2>1, <2>2, <2>3, AtLeastTransitive
  <2>. QED
    BY <1>4, <1>6, <1>14, <2>4 DEF Download
<1>15. CASE CompleteSynced(d)
  <2>1. published' = published
    BY <1>15 DEF CompleteSynced, history
  <2>2. CASE At(d, "complete")
    <3>1. AtLeast(published'[Current(d)], Local(d))
      BY <1>1, <2>1, <2>2 DEF Published, At
    <3>. QED
      BY <1>4, <1>6, <1>15, <3>1 DEF CompleteSynced
  <2>3. CASE Visiting(d, "equal") \/ Visiting(d, "orphan")
    <3>1. /\ Local(d) \in Slot /\ Remote(d) \in Slot /\ Current(d) \in Page
          /\ Verdict(Local(d), Remote(d)) \in {"equal", "orphan"}
      BY <2>3, CurrentPage DEF Visiting
    <3>2. Local(d) = Remote(d)
      BY <3>1, VerdictEqual, VerdictOrphan
    <3>3. AtLeast(published'[Current(d)], Local(d))
      BY <1>1, <2>1, <3>1, <3>2 DEF Published, Remote
    <3>. QED
      BY <1>4, <1>6, <1>15, <3>3 DEF CompleteSynced
  <2>. QED
    BY <1>15, <2>2, <2>3 DEF CompleteSynced, Completing
<1>. QED
  BY <1>7, <1>8, <1>9, <1>10, <1>11, <1>12, <1>13, <1>14, <1>15
     DEF EngineStep, EngineFault, FailureNotRecorded

(* Every step preserves PublishedInv. *)
LEMMA PublishedStep == InvType /\ PublishedInv /\ [Next]_vars => PublishedInv'
<1>. SUFFICES ASSUME InvType, PublishedInv, [Next]_vars
              PROVE  PublishedInv'
  OBVIOUS
<1>1. InvType'
  BY StepType
<1>2. ASSUME NEW d \in Device PROVE Published(d)'
  <2>1. CASE EngineStep(d) \/ EngineFault(d)
    BY <1>1, <2>1, PublishedEngine
  <2>2. CASE run'[d] = run[d]
    <3>1. ASSUME run[d].pc \in {"complete", "completeOther"}
          PROVE  AtLeast(published'[Current(d)], Local(d))
      <4>1. /\ Current(d) \in Page /\ Local(d) \in Slot
            /\ published[Current(d)] \in Slot /\ published'[Current(d)] \in Slot
        BY <1>1, <3>1, AtPage, CurrentPage DEF InvType, TypeOK
      <4>2. AtLeast(published[Current(d)], Local(d))
        BY <3>1 DEF PublishedInv, Published
      <4>. QED
        BY <4>1, <4>2, PublishedGrows, AtLeastTransitive
    <3>2. Current(d)' = Current(d) /\ Local(d)' = Local(d)
      BY <2>2 DEF Current, Local
    <3>. QED
      BY <1>1, <2>2, <3>1, <3>2, PublishedKept
  <2>. QED
    BY <2>1, <2>2, RunWriters
<1>. QED
  BY <1>2, RemotePublished DEF PublishedInv

(* PublishedInv holds initially. *)
LEMMA PublishedInit == Init => PublishedInv
<1>. SUFFICES ASSUME Init PROVE PublishedInv
  OBVIOUS
<1>1. InvType
  BY InitType
<1>2. published = remote /\ \A d \in Device : run[d] = IdleRun
  BY DEF Init
<1>3. \A p \in Page : AtLeast(published[p], remote[p])
  BY <1>1, <1>2, AtLeastReflexive DEF InvType, TypeOK
<1>. QED
  BY <1>2, <1>3 DEF PublishedInv, Published, IdleRun, EmptyPages, AtLeast

(* The intent for a listed record leaves the queue only after the bucket   *)
(* has held that version or a winning one: neither a failed request nor a  *)
(* stale listing lets it go earlier.                                       *)
THEOREM CompletionAlwaysFollowsPublication == Spec => CompletionFollowsPublication
<1>. DEFINE PublishedFirst ==
       \A d \in Device, p \in Page :
         LET listed == run[d].local[p] IN
         /\ queue[d][p] # Absent /\ queue'[d][p] = Absent
         /\ listed # Absent /\ listed.revisionId = queue[d][p].revisionId
         => AtLeast(published[p], listed)
<1>1. InvType /\ PublishedInv /\ [Next]_vars => PublishedFirst
  <2>. SUFFICES ASSUME InvType, PublishedInv, [Next]_vars, NEW d \in Device, NEW p \in Page,
                       queue[d][p] # Absent, queue'[d][p] = Absent,
                       run[d].local[p] # Absent,
                       run[d].local[p].revisionId = queue[d][p].revisionId
                PROVE  AtLeast(published[p], run[d].local[p])
    OBVIOUS
  <2>1. /\ queue \in [Device -> [Page -> QueueSlot]] /\ run[d] \in Run
        /\ RunShape(run[d]) /\ Published(d)
    BY DEF InvType, TypeOK, Shape, PublishedInv
  <2>2. CASE RetireStaleIntent(d)
    <3>1. p = Current(d) /\ queue[d][p].revisionId = Queued(d).revisionId
      BY <2>1, <2>2 DEF RetireStaleIntent, Completed
    <3>2. Queued(d).revisionId # Local(d).revisionId
      BY <2>1, <2>2 DEF RetireStaleIntent, At, RunShape, Queued, Local, Current
    <3>. QED
      BY <3>1, <3>2 DEF Local
  <2>3. CASE CompleteSynced(d)
    <3>1. p = Current(d) /\ run[d].local[p] = Local(d)
      BY <2>1, <2>3 DEF CompleteSynced, Completed, Local
    <3>2. CASE At(d, "complete")
      BY <2>1, <3>1, <3>2 DEF Published, At
    <3>3. CASE Visiting(d, "equal")
      <4>1. Local(d) = Remote(d)
        BY <3>3, CurrentPage, VerdictEqual DEF Visiting
      <4>. QED
        BY <2>1, <3>1, <4>1 DEF Published, Remote
    <3>4. CASE Visiting(d, "orphan")
      BY <3>1, <3>4, CurrentPage, VerdictOrphan DEF Visiting
    <3>. QED
      BY <2>3, <3>2, <3>3, <3>4 DEF CompleteSynced, Completing
  <2>4. CASE CompleteListed(d)
    <3>1. p = Current(d) /\ run[d].local[p] = Local(d)
      BY <2>1, <2>4 DEF CompleteListed, Local
    <3>. QED
      BY <2>1, <2>4, <3>1 DEF CompleteListed, At, Published
  <2>5. CASE RecordFailure(d) \/ FailDueEntry(d)
    <3>1. PICK delay \in RetryDelays(NextAttempt(queue[d][Current(d)])),
               revision \in {Local(d).revisionId, Queued(d).revisionId} :
            queue' = [queue EXCEPT ![d][Current(d)] =
                        Failed(@, revision, clock[d], delay)]
      BY <2>5 DEF RecordFailure, FailDueEntry
    <3>2. queue[d][p] \in Entry /\ clock[d] \in Instant
      BY DEF InvType, TypeOK, QueueSlot
    <3>3. Failed(queue[d][p], revision, clock[d], delay) # Absent
      BY <3>2, FailedStays, RetryDelaysType
    <3>. QED
      BY <2>1, <3>1, <3>3
  <2>6. ASSUME NEW w \in Panel, NEW q \in Page, Observe(w, q)
        PROVE  FALSE
    <3>1. save[w][q] \in Save /\ save[w][q].stage = "observe"
      BY <2>6 DEF Observe, InvType, TypeOK
    <3>2. save[w][q].record.revisionId \in Revision
      BY <3>1 DEF Save, NoSave, Record
    <3>3. queue[d][p] \in QueueSlot /\ clock[d] \in Instant
      BY DEF InvType, TypeOK
    <3>4. Enqueued(queue[d][p], save[w][q].record.revisionId, clock[d]) # Absent
      BY <3>2, <3>3, EnqueuedStays
    <3>. QED
      BY <2>1, <2>6, <3>4 DEF Observe
  <2>. QED
    BY <2>2, <2>3, <2>4, <2>5, <2>6, QueueWriters
<1>2. InvType /\ PublishedInv /\ [Next]_vars => [PublishedFirst]_vars
  BY <1>1
<1>. QED
  BY TypeCorrect, PublishedInit, PublishedStep, <1>2, PTL
     DEF Spec, CompletionFollowsPublication

-----------------------------------------------------------------------------
(* Agreement: while nothing is saved here and nothing uploaded elsewhere,  *)
(* the listings stay accurate for the pages still to visit, and the pages  *)
(* already visited agree unless the summary says otherwise.                *)

ToAgree(d) == IF run[d].pc \in {"page", "put"}
              THEN run[d].todo
              ELSE run[d].todo \ {Current(d)}

VisitsAgree(d) ==
  /\ \A p \in ToAgree(d) : run[d].local[p] = local[d][p] /\ run[d].remote[p] = remote[p]
  /\ ~run[d].issues /\ ~run[d].deferred =>
       \A p \in Page \ run[d].todo : local[d][p] = remote[p]
  /\ run[d].pc \in {"complete", "completeOther"} => local[d][Current(d)] = remote[Current(d)]

Agreement(d) ==
  /\ run[d].pc # "idle" => outcome[d] = "none"
  /\ quiet[d] =>
       /\ outcome[d] = "synced" => local[d] = remote
       /\ run[d].pc = "listing" => ListingAccurate(d)
       /\ run[d].pc \in {"page", "put", "retire", "record", "complete", "completeOther"}
            => VisitsAgree(d)

AgreementInv == \A d \in Device : Agreement(d)

(* A step that leaves a run and what it compares alone preserves Agreement. *)
LEMMA AgreementElsewhere ==
  ASSUME NEW d \in Device, Agreement(d), run'[d] = run[d], outcome'[d] = outcome[d],
         quiet'[d] => quiet[d] /\ local'[d] = local[d] /\ remote' = remote
  PROVE  Agreement(d)'
<1>1. CASE ~quiet'[d]
  BY <1>1 DEF Agreement
<1>2. CASE quiet'[d]
  BY <1>2 DEF Agreement, ListingAccurate, VisitsAgree, ToAgree, Current
<1>. QED
  BY <1>1, <1>2

(* Leaving a page in agreement preserves Agreement. *)
LEMMA AgreementNextPage ==
  ASSUME InvType, NEW d \in Device, Agreement(d), run[d].todo # {},
         NEW issue \in BOOLEAN, NEW deferral \in BOOLEAN, NextPage(d, issue, deferral),
         UNCHANGED <<local, remote, outcome, quiet>>,
         run[d].pc \in {"page", "put", "retire", "record", "complete", "completeOther"},
         ~issue /\ ~deferral /\ quiet[d] => local[d][Current(d)] = remote[Current(d)]
  PROVE  Agreement(d)'
<1>1. /\ run \in [Device -> Run] /\ Current(d) \in run[d].todo /\ run[d].todo \subseteq Page
      /\ run[d].issues \in BOOLEAN /\ run[d].deferred \in BOOLEAN
  BY CurrentPage DEF InvType, TypeOK, Run
<1>2. /\ run'[d].pc = "page" /\ run'[d].todo = run[d].todo \ {Current(d)}
      /\ run'[d].issues = (run[d].issues \/ issue)
      /\ run'[d].deferred = (run[d].deferred \/ deferral)
      /\ SameListings(d)
  BY <1>1, NextPageFields, Zenon
<1>3. run'[d].local = run[d].local /\ run'[d].remote = run[d].remote
  BY <1>2 DEF SameListings
<1>4. outcome[d] = "none"
  BY DEF Agreement
<1>5. ASSUME quiet[d] PROVE VisitsAgree(d)'
  <2>1. VisitsAgree(d)
    BY <1>5 DEF Agreement
  <2>2. \A p \in run[d].todo \ {Current(d)} :
          run[d].local[p] = local[d][p] /\ run[d].remote[p] = remote[p]
    BY <2>1 DEF VisitsAgree, ToAgree
  <2>3. ToAgree(d)' = run[d].todo \ {Current(d)}
    BY <1>2 DEF ToAgree
  <2>4. ASSUME ~run'[d].issues, ~run'[d].deferred, NEW p \in Page \ run'[d].todo
        PROVE  local[d][p] = remote[p]
    <3>1. /\ ~run[d].issues /\ ~issue /\ ~run[d].deferred /\ ~deferral
      BY <1>1, <1>2, <2>4
    <3>. QED
      BY <1>2, <1>5, <2>1, <2>4, <3>1 DEF VisitsAgree
  <2>. QED
    BY <1>2, <1>3, <2>2, <2>3, <2>4 DEF VisitsAgree
<1>. QED
  BY <1>2, <1>4, <1>5 DEF Agreement

(* Moving within a page preserves Agreement. *)
LEMMA AgreementGoto ==
  ASSUME InvType, NEW d \in Device, Agreement(d), run[d].todo # {},
         NEW pc \in PC, Goto(d, pc), UNCHANGED <<local, remote, outcome, quiet>>,
         run[d].pc \in {"page", "put", "retire", "record", "complete", "completeOther"},
         pc \in {"put", "retire", "record", "complete", "completeOther"},
         pc = "put" => run[d].pc = "page",
         pc \in {"complete", "completeOther"} /\ quiet[d] =>
           local[d][Current(d)] = remote[Current(d)]
  PROVE  Agreement(d)'
<1>1. run \in [Device -> Run]
  BY DEF InvType, TypeOK
<1>2. /\ run'[d].pc = pc /\ run'[d].todo = run[d].todo
      /\ run'[d].issues = run[d].issues /\ run'[d].deferred = run[d].deferred
      /\ run'[d].local = run[d].local /\ run'[d].remote = run[d].remote
  BY <1>1, GotoFields DEF SameListings
<1>3. outcome[d] = "none" /\ Current(d)' = Current(d)
  BY <1>2 DEF Agreement, Current
<1>4. ASSUME quiet[d] PROVE VisitsAgree(d)'
  <2>1. VisitsAgree(d)
    BY <1>4 DEF Agreement
  <2>2. ToAgree(d)' \subseteq ToAgree(d)
    BY <1>2, <1>3 DEF ToAgree
  <2>. QED
    BY <1>2, <1>3, <1>4, <2>1, <2>2 DEF VisitsAgree
<1>. QED
  BY <1>2, <1>3, <1>4 DEF Agreement

(* Writing the bucket puts the page in agreement. *)
LEMMA AgreementWrite ==
  ASSUME InvType, NEW d \in Device, Agreement(d), run[d].pc = "put",
         WriteRemote(d), NEW pc \in {"retire", "record", "complete"}, Goto(d, pc),
         UNCHANGED <<local, outcome>>
  PROVE  Agreement(d)'
<1>1. /\ run \in [Device -> Run] /\ run[d].todo # {} /\ Current(d) \in run[d].todo
      /\ run[d].todo \subseteq Page /\ quiet \in [Device -> BOOLEAN]
  BY AtPage, CurrentPage DEF InvType, TypeOK, Run
<1>2. /\ run'[d].pc = pc /\ run'[d].todo = run[d].todo
      /\ run'[d].issues = run[d].issues /\ run'[d].deferred = run[d].deferred
      /\ run'[d].local = run[d].local /\ run'[d].remote = run[d].remote
  BY <1>1, GotoFields DEF SameListings, PC
<1>3. outcome[d] = "none" /\ Current(d)' = Current(d)
  BY <1>2 DEF Agreement, Current
<1>4. /\ remote'[Current(d)] = Local(d)
      /\ \A p \in Page \ {Current(d)} : remote'[p] = remote[p]
  BY <1>1, WriteRemotePublishes
<1>5. ASSUME quiet[d] PROVE VisitsAgree(d)'
  <2>1. VisitsAgree(d)
    BY <1>5 DEF Agreement
  <2>2. Local(d) = local[d][Current(d)]
    BY <1>1, <2>1 DEF VisitsAgree, ToAgree, Local
  <2>3. ToAgree(d)' = run[d].todo \ {Current(d)} /\ ToAgree(d) = run[d].todo
    BY <1>2, <1>3 DEF ToAgree
  <2>. QED
    BY <1>1, <1>2, <1>3, <1>4, <2>1, <2>2, <2>3 DEF VisitsAgree
<1>6. quiet'[d] => quiet[d]
  BY <1>1 DEF WriteRemote
<1>. QED
  BY <1>2, <1>3, <1>5, <1>6 DEF Agreement

(* So does a download. *)
LEMMA AgreementDownload ==
  ASSUME InvType, NEW d \in Device, Agreement(d), Download(d)
  PROVE  Agreement(d)'
<1>1. /\ run \in [Device -> Run] /\ run[d].todo # {} /\ Current(d) \in run[d].todo
      /\ run[d].pc = "page" /\ run[d].todo \subseteq Page
      /\ local \in [Device -> [Page -> Slot]]
  BY CurrentPage DEF InvType, TypeOK, Run, Download, Visiting, At
<1>2. CASE NextPage(d, TRUE, FALSE) /\ UNCHANGED local
  <2>1. UNCHANGED <<local, remote, outcome, quiet>>
    BY <1>2 DEF Download, history
  <2>. QED
    BY <1>1, <1>2, <2>1, AgreementNextPage, Zenon
<1>3. CASE Goto(d, "complete") /\ local' = [local EXCEPT ![d][Current(d)] = Remote(d)]
  <2>1. /\ run'[d].pc = "complete" /\ run'[d].todo = run[d].todo
        /\ run'[d].issues = run[d].issues /\ run'[d].deferred = run[d].deferred
        /\ run'[d].local = run[d].local /\ run'[d].remote = run[d].remote
    BY <1>1, <1>3, GotoFields DEF SameListings, PC
  <2>2. outcome[d] = "none" /\ Current(d)' = Current(d)
    BY <1>1, <2>1 DEF Agreement, Current
  <2>3. UNCHANGED <<remote, outcome, quiet>>
    BY DEF Download, history
  <2>4. /\ local'[d][Current(d)] = Remote(d)
        /\ \A p \in Page \ {Current(d)} : local'[d][p] = local[d][p]
    BY <1>1, <1>3
  <2>5. ASSUME quiet[d] PROVE VisitsAgree(d)'
    <3>1. VisitsAgree(d)
      BY <1>1, <2>5 DEF Agreement
    <3>2. Remote(d) = remote[Current(d)]
      BY <1>1, <3>1 DEF VisitsAgree, ToAgree, Remote
    <3>3. ToAgree(d)' = run[d].todo \ {Current(d)} /\ ToAgree(d) = run[d].todo
      BY <1>1, <2>1, <2>2 DEF ToAgree
    <3>. QED
      BY <1>1, <2>1, <2>2, <2>3, <2>4, <3>1, <3>2, <3>3 DEF VisitsAgree
  <2>. QED
    BY <2>1, <2>2, <2>3, <2>5 DEF Agreement
<1>. QED
  BY <1>2, <1>3 DEF Download

(* The listings establish Agreement from what they read. *)
LEMMA AgreementListing ==
  ASSUME InvType, NEW d \in Device, Agreement(d),
         \/ StartRun(d) \/ ListLocal(d) \/ ListQueue(d) \/ ListRemoteKeys(d)
         \/ GetRemote(d) \/ MergeListings(d)
  PROVE  Agreement(d)'
<1>1. /\ run \in [Device -> Run] /\ run[d] \in Run /\ outcome \in [Device -> Outcome]
      /\ local[d] \in [Page -> Slot] /\ remote \in [Page -> Slot]
  BY DEF InvType, TypeOK
<1>2. CASE StartRun(d)
  <2>1. run' = [run EXCEPT ![d] = [IdleRun EXCEPT !.pc = "listing", !.now = clock[d]]]
        /\ outcome'[d] = "none"
    BY <1>1, <1>2 DEF StartRun
  <2>2. /\ run'[d].pc = "listing" /\ run'[d].listed = {} /\ run'[d].unread = {}
        /\ run'[d].remote = EmptyPages
    BY <1>1, <2>1 DEF IdleRun
  <2>. QED
    BY <2>1, <2>2 DEF Agreement, ListingAccurate
<1>3. ASSUME run[d].pc = "listing", run'[d].pc = "listing",
             UNCHANGED <<local, remote, outcome, quiet>>,
             quiet[d] /\ ListingAccurate(d) => ListingAccurate(d)'
      PROVE  Agreement(d)'
  BY <1>3 DEF Agreement
<1>4. CASE ListLocal(d)
  <2>1. /\ run[d].pc = "listing" /\ run'[d].pc = "listing" /\ run'[d].local = local[d]
        /\ run'[d].listed = run[d].listed \cup {"local"}
        /\ run'[d].unread = run[d].unread /\ run'[d].remote = run[d].remote
    BY <1>1, <1>4 DEF ListLocal, At, Run
  <2>2. UNCHANGED <<local, remote, outcome, quiet>>
    BY <1>4 DEF ListLocal, history
  <2>. QED
    BY <1>3, <2>1, <2>2 DEF ListingAccurate
<1>5. CASE ListQueue(d)
  <2>1. /\ run[d].pc = "listing" /\ run'[d].pc = "listing"
        /\ run'[d].local = run[d].local
        /\ run'[d].listed = run[d].listed \cup {"queue"}
        /\ run'[d].unread = run[d].unread /\ run'[d].remote = run[d].remote
    BY <1>1, <1>5 DEF ListQueue, At, Run
  <2>2. UNCHANGED <<local, remote, outcome, quiet>>
    BY <1>5 DEF ListQueue, history
  <2>. QED
    BY <1>3, <2>1, <2>2 DEF ListingAccurate
<1>6. CASE ListRemoteKeys(d)
  <2>1. /\ run[d].pc = "listing" /\ run'[d].pc = "listing"
        /\ run'[d].local = run[d].local /\ "remote" \notin run[d].listed
        /\ run'[d].listed = run[d].listed \cup {"remote"}
        /\ run'[d].unread = {p \in Page : remote[p] # Absent}
        /\ run'[d].remote = run[d].remote
    BY <1>1, <1>6 DEF ListRemoteKeys, At, Run
  <2>2. UNCHANGED <<local, remote, outcome, quiet>>
    BY <1>6 DEF ListRemoteKeys, history
  <2>3. ASSUME ListingAccurate(d) PROVE ListingAccurate(d)'
    <3>1. \A p \in Page \ run'[d].unread : run'[d].remote[p] = remote[p]
      BY <2>1, <2>3 DEF ListingAccurate, EmptyPages
    <3>. QED
      BY <2>1, <2>2, <2>3, <3>1 DEF ListingAccurate
  <2>. QED
    BY <1>3, <2>1, <2>2, <2>3
<1>7. CASE GetRemote(d)
  <2>. DEFINE p == Least(run[d].unread)
  <2>1. /\ run[d].pc = "listing" /\ run'[d].pc = "listing"
        /\ run'[d].local = run[d].local /\ run'[d].listed = run[d].listed
        /\ run'[d].unread = run[d].unread \ {p} /\ run[d].unread # {}
        /\ run'[d].remote = [run[d].remote EXCEPT ![p] = remote[p]]
    BY <1>1, <1>7 DEF GetRemote, At, Run
  <2>2. UNCHANGED <<local, remote, outcome, quiet>>
    BY <1>7 DEF GetRemote, history
  <2>3. run[d].remote \in [Page -> Slot]
    BY <1>1 DEF Run
  <2>4. ASSUME ListingAccurate(d) PROVE ListingAccurate(d)'
    BY <2>1, <2>2, <2>3, <2>4 DEF ListingAccurate
  <2>. QED
    BY <1>3, <2>1, <2>2, <2>4
<1>8. CASE MergeListings(d)
  <2>1. /\ run[d].pc = "listing" /\ run[d].listed = Source /\ run[d].unread = {}
        /\ run'[d].pc = "page"
        /\ run'[d].local = run[d].local /\ run'[d].remote = run[d].remote
        /\ run'[d].todo = {p \in Page : \/ run[d].local[p] # Absent
                                       \/ run[d].remote[p] # Absent
                                       \/ run[d].queue[p] # Absent}
    BY <1>1, <1>8 DEF MergeListings, At, Run
  <2>2. UNCHANGED <<local, remote, outcome, quiet>>
    BY <1>8 DEF MergeListings, history
  <2>3. ASSUME quiet[d] PROVE VisitsAgree(d)'
    <3>1. /\ run[d].local = local[d]
          /\ \A p \in Page : run[d].remote[p] = remote[p]
      BY <2>1, <2>3 DEF Agreement, ListingAccurate, Source
    <3>2. ToAgree(d)' = run'[d].todo /\ run'[d].todo \subseteq Page
      BY <2>1 DEF ToAgree
    <3>3. \A p \in Page \ run'[d].todo : local[d][p] = Absent /\ remote[p] = Absent
      BY <2>1, <3>1
    <3>. QED
      BY <2>1, <2>2, <3>1, <3>2, <3>3 DEF VisitsAgree
  <2>. QED
    BY <2>1, <2>2, <2>3 DEF Agreement
<1>. QED
  BY <1>2, <1>4, <1>5, <1>6, <1>7, <1>8

(* The loop over the pages preserves Agreement. *)
LEMMA AgreementLoop ==
  ASSUME InvType, NEW d \in Device, Agreement(d),
         \/ ReportConflict(d) \/ Defer(d) \/ RecheckLocal(d) \/ Upload(d)
         \/ RetireStaleIntent(d) \/ RecordFailure(d) \/ Download(d)
         \/ CompleteSynced(d) \/ CompleteListed(d)
         \/ UploadFails(d) \/ StorageFails(d)
  PROVE  Agreement(d)'
<1>1. ASSUME run[d].todo # {},
             NEW issue \in BOOLEAN, NEW deferral \in BOOLEAN, NextPage(d, issue, deferral),
             issue \/ deferral,
             UNCHANGED <<local, remote, outcome, quiet>>,
             run[d].pc \in {"page", "put", "retire", "record", "complete", "completeOther"}
      PROVE  Agreement(d)'
  BY <1>1, AgreementNextPage, Zenon
<1>2. ASSUME run[d].todo # {}, NextPage(d, FALSE, FALSE),
             UNCHANGED <<local, remote, outcome, quiet>>,
             run[d].pc \in {"page", "put", "retire", "record", "complete", "completeOther"},
             quiet[d] => local[d][Current(d)] = remote[Current(d)]
      PROVE  Agreement(d)'
  BY <1>2, AgreementNextPage, Zenon
<1>3. CASE ReportConflict(d)
  <2>1. run[d].pc = "page" /\ run[d].todo # {} /\ NextPage(d, TRUE, FALSE)
    BY <1>3, Zenon DEF ReportConflict, Visiting, At
  <2>2. UNCHANGED <<local, remote, outcome, quiet>>
    BY <1>3 DEF ReportConflict, history
  <2>. QED
    BY <1>1, <2>1, <2>2
<1>4. CASE Defer(d)
  <2>1. run[d].pc = "page" /\ run[d].todo # {} /\ NextPage(d, FALSE, TRUE)
    BY <1>4, Zenon DEF Defer, Visiting, At
  <2>2. UNCHANGED <<local, remote, outcome, quiet>>
    BY <1>4 DEF Defer, history
  <2>. QED
    BY <1>1, <2>1, <2>2
<1>5. CASE RecheckLocal(d)
  <2>1. run[d].pc = "page" /\ run[d].todo # {}
        /\ UNCHANGED <<local, remote, outcome, quiet>>
    BY <1>5 DEF RecheckLocal, Visiting, At, history
  <2>2. CASE Goto(d, "put")
    BY <2>1, <2>2, AgreementGoto DEF PC
  <2>3. CASE NextPage(d, TRUE, FALSE)
    BY <1>1, <2>1, <2>3
  <2>. QED
    BY <1>5, <2>2, <2>3 DEF RecheckLocal
<1>6. CASE Upload(d)
  BY <1>6, AgreementWrite DEF Upload, At
<1>7. CASE UploadFails(d)
  <2>1. run[d].pc = "put" /\ run[d].todo # {} /\ UNCHANGED <<local, outcome>>
    BY <1>7, AtPage DEF UploadFails, At
  <2>2. PICK pc \in {"retire", "record"} : Goto(d, pc)
    BY <1>7 DEF UploadFails
  <2>3. CASE WriteRemote(d)
    BY <2>1, <2>2, <2>3, AgreementWrite
  <2>4. CASE UNCHANGED <<remote, published, quiet>>
    BY <2>1, <2>2, <2>4, AgreementGoto DEF PC
  <2>. QED
    BY <1>7, <2>3, <2>4 DEF UploadFails
<1>8. CASE RetireStaleIntent(d)
  <2>1. run[d].pc = "retire" /\ run[d].todo # {} /\ Goto(d, "record")
        /\ UNCHANGED <<local, remote, outcome, quiet>>
    BY <1>8, AtPage DEF RetireStaleIntent, At, history
  <2>. QED
    BY <2>1, AgreementGoto DEF PC
<1>9. CASE RecordFailure(d)
  <2>1. run[d].pc = "record" /\ run[d].todo # {}
        /\ UNCHANGED <<local, remote, outcome, quiet>>
    BY <1>9, AtPage DEF RecordFailure, At, history
  <2>2. NextPage(d, TRUE, FALSE)
    BY <1>9, Zenon DEF RecordFailure
  <2>. QED
    BY <1>1, <2>1, <2>2
<1>10. CASE Download(d)
  BY <1>10, AgreementDownload
<1>11. CASE CompleteSynced(d)
  <2>1. UNCHANGED <<local, remote, outcome, quiet>>
    BY <1>11 DEF CompleteSynced, history
  <2>2. run[d].pc \in {"page", "complete"} /\ run[d].todo # {}
    BY <1>11, AtPage DEF CompleteSynced, Completing, Visiting, At
  <2>3. ASSUME quiet[d] PROVE local[d][Current(d)] = remote[Current(d)]
    <3>1. VisitsAgree(d)
      BY <2>2, <2>3 DEF Agreement
    <3>2. CASE run[d].pc = "complete"
      BY <3>1, <3>2 DEF VisitsAgree
    <3>3. CASE Visiting(d, "equal") \/ Visiting(d, "orphan")
      <4>1. Current(d) \in ToAgree(d)
        BY <2>2, <3>3, CurrentPage DEF ToAgree, Visiting, At
      <4>2. Local(d) = local[d][Current(d)] /\ Remote(d) = remote[Current(d)]
        BY <3>1, <4>1 DEF VisitsAgree, Local, Remote
      <4>3. Local(d) = Remote(d)
        <5>1. /\ Local(d) \in Slot /\ Remote(d) \in Slot
              /\ Verdict(Local(d), Remote(d)) \in {"equal", "orphan"}
          BY <3>3, CurrentPage DEF Visiting
        <5>. QED
          BY <5>1, VerdictEqual, VerdictOrphan
      <4>. QED
        BY <4>2, <4>3
    <3>. QED
      BY <1>11, <3>2, <3>3 DEF CompleteSynced, Completing, At
  <2>4. CASE Goto(d, "completeOther")
    BY <2>1, <2>2, <2>3, <2>4, AgreementGoto DEF PC
  <2>5. CASE NextPage(d, FALSE, FALSE)
    BY <1>2, <2>1, <2>2, <2>3, <2>5
  <2>. QED
    BY <1>11, <2>4, <2>5 DEF CompleteSynced
<1>12. CASE CompleteListed(d)
  <2>1. run[d].pc = "completeOther" /\ run[d].todo # {}
        /\ UNCHANGED <<local, remote, outcome, quiet>>
    BY <1>12, AtPage DEF CompleteListed, At, history
  <2>2. NextPage(d, FALSE, FALSE)
    BY <1>12, Zenon DEF CompleteListed
  <2>3. quiet[d] => local[d][Current(d)] = remote[Current(d)]
    BY <2>1 DEF Agreement, VisitsAgree
  <2>. QED
    BY <1>2, <2>1, <2>2, <2>3
<1>13. CASE StorageFails(d)
  <2>1. run[d].pc \in {"page", "complete", "completeOther", "retire", "record"}
        /\ run[d].todo # {}
    BY <1>13, AtPage DEF StorageFails, Completing, Visiting, At
  <2>2. UNCHANGED <<local, remote, outcome, quiet>>
    BY <1>13 DEF StorageFails, history
  <2>3. NextPage(d, TRUE, FALSE)
    BY <1>13, Zenon DEF StorageFails
  <2>. QED
    BY <1>1, <2>1, <2>2, <2>3
<1>. QED
  BY <1>3, <1>4, <1>5, <1>6, <1>7, <1>8, <1>9, <1>10, <1>11, <1>12, <1>13

(* The end of a run, however it ends, preserves Agreement. *)
LEMMA AgreementEnd ==
  ASSUME InvType, NEW d \in Device, Agreement(d),
         \/ Finish(d) \/ RunFails(d) \/ ListDue(d) \/ FailDueEntry(d)
         \/ FailureNotRecorded(d) \/ EndFailedRun(d) \/ WorkerTerminated(d)
  PROVE  Agreement(d)'
<1>1. /\ run \in [Device -> Run] /\ run[d] \in Run /\ outcome \in [Device -> Outcome]
      /\ local[d] \in [Page -> Slot] /\ remote \in [Page -> Slot]
  BY DEF InvType, TypeOK
<1>2. UNCHANGED <<local, remote, quiet>>
  BY DEF Finish, RunFails, ListDue, FailDueEntry, FailureNotRecorded, EndFailedRun,
         WorkerTerminated, history
<1>3. ASSUME run' = [run EXCEPT ![d] = IdleRun],
             quiet[d] /\ outcome'[d] = "synced" => local[d] = remote
      PROVE  Agreement(d)'
  <2>1. run'[d].pc = "idle"
    BY <1>1, <1>3 DEF IdleRun
  <2>. QED
    BY <1>2, <1>3, <2>1 DEF Agreement
<1>4. ASSUME run'[d].pc \in {"failing", "recordingFailure"}, outcome'[d] = "none"
      PROVE  Agreement(d)'
  BY <1>4 DEF Agreement
<1>5. CASE Finish(d)
  <2>1. run[d].pc = "page" /\ run[d].todo = {} /\ run' = [run EXCEPT ![d] = IdleRun]
    BY <1>5 DEF Finish, At, EndRun
  <2>2. outcome'[d] = "synced" => ~run[d].issues /\ ~run[d].deferred
    BY <1>1, <1>5 DEF Finish, EndRun
  <2>3. ASSUME quiet[d], outcome'[d] = "synced" PROVE local[d] = remote
    <3>1. \A p \in Page : local[d][p] = remote[p]
      BY <2>1, <2>2, <2>3 DEF Agreement, VisitsAgree
    <3>. QED
      BY <1>1, <3>1
  <2>. QED
    BY <1>3, <2>1, <2>3
<1>6. CASE RunFails(d)
  <2>1. run' = [run EXCEPT ![d] = [IdleRun EXCEPT !.pc = "failing"]]
        /\ outcome'[d] = "none"
    BY <1>1, <1>6 DEF RunFails
  <2>2. run'[d].pc = "failing"
    BY <1>1, <2>1 DEF IdleRun
  <2>. QED
    BY <1>4, <2>1, <2>2
<1>7. CASE ListDue(d) \/ FailDueEntry(d)
           \/ (/\ At(d, "recordingFailure") /\ UNCHANGED outcome
               /\ run' = [run EXCEPT ![d].todo = @ \ {Current(d)}])
  <2>1. run[d].pc # "idle" /\ outcome' = outcome
    BY <1>7 DEF ListDue, FailDueEntry, At
  <2>2. run'[d].pc = "recordingFailure"
    BY <1>1, <1>7 DEF ListDue, FailDueEntry, At, Run
  <2>. QED
    BY <1>4, <2>1, <2>2 DEF Agreement
<1>8. CASE EndRun(d, "failed")
  <2>1. run' = [run EXCEPT ![d] = IdleRun] /\ outcome'[d] = "failed"
    BY <1>1, <1>8 DEF EndRun
  <2>. QED
    BY <1>3, <2>1
<1>9. CASE WorkerTerminated(d)
  <2>1. run' = [run EXCEPT ![d] = IdleRun] /\ outcome' = outcome /\ run[d].pc # "idle"
    BY <1>9 DEF WorkerTerminated, At
  <2>. QED
    BY <1>3, <2>1 DEF Agreement
<1>. QED
  BY <1>5, <1>6, <1>7, <1>8, <1>9 DEF FailureNotRecorded, EndFailedRun

(* Other devices and the side panels either leave what d compared alone or *)
(* end its quiet.                                                          *)
LEMMA AgreementOthers ==
  ASSUME InvType, NEW d \in Device, [Next]_vars,
         ~EngineStep(d), ~EngineFault(d), quiet'[d]
  PROVE  quiet[d] /\ local'[d] = local[d] /\ remote' = remote
<1>1. /\ local \in [Device -> [Page -> Slot]] /\ quiet \in [Device -> BOOLEAN]
  BY DEF InvType, TypeOK
<1>2. CASE UNCHANGED vars
  BY <1>2 DEF vars
<1>3. ASSUME NEW e \in Device, Tick(e)
      PROVE  UNCHANGED <<local, remote, quiet>>
  BY <1>3 DEF Tick, history
<1>4. ASSUME NEW e \in Device, e # d, EngineStep(e) \/ EngineFault(e)
      PROVE  quiet[d] /\ local'[d] = local[d] /\ remote' = remote
  <2>1. CASE WriteRemote(e)
    BY <1>1, <1>4, <2>1 DEF WriteRemote
  <2>2. CASE ~WriteRemote(e)
    BY <1>1, <1>4, <2>2 DEF EngineStep, EngineFault, history,
       StartRun, ListLocal, ListQueue, ListRemoteKeys, GetRemote, MergeListings,
       ReportConflict, Defer, RecheckLocal, Upload, RetireStaleIntent,
       RecordFailure, Download, CompleteSynced, CompleteListed, Finish, ListDue,
       FailDueEntry, EndFailedRun, UploadFails, StorageFails, RunFails,
       FailureNotRecorded, WorkerTerminated
  <2>. QED
    BY <2>1, <2>2
<1>5. ASSUME NEW w \in Panel, NEW p \in Page,
             BeginSave(w, p) \/ PanelStep(w, p) \/ SaveInterrupted(w, p)
      PROVE  quiet[d] /\ local'[d] = local[d] /\ remote' = remote
  BY <1>1, <1>5 DEF PanelStep, PutNote, BeginSave, Observe, SaveInterrupted, history
<1>. QED
  BY <1>2, <1>3, <1>4, <1>5 DEF Next

(* Every step preserves AgreementInv. *)
LEMMA AgreementStep == InvType /\ AgreementInv /\ [Next]_vars => AgreementInv'
<1>. SUFFICES ASSUME InvType, AgreementInv, [Next]_vars, NEW d \in Device
              PROVE  Agreement(d)'
  BY DEF AgreementInv
<1>1. Agreement(d)
  BY DEF AgreementInv
<1>2. CASE EngineStep(d) \/ EngineFault(d)
  BY <1>1, <1>2, AgreementListing, AgreementLoop, AgreementEnd DEF EngineStep, EngineFault
<1>3. CASE ~EngineStep(d) /\ ~EngineFault(d)
  BY <1>1, <1>3, RunWriters, AgreementOthers, AgreementElsewhere
<1>. QED
  BY <1>2, <1>3

(* AgreementInv holds initially: no run has finished. *)
LEMMA AgreementInit == Init => AgreementInv
<1>. SUFFICES ASSUME Init, NEW d \in Device PROVE Agreement(d)
  BY DEF AgreementInv
<1>1. run[d].pc = "idle" /\ quiet[d] = FALSE
  BY DEF Init, IdleRun
<1>. QED
  BY <1>1 DEF Agreement

(* Reporting synced is never wrong about what the run itself did: unless   *)
(* something was saved or uploaded around it, notes and bucket are equal.  *)
THEOREM SyncedAlwaysMeansAgreed == Spec => []SyncedMeansAgreed
<1>1. AgreementInv => SyncedMeansAgreed
  BY DEF AgreementInv, Agreement, SyncedMeansAgreed
<1>. QED
  BY TypeCorrect, AgreementInit, AgreementStep, <1>1, PTL DEF Spec

-----------------------------------------------------------------------------
(***************************************************************************)
(* Refinement.  On every device SyncEngine implements SyncedNotes.         *)
(***************************************************************************)

(* A run under way has no outcome yet. *)
NoOutcomeYet == \A d \in Device : ~At(d, "idle") => outcome[d] # "synced"

Windows(d) == {w \in Panel : DeviceOf[w] = d}
Waiting(d) ==
  [p \in Page |-> IF queue[d][p] = Absent THEN Absent ELSE queue[d][p].revisionId]

(* What the pages of d see of its run, unchanged. *)
SameRun(d) ==
  /\ At(d, "idle")' = At(d, "idle")
  /\ (outcome'[d] = "synced") = (outcome[d] = "synced")

SameSaves(d) == \A w \in Windows(d) : save'[w] = save[w]

(* What the pages of d see is unchanged. *)
LEMMA SurfaceStays ==
  ASSUME NEW d \in Device, local'[d] = local[d], queue'[d] = queue[d],
         SameSaves(d), SameRun(d)
  PROVE  UNCHANGED Surface(d)!surface
<1>1. [w \in Windows(d) |-> save[w]]' = [w \in Windows(d) |-> save[w]]
  BY DEF SameSaves, Windows
<1>2. Waiting(d)' = Waiting(d)
  BY DEF Waiting
<1>. QED
  BY <1>1, <1>2 DEF Surface!surface, SameRun, Windows, Waiting

(* No device has synchronized yet. *)
LEMMA NoOutcomeInit == Init => NoOutcomeYet
BY DEF Init, NoOutcomeYet, At, IdleRun

(* Another device's run, and time, change nothing on d. *)
LEMMA Elsewhere ==
  ASSUME InvType, NEW d \in Device, NEW e \in Device,
         Tick(e) \/ (e # d /\ (EngineStep(e) \/ EngineFault(e)))
  PROVE  /\ local'[d] = local[d] /\ queue'[d] = queue[d] /\ save' = save
         /\ run'[d] = run[d] /\ outcome'[d] = outcome[d]
BY DEF InvType, TypeOK, EngineStep, EngineFault, Goto, NextPage, EndRun, Tick,
       StartRun, ListLocal, ListQueue, ListRemoteKeys, GetRemote, MergeListings,
       ReportConflict, Defer, RecheckLocal, Upload, RetireStaleIntent,
       RecordFailure, Download, CompleteSynced, CompleteListed, Finish, ListDue,
       FailDueEntry, EndFailedRun, UploadFails, StorageFails, RunFails,
       FailureNotRecorded, WorkerTerminated

(* A queue operation of a run retires an entry, queues a failed upload or  *)
(* only reschedules one.                                                   *)
LEMMA SurfaceQueue ==
  ASSUME InvType, NEW d \in Device, NEW p \in Page, NEW slot \in QueueSlot,
         queue' = [queue EXCEPT ![d][p] = slot],
         slot # Absent /\ queue[d][p] # Absent => slot.revisionId = queue[d][p].revisionId,
         ~At(d, "idle"), SameRun(d), UNCHANGED <<local, save>>
  PROVE  [Surface(d)!NotesNext]_(Surface(d)!surface)
<1>. DEFINE waiting == Waiting(d)
<1>1. queue \in [Device -> [Page -> QueueSlot]]
  BY DEF InvType, TypeOK
<1>2. waiting' = [waiting EXCEPT ![p] = IF slot = Absent THEN Absent ELSE slot.revisionId]
  BY <1>1 DEF Waiting
<1>3. CASE slot = Absent /\ queue[d][p] # Absent
  <2>1. waiting[p] # Absent
    BY <1>1, <1>3, Entries, AbsentRevisionAssumption, RevisionAssumption DEF Waiting, QueueSlot
  <2>2. Surface(d)!Retire(p)
    BY <1>2, <1>3, <2>1 DEF Surface!Retire, SameRun, Waiting
  <2>. QED
    BY <2>2 DEF Surface!NotesNext
<1>4. CASE slot # Absent /\ queue[d][p] = Absent
  <2>1. slot.revisionId \in Revision
    BY <1>4, Entries DEF QueueSlot
  <2>2. Surface(d)!Requeue(p, slot.revisionId)
    BY <1>2, <1>4 DEF Surface!Requeue, SameRun, Waiting
  <2>. QED
    BY <2>1, <2>2 DEF Surface!NotesNext
<1>5. CASE (slot = Absent) = (queue[d][p] = Absent)
  <2>1. waiting' = waiting
    BY <1>1, <1>2, <1>5 DEF Waiting
  <2>. QED
    BY <2>1 DEF Surface!surface, SameRun, Waiting
<1>. QED
  BY <1>3, <1>4, <1>5

(* A step of a run writes the queue of its own device, if at all, and as   *)
(* SurfaceQueue wants it.                                                  *)
LEMMA SurfaceQueueOps ==
  ASSUME InvType, NEW d \in Device,
         \/ RetireStaleIntent(d) \/ CompleteSynced(d) \/ CompleteListed(d)
         \/ RecordFailure(d) \/ FailDueEntry(d)
  PROVE  [Surface(d)!NotesNext]_(Surface(d)!surface)
<1>. DEFINE p == Current(d)
<1>1. /\ queue \in [Device -> [Page -> QueueSlot]] /\ clock[d] \in Instant
      /\ run \in [Device -> Run] /\ run[d] \in Run
  BY DEF InvType, TypeOK
<1>2. run[d].todo # {}
  BY AtPage DEF RetireStaleIntent, CompleteSynced, CompleteListed, RecordFailure,
     FailDueEntry, At, Completing, Visiting
<1>3. p \in Page /\ Local(d) \in Slot /\ Remote(d) \in Slot /\ Queued(d) \in QueueSlot /\ p \in run[d].todo
  BY <1>2, CurrentPage
<1>4. ~At(d, "idle") /\ SameRun(d) /\ UNCHANGED <<local, save>>
  <2>1. CASE RetireStaleIntent(d) \/ CompleteSynced(d) \/ CompleteListed(d) \/ RecordFailure(d)
    <3>1. run'[d].pc # "idle" /\ run[d].pc # "idle"
      BY <1>1, <2>1, GotoFields, NextPageFields
         DEF RetireStaleIntent, CompleteSynced, CompleteListed, RecordFailure, At,
             Completing, Visiting, PC
    <3>. QED
      BY <2>1, <3>1 DEF RetireStaleIntent, CompleteSynced, CompleteListed, RecordFailure,
         At, SameRun
  <2>2. CASE FailDueEntry(d)
    BY <1>1, <2>2 DEF FailDueEntry, At, SameRun
  <2>. QED
    BY <2>1, <2>2
<1>5. CASE RetireStaleIntent(d) \/ CompleteSynced(d) \/ CompleteListed(d)
  <2>1. PICK revision : queue' = [queue EXCEPT ![d][p] = Completed(queue[d][p], revision)]
    BY <1>5 DEF RetireStaleIntent, CompleteSynced, CompleteListed
  <2>2. Completed(queue[d][p], revision) \in {queue[d][p], Absent} \cap QueueSlot
    BY <1>1, <1>3, CompletedType
  <2>. QED
    BY <1>3, <1>4, <2>1, <2>2, SurfaceQueue
<1>6. CASE RecordFailure(d) \/ FailDueEntry(d)
  <2>1. PICK delay \in Nat, revision \in Revision :
          queue' = [queue EXCEPT ![d][p] = Failed(queue[d][p], revision, clock[d], delay)]
    <3>1. CASE RecordFailure(d)
      <4>. HIDE DEF p
      <4>1. RunShape(run[d]) /\ run[d].pc = "record"
        BY <3>1 DEF RecordFailure, At, InvType, Shape
      <4>2. Verdict(Local(d), Remote(d)) = "local-wins"
        BY <4>1 DEF RunShape, Local, Remote, Current
      <4>3. Local(d).revisionId \in Revision
        BY <1>3, <4>2, VerdictLocalWins DEF Record
      <4>. QED
        BY <3>1, <4>3, RetryDelaysType DEF RecordFailure, p
    <3>2. CASE FailDueEntry(d)
      <4>1. Queued(d) # Absent
        BY <1>3, <3>2 DEF FailDueEntry, At, InvType, Shape, RunShape, Queued
      <4>2. Queued(d).revisionId \in Revision
        BY <1>3, <4>1, Entries DEF QueueSlot
      <4>. QED
        BY <3>2, <4>2, RetryDelaysType DEF FailDueEntry
    <3>. QED
      BY <1>6, <3>1, <3>2
  <2>. DEFINE slot == Failed(queue[d][p], revision, clock[d], delay)
  <2>2. slot \in QueueSlot
    BY <1>1, <1>3, FailedType
  <2>3. slot # Absent /\ queue[d][p] # Absent => slot.revisionId = queue[d][p].revisionId
    BY DEF Failed
  <2>. QED
    BY <1>3, <1>4, <2>1, <2>2, <2>3, SurfaceQueue
<1>. QED
  BY <1>5, <1>6

(* A download is one that wins over the note it replaces, or no download.  *)
LEMMA SurfaceDownload ==
  ASSUME InvType, NEW d \in Device, Download(d)
  PROVE  [Surface(d)!NotesNext]_(Surface(d)!surface)
<1>. DEFINE p == Current(d)
<1>1. local \in [Device -> [Page -> Slot]] /\ run \in [Device -> Run] /\ run[d] \in Run
  BY DEF InvType, TypeOK
<1>2. run[d].todo # {} /\ run[d].pc = "page"
  BY DEF Download, Visiting, At
<1>3. p \in Page /\ Local(d) \in Slot /\ Remote(d) \in Slot
  BY <1>2, CurrentPage
<1>4. run'[d].pc # "idle"
  BY <1>1, GotoFields, NextPageFields DEF Download, PC
<1>5. SameRun(d) /\ ~At(d, "idle") /\ UNCHANGED <<queue, save>>
  BY <1>2, <1>4 DEF Download, SameRun, At
<1>6. CASE local[d][p] = Local(d)
  <2>1. Remote(d) \in Record /\ (Local(d) # Absent => Newer(Remote(d), Local(d)))
    BY <1>3, VerdictRemoteWins, SlotCases DEF Download, Visiting
  <2>2. local'[d] = [local[d] EXCEPT ![p] = Remote(d)]
    BY <1>1, <1>6 DEF Download
  <2>3. Surface(d)!Download(p, Remote(d))
    BY <1>5, <1>6, <2>1, <2>2 DEF Surface!Download, Surface!Newer, Newer, SameRun
  <2>4. Remote(d) \in Surface(d)!Record
    BY <2>1 DEF Surface!Record, Surface!Instant, Record, Instant
  <2>. QED
    BY <1>3, <2>3, <2>4 DEF Surface!NotesNext
<1>7. CASE local[d][p] # Local(d)
  BY <1>5, <1>7, SurfaceStays DEF Download, SameSaves
<1>. QED
  BY <1>6, <1>7

(* The steps that start a run and end one.                                 *)
LEMMA SurfaceRun ==
  ASSUME InvType, NoOutcomeYet, NEW d \in Device,
         \/ StartRun(d) \/ RunFails(d) \/ Finish(d) \/ EndFailedRun(d)
         \/ FailureNotRecorded(d) \/ WorkerTerminated(d)
  PROVE  [Surface(d)!NotesNext]_(Surface(d)!surface)
<1>1. /\ run \in [Device -> Run] /\ run[d] \in Run
      /\ outcome \in [Device -> Outcome] /\ queue \in [Device -> [Page -> QueueSlot]]
  BY DEF InvType, TypeOK
<1>2. UNCHANGED <<local, queue, save>>
  BY DEF StartRun, RunFails, Finish, EndFailedRun, FailureNotRecorded, WorkerTerminated
<1>3. CASE At(d, "idle") /\ (StartRun(d) \/ RunFails(d))
  <2>1. run'[d].pc # "idle" /\ outcome'[d] # "synced"
    BY <1>1, <1>3 DEF StartRun, RunFails, IdleRun
  <2>2. Surface(d)!StartRun
    BY <1>2, <1>3, <2>1 DEF Surface!StartRun, At
  <2>. QED
    BY <2>2 DEF Surface!NotesNext
<1>4. CASE ~At(d, "idle") /\ run'[d].pc # "idle" /\ outcome'[d] # "synced"
  BY <1>2, <1>4, SurfaceStays DEF SameRun, SameSaves, At, NoOutcomeYet
<1>5. CASE ~At(d, "idle") /\ run'[d].pc = "idle" /\
           (outcome'[d] = "synced" => \A p \in Page : queue[d][p] = Absent)
  <2>1. outcome'[d] = "synced" => Surface(d)!NothingWaits
    BY <1>5 DEF Surface!NothingWaits
  <2>2. Surface(d)!EndRun
    <3>1. CASE outcome'[d] # "synced"
      BY <1>2, <1>5, <3>1 DEF Surface!EndRun, At
    <3>2. CASE outcome'[d] = "synced"
      BY <1>2, <1>5, <2>1, <3>2 DEF Surface!EndRun, At, Surface!NothingWaits
    <3>. QED
      BY <3>1, <3>2
  <2>. QED
    BY <2>2 DEF Surface!NotesNext
<1>6. CASE RunFails(d) /\ ~At(d, "idle")
  BY <1>1, <1>4, <1>6 DEF RunFails, IdleRun
<1>7. CASE Finish(d)
  <2>1. ~At(d, "idle")
    BY <1>7 DEF Finish, At
  <2>2. run'[d].pc = "idle"
    BY <1>1, <1>7 DEF Finish, EndRun, IdleRun
  <2>3. outcome'[d] = "synced" => \A p \in Page : queue[d][p] = Absent
    BY <1>1, <1>7 DEF Finish, EndRun
  <2>. QED
    BY <1>5, <2>1, <2>2, <2>3
<1>8. CASE EndFailedRun(d)
  BY <1>1, <1>5, <1>8 DEF EndFailedRun, EndRun, IdleRun, At
<1>9. CASE FailureNotRecorded(d)
  <2>1. CASE At(d, "failing") /\ EndRun(d, "failed")
    BY <1>1, <1>5, <2>1 DEF EndRun, IdleRun, At
  <2>2. CASE At(d, "recordingFailure") /\ UNCHANGED outcome
              /\ run' = [run EXCEPT ![d].todo = @ \ {Current(d)}]
    <3>1. run'[d].pc = run[d].pc
      BY <1>1, <2>2
    <3>. QED
      BY <1>4, <2>2, <3>1 DEF At, NoOutcomeYet
  <2>. QED
    BY <1>9, <2>1, <2>2 DEF FailureNotRecorded
<1>10. CASE WorkerTerminated(d)
  BY <1>1, <1>5, <1>10 DEF WorkerTerminated, IdleRun, At, NoOutcomeYet
<1>11. CASE StartRun(d)
  BY <1>3, <1>11 DEF StartRun
<1>. QED
  BY <1>3, <1>6, <1>7, <1>8, <1>9, <1>10, <1>11

(* The other steps of a run are not seen.                                  *)
LEMMA SurfaceQuiet ==
  ASSUME InvType, NEW d \in Device,
         \/ ListLocal(d) \/ ListQueue(d) \/ ListRemoteKeys(d) \/ GetRemote(d)
         \/ MergeListings(d) \/ ReportConflict(d) \/ Defer(d) \/ RecheckLocal(d)
         \/ Upload(d) \/ UploadFails(d) \/ StorageFails(d) \/ ListDue(d)
  PROVE  /\ UNCHANGED Surface(d)!surface
         /\ ~At(d, "idle") /\ ~At(d, "idle")' /\ outcome'[d] = outcome[d]
<1>1. run \in [Device -> Run] /\ run[d] \in Run
  BY DEF InvType, TypeOK
<1>2. UNCHANGED <<local, queue, save, outcome>>
  BY DEF ListLocal, ListQueue, ListRemoteKeys, GetRemote, MergeListings, ReportConflict,
     Defer, RecheckLocal, Upload, UploadFails, StorageFails, ListDue, history, WriteRemote
<1>3. run[d].pc # "idle"
  BY DEF ListLocal, ListQueue, ListRemoteKeys, GetRemote, MergeListings, ReportConflict,
     Defer, RecheckLocal, Upload, UploadFails, StorageFails, ListDue, Visiting, At, Completing
<1>4. run'[d].pc # "idle"
  <2>1. CASE ListLocal(d) \/ ListQueue(d) \/ ListRemoteKeys(d) \/ GetRemote(d) \/ MergeListings(d)
             \/ ListDue(d)
    BY <1>1, <1>3, <2>1 DEF ListLocal, ListQueue, ListRemoteKeys, GetRemote, MergeListings,
       ListDue, Run
  <2>2. CASE ReportConflict(d) \/ Defer(d) \/ StorageFails(d)
    BY <1>1, <2>2, NextPageFields DEF ReportConflict, Defer, StorageFails
  <2>3. CASE RecheckLocal(d) \/ Upload(d) \/ UploadFails(d)
    BY <1>1, <2>3, NextPageFields, GotoFields DEF RecheckLocal, Upload, UploadFails, PC
  <2>. QED
    BY <2>1, <2>2, <2>3
<1>. QED
  BY <1>2, <1>3, <1>4, SurfaceStays DEF SameRun, SameSaves, At

(* A save of a panel of d is a save of SyncedNotes, another is not seen.   *)
LEMMA SurfaceSave ==
  ASSUME InvType, NEW d \in Device, NEW w \in Panel, NEW p \in Page,
         BeginSave(w, p) \/ PanelStep(w, p) \/ SaveInterrupted(w, p)
  PROVE  [Surface(d)!NotesNext]_(Surface(d)!surface)
<1>1. /\ local \in [Device -> [Page -> Slot]] /\ queue \in [Device -> [Page -> QueueSlot]]
      /\ save \in [Panel -> [Page -> Save]] /\ clock \in [Device -> Instant]
      /\ DeviceOf[w] \in Device
  BY DeviceOfAssumption DEF InvType, TypeOK
<1>2. run' = run /\ outcome' = outcome /\ SameRun(d)
  BY DEF BeginSave, PanelStep, PutNote, Observe, SaveInterrupted, SameRun, At
<1>. DEFINE saves == [v \in Windows(d) |-> save[v]]
<1>3. CASE DeviceOf[w] # d
  <2>1. local'[d] = local[d] /\ queue'[d] = queue[d] /\ SameSaves(d)
    BY <1>1, <1>3 DEF BeginSave, PanelStep, PutNote, Observe, SaveInterrupted, SameSaves, Windows
  <2>. QED
    BY <1>2, <2>1, SurfaceStays
<1>4. CASE DeviceOf[w] = d
  <2>1. w \in Windows(d) /\ saves[w] = save[w]
    BY <1>4 DEF Windows
  <2>2. ASSUME NEW x, save' = [save EXCEPT ![w][p] = x]
        PROVE  saves' = [saves EXCEPT ![w][p] = x]
    BY <1>1, <2>2 DEF Windows
  <2>3. CASE BeginSave(w, p)
    <3>1. PICK record \in Surface(d)!Record :
            /\ IF local[d][p] = Absent THEN record.content # Cleared
                                     ELSE record.content # local[d][p].content
            /\ save' = [save EXCEPT ![w][p] = [stage |-> "put", record |-> record]]
      BY <1>1, <1>4, <2>3 DEF BeginSave, Surface!Record, Surface!Instant, Instant
    <3>2. save[w][p] = NoSave /\ UNCHANGED <<local, queue>>
      BY <2>3 DEF BeginSave
    <3>3. saves' = [saves EXCEPT ![w][p] = [stage |-> "put", record |-> record]]
      BY <2>2, <3>1
    <3>4. Surface(d)!BeginSave(w, p, record)
      BY <1>2, <2>1, <3>1, <3>2, <3>3
         DEF Surface!BeginSave, Surface!NoSave, NoSave, Windows, SameRun
    <3>. QED
      BY <2>1, <3>4 DEF Surface!NotesNext, Windows
  <2>4. CASE PutNote(w, p)
    <3>1. local'[d] = [local[d] EXCEPT ![p] = save[w][p].record] /\ save[w][p].stage = "put"
          /\ queue' = queue
      BY <1>1, <1>4, <2>4 DEF PutNote
    <3>2. saves' = [saves EXCEPT ![w][p].stage = "observe"]
      BY <1>1, <2>1, <2>4 DEF PutNote, Windows
    <3>3. Surface(d)!PutNote(w, p)
      BY <1>2, <2>1, <3>1, <3>2 DEF Surface!PutNote, Windows, SameRun
    <3>. QED
      BY <2>1, <3>3 DEF Surface!NotesNext, Windows
  <2>5. CASE Observe(w, p)
    <3>. DEFINE record == save[w][p].record
                waiting == Waiting(d)
    <3>1. save[w][p].stage = "observe" /\ local' = local
          /\ queue' = [queue EXCEPT ![d][p] = Enqueued(queue[d][p], record.revisionId, clock[d])]
      BY <1>4, <2>5 DEF Observe
    <3>2. save[w][p] # NoSave /\ save[w][p] \in Save
      BY <1>1, <3>1 DEF NoSave
    <3>3. record.revisionId \in Revision
      BY <3>2 DEF Save, Record
    <3>4. saves' = [saves EXCEPT ![w][p] = NoSave]
      BY <2>2, <2>5 DEF Observe
    <3>5. Enqueued(queue[d][p], record.revisionId, clock[d]).revisionId = record.revisionId
      BY DEF Enqueued
    <3>6. Enqueued(queue[d][p], record.revisionId, clock[d]) # Absent
      BY <1>1, <3>3, EnqueuedStays
    <3>7. waiting' = [waiting EXCEPT ![p] = record.revisionId]
      BY <1>1, <3>1, <3>5, <3>6 DEF Waiting
    <3>8. Surface(d)!Observe(w, p)
      BY <1>2, <2>1, <3>1, <3>4, <3>7
         DEF Surface!Observe, Surface!NoSave, NoSave, Windows, Waiting, SameRun
    <3>. QED
      BY <2>1, <3>8 DEF Surface!NotesNext, Windows
  <2>6. CASE SaveInterrupted(w, p)
    <3>1. save[w][p] # NoSave /\ UNCHANGED <<local, queue>>
          /\ saves' = [saves EXCEPT ![w][p] = NoSave]
      BY <2>2, <2>6 DEF SaveInterrupted
    <3>2. Surface(d)!DropSave(w, p)
      BY <1>2, <2>1, <3>1 DEF Surface!DropSave, Surface!NoSave, NoSave, Windows, SameRun
    <3>. QED
      BY <2>1, <3>2 DEF Surface!NotesNext, Windows
  <2>. QED
    BY <2>3, <2>4, <2>5, <2>6 DEF PanelStep
<1>. QED
  BY <1>3, <1>4

(* NoOutcomeYet is kept by every step. *)
LEMMA NoOutcomeStep == InvType /\ NoOutcomeYet /\ [Next]_vars => NoOutcomeYet'
<1>. SUFFICES ASSUME InvType, NoOutcomeYet, [Next]_vars, NEW d \in Device
              PROVE  run'[d].pc # "idle" => outcome'[d] # "synced"
  BY DEF NoOutcomeYet, At
<1>1. run \in [Device -> Run] /\ outcome \in [Device -> Outcome]
  BY DEF InvType, TypeOK
<1>2. CASE run'[d] = run[d] /\ outcome'[d] = outcome[d]
  BY <1>2 DEF NoOutcomeYet, At
<1>3. CASE EngineStep(d) \/ EngineFault(d)
  <2>1. CASE StartRun(d) \/ RunFails(d)
    BY <1>1, <2>1 DEF StartRun, RunFails
  <2>2. CASE Finish(d) \/ EndFailedRun(d) \/ WorkerTerminated(d)
    BY <1>1, <2>2 DEF Finish, EndFailedRun, WorkerTerminated, EndRun, IdleRun
  <2>3. CASE FailureNotRecorded(d)
    BY <1>1, <2>3 DEF FailureNotRecorded, EndRun, IdleRun, NoOutcomeYet, At
  <2>4. CASE \/ RetireStaleIntent(d) \/ CompleteSynced(d) \/ CompleteListed(d)
             \/ RecordFailure(d) \/ FailDueEntry(d) \/ Download(d)
    BY <2>4 DEF RetireStaleIntent, CompleteSynced, CompleteListed, RecordFailure,
       FailDueEntry, Download, NoOutcomeYet, At, Completing, Visiting
  <2>. QED
    BY <1>3, <2>1, <2>2, <2>3, <2>4, SurfaceQuiet
       DEF EngineStep, EngineFault, NoOutcomeYet
<1>. QED
  BY <1>2, <1>3, RunWriters

(* Every step is, on every device, a step of SyncedNotes or not seen.      *)
LEMMA SurfaceStep ==
  ASSUME InvType, NoOutcomeYet, [Next]_vars, NEW d \in Device
  PROVE  [Surface(d)!NotesNext]_(Surface(d)!surface)
<1>1. CASE UNCHANGED vars
  BY <1>1, SurfaceStays DEF vars, SameRun, SameSaves, At
<1>2. ASSUME NEW e \in Device, Tick(e) \/ (e # d /\ (EngineStep(e) \/ EngineFault(e)))
      PROVE  UNCHANGED Surface(d)!surface
  BY <1>2, Elsewhere, SurfaceStays DEF SameRun, SameSaves, At
<1>3. CASE EngineStep(d) \/ EngineFault(d)
  BY <1>3, SurfaceQueueOps, SurfaceDownload, SurfaceRun, SurfaceQuiet
     DEF EngineStep, EngineFault
<1>4. ASSUME NEW w \in Panel, NEW p \in Page,
             BeginSave(w, p) \/ PanelStep(w, p) \/ SaveInterrupted(w, p)
      PROVE  [Surface(d)!NotesNext]_(Surface(d)!surface)
  BY <1>4, SurfaceSave
<1>. QED
  BY <1>1, <1>2, <1>3, <1>4 DEF Next

(* What the pages of every device see of it at first.                      *)
LEMMA SurfaceInit == Init => \A d \in Device : Surface(d)!NotesInit
<1>. SUFFICES ASSUME Init, NEW d \in Device PROVE Surface(d)!NotesInit
  OBVIOUS
<1>1. PICK s \in Synchronized : local = [e \in Device |-> s.local]
  BY DEF Init
<1>2. local[d] \in [Page -> Slot]
  BY <1>1, SynchronizedAssumption
<1>3. Surface(d)!Slot = Slot
  BY DEF Surface!Slot, Surface!Record, Surface!Instant, Slot, Record, Instant
<1>4. queue[d] = EmptyPages /\ run[d].pc = "idle" /\ outcome[d] = "none"
      /\ save = [w \in Panel |-> [p \in Page |-> NoSave]]
  BY DEF Init, IdleRun
<1>. QED
  BY <1>2, <1>3, <1>4 DEF Surface!NotesInit, Surface!NoSave, NoSave, EmptyPages, At

(* SyncEngine implements SyncedNotes on every device: whatever runs, fails *)
(* or is saved anywhere, the pages of a device see notes that only its own *)
(* saves and winning downloads change, and no synced run that leaves an    *)
(* entry behind.                                                           *)
THEOREM EngineImplementsSyncedNotes == Spec => ImplementsSyncedNotes
<1>1. InvType /\ NoOutcomeYet /\ [Next]_vars =>
        \A d \in Device :
          UNCHANGED Surface(d)!surface \/ Surface(d)!NotesNext
  BY SurfaceStep
<1>. QED
  BY TypeCorrect, NoOutcomeInit, NoOutcomeStep, SurfaceInit, <1>1, PTL
     DEF Spec, ImplementsSyncedNotes

-----------------------------------------------------------------------------
(* Replicas that agree. *)

(* Whenever every device agrees with the bucket, what they agree on is the *)
(* latest save: the safety part of Convergence.                            *)
THEOREM AgreementIsNewest ==
  Spec => []((\A d \in Device : local[d] = remote) /\ ~skewed
               => \A p \in Page : AtLeast(remote[p], newest[p]))
<1>1. NewestSurvives => ((\A d \in Device : local[d] = remote) /\ ~skewed
                           => \A p \in Page : AtLeast(remote[p], newest[p]))
  BY DEF NewestSurvives, AtLeast
<1>. QED
  BY NewestAlwaysSurvives, <1>1, PTL

(* Replicas that agree are left as they are: nothing wins. *)
LEMMA VerdictSame ==
  ASSUME NEW l \in Slot
  PROVE  Verdict(l, l) = IF l = Absent THEN "orphan" ELSE "equal"
<1>1. CASE l = Absent
  BY <1>1 DEF Verdict
<1>2. CASE l # Absent
  <2>1. ~Newer(l, l)
    BY <1>2, SlotCases, Versions DEF Newer
  <2>2. compareReplicaRecords(l, l) = "equal"
    BY <2>1 DEF compareReplicaRecords
  <2>. QED
    BY <1>2, <2>2 DEF Verdict
<1>. QED
  BY <1>1, <1>2

(* A run over replicas that agree meets no page with work to do. *)
LEMMA NothingToDo ==
  ASSUME InvType, AllAgree, NEW d \in Device, At(d, "page"), run[d].todo # {}
  PROVE  /\ Local(d) = Remote(d) /\ Queued(d) = Absent
         /\ Verdict(Local(d), Remote(d)) \in {"orphan", "equal"}
<1>1. /\ Current(d) \in Page /\ Local(d) \in Slot
  BY CurrentPage
<1>2. /\ run[d].local = local[d] /\ local[d] = remote /\ run[d].queue = EmptyPages
      /\ \A p \in Page : run[d].remote[p] = remote[p]
  BY DEF AllAgree, UpToDate, ListingAccurate, At, Source
<1>3. Local(d) = Remote(d) /\ Queued(d) = Absent
  BY <1>1, <1>2 DEF Local, Remote, Queued, EmptyPages
<1>. QED
  BY <1>1, <1>3, VerdictSame

(* A run that moves on within the listings keeps them.                     *)
LEMMA AgreePassing ==
  ASSUME InvType, AllAgree, NEW d \in Device,
         \/ ReportConflict(d) \/ Defer(d) \/ RecheckLocal(d) \/ Upload(d)
         \/ RetireStaleIntent(d) \/ RecordFailure(d) \/ Download(d)
         \/ CompleteSynced(d) \/ CompleteListed(d) \/ UploadFails(d) \/ StorageFails(d)
  PROVE  /\ \E issue \in BOOLEAN : NextPage(d, issue, FALSE)
         /\ At(d, "page") /\ run[d].todo # {}
         /\ UNCHANGED <<remote, local, queue>>
<1>1. run[d].pc \in {"idle", "listing", "page", "failing", "recordingFailure"}
  BY DEF AllAgree, UpToDate
<1>2. At(d, "page") /\ run[d].todo # {}
  BY <1>1 DEF ReportConflict, Defer, RecheckLocal, Upload, RetireStaleIntent, RecordFailure,
     Download, CompleteSynced, CompleteListed, UploadFails, StorageFails, Visiting, Completing, At
<1>3. /\ Queued(d) = Absent
      /\ Verdict(Local(d), Remote(d)) \in {"orphan", "equal"}
  BY <1>2, NothingToDo
<1>4. CASE StorageFails(d)
  BY <1>2, <1>4 DEF StorageFails
<1>5. CASE CompleteSynced(d)
  <2>1. Current(d) \in Page /\ queue \in [Device -> [Page -> QueueSlot]]
    BY <1>2, CurrentPage DEF InvType, TypeOK
  <2>2. queue[d][Current(d)] = Absent
    BY <2>1 DEF AllAgree, EmptyPages
  <2>3. queue' = queue
    BY <1>5, <2>1, <2>2 DEF CompleteSynced, Completed
  <2>. QED
    BY <1>2, <1>3, <1>5, <2>3 DEF CompleteSynced
<1>. QED
  BY <1>2, <1>3, <1>4, <1>5 DEF ReportConflict, Defer, RecheckLocal, Upload, RetireStaleIntent,
     RecordFailure, Download, CompleteListed, UploadFails, Visiting, At

(* A run starts, lists or ends without forgetting that all agree. *)
LEMMA AgreeListing ==
  ASSUME InvType, AllAgree, NEW d \in Device,
         \/ StartRun(d) \/ ListLocal(d) \/ ListQueue(d) \/ ListRemoteKeys(d)
         \/ GetRemote(d) \/ MergeListings(d)
  PROVE  UpToDate(d)' /\ UNCHANGED <<remote, local, queue>>
<1>1. /\ run \in [Device -> Run] /\ run[d] \in Run
      /\ UpToDate(d) /\ ListingAccurate(d) /\ queue[d] = EmptyPages
  BY DEF InvType, TypeOK, AllAgree, UpToDate
<1>2. UNCHANGED <<remote, local, queue>>
  BY DEF StartRun, ListLocal, ListQueue, ListRemoteKeys, GetRemote, MergeListings
<1>3. CASE StartRun(d)
  <2>1. run'[d] = [IdleRun EXCEPT !.pc = "listing", !.now = clock[d]]
    BY <1>1, <1>3 DEF StartRun
  <2>. QED
    BY <1>2, <2>1 DEF UpToDate, ListingAccurate, IdleRun
<1>4. CASE ListLocal(d)
  <2>1. run'[d] = [run[d] EXCEPT !.local = local[d], !.listed = @ \cup {"local"}]
    BY <1>1, <1>4 DEF ListLocal
  <2>. QED
    BY <1>1, <1>2, <1>4, <2>1 DEF UpToDate, ListingAccurate, Run, ListLocal, At
<1>5. CASE ListQueue(d)
  <2>1. run'[d] = [run[d] EXCEPT !.queue = queue[d], !.listed = @ \cup {"queue"}]
    BY <1>1, <1>5 DEF ListQueue
  <2>. QED
    BY <1>1, <1>2, <1>5, <2>1 DEF UpToDate, ListingAccurate, Run, ListQueue, At
<1>6. CASE ListRemoteKeys(d)
  <2>1. run'[d] = [run[d] EXCEPT !.unread = {p \in Page : remote[p] # Absent},
                                 !.listed = @ \cup {"remote"}]
    BY <1>1, <1>6 DEF ListRemoteKeys
  <2>2. /\ run'[d].pc = "listing" /\ run'[d].queue = run[d].queue
        /\ run'[d].local = run[d].local /\ run'[d].remote = EmptyPages
        /\ run'[d].listed = run[d].listed \cup {"remote"}
        /\ run'[d].unread = {p \in Page : remote[p] # Absent}
    BY <1>1, <1>6, <2>1 DEF Run, ListRemoteKeys, At, ListingAccurate
  <2>. QED
    BY <1>1, <1>2, <2>2 DEF UpToDate, ListingAccurate, EmptyPages
<1>7. CASE GetRemote(d)
  <2>. DEFINE p == Least(run[d].unread)
  <2>1. run'[d] = [run[d] EXCEPT !.remote[p] = remote[p], !.unread = @ \ {p}]
    BY <1>1, <1>7 DEF GetRemote
  <2>2. /\ run'[d].pc = "listing" /\ run'[d].queue = run[d].queue
        /\ run'[d].local = run[d].local /\ run'[d].listed = run[d].listed
        /\ run'[d].remote = [run[d].remote EXCEPT ![p] = remote[p]]
        /\ run'[d].unread = run[d].unread \ {p}
        /\ "remote" \in run[d].listed /\ run[d].remote \in [Page -> Slot]
    BY <1>1, <1>7, <2>1 DEF Run, GetRemote, At, ListingAccurate
  <2>. QED
    BY <1>1, <1>2, <2>2 DEF UpToDate, ListingAccurate
<1>8. CASE MergeListings(d)
  <2>1. /\ run'[d].pc = "page" /\ run'[d].queue = run[d].queue
        /\ run'[d].local = run[d].local /\ run'[d].remote = run[d].remote
        /\ run'[d].listed = run[d].listed /\ run'[d].unread = run[d].unread
        /\ run[d].listed = Source /\ run[d].unread = {}
    BY <1>1, <1>8 DEF MergeListings, Run, At
  <2>. QED
    BY <1>1, <1>2, <2>1 DEF UpToDate, ListingAccurate
<1>. QED
  BY <1>2, <1>3, <1>4, <1>5, <1>6, <1>7, <1>8

(* So does one that ends, fails or is terminated. *)
LEMMA AgreeEnding ==
  ASSUME InvType, AllAgree, NEW d \in Device,
         \/ Finish(d) \/ ListDue(d) \/ FailDueEntry(d) \/ EndFailedRun(d)
         \/ RunFails(d) \/ FailureNotRecorded(d) \/ WorkerTerminated(d)
  PROVE  UpToDate(d)' /\ UNCHANGED <<remote, local, queue>>
<1>1. /\ run \in [Device -> Run] /\ run[d] \in Run
      /\ UpToDate(d) /\ ListingAccurate(d) /\ queue[d] = EmptyPages
  BY DEF InvType, TypeOK, AllAgree, UpToDate
<1>2. ~FailDueEntry(d)
  BY <1>1 DEF FailDueEntry, UpToDate, At
<1>3. UNCHANGED <<remote, local, queue>>
  BY <1>2 DEF Finish, ListDue, EndFailedRun, RunFails, FailureNotRecorded, WorkerTerminated
<1>4. CASE ListDue(d)
  <2>1. /\ run'[d].pc = "recordingFailure" /\ run'[d].queue = queue[d]
        /\ run'[d].local = run[d].local /\ run'[d].remote = run[d].remote
        /\ run'[d].listed = run[d].listed /\ run'[d].unread = run[d].unread
        /\ run'[d].todo = {p \in Page : Due(queue[d][p], clock[d])}
    BY <1>1, <1>4 DEF ListDue, Run
  <2>2. run'[d].todo = {}
    BY <1>1, <2>1 DEF Due, EmptyPages
  <2>. QED
    BY <1>1, <1>3, <2>1, <2>2 DEF UpToDate, ListingAccurate
<1>5. ASSUME run'[d] = IdleRun \/ run'[d] = [IdleRun EXCEPT !.pc = "failing"]
      PROVE  UpToDate(d)'
  BY <1>3, <1>5 DEF UpToDate, ListingAccurate, IdleRun
<1>6. CASE Finish(d) \/ EndFailedRun(d) \/ RunFails(d) \/ WorkerTerminated(d)
  BY <1>1, <1>5, <1>6 DEF Finish, EndFailedRun, RunFails, WorkerTerminated, EndRun
<1>7. CASE FailureNotRecorded(d)
  <2>1. EndRun(d, "failed")
    BY <1>1, <1>7 DEF FailureNotRecorded, UpToDate, At
  <2>2. run'[d] = IdleRun
    BY <1>1, <2>1 DEF EndRun
  <2>. QED
    BY <1>3, <1>5, <2>2
<1>. QED
  BY <1>2, <1>3, <1>4, <1>6, <1>7

(* A step of a run over replicas that agree writes nothing and remembers   *)
(* nothing else.                                                           *)
LEMMA AgreeRun ==
  ASSUME InvType, AllAgree, NEW d \in Device, EngineStep(d) \/ EngineFault(d)
  PROVE  UpToDate(d)' /\ UNCHANGED <<remote, local, queue>>
<1>1. CASE \/ ReportConflict(d) \/ Defer(d) \/ RecheckLocal(d) \/ Upload(d)
           \/ RetireStaleIntent(d) \/ RecordFailure(d) \/ Download(d)
           \/ CompleteSynced(d) \/ CompleteListed(d) \/ UploadFails(d) \/ StorageFails(d)
  <2>1. /\ At(d, "page") /\ run[d].todo # {} /\ UNCHANGED <<remote, local, queue>>
        /\ UpToDate(d) /\ run \in [Device -> Run] /\ run[d] \in Run
    BY <1>1, AgreePassing, Zenon DEF InvType, TypeOK, AllAgree
  <2>2. PICK issue \in BOOLEAN : NextPage(d, issue, FALSE)
    BY <1>1, AgreePassing, Zenon
  <2>3. /\ run'[d].pc = "page" /\ run'[d].queue = run[d].queue
        /\ run'[d].local = run[d].local /\ run'[d].remote = run[d].remote
        /\ run'[d].listed = run[d].listed /\ run'[d].unread = run[d].unread
    BY <2>1, <2>2 DEF NextPage, Run
  <2>. QED
    BY <2>1, <2>3 DEF UpToDate, ListingAccurate, At
<1>. QED
  BY <1>1, AgreeListing, AgreeEnding DEF EngineStep, EngineFault

(* Once all agree, only a save changes a note, an object or a queue: the   *)
(* synchronization of agreed replicas is without effect, whatever fails.   *)
THEOREM AgreementAlwaysLasts == Spec => AgreementLasts
<1>1. ASSUME InvType, AllAgree, [Next]_vars, save' = save
      PROVE  AllAgree'
  <2>1. ASSUME UNCHANGED <<remote, local, queue>>, \A d \in Device : UpToDate(d)'
        PROVE  AllAgree'
    BY <1>1, <2>1 DEF AllAgree
  <2>2. ASSUME UNCHANGED <<remote, local, queue>>, NEW d \in Device, run'[d] = run[d]
        PROVE  UpToDate(d)'
    BY <1>1, <2>2 DEF AllAgree, UpToDate, ListingAccurate
  <2>3. CASE UNCHANGED vars
    BY <2>1, <2>2, <2>3 DEF vars
  <2>4. ASSUME NEW d \in Device, Tick(d) PROVE AllAgree'
    BY <2>1, <2>2, <2>4 DEF Tick
  <2>5. ASSUME NEW d \in Device, EngineStep(d) \/ EngineFault(d) PROVE AllAgree'
    <3>1. UpToDate(d)' /\ UNCHANGED <<remote, local, queue>>
      BY <1>1, <2>5, AgreeRun
    <3>2. \A e \in Device \ {d} : run'[e] = run[e]
      BY <1>1, <2>5, Elsewhere
    <3>. QED
      BY <2>1, <2>2, <3>1, <3>2
  <2>6. ASSUME NEW w \in Panel, NEW p \in Page,
               BeginSave(w, p) \/ PanelStep(w, p) \/ SaveInterrupted(w, p)
        PROVE  FALSE
    <3>1. save[w][p] = NoSave /\ save \in [Panel -> [Page -> Save]]
      BY <1>1 DEF AllAgree, InvType, TypeOK
    <3>2. BeginSave(w, p)
      BY <2>6, <3>1 DEF PanelStep, PutNote, Observe, SaveInterrupted, NoSave
    <3>3. save'[w][p].stage = "put"
      BY <3>1, <3>2 DEF BeginSave
    <3>. QED
      BY <1>1, <3>1, <3>3 DEF NoSave
  <2>. QED
    BY <1>1, <2>3, <2>4, <2>5, <2>6 DEF Next
<1>2. InvType /\ [Next]_vars => [AllAgree /\ save' = save => AllAgree']_vars
  BY <1>1
<1>. QED
  BY TypeCorrect, <1>2, PTL DEF Spec, AgreementLasts

-----------------------------------------------------------------------------
(* Integrity conflicts: no step of PagePerch brings one about. *)

(* What a step leaves of the listings of a run: nothing, the same, or the  *)
(* same with what is stored.                                               *)
LEMMA ListingWriters ==
  ASSUME InvType, [Next]_vars, NEW d \in Device
  PROVE  /\ run'[d].local \in {run[d].local, EmptyPages, local[d]}
         /\ \/ run'[d].remote \in {run[d].remote, EmptyPages}
            \/ \E p \in Page : run'[d].remote = [run[d].remote EXCEPT ![p] = remote[p]]
<1>1. run \in [Device -> Run] /\ run[d] \in Run
  BY DEF InvType, TypeOK
<1>2. CASE run'[d] = run[d]
  BY <1>2
<1>3. CASE StartRun(d) \/ RunFails(d) \/ Finish(d) \/ EndFailedRun(d)
           \/ WorkerTerminated(d) \/ (FailureNotRecorded(d) /\ EndRun(d, "failed"))
  <2>1. \/ run'[d] = IdleRun
        \/ run'[d] = [IdleRun EXCEPT !.pc = "failing"]
        \/ run'[d] = [IdleRun EXCEPT !.pc = "listing", !.now = clock[d]]
    BY <1>1, <1>3 DEF StartRun, RunFails, Finish, EndFailedRun, WorkerTerminated, EndRun
  <2>2. run'[d].local = EmptyPages /\ run'[d].remote = EmptyPages
    <3>1. CASE run'[d] = IdleRun
      BY <3>1 DEF IdleRun
    <3>2. CASE run'[d] = [IdleRun EXCEPT !.pc = "failing"]
      BY <3>2 DEF IdleRun
    <3>3. CASE run'[d] = [IdleRun EXCEPT !.pc = "listing", !.now = clock[d]]
      BY <3>3 DEF IdleRun
    <3>. QED
      BY <2>1, <3>1, <3>2, <3>3
  <2>. QED
    BY <2>2
<1>4. CASE ListLocal(d) \/ ListQueue(d) \/ ListRemoteKeys(d) \/ MergeListings(d)
           \/ ListDue(d) \/ FailDueEntry(d)
           \/ (/\ At(d, "recordingFailure")
               /\ run' = [run EXCEPT ![d].todo = @ \ {Current(d)}])
  <2>1. run'[d].local \in {run[d].local, local[d]} /\ run'[d].remote = run[d].remote
    BY <1>1, <1>4 DEF ListLocal, ListQueue, ListRemoteKeys, MergeListings, ListDue,
                      FailDueEntry, Run
  <2>. QED
    BY <2>1
<1>5. CASE GetRemote(d)
  <2>1. /\ Least(run[d].unread) \in Page
        /\ run'[d].remote = [run[d].remote EXCEPT ![Least(run[d].unread)] =
                               remote[Least(run[d].unread)]]
        /\ run'[d].local = run[d].local
    BY <1>1, <1>5, LeastElement, PageAssumption DEF GetRemote, Run
  <2>. QED
    BY <2>1
<1>6. ASSUME NEW pc \in PC, Goto(d, pc)
      PROVE  run'[d].local = run[d].local /\ run'[d].remote = run[d].remote
  BY <1>1, <1>6, GotoFields DEF SameListings
<1>7. ASSUME NEW issue \in BOOLEAN, NEW deferral \in BOOLEAN, NextPage(d, issue, deferral)
      PROVE  run'[d].local = run[d].local /\ run'[d].remote = run[d].remote
  BY <1>1, <1>7, NextPageFields, Zenon DEF SameListings
<1>8. CASE \/ ReportConflict(d) \/ Defer(d) \/ RecheckLocal(d) \/ Upload(d)
           \/ RetireStaleIntent(d) \/ RecordFailure(d) \/ Download(d)
           \/ CompleteSynced(d) \/ CompleteListed(d) \/ UploadFails(d) \/ StorageFails(d)
  <2>1. \/ \E pc \in PC : Goto(d, pc)
        \/ \E issue, deferral \in BOOLEAN : NextPage(d, issue, deferral)
    BY <1>8 DEF ReportConflict, Defer, RecheckLocal, Upload, RetireStaleIntent, RecordFailure,
       Download, CompleteSynced, CompleteListed, UploadFails, StorageFails, PC
  <2>. QED
    BY <1>6, <1>7, <2>1
<1>. QED
  BY <1>2, <1>3, <1>4, <1>5, <1>8, RunWriters
     DEF EngineStep, EngineFault, FailureNotRecorded

(* Which steps write a save in progress. *)
LEMMA SaveWriters ==
  ASSUME InvType, [Next]_vars, NEW v \in Panel, NEW p \in Page, save'[v][p] # NoSave
  PROVE  \/ save[v][p] # NoSave /\ save'[v][p].record = save[v][p].record
         \/ BeginSave(v, p)
<1>1. save \in [Panel -> [Page -> Save]]
  BY DEF InvType, TypeOK
<1>2. CASE save' = save
  BY <1>2
<1>3. ASSUME NEW w \in Panel, NEW q \in Page, w # v \/ q # p,
             BeginSave(w, q) \/ PanelStep(w, q) \/ SaveInterrupted(w, q)
      PROVE  save'[v][p] = save[v][p]
  BY <1>1, <1>3 DEF BeginSave, PanelStep, PutNote, Observe, SaveInterrupted
<1>4. CASE PutNote(v, p)
  <2>1. save[v][p] \in Save /\ save[v][p].stage = "put"
    BY <1>1, <1>4 DEF PutNote
  <2>2. save[v][p] # NoSave /\ save'[v][p] = [save[v][p] EXCEPT !.stage = "observe"]
    BY <1>1, <1>4, <2>1 DEF PutNote, NoSave
  <2>3. save[v][p] \in [stage : {"put", "observe"}, record : Record]
    BY <2>1, <2>2 DEF Save
  <2>. QED
    BY <2>2, <2>3
<1>5. ~Observe(v, p) /\ ~SaveInterrupted(v, p)
  BY <1>1 DEF Observe, SaveInterrupted
<1>6. ASSUME NEW d \in Device, Tick(d) \/ EngineStep(d) \/ EngineFault(d)
      PROVE  save' = save
  BY <1>6 DEF EngineStep, EngineFault, Tick,
       StartRun, ListLocal, ListQueue, ListRemoteKeys, GetRemote, MergeListings,
       ReportConflict, Defer, RecheckLocal, Upload, RetireStaleIntent,
       RecordFailure, Download, CompleteSynced, CompleteListed, Finish, ListDue,
       FailDueEntry, EndFailedRun, UploadFails, StorageFails, RunFails,
       FailureNotRecorded, WorkerTerminated
<1>. QED
  BY <1>2, <1>3, <1>4, <1>5, <1>6 DEF Next, PanelStep, vars

(* A copy is made from a copy, except the record of a new save. *)
LEMMA CopiesCopied ==
  ASSUME InvType, [Next]_vars, NEW p \in Page, NEW a \in Copies(p)'
  PROVE  a \in Copies(p) \/ \E w \in Panel : BeginSave(w, p) /\ a = save'[w][p].record
<1>1. /\ remote \in [Page -> Slot] /\ local \in [Device -> [Page -> Slot]]
      /\ a # Absent /\ \A d \in Device : run[d] \in Run
  BY DEF InvType, TypeOK, Copies
<1>2. CASE a = remote'[p]
  <2>1. ASSUME NEW d \in Device, WriteRemote(d)
        PROVE  a = remote[p] \/ a = run[d].local[p]
    BY <1>1, <1>2, <2>1 DEF WriteRemote, Local
  <2>. QED
    BY <1>1, <1>2, <2>1, BucketWriters DEF Copies
<1>3. ASSUME NEW e \in Device, a = local'[e][p]
      PROVE  a \in Copies(p)
  <2>1. ASSUME NEW d \in Device, Download(d)
        PROVE  a = local[e][p] \/ a = run[d].remote[p]
    <3>1. CASE local' = local
      BY <1>3, <3>1
    <3>2. CASE local' = [local EXCEPT ![d][Current(d)] = Remote(d)]
      <4>1. local'[e][p] = IF e = d /\ p = Current(d) THEN Remote(d) ELSE local[e][p]
        BY <1>1, <3>2
      <4>. QED
        BY <1>3, <4>1 DEF Remote
    <3>. QED
      BY <2>1, <3>1, <3>2 DEF Download
  <2>2. ASSUME NEW w \in Panel, NEW q \in Page, PutNote(w, q)
        PROVE  \/ a = local[e][p]
               \/ q = p /\ a = save[w][p].record /\ save[w][p] # NoSave
    BY <1>1, <1>3, <2>2 DEF PutNote, NoSave
  <2>. QED
    BY <1>1, <1>3, <2>1, <2>2, NoteWriters DEF Copies
<1>4. ASSUME NEW d \in Device, a = run'[d].local[p] \/ a = run'[d].remote[p]
      PROVE  a \in Copies(p)
  <2>1. CASE a = run'[d].local[p]
    <3>1. a = run[d].local[p] \/ a = EmptyPages[p] \/ a = local[d][p]
      BY <2>1, ListingWriters
    <3>. QED
      BY <1>1, <3>1 DEF Copies, EmptyPages
  <2>2. CASE a = run'[d].remote[p]
    <3>1. run[d].remote \in [Page -> Slot]
      BY <1>1 DEF Run
    <3>2. CASE run'[d].remote = run[d].remote \/ run'[d].remote = EmptyPages
      BY <1>1, <2>2, <3>2 DEF Copies, EmptyPages
    <3>3. ASSUME NEW q \in Page, run'[d].remote = [run[d].remote EXCEPT ![q] = remote[q]]
          PROVE  a \in Copies(p)
      <4>1. a = run[d].remote[p] \/ a = remote[p]
        BY <2>2, <3>1, <3>3
      <4>. QED
        BY <1>1, <4>1 DEF Copies
    <3>. QED
      BY <3>2, <3>3, ListingWriters
  <2>. QED
    BY <1>4, <2>1, <2>2
<1>5. ASSUME NEW w \in Panel, save'[w][p] # NoSave, a = save'[w][p].record
      PROVE  a \in Copies(p) \/ BeginSave(w, p)
  BY <1>1, <1>5, SaveWriters DEF Copies
<1>6. \/ a = remote'[p]
      \/ \E d \in Device : a \in {local'[d][p], run'[d].local[p], run'[d].remote[p]}
      \/ \E w \in Panel : save'[w][p] # NoSave /\ a = save'[w][p].record
  BY DEF Copies
<1>. QED
  BY <1>2, <1>3, <1>4, <1>5, <1>6

(* Every copy's revision identifier has been generated. *)
CopiesUsed == \A p \in Page : \A a \in Copies(p) : a.revisionId \in used

(* A new save stores the one copy whose revision nobody has seen. *)
LEMMA SavedFresh ==
  ASSUME InvType, NEW w \in Panel, NEW p \in Page, BeginSave(w, p)
  PROVE  /\ save'[w][p].record.revisionId \notin used
         /\ save'[w][p].record.revisionId \in used'
         /\ \A v \in Panel, q \in Page : (v # w \/ q # p) => save'[v][q] = save[v][q]
<1>1. save \in [Panel -> [Page -> Save]]
  BY DEF InvType, TypeOK
<1>2. PICK r \in Revision \ used, c \in Content :
        /\ save' = [save EXCEPT ![w][p] =
             [stage |-> "put",
              record |-> [savedAt |-> clock[DeviceOf[w]], revisionId |-> r, content |-> c]]]
        /\ used' = used \cup {r}
  BY DEF BeginSave
<1>. QED
  BY <1>1, <1>2

(* Revision identifiers are never forgotten. *)
LEMMA UsedGrows ==
  ASSUME [Next]_vars
  PROVE  used \subseteq used'
<1>1. CASE UNCHANGED vars
  BY <1>1 DEF vars
<1>2. ASSUME NEW d \in Device, Tick(d) \/ EngineStep(d) \/ EngineFault(d)
      PROVE  used' = used
  BY <1>2 DEF EngineStep, EngineFault, Tick, history,
       StartRun, ListLocal, ListQueue, ListRemoteKeys, GetRemote, MergeListings,
       ReportConflict, Defer, RecheckLocal, Upload, RetireStaleIntent,
       RecordFailure, Download, CompleteSynced, CompleteListed, Finish, ListDue,
       FailDueEntry, EndFailedRun, UploadFails, StorageFails, RunFails,
       FailureNotRecorded, WorkerTerminated
<1>3. ASSUME NEW w \in Panel, NEW p \in Page,
             BeginSave(w, p) \/ PanelStep(w, p) \/ SaveInterrupted(w, p)
      PROVE  used \subseteq used'
  BY <1>3 DEF PanelStep, PutNote, BeginSave, Observe, SaveInterrupted, history
<1>. QED
  BY <1>1, <1>2, <1>3 DEF Next

(* Initially the only revisions are those of the bucket. *)
LEMMA CopiesUsedInit == Init => CopiesUsed
<1>. SUFFICES ASSUME Init, NEW p \in Page, NEW a \in Copies(p)
              PROVE  a.revisionId \in used
  BY DEF CopiesUsed
<1>1. PICK s \in Synchronized : /\ remote = s.remote
                                /\ local = [d \in Device |-> s.local]
                                /\ used = Revisions(s.remote)
  BY DEF Init
<1>2. (a = s.remote[p] \/ a = s.local[p]) /\ a # Absent
  BY <1>1 DEF Init, Copies, IdleRun, EmptyPages
<1>3. s.remote[p] # Absent /\ a.revisionId = s.remote[p].revisionId
  BY <1>2, SynchronizedAssumption DEF SameVersion
<1>. QED
  BY <1>1, <1>3 DEF Revisions

(* Every step keeps copies within the generated revisions. *)
LEMMA CopiesUsedStep == InvType /\ CopiesUsed /\ [Next]_vars => CopiesUsed'
<1>. SUFFICES ASSUME InvType, CopiesUsed, [Next]_vars, NEW p \in Page, NEW a \in Copies(p)'
              PROVE  a.revisionId \in used'
  BY DEF CopiesUsed
<1>1. CASE a \in Copies(p)
  BY <1>1, UsedGrows DEF CopiesUsed
<1>2. ASSUME NEW w \in Panel, BeginSave(w, p), a = save'[w][p].record
      PROVE  a.revisionId \in used'
  BY <1>2, SavedFresh
<1>. QED
  BY <1>1, <1>2, CopiesCopied

(* Two copies with the same version are either old, or both the new one.   *)
LEMMA NoConflictStep ==
  ASSUME InvType, CopiesUsed, [Next]_vars, NEW p \in Page, ~Conflicting(p)
  PROVE  ~Conflicting(p)'
<1>. SUFFICES ASSUME NEW a \in Copies(p)', NEW b \in Copies(p)', SameVersion(a, b), a # b
              PROVE  FALSE
  BY DEF Conflicting
<1>1. ASSUME NEW w \in Panel, BeginSave(w, p)
      PROVE  FALSE
  <2>1. ASSUME NEW v \in Panel, BeginSave(v, p)
        PROVE  v = w
    <3>1. save[v][p] = NoSave /\ save \in [Panel -> [Page -> Save]]
      BY <2>1 DEF BeginSave, InvType, TypeOK
    <3>2. save'[v][p].stage = "put"
      BY <2>1, <3>1 DEF BeginSave
    <3>. QED
      BY <1>1, <3>1, <3>2, SavedFresh DEF NoSave
  <2>. DEFINE fresh == save'[w][p].record
  <2>2. /\ a \in Copies(p) \/ a = fresh
        /\ b \in Copies(p) \/ b = fresh
    BY <2>1, CopiesCopied
  <2>3. /\ fresh.revisionId \notin used
        /\ \A c \in Copies(p) : c.revisionId \in used
    BY <1>1, SavedFresh DEF CopiesUsed
  <2>. QED
    BY <2>2, <2>3 DEF Conflicting, SameVersion
<1>2. a \in Copies(p) /\ b \in Copies(p)
  BY <1>1, CopiesCopied
<1>. QED
  BY <1>2 DEF Conflicting

(* One version with two contents is never of PagePerch's own making, in    *)
(* whatever order records are saved, listed, uploaded and downloaded.      *)
THEOREM NoConflictMade == Spec => NoNewConflict
<1>1. InvType /\ CopiesUsed /\ [Next]_vars
        => [\A p \in Page : ~ Conflicting(p) => ~ Conflicting(p)']_vars
  BY NoConflictStep
<1>. QED
  BY TypeCorrect, CopiesUsedInit, CopiesUsedStep, <1>1, PTL DEF Spec, NoNewConflict

(* So a run reports an integrity conflict only if the bucket held one from *)
(* outside: devices that started from what the bucket held never meet one. *)
THEOREM ConflictsComeFromOutside ==
  ASSUME \A s \in Synchronized : s.local = s.remote
  PROVE  Spec => [](\A d \in Device : ~ Visiting(d, "integrity-conflict"))
<1>. DEFINE NoConflict == \A p \in Page : ~ Conflicting(p)
<1>1. Init => NoConflict
  <2>. SUFFICES ASSUME Init, NEW p \in Page, NEW a \in Copies(p), NEW b \in Copies(p)
                PROVE  a = b
    BY DEF Conflicting
  <2>1. PICK s \in Synchronized : remote = s.remote /\ local = [d \in Device |-> s.local]
    BY DEF Init
  <2>. QED
    BY <2>1 DEF Init, Copies, IdleRun, EmptyPages
<1>2. InvType /\ CopiesUsed /\ NoConflict /\ [Next]_vars => NoConflict'
  BY NoConflictStep
<1>3. InvType /\ NoConflict => \A d \in Device : ~ Visiting(d, "integrity-conflict")
  <2>. SUFFICES ASSUME InvType, NoConflict, NEW d \in Device, Visiting(d, "integrity-conflict")
                PROVE  FALSE
    OBVIOUS
  <2>1. /\ Current(d) \in Page /\ Local(d) \in Slot /\ Remote(d) \in Slot
        /\ Verdict(Local(d), Remote(d)) = "integrity-conflict"
    BY CurrentPage DEF Visiting
  <2>2. Local(d) # Absent /\ Remote(d) # Absent
        /\ compareReplicaRecords(Local(d), Remote(d)) = "integrity-conflict"
    BY <2>1 DEF Verdict
  <2>3. SameVersion(Local(d), Remote(d)) /\ Local(d) # Remote(d)
    BY <2>1, <2>2, SlotCases, Versions DEF compareReplicaRecords, Newer, SameVersion
  <2>4. Local(d) \in Copies(Current(d)) /\ Remote(d) \in Copies(Current(d))
    BY <2>2 DEF Copies, Local, Remote
  <2>. QED
    BY <2>1, <2>3, <2>4 DEF Conflicting
<1>. QED
  BY TypeCorrect, CopiesUsedInit, CopiesUsedStep, <1>1, <1>2, <1>3, PTL DEF Spec

-----------------------------------------------------------------------------
(* Runs that nothing disturbs. *)

(* What a run that nothing has disturbed knows: what it has listed as      *)
(* queued still is, until it gets there; the pages it has visited are      *)
(* settled; and its summary has a reason for whatever it will say.         *)
Kept(d, p) == run[d].queue[p] # Absent => queue[d][p] # Absent

Visited(d, p) ==
  \/ local[d][p] = remote[p]
  \/ InConflict(d, p) /\ run[d].issues
  \/ queue[d][p] # Absent /\ run[d].deferred

InLoop == {"page", "put", "complete", "completeOther"}

ListingSettles(d) ==
  /\ ~run[d].issues /\ ~run[d].deferred
  /\ "queue" \in run[d].listed => \A p \in Page : Kept(d, p)

LoopSettles(d) ==
  /\ \A p \in ToAgree(d) : Kept(d, p)
  /\ \A p \in Page \ run[d].todo : Visited(d, p)
  /\ run[d].issues => \E p \in Page \ run[d].todo : InConflict(d, p)
  /\ run[d].deferred => \E p \in Page \ run[d].todo : queue[d][p] # Absent

Conclusive(d) ==
  /\ outcome[d] # "failed"
  /\ outcome[d] = "partial" => \E p \in Page : InConflict(d, p)
  /\ outcome[d] = "pending" => \E p \in Page : queue[d][p] # Absent
  /\ \A p \in Page :
       \/ local[d][p] = remote[p]
       \/ InConflict(d, p) /\ outcome[d] = "partial"
       \/ queue[d][p] # Absent /\ outcome[d] # "synced"

Settling(d) ==
  faults = 0 =>
    /\ run[d].pc \in {"idle", "listing"} \cup InLoop
    /\ quiet[d] =>
         /\ run[d].pc = "listing" => ListingSettles(d)
         /\ run[d].pc \in InLoop => LoopSettles(d)
         /\ run[d].pc = "idle" /\ outcome[d] # "none" => Conclusive(d)

SettlingInv == \A d \in Device : Settling(d)

(* Until the first failure there is none. *)
LEMMA FaultsCounted ==
  ASSUME InvType, [Next]_vars, faults' = 0
  PROVE  faults = 0 /\ \A e \in Device : ~EngineFault(e)
<1>1. faults \in Nat /\ ~Fault
  <2>1. faults \in Nat
    BY MaxFaultsAssumption DEF InvType, TypeOK
  <2>. QED
    BY <2>1 DEF Fault
<1>2. \A e \in Device : ~EngineFault(e)
  BY <1>1 DEF EngineFault, UploadFails, StorageFails, RunFails, FailureNotRecorded,
              WorkerTerminated
<1>3. CASE UNCHANGED vars
  BY <1>2, <1>3 DEF vars
<1>4. ASSUME NEW e \in Device, Tick(e) \/ EngineStep(e)
      PROVE  faults' = faults
  BY <1>4 DEF Tick, EngineStep, StartRun, ListLocal, ListQueue, ListRemoteKeys, GetRemote,
     MergeListings, ReportConflict, Defer, RecheckLocal, Upload, RetireStaleIntent,
     RecordFailure, Download, CompleteSynced, CompleteListed, Finish, ListDue,
     FailDueEntry, EndFailedRun
<1>5. ASSUME NEW w \in Panel, NEW p \in Page,
             BeginSave(w, p) \/ PanelStep(w, p) \/ SaveInterrupted(w, p)
      PROVE  faults' = faults
  BY <1>1, <1>5 DEF BeginSave, PanelStep, PutNote, Observe, SaveInterrupted
<1>. QED
  BY <1>2, <1>3, <1>4, <1>5 DEF Next

(* A step that leaves a run and what it compares alone, and no queue entry *)
(* out, preserves Settling.                                                *)
LEMMA SettlingElsewhere ==
  ASSUME InvType, NEW d \in Device, Settling(d), run'[d] = run[d],
         outcome'[d] = outcome[d], faults' = 0 => faults = 0,
         quiet'[d] => quiet[d] /\ local'[d] = local[d] /\ remote' = remote,
         \A p \in Page : queue[d][p] # Absent => queue'[d][p] # Absent
  PROVE  Settling(d)'
<1>. SUFFICES ASSUME faults' = 0 PROVE Settling(d)'
  BY DEF Settling
<1>1. faults = 0 /\ run'[d].pc \in {"idle", "listing"} \cup InLoop
  BY DEF Settling, InLoop
<1>. SUFFICES ASSUME quiet'[d]
              PROVE  /\ run'[d].pc = "listing" => ListingSettles(d)'
                     /\ run'[d].pc \in InLoop => LoopSettles(d)'
                     /\ run'[d].pc = "idle" /\ outcome'[d] # "none" => Conclusive(d)'
  BY <1>1 DEF Settling, InLoop
<1>2. \A p \in Page : /\ Kept(d, p) => Kept(d, p)'
                      /\ Visited(d, p) => Visited(d, p)'
                      /\ InConflict(d, p) => InConflict(d, p)'
  BY DEF Kept, Visited, InConflict
<1>3. run[d].pc = "listing" => ListingSettles(d)'
  BY <1>1, <1>2 DEF Settling, ListingSettles
<1>4. ASSUME run[d].pc \in InLoop PROVE LoopSettles(d)'
  <2>1. LoopSettles(d)
    BY <1>1, <1>4 DEF Settling
  <2>2. ToAgree(d)' = ToAgree(d)
    BY DEF ToAgree, Current
  <2>3. \A p \in ToAgree(d) : Kept(d, p)'
    <3>1. ToAgree(d) \subseteq Page
      BY DEF ToAgree, InvType, TypeOK, Run
    <3>. QED
      BY <2>1, <3>1 DEF LoopSettles, Kept
  <2>4. \A p \in Page \ run[d].todo : Visited(d, p)'
    BY <1>2, <2>1 DEF LoopSettles
  <2>5. run[d].issues => \E p \in Page \ run[d].todo : InConflict(d, p)'
    BY <1>2, <2>1 DEF LoopSettles
  <2>6. run[d].deferred => \E p \in Page \ run[d].todo : queue'[d][p] # Absent
    BY <2>1 DEF LoopSettles
  <2>. QED
    BY <2>2, <2>3, <2>4, <2>5, <2>6 DEF LoopSettles
<1>5. run[d].pc = "idle" /\ outcome[d] # "none" => Conclusive(d)'
  BY <1>1, <1>2 DEF Settling, Conclusive
<1>. QED
  BY <1>2, <1>3, <1>4, <1>5 DEF InLoop

(* Leaving a settled page. *)
LEMMA SettlingNextPage ==
  ASSUME InvType, NEW d \in Device, Settling(d), faults = 0, faults' = 0, run[d].todo # {},
         NEW issue \in BOOLEAN, NEW deferral \in BOOLEAN, NextPage(d, issue, deferral),
         UNCHANGED <<local, remote, outcome, quiet>>, run[d].pc \in InLoop,
         \A p \in Page \ {Current(d)} : queue'[d][p] = queue[d][p],
         quiet[d] => \/ ~issue /\ ~deferral /\ local[d][Current(d)] = remote[Current(d)]
                     \/ issue /\ ~deferral /\ InConflict(d, Current(d))
                     \/ ~issue /\ deferral /\ queue'[d][Current(d)] # Absent
  PROVE  Settling(d)'
<1>. DEFINE c == Current(d)
<1>1. /\ run \in [Device -> Run] /\ c \in run[d].todo /\ run[d].todo \subseteq Page
      /\ run[d].issues \in BOOLEAN /\ run[d].deferred \in BOOLEAN
  BY CurrentPage DEF InvType, TypeOK, Run
<1>2. /\ run'[d].pc = "page" /\ run'[d].todo = run[d].todo \ {c}
      /\ run'[d].issues = (run[d].issues \/ issue)
      /\ run'[d].deferred = (run[d].deferred \/ deferral)
      /\ run'[d].queue = run[d].queue
  BY <1>1, NextPageFields, Zenon DEF SameListings
<1>3. ASSUME quiet[d] PROVE LoopSettles(d)'
  <2>1. LoopSettles(d)
    BY <1>3 DEF Settling, InLoop
  <2>2. \A p \in Page : InConflict(d, p)' = InConflict(d, p)
    BY DEF InConflict
  <2>3. ASSUME NEW p \in ToAgree(d)' PROVE Kept(d, p)'
    <3>1. p \in run[d].todo \ {c} /\ p \in ToAgree(d) /\ p \in Page \ {c}
      BY <1>1, <1>2, <2>3 DEF ToAgree
    <3>. QED
      BY <1>2, <2>1, <3>1 DEF LoopSettles, Kept
  <2>4. ASSUME NEW p \in Page \ run[d].todo PROVE Visited(d, p)'
    <3>1. Visited(d, p) /\ p # c
      BY <1>1, <2>1 DEF LoopSettles
    <3>. QED
      BY <1>1, <1>2, <2>2, <3>1 DEF Visited
  <2>5. ASSUME NEW p \in Page, p = c PROVE Visited(d, p)'
    BY <1>1, <1>2, <1>3, <2>2, <2>5 DEF Visited
  <2>6. \A p \in Page \ run'[d].todo : Visited(d, p)'
    BY <1>2, <2>4, <2>5
  <2>7. ASSUME run'[d].issues PROVE \E p \in Page \ run'[d].todo : InConflict(d, p)'
    <3>1. CASE issue
      BY <1>1, <1>2, <1>3, <2>2, <3>1
    <3>2. CASE ~issue
      BY <1>1, <1>2, <2>1, <2>2, <2>7, <3>2 DEF LoopSettles
    <3>. QED
      BY <3>1, <3>2
  <2>8. ASSUME run'[d].deferred PROVE \E p \in Page \ run'[d].todo : queue'[d][p] # Absent
    <3>1. CASE deferral
      BY <1>1, <1>2, <1>3, <3>1
    <3>2. CASE ~deferral
      <4>1. PICK p \in Page \ run[d].todo : queue[d][p] # Absent
        BY <1>1, <1>2, <2>1, <2>8, <3>2 DEF LoopSettles
      <4>2. p \in Page \ {c}
        BY <1>1
      <4>. QED
        BY <1>2, <4>1, <4>2
    <3>. QED
      BY <3>1, <3>2
  <2>. QED
    BY <2>3, <2>6, <2>7, <2>8 DEF LoopSettles
<1>. QED
  BY <1>2, <1>3 DEF Settling, InLoop

(* Working on the current page. *)
LEMMA SettlingGoto ==
  ASSUME InvType, NEW d \in Device, Settling(d), faults = 0, faults' = 0, run[d].todo # {},
         NEW pc \in {"put", "complete", "completeOther"}, Goto(d, pc),
         run[d].pc \in InLoop, pc = "put" => run[d].pc = "page",
         \A p \in Page \ {Current(d)} :
           local'[d][p] = local[d][p] /\ remote'[p] = remote[p] /\ queue'[d][p] = queue[d][p],
         pc = "put" => queue' = queue, quiet'[d] => quiet[d]
  PROVE  Settling(d)'
<1>. DEFINE c == Current(d)
<1>1. /\ run \in [Device -> Run] /\ c \in run[d].todo /\ run[d].todo \subseteq Page
  BY CurrentPage DEF InvType, TypeOK, Run
<1>2. /\ run'[d].pc = pc /\ run'[d].todo = run[d].todo
      /\ run'[d].issues = run[d].issues /\ run'[d].deferred = run[d].deferred
      /\ run'[d].queue = run[d].queue
  BY <1>1, GotoFields DEF SameListings, PC
<1>3. Current(d)' = c
  BY <1>2 DEF Current
<1>4. ASSUME quiet'[d] PROVE LoopSettles(d)'
  <2>1. LoopSettles(d)
    BY <1>4 DEF Settling, InLoop
  <2>2. \A p \in Page \ run[d].todo : /\ p \in Page \ {c}
                                     /\ InConflict(d, p)' = InConflict(d, p)
    BY <1>1 DEF InConflict
  <2>3. ASSUME NEW p \in ToAgree(d)' PROVE Kept(d, p)'
    <3>1. p \in ToAgree(d) /\ p \in Page /\ (p # c \/ pc = "put")
      BY <1>1, <1>2, <1>3, <2>3 DEF ToAgree
    <3>2. queue'[d][p] = queue[d][p]
      BY <3>1
    <3>. QED
      BY <1>2, <2>1, <3>1, <3>2 DEF LoopSettles, Kept
  <2>4. \A p \in Page \ run'[d].todo : Visited(d, p)'
    BY <1>2, <2>1, <2>2 DEF LoopSettles, Visited
  <2>5. run'[d].issues => \E p \in Page \ run'[d].todo : InConflict(d, p)'
    BY <1>2, <2>1, <2>2 DEF LoopSettles
  <2>6. run'[d].deferred => \E p \in Page \ run'[d].todo : queue'[d][p] # Absent
    BY <1>2, <2>1, <2>2 DEF LoopSettles
  <2>. QED
    BY <2>3, <2>4, <2>5, <2>6 DEF LoopSettles
<1>. QED
  BY <1>2, <1>4 DEF Settling, InLoop

(* The listings. *)
LEMMA SettlingListing ==
  ASSUME InvType, NEW d \in Device, Settling(d), Agreement(d), faults = 0, faults' = 0,
         \/ StartRun(d) \/ ListLocal(d) \/ ListQueue(d) \/ ListRemoteKeys(d)
         \/ GetRemote(d) \/ MergeListings(d)
  PROVE  Settling(d)'
<1>1. /\ run \in [Device -> Run] /\ run[d] \in Run
  BY DEF InvType, TypeOK
<1>2. ASSUME run[d].pc = "listing", run'[d].pc = "listing", UNCHANGED <<queue, quiet>>,
             run'[d].issues = run[d].issues, run'[d].deferred = run[d].deferred,
             run'[d].queue = run[d].queue,
             "queue" \in run'[d].listed => "queue" \in run[d].listed
      PROVE  Settling(d)'
  BY <1>2 DEF Settling, InLoop, ListingSettles, Kept
<1>3. CASE StartRun(d)
  <2>1. run' = [run EXCEPT ![d] = [IdleRun EXCEPT !.pc = "listing", !.now = clock[d]]]
    BY <1>3 DEF StartRun
  <2>2. /\ run'[d].pc = "listing" /\ run'[d].listed = {}
        /\ ~run'[d].issues /\ ~run'[d].deferred
    BY <1>1, <2>1 DEF IdleRun
  <2>. QED
    BY <2>2 DEF Settling, InLoop, ListingSettles
<1>4. CASE ListLocal(d)
  <2>1. /\ run[d].pc = "listing" /\ run'[d].pc = "listing"
        /\ run'[d].listed = run[d].listed \cup {"local"} /\ run'[d].queue = run[d].queue
        /\ run'[d].issues = run[d].issues /\ run'[d].deferred = run[d].deferred
    BY <1>1, <1>4 DEF ListLocal, At, Run
  <2>. QED
    BY <1>2, <1>4, <2>1 DEF ListLocal, history
<1>5. CASE ListQueue(d)
  <2>1. /\ run[d].pc = "listing" /\ run'[d].pc = "listing" /\ run'[d].queue = queue[d]
        /\ run'[d].issues = run[d].issues /\ run'[d].deferred = run[d].deferred
    BY <1>1, <1>5 DEF ListQueue, At, Run
  <2>2. UNCHANGED <<queue, quiet>>
    BY <1>5 DEF ListQueue, history
  <2>. QED
    BY <2>1, <2>2 DEF Settling, InLoop, ListingSettles, Kept
<1>6. CASE ListRemoteKeys(d)
  <2>1. /\ run[d].pc = "listing" /\ run'[d].pc = "listing"
        /\ run'[d].listed = run[d].listed \cup {"remote"} /\ run'[d].queue = run[d].queue
        /\ run'[d].issues = run[d].issues /\ run'[d].deferred = run[d].deferred
    BY <1>1, <1>6 DEF ListRemoteKeys, At, Run
  <2>. QED
    BY <1>2, <1>6, <2>1 DEF ListRemoteKeys, history
<1>7. CASE GetRemote(d)
  <2>1. /\ run[d].pc = "listing" /\ run'[d].pc = "listing"
        /\ run'[d].listed = run[d].listed /\ run'[d].queue = run[d].queue
        /\ run'[d].issues = run[d].issues /\ run'[d].deferred = run[d].deferred
    BY <1>1, <1>7 DEF GetRemote, At, Run
  <2>. QED
    BY <1>2, <1>7, <2>1 DEF GetRemote, history
<1>8. CASE MergeListings(d)
  <2>1. /\ run[d].pc = "listing" /\ run[d].listed = Source /\ run[d].unread = {}
        /\ run'[d].pc = "page" /\ run'[d].queue = run[d].queue
        /\ run'[d].issues = run[d].issues /\ run'[d].deferred = run[d].deferred
        /\ run'[d].todo = {p \in Page : \/ run[d].local[p] # Absent
                                       \/ run[d].remote[p] # Absent
                                       \/ run[d].queue[p] # Absent}
    BY <1>1, <1>8 DEF MergeListings, At, Run
  <2>2. UNCHANGED <<local, remote, queue, quiet>>
    BY <1>8 DEF MergeListings, history
  <2>3. ASSUME quiet[d] PROVE LoopSettles(d)'
    <3>1. /\ run[d].local = local[d] /\ \A p \in Page : run[d].remote[p] = remote[p]
          /\ ~run[d].issues /\ ~run[d].deferred
      BY <2>1, <2>3 DEF Agreement, ListingAccurate, Source, Settling, ListingSettles
    <3>2. \A p \in Page \ run'[d].todo : local[d][p] = Absent /\ remote[p] = Absent
      BY <2>1, <3>1
    <3>3. \A p \in Page : Kept(d, p)'
      BY <2>1, <2>2, <2>3 DEF Settling, ListingSettles, Kept, Source
    <3>. QED
      BY <2>1, <2>2, <3>1, <3>2, <3>3 DEF LoopSettles, Visited, ToAgree
  <2>. QED
    BY <2>1, <2>2, <2>3 DEF Settling, InLoop
<1>. QED
  BY <1>3, <1>4, <1>5, <1>6, <1>7, <1>8

(* A page that is completed without a failure agrees. *)
LEMMA CompletedAgrees ==
  ASSUME InvType, NEW d \in Device, Agreement(d), quiet[d], run[d].todo # {},
         Completing(d),
         run[d].pc = "page" => /\ Local(d) = local[d][Current(d)]
                              /\ Remote(d) = remote[Current(d)]
  PROVE  local[d][Current(d)] = remote[Current(d)]
<1>1. CASE run[d].pc = "complete"
  BY <1>1 DEF Agreement, VisitsAgree
<1>2. CASE Visiting(d, "equal") \/ Visiting(d, "orphan")
  <2>1. /\ Local(d) \in Slot /\ Remote(d) \in Slot
        /\ Verdict(Local(d), Remote(d)) \in {"equal", "orphan"} /\ run[d].pc = "page"
    BY <1>2, CurrentPage DEF Visiting, At
  <2>. QED
    BY <2>1, VerdictEqual, VerdictOrphan
<1>. QED
  BY <1>1, <1>2 DEF Completing, At

(* Queueing a revision takes no entry out. *)
LEMMA ObservedQueued ==
  ASSUME InvType, NEW d \in Device, NEW w \in Panel, NEW q \in Page, Observe(w, q)
  PROVE  \A p \in Page : queue[d][p] # Absent => queue'[d][p] # Absent
<1>1. DeviceOf[w] \in Device /\ queue \in [Device -> [Page -> QueueSlot]]
  BY DeviceOfAssumption DEF InvType, TypeOK
<1>2. save[w][q] \in Save /\ save[w][q].stage = "observe" /\ clock[DeviceOf[w]] \in Instant
  BY <1>1 DEF InvType, TypeOK, Observe
<1>3. save[w][q].record.revisionId \in Revision
  BY <1>2 DEF Save, NoSave, Record
<1>4. Enqueued(queue[DeviceOf[w]][q], save[w][q].record.revisionId, clock[DeviceOf[w]]) # Absent
  BY <1>1, <1>2, <1>3, EnqueuedStays
<1>. QED
  BY <1>1, <1>4 DEF Observe

(* The loop. *)
LEMMA SettlingLoop ==
  ASSUME InvType, NEW d \in Device, Settling(d), Agreement(d), faults = 0, faults' = 0,
         \/ ReportConflict(d) \/ Defer(d) \/ RecheckLocal(d) \/ Upload(d)
         \/ RetireStaleIntent(d) \/ RecordFailure(d) \/ Download(d)
         \/ CompleteSynced(d) \/ CompleteListed(d)
  PROVE  Settling(d)'
<1>. DEFINE c == Current(d)
<1>1. /\ run \in [Device -> Run] /\ run[d].pc \in {"idle", "listing"} \cup InLoop
      /\ local \in [Device -> [Page -> Slot]] /\ remote \in [Page -> Slot]
      /\ queue \in [Device -> [Page -> QueueSlot]] /\ quiet \in [Device -> BOOLEAN]
  BY DEF InvType, TypeOK, Settling
<1>2. run[d].todo # {} => c \in Page /\ c \in run[d].todo
  BY CurrentPage
<1>3. ASSUME run[d].pc = "page", run[d].todo # {}, quiet[d]
      PROVE  Local(d) = local[d][c] /\ Remote(d) = remote[c] /\ Kept(d, c)
  <2>1. VisitsAgree(d) /\ LoopSettles(d)
    BY <1>3 DEF Agreement, Settling, InLoop
  <2>2. c \in ToAgree(d)
    BY <1>2, <1>3 DEF ToAgree
  <2>. QED
    BY <2>1, <2>2 DEF VisitsAgree, LoopSettles, Local, Remote
<1>4. CASE ReportConflict(d)
  <2>1. /\ run[d].pc = "page" /\ run[d].todo # {} /\ NextPage(d, TRUE, FALSE)
        /\ Verdict(Local(d), Remote(d)) = "integrity-conflict"
    BY <1>4, Zenon DEF ReportConflict, Visiting, At
  <2>2. UNCHANGED <<local, remote, queue, outcome, quiet>>
    BY <1>4 DEF ReportConflict, history
  <2>3. quiet[d] => InConflict(d, c)
    BY <1>3, <2>1 DEF InConflict
  <2>. QED
    BY <2>1, <2>2, <2>3, SettlingNextPage DEF InLoop
<1>5. CASE Defer(d)
  <2>1. /\ run[d].pc = "page" /\ run[d].todo # {} /\ NextPage(d, FALSE, TRUE)
        /\ Queued(d) # Absent
    BY <1>5, Zenon DEF Defer, Visiting, At, Deferred
  <2>2. UNCHANGED <<local, remote, queue, outcome, quiet>>
    BY <1>5 DEF Defer, history
  <2>3. quiet[d] => queue'[d][c] # Absent
    BY <1>3, <2>1, <2>2 DEF Kept, Queued
  <2>. QED
    BY <2>1, <2>2, <2>3, SettlingNextPage DEF InLoop
<1>6. CASE RecheckLocal(d)
  <2>1. run[d].pc = "page" /\ run[d].todo # {}
        /\ UNCHANGED <<local, remote, queue, outcome, quiet>>
    BY <1>6 DEF RecheckLocal, Visiting, At, history
  <2>2. CASE Goto(d, "put")
    BY <2>1, <2>2, SettlingGoto DEF InLoop
  <2>3. CASE local[d][c] # Local(d) /\ NextPage(d, TRUE, FALSE)
    BY <1>3, <2>1, <2>3, SettlingNextPage DEF InLoop
  <2>. QED
    BY <1>6, <2>2, <2>3 DEF RecheckLocal
<1>7. CASE Upload(d)
  <2>1. run[d].pc = "put" /\ run[d].todo # {} /\ Goto(d, "complete")
        /\ UNCHANGED <<local, queue>> /\ WriteRemote(d)
    BY <1>7, AtPage DEF Upload, At
  <2>2. (quiet'[d] => quiet[d]) /\ \A p \in Page \ {c} : remote'[p] = remote[p]
    BY <1>1, <2>1 DEF WriteRemote
  <2>. QED
    BY <2>1, <2>2, SettlingGoto DEF InLoop
<1>8. CASE RetireStaleIntent(d) \/ RecordFailure(d)
  BY <1>1, <1>8 DEF RetireStaleIntent, RecordFailure, At, InLoop
<1>9. CASE Download(d)
  <2>1. run[d].pc = "page" /\ run[d].todo # {}
        /\ UNCHANGED <<remote, queue, outcome, quiet>>
    BY <1>9 DEF Download, Visiting, At, history
  <2>2. CASE local' = [local EXCEPT ![d][c] = Remote(d)] /\ Goto(d, "complete")
    <3>1. \A p \in Page \ {c} : local'[d][p] = local[d][p]
      BY <1>1, <2>2
    <3>. QED
      BY <2>1, <2>2, <3>1, SettlingGoto DEF InLoop
  <2>3. CASE local[d][c] # Local(d) /\ NextPage(d, TRUE, FALSE) /\ UNCHANGED local
    BY <1>3, <2>1, <2>3, SettlingNextPage DEF InLoop
  <2>. QED
    BY <1>9, <2>2, <2>3 DEF Download
<1>10. CASE CompleteSynced(d)
  <2>1. run[d].pc \in {"page", "complete"} /\ run[d].todo # {}
        /\ UNCHANGED <<local, remote, outcome, quiet>>
    BY <1>10, AtPage DEF CompleteSynced, Completing, Visiting, At, history
  <2>2. \A p \in Page \ {c} : queue'[d][p] = queue[d][p]
    BY <1>1, <1>10 DEF CompleteSynced
  <2>3. ASSUME quiet[d] PROVE local[d][c] = remote[c]
    BY <1>3, <1>10, <2>1, <2>3, CompletedAgrees DEF CompleteSynced
  <2>4. CASE Goto(d, "completeOther")
    BY <2>1, <2>2, <2>4, SettlingGoto DEF InLoop
  <2>5. CASE NextPage(d, FALSE, FALSE)
    BY <2>1, <2>2, <2>3, <2>5, SettlingNextPage DEF InLoop
  <2>. QED
    BY <1>10, <2>4, <2>5 DEF CompleteSynced
<1>11. CASE CompleteListed(d)
  <2>1. run[d].pc = "completeOther" /\ run[d].todo # {}
        /\ UNCHANGED <<local, remote, outcome, quiet>>
    BY <1>11, AtPage DEF CompleteListed, At, history
  <2>2. NextPage(d, FALSE, FALSE)
    BY <1>11, Zenon DEF CompleteListed
  <2>3. \A p \in Page \ {c} : queue'[d][p] = queue[d][p]
    BY <1>1, <1>11 DEF CompleteListed
  <2>4. quiet[d] => local[d][c] = remote[c]
    BY <2>1 DEF Agreement, VisitsAgree
  <2>. QED
    BY <2>1, <2>2, <2>3, <2>4, SettlingNextPage DEF InLoop
<1>. QED
  BY <1>4, <1>5, <1>6, <1>7, <1>8, <1>9, <1>10, <1>11

(* The end of a run. *)
LEMMA SettlingEnd ==
  ASSUME InvType, NEW d \in Device, Settling(d), faults = 0, faults' = 0,
         Finish(d) \/ ListDue(d) \/ FailDueEntry(d) \/ EndFailedRun(d)
  PROVE  Settling(d)'
<1>1. /\ run \in [Device -> Run] /\ run[d] \in Run /\ outcome \in [Device -> Outcome]
      /\ run[d].pc \in {"idle", "listing"} \cup InLoop
  BY DEF InvType, TypeOK, Settling
<1>2. Finish(d)
  BY <1>1 DEF ListDue, FailDueEntry, EndFailedRun, At, InLoop
<1>3. /\ run[d].pc = "page" /\ run[d].todo = {}
      /\ run' = [run EXCEPT ![d] = IdleRun]
      /\ outcome'[d] = IF run[d].issues THEN "partial"
                       ELSE IF run[d].deferred \/ \E p \in Page : queue[d][p] # Absent
                       THEN "pending" ELSE "synced"
      /\ UNCHANGED <<local, remote, queue, quiet>>
  BY <1>1, <1>2 DEF Finish, At, EndRun, history
<1>4. run'[d].pc = "idle"
  BY <1>1, <1>3 DEF IdleRun
<1>5. ASSUME quiet[d] PROVE Conclusive(d)'
  <2>1. LoopSettles(d)
    BY <1>3, <1>5 DEF Settling, InLoop
  <2>2. \A p \in Page : InConflict(d, p)' = InConflict(d, p)
    BY <1>3 DEF InConflict
  <2>3. /\ outcome'[d] # "failed"
        /\ outcome'[d] = "partial" => run[d].issues
        /\ run[d].issues => outcome'[d] = "partial"
        /\ outcome'[d] = "pending" => run[d].deferred \/ \E p \in Page : queue[d][p] # Absent
        /\ run[d].deferred => outcome'[d] # "synced"
    BY <1>3
  <2>. QED
    BY <1>3, <2>1, <2>2, <2>3 DEF LoopSettles, Visited, Conclusive
<1>. QED
  BY <1>3, <1>4, <1>5 DEF Settling, InLoop

LEMMA SettlingInit == Init => SettlingInv
<1>. SUFFICES ASSUME Init, NEW d \in Device PROVE Settling(d)
  BY DEF SettlingInv
<1>1. run[d].pc = "idle" /\ quiet[d] = FALSE
  BY DEF Init, IdleRun
<1>. QED
  BY <1>1 DEF Settling

LEMMA SettlingStep == InvType /\ AgreementInv /\ SettlingInv /\ [Next]_vars => SettlingInv'
<1>. SUFFICES ASSUME InvType, AgreementInv, SettlingInv, [Next]_vars, faults' = 0,
                     NEW d \in Device
              PROVE  Settling(d)'
  BY DEF SettlingInv, Settling
<1>1. Settling(d) /\ Agreement(d) /\ faults = 0 /\ ~EngineFault(d)
  BY FaultsCounted DEF SettlingInv, AgreementInv
<1>2. CASE EngineStep(d)
  BY <1>1, <1>2, SettlingListing, SettlingLoop, SettlingEnd DEF EngineStep
<1>3. CASE ~EngineStep(d)
  <2>1. run'[d] = run[d] /\ outcome'[d] = outcome[d]
    BY <1>1, <1>3, RunWriters
  <2>2. quiet'[d] => quiet[d] /\ local'[d] = local[d] /\ remote' = remote
    BY <1>1, <1>3, AgreementOthers
  <2>3. \A p \in Page : queue[d][p] # Absent => queue'[d][p] # Absent
    <3>1. CASE queue'[d] = queue[d]
      BY <3>1
    <3>2. ASSUME NEW w \in Panel, NEW q \in Page, Observe(w, q)
          PROVE  \A p \in Page : queue[d][p] # Absent => queue'[d][p] # Absent
      BY <3>2, ObservedQueued
    <3>. QED
      BY <1>3, <3>1, <3>2, QueueWriters DEF EngineStep
  <2>. QED
    BY <1>1, <2>1, <2>2, <2>3, SettlingElsewhere
<1>. QED
  BY <1>2, <1>3

(* A run that nothing disturbed settles every page, and its summary says   *)
(* so: with SyncedAlwaysMeansAgreed, the summary is right both ways.       *)
THEOREM UndisturbedRunsSettle == Spec => []UndisturbedRunSettles
<1>1. SettlingInv => UndisturbedRunSettles
  BY DEF SettlingInv, Settling, Conclusive, UndisturbedRunSettles, At
<1>. QED
  BY TypeCorrect, AgreementInit, AgreementStep, SettlingInit, SettlingStep, <1>1, PTL DEF Spec

-----------------------------------------------------------------------------
(* Runs end. *)

Smaller(S, T) == S \subseteq T /\ S # T

(* The phases of a run: three listings, the loop over the pages, and after *)
(* a failure the list of due entries and the loop over them.               *)
Phase(pc) == CASE pc = "idle" -> 0 [] pc = "listing" -> 1 [] pc = "failing" -> 3
               [] pc = "recordingFailure" -> 4 [] OTHER -> 2

(* The steps the loop takes on one page. *)
Stage(pc) == CASE pc = "put" -> 1 [] pc \in {"retire", "complete"} -> 2
               [] pc \in {"record", "completeOther"} -> 3 [] OTHER -> 0

(* A run is further on: in a later phase, with more of its listings read,  *)
(* at a later step of the same page, or with fewer pages to visit.         *)
Further(d) ==
  \/ Phase(run[d].pc) < Phase(run'[d].pc)
  \/ /\ Phase(run'[d].pc) = Phase(run[d].pc) /\ run'[d].todo = run[d].todo
     /\ \/ Smaller(run[d].listed, run'[d].listed)
        \/ run'[d].listed = run[d].listed /\ Smaller(run'[d].unread, run[d].unread)
        \/ /\ run'[d].listed = run[d].listed /\ run'[d].unread = run[d].unread
           /\ Stage(run[d].pc) < Stage(run'[d].pc)
  \/ Phase(run'[d].pc) = Phase(run[d].pc) /\ Smaller(run'[d].todo, run[d].todo)

(* A run under way only goes forward, until it is over. *)
Advancing(d) ==
  ~At(d, "idle") =>
    /\ run'[d] = run[d] \/ run'[d] = IdleRun \/ Further(d)
    /\ EngineStep(d) => run'[d] # run[d]

(* Going forward is going somewhere. *)
LEMMA FurtherMoves ==
  ASSUME NEW d \in Device, Further(d)
  PROVE  run'[d] # run[d]
<1>1. \A pc : Phase(pc) \in Nat /\ Stage(pc) \in Nat
  BY DEF Phase, Stage
<1>. QED
  BY <1>1 DEF Further, Smaller

(* The steps of the loop, by their updates of the run. *)
InPage == {"page", "put", "retire", "record", "complete", "completeOther"}

LEMMA NextPageFurther ==
  ASSUME InvType, NEW d \in Device, run[d].pc \in InPage, run[d].todo # {},
         NEW issue \in BOOLEAN, NEW deferral \in BOOLEAN, NextPage(d, issue, deferral)
  PROVE  Further(d)
<1>1. run \in [Device -> Run]
  BY DEF InvType, TypeOK
<1>2. run'[d].pc = "page" /\ run'[d].todo = run[d].todo \ {Current(d)}
  BY <1>1, NextPageFields
<1>3. Current(d) \in run[d].todo
  BY CurrentPage
<1>. QED
  BY <1>2, <1>3 DEF Further, Smaller, Phase, InPage

LEMMA GotoFurther ==
  ASSUME InvType, NEW d \in Device, run[d].pc \in InPage, NEW pc \in InPage,
         Stage(run[d].pc) < Stage(pc), Goto(d, pc)
  PROVE  Further(d)
<1>1. run \in [Device -> Run] /\ run[d] \in Run /\ pc \in PC
  BY DEF InvType, TypeOK, InPage, PC
<1>2. run'[d] = [run[d] EXCEPT !.pc = pc]
  BY <1>1, GotoRun
<1>3. /\ run'[d].pc = pc /\ run'[d].todo = run[d].todo
      /\ run'[d].listed = run[d].listed /\ run'[d].unread = run[d].unread
  BY <1>1, <1>2 DEF Run
<1>4. Phase(run'[d].pc) = Phase(run[d].pc)
  BY <1>3 DEF Phase, InPage
<1>. QED
  BY <1>3, <1>4 DEF Further

(* The listings: each is read once, and each object of the bucket's once.  *)
LEMMA ListingFurther ==
  ASSUME InvType, NEW d \in Device,
         \/ ListLocal(d) \/ ListQueue(d) \/ ListRemoteKeys(d) \/ GetRemote(d)
         \/ MergeListings(d)
  PROVE  Further(d)
<1>1. run \in [Device -> Run] /\ run[d] \in Run
  BY DEF InvType, TypeOK
<1>2. CASE ListLocal(d) \/ ListQueue(d) \/ ListRemoteKeys(d)
  <2>1. /\ run'[d].pc = run[d].pc /\ run'[d].todo = run[d].todo
        /\ Smaller(run[d].listed, run'[d].listed)
    BY <1>1, <1>2 DEF ListLocal, ListQueue, ListRemoteKeys, Smaller, Run
  <2>. QED
    BY <2>1 DEF Further
<1>3. CASE GetRemote(d)
  <2>1. Least(run[d].unread) \in run[d].unread
    BY <1>1, <1>3, LeastElement, PageAssumption DEF GetRemote, Run
  <2>2. /\ run'[d].pc = run[d].pc /\ run'[d].todo = run[d].todo
        /\ run'[d].listed = run[d].listed
        /\ run'[d].unread = run[d].unread \ {Least(run[d].unread)}
    BY <1>1, <1>3 DEF GetRemote, Run
  <2>. QED
    BY <2>1, <2>2 DEF Further, Smaller
<1>4. CASE MergeListings(d)
  <2>1. run[d].pc = "listing" /\ run'[d].pc = "page"
    BY <1>1, <1>4 DEF MergeListings, At, Run
  <2>. QED
    BY <2>1 DEF Further, Phase
<1>. QED
  BY <1>2, <1>3, <1>4

(* A page: at every step the next one, or the next page. *)
LEMMA PageFurther ==
  ASSUME InvType, NEW d \in Device,
         \/ ReportConflict(d) \/ Defer(d) \/ RecheckLocal(d) \/ Upload(d)
         \/ RetireStaleIntent(d) \/ RecordFailure(d) \/ Download(d)
         \/ CompleteSynced(d) \/ CompleteListed(d) \/ UploadFails(d) \/ StorageFails(d)
  PROVE  Further(d)
<1>1. /\ run[d].pc \in InPage /\ run[d].todo # {}
  <2>1. run[d].pc \in InPage \ {"page"} \/ (\E v : Visiting(d, v))
    BY DEF ReportConflict, Defer, RecheckLocal, Upload, RetireStaleIntent, RecordFailure,
           Download, CompleteSynced, CompleteListed, UploadFails, StorageFails,
           Completing, At, InPage
  <2>. QED
    BY <2>1 DEF InvType, TypeOK, Visiting, At, InPage
<1>2. ASSUME NEW pc \in InPage, Goto(d, pc), Stage(run[d].pc) < Stage(pc)
      PROVE  Further(d)
  BY <1>1, <1>2, GotoFurther
<1>3. ASSUME NEW issue \in BOOLEAN, NEW deferral \in BOOLEAN, NextPage(d, issue, deferral)
      PROVE  Further(d)
  BY <1>1, <1>3, NextPageFurther
<1>4. /\ Stage("page") = 0 /\ Stage("put") = 1
      /\ Stage("retire") = 2 /\ Stage("complete") = 2
      /\ Stage("record") = 3 /\ Stage("completeOther") = 3
      /\ {"put", "retire", "complete", "record", "completeOther"} \subseteq InPage
  BY DEF Stage, InPage
<1>5. CASE RecheckLocal(d) \/ Download(d)
  <2>1. run[d].pc = "page"
    BY <1>5 DEF RecheckLocal, Download, Visiting, At
  <2>2. CASE Goto(d, "put") \/ Goto(d, "complete")
    BY <1>2, <1>4, <2>1, <2>2
  <2>. QED
    BY <1>3, <1>5, <2>2 DEF RecheckLocal, Download
<1>6. CASE Upload(d) \/ UploadFails(d) \/ RetireStaleIntent(d)
  <2>1. \/ /\ run[d].pc = "put"
           /\ Goto(d, "complete") \/ Goto(d, "retire") \/ Goto(d, "record")
        \/ run[d].pc = "retire" /\ Goto(d, "record")
    BY <1>6 DEF Upload, UploadFails, RetireStaleIntent, At
  <2>. QED
    BY <1>2, <1>4, <2>1
<1>7. CASE CompleteSynced(d)
  <2>1. run[d].pc \in {"page", "complete"}
    BY <1>7 DEF CompleteSynced, Completing, Visiting, At
  <2>2. CASE Goto(d, "completeOther")
    BY <1>2, <1>4, <2>1, <2>2
  <2>. QED
    BY <1>3, <1>7, <2>2 DEF CompleteSynced
<1>8. CASE \/ ReportConflict(d) \/ Defer(d) \/ RecordFailure(d) \/ CompleteListed(d)
           \/ StorageFails(d)
  BY <1>3, <1>8 DEF ReportConflict, Defer, RecordFailure, CompleteListed, StorageFails
<1>. QED
  BY <1>5, <1>6, <1>7, <1>8

(* What follows a failure of the whole run, and the ends of runs. *)
LEMMA EndingFurther ==
  ASSUME InvType, NEW d \in Device, ~At(d, "idle"),
         \/ Finish(d) \/ ListDue(d) \/ FailDueEntry(d) \/ EndFailedRun(d)
         \/ RunFails(d) \/ FailureNotRecorded(d) \/ WorkerTerminated(d)
  PROVE  run'[d] = IdleRun \/ Further(d)
<1>1. run \in [Device -> Run] /\ run[d] \in Run
  BY DEF InvType, TypeOK
<1>2. CASE Finish(d) \/ EndFailedRun(d) \/ WorkerTerminated(d)
  BY <1>1, <1>2 DEF Finish, EndFailedRun, WorkerTerminated, EndRun
<1>3. CASE ListDue(d)
  <2>1. run[d].pc = "failing" /\ run'[d].pc = "recordingFailure"
    BY <1>1, <1>3 DEF ListDue, At, Run
  <2>. QED
    BY <2>1 DEF Further, Phase
<1>4. CASE RunFails(d)
  <2>1. run[d].pc \in {"listing", "page"} /\ run'[d].pc = "failing"
    BY <1>1, <1>4 DEF RunFails, At, IdleRun
  <2>. QED
    BY <2>1 DEF Further, Phase
<1>5. CASE FailDueEntry(d) \/ FailureNotRecorded(d)
  <2>1. CASE run[d].todo # {} /\ run' = [run EXCEPT ![d].todo = @ \ {Current(d)}]
    <3>1. run'[d].pc = run[d].pc /\ run'[d].todo = run[d].todo \ {Current(d)}
      BY <1>1, <2>1 DEF Run
    <3>2. Current(d) \in run[d].todo
      BY <2>1, CurrentPage
    <3>. QED
      BY <3>1, <3>2 DEF Further, Smaller
  <2>2. CASE EndRun(d, "failed")
    BY <1>1, <2>2 DEF EndRun
  <2>. QED
    BY <1>5, <2>1, <2>2 DEF FailDueEntry, FailureNotRecorded
<1>. QED
  BY <1>2, <1>3, <1>4, <1>5

(* Every run comes to an end, as its listings and pages are finitely many: *)
(* whatever saves, other devices and failures do, a run under way never    *)
(* goes back, reads a listing or visits a page twice, or takes a step that *)
(* leaves it where it is.  This is the safety half of runs' termination.   *)
THEOREM RunsAdvance == Spec => [][\A d \in Device : Advancing(d)]_vars
<1>1. ASSUME InvType, [Next]_vars, NEW d \in Device, ~At(d, "idle")
      PROVE  /\ run'[d] = run[d] \/ run'[d] = IdleRun \/ Further(d)
             /\ EngineStep(d) => run'[d] # run[d]
  <2>1. EngineStep(d) \/ EngineFault(d) => run'[d] = IdleRun \/ Further(d)
    BY <1>1, ListingFurther, PageFurther, EndingFurther
       DEF EngineStep, EngineFault, StartRun
  <2>2. IdleRun # run[d]
    BY <1>1 DEF IdleRun, At
  <2>. QED
    BY <1>1, <2>1, <2>2, RunWriters, FurtherMoves
<1>2. InvType /\ [Next]_vars => [\A d \in Device : Advancing(d)]_vars
  BY <1>1 DEF Advancing
<1>. QED
  BY TypeCorrect, <1>2, PTL DEF Spec
=============================================================================
