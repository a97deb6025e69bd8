----------------------------- MODULE SyncEvidence -----------------------------
(***************************************************************************)
(* When the side panel may say "Synced to BYOS" of a note it has saved:    *)
(* LocalSaveSyncEvidence, observeSyncEvidence and the save lifecycle of    *)
(* usePageNoteDraft in src/src/side-panel/App.tsx.                         *)
(*                                                                         *)
(* A report is what the panel last heard of the page's synchronization:    *)
(* ready, success (the number of the last successful synchronization, 0    *)
(* when there is none) and pending (the revision that waits, or None).     *)
(***************************************************************************)
EXTENDS StoredView

(* trust: trustRemoteClaim; known: baselineHistoryKnown; success:          *)
(* baselineLastSuccessfulSyncAt; pending: baselinePendingRevisionId.       *)
NoEvidence ==
  [phase |-> "inactive", trust |-> TRUE, known |-> FALSE, success |-> 0,
   pending |-> None, last |-> None, observed |-> None]

BeginLocalSave(report) ==
  [phase |-> "saving", trust |-> FALSE, known |-> report.ready,
   success |-> report.success, pending |-> report.pending,
   last |-> report.pending, observed |-> None]

CompleteLocalSave(e) == IF e.phase = "saving" THEN [e EXCEPT !.phase = "saved"] ELSE e

(* clearLocalSave; what else it keeps is overwritten by the next save.     *)
ClearLocalSave(e) == NoEvidence

(* What the panel does when the draft goes from one save phase to another. *)
Lifecycle(e, report, before, after) ==
  CASE after = "saving" -> IF before = "saving" THEN e ELSE BeginLocalSave(report)
    [] after = "saved-locally" ->
         IF before \in {"saving", "saved-locally"} THEN CompleteLocalSave(e)
         ELSE CompleteLocalSave(BeginLocalSave(report))
    [] OTHER -> ClearLocalSave(e)

hasNewerSuccessfulSync(e, report) == e.known /\ report.success > e.success

(* Mutant of ObserveSyncEvidence: any entry that leaves the queue will do. *)
ObserveAnyEntry(e, report) ==
  IF e.phase = "inactive" \/ ~ report.ready THEN e
  ELSE IF report.pending # None
  THEN [e EXCEPT !.observed = report.pending, !.last = report.pending, !.trust = FALSE]
  ELSE [e EXCEPT !.last = None,
                 !.trust = @ \/ e.last # None \/ hasNewerSuccessfulSync(e, report)]

(* An entry for another revision than the one that waited when the save    *)
(* began was seen, and is seen no more; or a later synchronization.        *)
ObserveSyncEvidence(e, report) ==
  IF e.phase = "inactive" \/ ~ report.ready THEN e
  ELSE IF report.pending # None
  THEN [e EXCEPT !.observed = IF report.pending # e.pending THEN report.pending ELSE @,
                 !.last = report.pending, !.trust = FALSE]
  ELSE [e EXCEPT !.last = None,
                 !.trust = \/ @
                           \/ e.observed # None /\ e.last = e.observed
                           \/ hasNewerSuccessfulSync(e, report)]
=============================================================================
