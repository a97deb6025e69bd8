------------------------------ MODULE SyncedNotes ------------------------------
(***************************************************************************)
(* What the extension pages of one device can see of saves and of          *)
(* synchronization: the notes and the sync queue in chrome.storage.local,  *)
(* the saves under way, whether a run is under way and whether the last    *)
(* one ended as synced.  SyncEngine implements it, whatever the other      *)
(* devices and the bucket do (SyncEngine!ImplementsSyncedNotes).           *)
(***************************************************************************)
EXTENDS ReplicaRecords

CONSTANT Window  \* the side panels of the device

VARIABLES
  notes,    \* the note of each page
  waiting,  \* the revision that is queued for each page, or Absent
  saves,    \* the save each side panel has in progress on each page
  running,  \* the service worker synchronizes
  synced    \* its last run ended as synced

surface == <<notes, waiting, saves, running, synced>>

NoSave == [stage |-> "none"]
NothingWaits == \A p \in Page : waiting[p] = Absent

NotesInit ==
  /\ notes \in [Page -> Slot]
  /\ waiting = [p \in Page |-> Absent]
  /\ saves = [w \in Window |-> [p \in Page |-> NoSave]]
  /\ running = FALSE /\ synced = FALSE

-----------------------------------------------------------------------------
(* A save reads the note, writes it and queues its revision, or ends early.*)

BeginSave(w, p, record) ==
  /\ saves[w][p] = NoSave
  /\ IF notes[p] = Absent THEN record.content # Cleared
                          ELSE record.content # notes[p].content
  /\ saves' = [saves EXCEPT ![w][p] = [stage |-> "put", record |-> record]]
  /\ UNCHANGED <<notes, waiting, running, synced>>

PutNote(w, p) ==
  /\ saves[w][p].stage = "put"
  /\ notes' = [notes EXCEPT ![p] = saves[w][p].record]
  /\ saves' = [saves EXCEPT ![w][p].stage = "observe"]
  /\ UNCHANGED <<waiting, running, synced>>

Observe(w, p) ==
  /\ saves[w][p].stage = "observe"
  /\ waiting' = [waiting EXCEPT ![p] = saves[w][p].record.revisionId]
  /\ saves' = [saves EXCEPT ![w][p] = NoSave]
  /\ UNCHANGED <<notes, running, synced>>

DropSave(w, p) ==
  /\ saves[w][p] # NoSave
  /\ saves' = [saves EXCEPT ![w][p] = NoSave]
  /\ UNCHANGED <<notes, waiting, running, synced>>

-----------------------------------------------------------------------------
(* Synchronization. *)

StartRun ==
  /\ ~ running
  /\ running' = TRUE /\ synced' = FALSE
  /\ UNCHANGED <<notes, waiting, saves>>

(* A record of the bucket replaces a note that it wins over.               *)
Download(p, record) ==
  /\ running
  /\ notes[p] # Absent => Newer(record, notes[p])
  /\ notes' = [notes EXCEPT ![p] = record]
  /\ UNCHANGED <<waiting, saves, running, synced>>

(* An entry is completed, or retired because it is not of the listed note. *)
Retire(p) ==
  /\ running /\ waiting[p] # Absent
  /\ waiting' = [waiting EXCEPT ![p] = Absent]
  /\ UNCHANGED <<notes, saves, running, synced>>

(* A failed upload is queued when nothing else is.                         *)
Requeue(p, revision) ==
  /\ running /\ waiting[p] = Absent
  /\ waiting' = [waiting EXCEPT ![p] = revision]
  /\ UNCHANGED <<notes, saves, running, synced>>

(* The summary, a failure, or the end of the worker.                       *)
EndRun ==
  /\ running /\ running' = FALSE
  /\ synced' \in {FALSE, NothingWaits}
  /\ UNCHANGED <<notes, waiting, saves>>

-----------------------------------------------------------------------------
NotesNext ==
  \/ StartRun \/ EndRun
  \/ \E w \in Window, p \in Page :
       \/ \E record \in Record : BeginSave(w, p, record)
       \/ PutNote(w, p) \/ Observe(w, p) \/ DropSave(w, p)
  \/ \E p \in Page :
       \/ Retire(p)
       \/ \E record \in Record : Download(p, record)
       \/ \E revision \in Revision : Requeue(p, revision)

NotesSpec == NotesInit /\ [][NotesNext]_surface

-----------------------------------------------------------------------------
Save == {NoSave} \cup [stage : {"put", "observe"}, record : Record]

(* Every variable has its type.                                            *)
SurfaceTypeOK ==
  /\ notes \in [Page -> Slot]
  /\ waiting \in [Page -> Revision \cup {Absent}]
  /\ saves \in [Window -> [Page -> Save]]
  /\ running \in BOOLEAN /\ synced \in BOOLEAN
=============================================================================
