---------------------------- MODULE ReplicaRecords ----------------------------
(***************************************************************************)
(* Note records as synchronization sees them, and the order that decides   *)
(* which of two replicas of a page wins (src/src/sync/syncEngine.ts,       *)
(* src/src/domain/note.ts).                                                *)
(*                                                                         *)
(* A record keeps the two fields the order reads, savedAt and revisionId,  *)
(* and one field that stands for the rest of the record: two records with  *)
(* different content differ somewhere in recordsEqual.  Cleared is the     *)
(* content of a tombstone (contentHtml '' together with deletedAt).        *)
(* Revision identifiers are random UUIDs compared by code units: any total *)
(* order, so naturals.                                                     *)
(***************************************************************************)
EXTENDS Naturals

CONSTANTS
  Page,      \* page keys; naturals, because the engine visits them sorted
  Revision,  \* revision identifiers
  Content,   \* everything of a record that the order does not read
  Cleared,   \* the content of a tombstone
  Absent,    \* no record, or no queue entry, under a key
  MaxClock   \* bound: the last instant a device clock shows

ASSUME PageAssumption == Page \subseteq Nat
ASSUME RevisionAssumption == Revision \subseteq Nat
ASSUME AbsentRevisionAssumption == Absent \notin Revision
ASSUME ClearedAssumption == Cleared \in Content
ASSUME MaxClockAssumption == MaxClock \in Nat

Instant == 0..MaxClock

Record == [savedAt : Instant, revisionId : Revision, content : Content]

ASSUME AbsentRecordAssumption == Absent \notin Record

Slot == Record \cup {Absent}

-----------------------------------------------------------------------------
(* Mutant of Newer: revisions saved at the same instant are not ordered. *)
NewerByInstant(a, b) == a.savedAt > b.savedAt

(* One version precedes another by savedAt, then by revisionId. *)
Newer(a, b) ==
  \/ a.savedAt > b.savedAt
  \/ a.savedAt = b.savedAt /\ a.revisionId > b.revisionId

SameVersion(a, b) == a.savedAt = b.savedAt /\ a.revisionId = b.revisionId

compareReplicaRecords(local, remote) ==
  CASE Newer(local, remote) -> "local-wins"
    [] Newer(remote, local) -> "remote-wins"
    [] OTHER -> IF local = remote THEN "equal" ELSE "integrity-conflict"

(* b does not win over a; an absent record never wins. *)
AtLeast(a, b) == b = Absent \/ (a # Absent /\ ~Newer(b, a))
=============================================================================
