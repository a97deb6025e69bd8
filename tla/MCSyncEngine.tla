--------------------------- MODULE MCSyncEngine ---------------------------
(* Instances of SyncEngine for TLC. *)
EXTENDS SyncEngine

NoNotes == [local |-> EmptyPages, remote |-> EmptyPages]

(* A page synchronized earlier, under the lowest page key. *)
Synced(atDevices, inBucket) ==
  LET least == Least(Page)
      at(content) == [EmptyPages EXCEPT ![least] =
        [savedAt |-> 0, revisionId |-> Least(Revision), content |-> content]]
  IN [local |-> at(atDevices), remote |-> at(inBucket)]

MCContent == {"text", "cleared"}
MCCleared == "cleared"

OnlyEmpty == {NoNotes}

(* Also: an agreed note, and a bucket object rewritten outside PagePerch. *)
WithConflict == {NoNotes, Synced("text", "text"), Synced("text", "cleared")}

Agreed == {NoNotes, Synced("text", "text")}

OneProfile == [w \in Panel |-> CHOOSE d \in Device : TRUE]

(* One panel per device: the panels are the devices. *)
PanelPerDevice == [w \in Panel |-> w]
=============================================================================
