---------------------------- MODULE DurableNotes ----------------------------
(***************************************************************************)
(* What a side panel promises its user: edits are stored in the order they *)
(* are typed, an editor opens on the last edit of its page, and an edit is *)
(* only lost when the panel closes before it is stored                     *)
(* (src/docs/ARCHITECTURE.md; README.md, Daily use).                       *)
(***************************************************************************)
EXTENDS Naturals

CONSTANTS Page, None  \* None: no page

VARIABLES
  accepted, \* per page: the last edit the panel took
  stored,   \* per page: the edit the stored note has
  editing   \* the page whose editor takes edits, or None

vars == <<accepted, stored, editing>>

Init == /\ accepted = [p \in Page |-> 0]
        /\ stored = [p \in Page |-> 0]
        /\ editing = None

(* An editor opens on a page whose edits are all stored.                   *)
Open == /\ editing = None
        /\ \E p \in Page : accepted[p] = stored[p] /\ editing' = p
        /\ UNCHANGED <<accepted, stored>>

Edit == /\ \E p \in {editing} \ {None} :
             /\ accepted'[p] \in Nat /\ accepted'[p] > accepted[p]
             /\ accepted' = [accepted EXCEPT ![p] = accepted'[p]]
        /\ UNCHANGED <<stored, editing>>

Store == /\ \E p \in Page :
              /\ stored'[p] \in Nat
              /\ stored'[p] > stored[p] /\ stored'[p] <= accepted[p]
              /\ stored' = [stored EXCEPT ![p] = stored'[p]]
         /\ UNCHANGED <<accepted, editing>>

Leave == editing' = None /\ UNCHANGED <<accepted, stored>>

(* The panel closes. *)
Close == accepted' = stored /\ editing' = None /\ UNCHANGED stored

Next == Open \/ Edit \/ Store \/ Leave \/ Close

Spec == Init /\ [][Next]_vars
=============================================================================
