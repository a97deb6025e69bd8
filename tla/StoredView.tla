------------------------------ MODULE StoredView ------------------------------
(***************************************************************************)
(* The load cycle that keeps a view up to date with storage.  Three views  *)
(* have one: DefaultPageSyncVisibility and DefaultPendingSyncCount of      *)
(* src/src/sync/syncVisibility.ts, and DefaultRootRecentNotesIndex of      *)
(* src/src/side-panel/rootRecentNotes.ts.                                  *)
(*                                                                         *)
(* A cycle belongs to one page.  Every change of storage requests a load,  *)
(* one load runs at a time, and only the load of the last request is       *)
(* published.  requestedRevision and completedRevision are the same while  *)
(* nothing runs, so what matters of them is whether a request came after   *)
(* the running load had started: the load is superseded.                   *)
(***************************************************************************)
EXTENDS Naturals

CONSTANTS
  Shown,  \* page keys the view may be asked for
  None    \* undefined

(* seen: the answers that have reached the load, by source.                *)
NoLoad == [on |-> FALSE, seen |-> << >>, superseded |-> FALSE]
NewLoad == [on |-> TRUE, seen |-> << >>, superseded |-> FALSE]

NoCycle == [page |-> None, watching |-> FALSE, load |-> NoLoad]

(* #subscribe and the first #requestLoad; watching: no subscriptionError.  *)
NewCycle(page, watching) == [page |-> page, watching |-> watching, load |-> NewLoad]

(* Mutant of Requested: a request during a load is taken to be served.     *)
RequestedOnce(c) == IF c.load.on THEN c ELSE [c EXCEPT !.load = NewLoad]

(* #requestLoad *)
Requested(c) ==
  IF c.load.on THEN [c EXCEPT !.load.superseded = TRUE]
               ELSE [c EXCEPT !.load = NewLoad]

(* An answer of a repository reaches the load.                             *)
Answered(c, source, value) ==
  [c EXCEPT !.load.seen = [s \in DOMAIN @ \cup {source} |->
                             IF s = source THEN value ELSE @[s]]]

(* Mutant of LoadEnds: the load's revision is never completed.             *)
LoadRepeats(c) == [c EXCEPT !.load = NewLoad]

(* #runLoads: a superseded load is followed by another one.                *)
LoadEnds(c) == [c EXCEPT !.load = IF @.superseded THEN NewLoad ELSE NoLoad]
=============================================================================
