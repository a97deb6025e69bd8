------------------------------ MODULE SyncQueue ------------------------------
(***************************************************************************)
(* The durable sync queue: at most one entry per page, holding the         *)
(* revision that still has to reach the remote replica and its retry       *)
(* schedule (src/src/repositories/chromeLocalSyncQueue.ts,                 *)
(* src/src/sync/syncQueue.ts).                                             *)
(*                                                                         *)
(* Every operation is one critical section under the storage Web Lock, so  *)
(* each is an operator from the stored entry of one page to the next one.  *)
(***************************************************************************)
EXTENDS ReplicaRecords, FiniteSets

CONSTANTS
  BaseDelay,   \* SYNC_RETRY_BASE_DELAY_MS, 5000 in the program
  MaxDelay,    \* SYNC_RETRY_MAX_DELAY_MS, 900000 in the program
  MaxAttempts  \* SYNC_RETRY_MAX_ATTEMPT_COUNT, 31 in the program

ASSUME DelayAssumption ==
  /\ BaseDelay \in Nat \ {0}
  /\ MaxDelay \in Nat
  /\ BaseDelay <= MaxDelay
ASSUME MaxAttemptsAssumption == MaxAttempts \in Nat \ {0}

Entry == [revisionId : Revision, attemptCount : 0..MaxAttempts,
          nextAttemptAt : Instant]

ASSUME AbsentEntryAssumption == Absent \notin Entry

QueueSlot == Entry \cup {Absent}

AtMost(bound, n) == IF n < bound THEN n ELSE bound

-----------------------------------------------------------------------------
(* The delay doubles with every attempt until it passes MaxDelay. *)
ExponentialDelay[attempt \in Nat] ==
  IF attempt <= 1 THEN BaseDelay
                  ELSE AtMost(MaxDelay, 2 * ExponentialDelay[attempt - 1])

(* calculateSyncRetryDelayMs for every random value in [0, 1): the delay   *)
(* stretched by less than a factor of two, and never beyond MaxDelay.      *)
RetryDelays(attempt) ==
  {delay \in BaseDelay..MaxDelay :
     /\ ExponentialDelay[attempt] <= delay
     /\ delay < 2 * ExponentialDelay[attempt]}

-----------------------------------------------------------------------------
(* Mutant of Enqueued: every intent starts a new schedule. *)
EnqueuedAfresh(slot, revision, now) ==
  [revisionId |-> revision, attemptCount |-> 0, nextAttemptAt |-> now]

(* Intent for a revision that is already queued keeps its retry schedule;  *)
(* intent for another revision replaces the entry.                         *)
Enqueued(slot, revision, now) ==
  IF slot # Absent /\ slot.revisionId = revision
  THEN slot
  ELSE [revisionId |-> revision, attemptCount |-> 0, nextAttemptAt |-> now]

(* Removal is conditional on the revision. *)
Completed(slot, revision) ==
  IF slot # Absent /\ slot.revisionId = revision THEN Absent ELSE slot

(* Mutant of NextAttempt: the attempt count has no cap. *)
NextAttemptUncapped(slot) ==
  IF slot = Absent THEN 1 ELSE slot.attemptCount + 1

NextAttempt(slot) ==
  IF slot = Absent THEN 1 ELSE AtMost(MaxAttempts, slot.attemptCount + 1)

(* A failed attempt advances the schedule of exactly that revision and     *)
(* creates the entry when there is none.  A retry beyond the last instant  *)
(* of the model's clock is due at that instant.                            *)
Failed(slot, revision, now, delay) ==
  IF slot # Absent /\ slot.revisionId # revision
  THEN slot
  ELSE [revisionId    |-> revision,
        attemptCount  |-> NextAttempt(slot),
        nextAttemptAt |-> AtMost(MaxClock, now + delay)]

Due(slot, now) == slot # Absent /\ slot.nextAttemptAt <= now
=============================================================================
