------------------------------ MODULE SyncLemmas ------------------------------
(***************************************************************************)
(* Facts about the operators SyncEngine is built from: the order of        *)
(* replica records, the sync queue's operations, and the updates of a      *)
(* run's local variables.                                                  *)
(***************************************************************************)
EXTENDS SyncEngine, WellFoundedInduction, TLAPS

(* A non-empty set of naturals has a least element. *)
LEMMA LeastOf ==
  ASSUME NEW S, S \subseteq Nat, S # {}
  PROVE  \E n \in S : n \in Nat /\ \A k \in Nat : k < n => k \notin S
<1>1. PICK n \in S : \A k \in S : ~(<<k, n>> \in OpToRel(<, Nat))
  BY NatLessThanWellFounded, WFMin
<1>2. ASSUME NEW k \in Nat, k < n, k \in S PROVE FALSE
  <2>1. <<k, n>> \in Nat \X Nat /\ <<k, n>>[1] < <<k, n>>[2]
    BY <1>2
  <2>2. <<k, n>> \in OpToRel(<, Nat)
    BY <2>1, Zenon DEF OpToRel
  <2>. QED
    BY <1>1, <1>2, <2>2
<1>. QED
  BY <1>2

(* Page keys are visited in order, so the next page of a non-empty set is  *)
(* a page of that set.                                                     *)
LEMMA LeastElement ==
  ASSUME NEW S, S \subseteq Nat, S # {}
  PROVE  Least(S) \in S
<1>1. PICK p \in S : \A k \in Nat : k < p => k \notin S
  BY LeastOf
<1>2. \A q \in S : p <= q
  BY <1>1
<1>. QED
  BY <1>2 DEF Least

-----------------------------------------------------------------------------
(* The order of replica records. *)

LEMMA Versions ==
  ASSUME NEW a \in Record
  PROVE  a.savedAt \in Nat /\ a.revisionId \in Nat /\ a # Absent
<1>1. a.savedAt \in Nat
  BY MaxClockAssumption DEF Record, Instant
<1>2. a.revisionId \in Nat
  BY RevisionAssumption DEF Record
<1>. QED
  BY <1>1, <1>2, AbsentRecordAssumption

(* A slot is absent or holds a record. *)
LEMMA SlotCases ==
  ASSUME NEW a \in Slot
  PROVE  a = Absent \/ a \in Record
BY DEF Slot

(* A record does not win over itself. *)
LEMMA AtLeastReflexive ==
  ASSUME NEW a \in Slot
  PROVE  AtLeast(a, a)
BY SlotCases, Versions DEF AtLeast, Newer

(* Winning or drawing is transitive, absent records last. *)
LEMMA AtLeastTransitive ==
  ASSUME NEW a \in Slot, NEW b \in Slot, NEW c \in Slot,
         AtLeast(a, b), AtLeast(b, c)
  PROVE  AtLeast(a, c)
<1>1. CASE c = Absent \/ b = Absent
  BY <1>1 DEF AtLeast
<1>2. CASE a \in Record /\ b \in Record /\ c \in Record
  BY <1>2, Versions DEF AtLeast, Newer
<1>. QED
  BY <1>1, <1>2, SlotCases DEF AtLeast

(* Two replicas are ordered one way or the other. *)
LEMMA AtLeastTotal ==
  ASSUME NEW a \in Slot, NEW b \in Slot, ~AtLeast(a, b)
  PROVE  AtLeast(b, a)
<1>1. CASE a = Absent
  BY <1>1 DEF AtLeast
<1>2. CASE a \in Record /\ b \in Record
  BY <1>2, Versions DEF AtLeast, Newer
<1>. QED
  BY <1>1, <1>2, SlotCases DEF AtLeast

(* local-wins: there is a local record and the remote one does not win. *)
LEMMA VerdictLocalWins ==
  ASSUME NEW l \in Slot, NEW r \in Slot, Verdict(l, r) = "local-wins"
  PROVE  l \in Record /\ AtLeast(l, r)
<1>1. l # Absent
  BY DEF Verdict
<1>2. CASE r = Absent
  BY <1>1, <1>2 DEF AtLeast, Slot
<1>3. CASE r # Absent
  <2>1. compareReplicaRecords(l, r) = "local-wins"
    BY <1>1, <1>3 DEF Verdict
  <2>2. Newer(l, r)
    BY <2>1 DEF compareReplicaRecords
  <2>. QED
    BY <1>1, <1>3, <2>2, SlotCases, Versions DEF AtLeast, Newer
<1>. QED
  BY <1>2, <1>3

(* remote-wins: the remote record strictly wins over a local one. *)
LEMMA VerdictRemoteWins ==
  ASSUME NEW l \in Slot, NEW r \in Slot, Verdict(l, r) = "remote-wins"
  PROVE  r \in Record /\ AtLeast(r, l) /\ (l = Absent \/ Newer(r, l))
<1>1. r # Absent
  BY DEF Verdict, compareReplicaRecords
<1>2. CASE l = Absent
  BY <1>1, <1>2 DEF AtLeast, Slot
<1>3. CASE l # Absent
  <2>1. compareReplicaRecords(l, r) = "remote-wins"
    BY <1>1, <1>3 DEF Verdict
  <2>2. Newer(r, l)
    BY <2>1 DEF compareReplicaRecords
  <2>. QED
    BY <1>1, <1>3, <2>2, SlotCases, Versions DEF AtLeast, Newer
<1>. QED
  BY <1>2, <1>3

(* equal: both sides hold the same record. *)
LEMMA VerdictEqual ==
  ASSUME NEW l \in Slot, NEW r \in Slot, Verdict(l, r) = "equal"
  PROVE  l \in Record /\ l = r
<1>1. l # Absent /\ r # Absent
  BY DEF Verdict
<1>2. compareReplicaRecords(l, r) = "equal"
  BY <1>1 DEF Verdict
<1>. QED
  BY <1>1, <1>2, SlotCases DEF compareReplicaRecords

(* orphan: only the queue lists the page. *)
LEMMA VerdictOrphan ==
  ASSUME NEW l \in Slot, NEW r \in Slot, Verdict(l, r) = "orphan"
  PROVE  l = Absent /\ r = Absent
BY DEF Verdict, compareReplicaRecords

-----------------------------------------------------------------------------
(* The sync queue.  Every operation leaves an entry or nothing. *)

LEMMA Entries ==
  ASSUME NEW e \in Entry
  PROVE  /\ e.revisionId \in Revision
         /\ e.attemptCount \in 0..MaxAttempts
         /\ e.nextAttemptAt \in Instant
         /\ e # Absent
BY AbsentEntryAssumption DEF Entry

(* AtMost stays within its bound. *)
LEMMA AtMostBound ==
  ASSUME NEW bound \in Nat, NEW n \in Nat
  PROVE  AtMost(bound, n) \in 0..bound
BY DEF AtMost

(* Enqueueing stores a well-formed entry. *)
LEMMA EnqueuedType ==
  ASSUME NEW slot \in QueueSlot, NEW revision \in Revision, NEW now \in Instant
  PROVE  Enqueued(slot, revision, now) \in QueueSlot
<1>1. 0 \in 0..MaxAttempts
  BY MaxAttemptsAssumption
<1>2. [revisionId |-> revision, attemptCount |-> 0, nextAttemptAt |-> now] \in Entry
  BY <1>1 DEF Entry
<1>. QED
  BY <1>2 DEF Enqueued, QueueSlot

(* Completion keeps the entry or removes it. *)
LEMMA CompletedType ==
  ASSUME NEW slot \in QueueSlot, NEW revision
  PROVE  Completed(slot, revision) \in {slot, Absent} \cap QueueSlot
BY DEF Completed, QueueSlot

(* The attempt count never passes its cap. *)
LEMMA NextAttemptType ==
  ASSUME NEW slot \in QueueSlot
  PROVE  NextAttempt(slot) \in 0..MaxAttempts
<1>1. CASE slot = Absent
  BY <1>1, MaxAttemptsAssumption DEF NextAttempt
<1>2. CASE slot # Absent
  <2>1. slot.attemptCount + 1 \in Nat
    BY <1>2, Entries, MaxAttemptsAssumption DEF QueueSlot
  <2>. QED
    BY <1>2, <2>1, AtMostBound, MaxAttemptsAssumption DEF NextAttempt
<1>. QED
  BY <1>1, <1>2

(* A retry delay is a natural number. *)
LEMMA RetryDelaysType ==
  ASSUME NEW attempt, NEW delay \in RetryDelays(attempt)
  PROVE  delay \in Nat
BY DelayAssumption DEF RetryDelays

(* Recording a failure stores a well-formed entry. *)
LEMMA FailedType ==
  ASSUME NEW slot \in QueueSlot, NEW revision \in Revision, NEW now \in Instant,
         NEW delay \in Nat
  PROVE  Failed(slot, revision, now, delay) \in QueueSlot
<1>1. AtMost(MaxClock, now + delay) \in Instant
  BY AtMostBound, MaxClockAssumption DEF Instant
<1>2. [revisionId    |-> revision,
       attemptCount  |-> NextAttempt(slot),
       nextAttemptAt |-> AtMost(MaxClock, now + delay)] \in Entry
  BY <1>1, NextAttemptType DEF Entry
<1>. QED
  BY <1>2 DEF Failed, QueueSlot

(* Only completion takes an entry away. *)
LEMMA FailedStays ==
  ASSUME NEW slot \in Entry, NEW revision, NEW now \in Instant, NEW delay \in Nat
  PROVE  Failed(slot, revision, now, delay) # Absent
<1>1. CASE slot.revisionId # revision
  BY <1>1, Entries DEF Failed
<1>2. CASE slot.revisionId = revision
  <2>1. AtMost(MaxClock, now + delay) \in Instant
    BY AtMostBound, MaxClockAssumption DEF Instant
  <2>2. [revisionId    |-> revision,
         attemptCount  |-> NextAttempt(slot),
         nextAttemptAt |-> AtMost(MaxClock, now + delay)] \in Entry
    BY <1>2, <2>1, Entries, NextAttemptType DEF Entry, QueueSlot
  <2>. QED
    BY <1>2, <2>2, AbsentEntryAssumption DEF Failed
<1>. QED
  BY <1>1, <1>2

(* Enqueueing leaves an entry behind. *)
LEMMA EnqueuedStays ==
  ASSUME NEW slot \in QueueSlot, NEW revision \in Revision, NEW now \in Instant
  PROVE  Enqueued(slot, revision, now) # Absent
<1>1. [revisionId |-> revision, attemptCount |-> 0, nextAttemptAt |-> now] \in Entry
  BY MaxAttemptsAssumption DEF Entry
<1>. QED
  BY <1>1, AbsentEntryAssumption DEF Enqueued

-----------------------------------------------------------------------------
(* The retry delay, for every number of attempts.  ExponentialDelay is     *)
(* recursive: that there is such a function is shown by its restrictions   *)
(* to 0..n, and facts about all attempts by the least one they fail for.   *)

(* What the delay of an attempt is, given those before it. *)
DelayOf(f, attempt) ==
  IF attempt <= 1 THEN BaseDelay ELSE AtMost(MaxDelay, 2 * f[attempt - 1])

DelaysUpTo(n) == {f \in [0..n -> Nat] : \A i \in 0..n : f[i] = DelayOf(f, i)}

(* The definition has a solution up to every attempt: the least attempt it *)
(* had none up to would be solved by one more step.                        *)
LEMMA DelaysUpToExist ==
  ASSUME NEW n \in Nat
  PROVE  DelaysUpTo(n) # {}
<1>. DEFINE S == {m \in Nat : DelaysUpTo(m) = {}}
<1>. SUFFICES ASSUME n \in S PROVE FALSE
  OBVIOUS
<1>1. PICK m \in S : m \in Nat /\ \A k \in Nat : k < m => k \notin S
  <2>1. S \subseteq Nat /\ S # {}
    OBVIOUS
  <2>. HIDE DEF S
  <2>. QED
    BY <2>1, LeastOf
<1>2. CASE m = 0
  <2>1. [i \in 0..m |-> BaseDelay] \in DelaysUpTo(m)
    BY <1>2, DelayAssumption DEF DelaysUpTo, DelayOf
  <2>. QED
    BY <1>1, <2>1
<1>3. CASE m # 0
  <2>1. m - 1 \in Nat /\ m - 1 < m
    BY <1>1, <1>3
  <2>2. PICK f : f \in DelaysUpTo(m - 1)
    BY <1>1, <2>1
  <2>. DEFINE g == [i \in 0..m |-> IF i < m THEN f[i] ELSE DelayOf(f, m)]
  <2>3. f \in [0..m - 1 -> Nat] /\ \A i \in 0..m - 1 : f[i] = DelayOf(f, i)
    BY <2>2 DEF DelaysUpTo
  <2>4. DelayOf(f, m) \in Nat
    BY <1>1, <1>3, <2>3, DelayAssumption DEF DelayOf, AtMost
  <2>5. g \in [0..m -> Nat]
    BY <1>1, <2>3, <2>4
  <2>6. ASSUME NEW i \in 0..m PROVE g[i] = DelayOf(g, i)
    <3>1. i > 1 => i - 1 \in 0..m - 1 /\ g[i - 1] = f[i - 1]
      BY <1>1, <2>6
    <3>2. DelayOf(g, i) = DelayOf(f, i)
      BY <1>1, <3>1, <2>6 DEF DelayOf
    <3>3. g[i] = DelayOf(f, i)
      BY <1>1, <2>3, <2>6
    <3>. QED
      BY <3>2, <3>3
  <2>7. g \in DelaysUpTo(m)
    BY <2>5, <2>6 DEF DelaysUpTo
  <2>. QED
    BY <1>1, <2>7
<1>. QED
  BY <1>2, <1>3

(* Two solutions agree as far as both go.                                  *)
LEMMA DelaysUpToAgree ==
  ASSUME NEW m \in Nat, NEW n \in Nat, NEW f \in DelaysUpTo(m), NEW g \in DelaysUpTo(n),
         NEW i \in Nat, i <= m, i <= n
  PROVE  f[i] = g[i]
<1>. DEFINE S == {k \in Nat : k <= m /\ k <= n /\ f[k] # g[k]}
<1>. SUFFICES ASSUME i \in S PROVE FALSE
  OBVIOUS
<1>1. PICK k \in S : k \in Nat /\ \A j \in Nat : j < k => j \notin S
  <2>1. S \subseteq Nat /\ S # {}
    OBVIOUS
  <2>. HIDE DEF S
  <2>. QED
    BY <2>1, LeastOf
<1>2. f[k] = DelayOf(f, k) /\ g[k] = DelayOf(g, k)
  BY <1>1 DEF DelaysUpTo
<1>3. k > 1 => f[k - 1] = g[k - 1]
  <2>. SUFFICES ASSUME k > 1 PROVE f[k - 1] = g[k - 1]
    OBVIOUS
  <2>1. k - 1 \in Nat /\ k - 1 < k /\ k - 1 <= m /\ k - 1 <= n
    BY <1>1
  <2>. QED
    BY <1>1, <2>1
<1>4. DelayOf(f, k) = DelayOf(g, k)
  BY <1>1, <1>3 DEF DelayOf
<1>. QED
  BY <1>1, <1>2, <1>4

(* The solutions together are the function the definition chooses.         *)
LEMMA DelayDefined ==
  ExponentialDelay = [attempt \in Nat |-> DelayOf(ExponentialDelay, attempt)]
<1>. DEFINE upTo(n) == CHOOSE f : f \in DelaysUpTo(n)
            h == [n \in Nat |-> upTo(n)[n]]
<1>1. \A n \in Nat : upTo(n) \in DelaysUpTo(n)
  BY DelaysUpToExist
<1>2. ASSUME NEW n \in Nat PROVE h[n] = DelayOf(h, n)
  <2>1. h[n] = DelayOf(upTo(n), n)
    <3>. HIDE DEF upTo
    <3>1. n \in 0..n /\ h[n] = upTo(n)[n] /\ upTo(n) \in DelaysUpTo(n)
      BY <1>1
    <3>. QED
      BY <3>1 DEF DelaysUpTo
  <2>2. CASE n <= 1
    BY <2>1, <2>2 DEF DelayOf
  <2>3. CASE n > 1
    <3>1. n - 1 \in Nat /\ n - 1 <= n
      BY <2>3
    <3>. HIDE DEF upTo
    <3>2. upTo(n)[n - 1] = upTo(n - 1)[n - 1]
      BY <1>1, <3>1, DelaysUpToAgree
    <3>3. h[n - 1] = upTo(n - 1)[n - 1]
      BY <3>1
    <3>. QED
      BY <2>1, <2>3, <3>2, <3>3 DEF DelayOf
  <2>. QED
    BY <2>2, <2>3
<1>3. h = [n \in Nat |-> DelayOf(h, n)]
  <2>. HIDE DEF h
  <2>1. h = [n \in Nat |-> h[n]]
    BY DEF h
  <2>. QED
    BY <1>2, <2>1
<1>4. \E f : f = [attempt \in Nat |-> DelayOf(f, attempt)]
  BY <1>3
<1>5. ExponentialDelay = CHOOSE f : f = [attempt \in Nat |-> DelayOf(f, attempt)]
  BY Zenon DEF ExponentialDelay, DelayOf
<1>. QED
  BY <1>4, <1>5

(* The shortest delay of an attempt is between the base and the maximum.   *)
LEMMA DelayBounds ==
  ASSUME NEW attempt \in Nat
  PROVE  ExponentialDelay[attempt] \in BaseDelay..MaxDelay
<1>. DEFINE S == {n \in Nat : ExponentialDelay[n] \notin BaseDelay..MaxDelay}
<1>. SUFFICES ASSUME attempt \in S PROVE FALSE
  OBVIOUS
<1>1. PICK n \in S : n \in Nat /\ \A k \in Nat : k < n => k \notin S
  <2>1. S \subseteq Nat /\ S # {}
    OBVIOUS
  <2>. HIDE DEF S
  <2>. QED
    BY <2>1, LeastOf
<1>2. ExponentialDelay[n] = DelayOf(ExponentialDelay, n)
  BY <1>1, DelayDefined
<1>3. n > 1
  BY <1>1, <1>2, DelayAssumption DEF DelayOf
<1>4. ExponentialDelay[n - 1] \in BaseDelay..MaxDelay
  BY <1>1, <1>3
<1>. QED
  BY <1>1, <1>2, <1>3, <1>4, DelayAssumption DEF DelayOf, AtMost

(* The shortest delay doubles with every attempt until it is the maximum.  *)
LEMMA DelayGrows ==
  ASSUME NEW attempt \in Nat
  PROVE  /\ ExponentialDelay[attempt] <= ExponentialDelay[attempt + 1]
         /\ attempt > 0 =>
              ExponentialDelay[attempt + 1] \in {MaxDelay, 2 * ExponentialDelay[attempt]}
<1>1. /\ ExponentialDelay[attempt] = DelayOf(ExponentialDelay, attempt)
      /\ ExponentialDelay[attempt + 1] = DelayOf(ExponentialDelay, attempt + 1)
  BY DelayDefined
<1>2. ExponentialDelay[attempt] \in BaseDelay..MaxDelay
  BY DelayBounds
<1>3. CASE attempt = 0
  BY <1>1, <1>3, DelayAssumption DEF DelayOf
<1>4. CASE attempt > 0
  <2>1. ExponentialDelay[attempt + 1] = AtMost(MaxDelay, 2 * ExponentialDelay[attempt])
    BY <1>1, <1>4 DEF DelayOf
  <2>. QED
    BY <1>2, <1>4, <2>1, DelayAssumption DEF AtMost
<1>. QED
  BY <1>3, <1>4

-----------------------------------------------------------------------------
(* Updates of a run. *)

LEMMA IdleRunType == IdleRun \in Run
BY MaxClockAssumption
   DEF IdleRun, Run, PC, Instant, EmptyPages, Slot, QueueSlot, Source

(* Goto moves one run's program counter and nothing else. *)
LEMMA GotoRun ==
  ASSUME run \in [Device -> Run], NEW d \in Device, NEW pc \in PC, Goto(d, pc)
  PROVE  /\ run' \in [Device -> Run]
         /\ \A e \in Device \ {d} : run'[e] = run[e]
         /\ run'[d] = [run[d] EXCEPT !.pc = pc]
<1>1. run' = [run EXCEPT ![d] = [run[d] EXCEPT !.pc = pc]]
  BY DEF Goto
<1>2. [run[d] EXCEPT !.pc = pc] \in Run
  BY DEF Run
<1>. QED
  BY <1>1, <1>2

(* NextPage drops the current page and merges the two flags. *)
LEMMA NextPageRun ==
  ASSUME run \in [Device -> Run], NEW d \in Device,
         NEW issue \in BOOLEAN, NEW deferral \in BOOLEAN,
         NextPage(d, issue, deferral)
  PROVE  /\ run' \in [Device -> Run]
         /\ \A e \in Device \ {d} : run'[e] = run[e]
         /\ run'[d] = [run[d] EXCEPT !.pc = "page", !.todo = @ \ {Current(d)},
                                     !.issues = @ \/ issue,
                                     !.deferred = @ \/ deferral]
<1>. DEFINE r == [run[d] EXCEPT !.pc = "page", !.todo = @ \ {Current(d)},
                                !.issues = @ \/ issue,
                                !.deferred = @ \/ deferral]
<1>1. run' = [run EXCEPT ![d] = r]
  BY DEF NextPage
<1>2. r \in Run
  BY DEF Run, PC
<1>. QED
  BY <1>1, <1>2

(* EndRun resets one run and sets its outcome. *)
LEMMA EndRunRun ==
  ASSUME run \in [Device -> Run], outcome \in [Device -> Outcome],
         NEW d \in Device, NEW result \in Outcome, EndRun(d, result)
  PROVE  /\ run' \in [Device -> Run]
         /\ outcome' \in [Device -> Outcome]
         /\ \A e \in Device \ {d} : run'[e] = run[e] /\ outcome'[e] = outcome[e]
         /\ run'[d] = IdleRun /\ outcome'[d] = result
BY IdleRunType DEF EndRun

(* The same updates, field by field. *)
SameListings(d) ==
  /\ run'[d].now = run[d].now
  /\ run'[d].local = run[d].local
  /\ run'[d].remote = run[d].remote
  /\ run'[d].queue = run[d].queue

(* GotoRun, field by field. *)
LEMMA GotoFields ==
  ASSUME run \in [Device -> Run], NEW d \in Device, NEW pc \in PC, Goto(d, pc)
  PROVE  /\ \A e \in Device \ {d} : run'[e] = run[e]
         /\ run'[d].pc = pc
         /\ run'[d].todo = run[d].todo
         /\ run'[d].issues = run[d].issues
         /\ run'[d].deferred = run[d].deferred
         /\ SameListings(d)
<1>1. /\ \A e \in Device \ {d} : run'[e] = run[e]
      /\ run'[d] = [run[d] EXCEPT !.pc = pc]
  BY GotoRun
<1>. QED
  BY <1>1 DEF Run, SameListings

(* NextPageRun, field by field. *)
LEMMA NextPageFields ==
  ASSUME run \in [Device -> Run], NEW d \in Device,
         NEW issue \in BOOLEAN, NEW deferral \in BOOLEAN,
         NextPage(d, issue, deferral)
  PROVE  /\ \A e \in Device \ {d} : run'[e] = run[e]
         /\ run'[d].pc = "page"
         /\ run'[d].todo = run[d].todo \ {Current(d)}
         /\ run'[d].issues = (run[d].issues \/ issue)
         /\ run'[d].deferred = (run[d].deferred \/ deferral)
         /\ SameListings(d)
<1>1. /\ \A e \in Device \ {d} : run'[e] = run[e]
      /\ run'[d] = [run[d] EXCEPT !.pc = "page", !.todo = @ \ {Current(d)},
                                  !.issues = @ \/ issue,
                                  !.deferred = @ \/ deferral]
  BY NextPageRun, Zenon
<1>. QED
  BY <1>1 DEF Run, SameListings
=============================================================================
