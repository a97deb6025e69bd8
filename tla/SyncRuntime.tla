----------------------------- MODULE SyncRuntime -----------------------------
(***************************************************************************)
(* The service worker's synchronization runs against a connection that     *)
(* options pages replace and remove under them:                            *)
(* src/src/background/byosSyncRuntime.ts with the credential providers of  *)
(* byosCoordinator.ts and byosProtocolCredentials.ts.                      *)
(*                                                                         *)
(* The engine is reduced to its remote operations, a list and then a put   *)
(* for each queued save; SyncEngine models it.  Backoff and the periods of *)
(* the alarms are left out: an alarm that is set fires at any time.        *)
(***************************************************************************)
EXTENDS ByosConnection

CONSTANT MaxSaves   \* bound: saves

ASSUME SavesAssumption == MaxSaves \in Nat

VARIABLES
  up,          \* the worker runs
  booting,     \* startSyncRuntime has not called start yet
  generation,  \* #connectionGeneration
  run,         \* #inFlight
  followUp,    \* #followUp is pending
  binding,     \* the connection the credential provider is bound to
  cache,       \* #cached: S3 credentials
  op,          \* the remote operation under way
  alarm,       \* the retry alarm is set
  queue,       \* saves in the durable queue
  saves,       \* saves so far
  owed,        \* history: no run has read the settings since the last new connection
  finished     \* history: connections with a complete synchronization

runVars == <<run, followUp>>
credentialVars == <<generation, binding, cache>>
saveVars == <<queue, saves>>
workerVars == <<up, booting, runVars, credentialVars, op, owed>>
vars == <<connectionVars, workerVars, alarm, saveVars, finished>>

(* #run: generation is connectionGeneration, current #inFlightGeneration;  *)
(* todo are the saves to put.                                              *)
NoRun == [at |-> "idle", conn |-> None, current |-> 0, generation |-> 0,
          listed |-> FALSE, todo |-> {}, failed |-> FALSE]
NewRun(g) == [NoRun EXCEPT !.at = "settings", !.current = g]

List == 0

Init ==
  /\ ConnectionInit
  /\ up = TRUE /\ booting = TRUE /\ generation = 0 /\ run = NoRun /\ followUp = FALSE
  /\ binding = None /\ cache = None /\ op = None /\ alarm = FALSE
  /\ queue = {} /\ saves = 0
  /\ owed = FALSE /\ finished = {}

(* ReadSettings and Bind have run, the engine has not ended. *)
Running == run.at = "engine"

-----------------------------------------------------------------------------
(* Triggers. *)

(* Mutant of Trigger: it always joins the run in flight.                   *)
TriggerJoins(g) ==
  /\ run' = IF run.at = "idle" THEN NewRun(g) ELSE run
  /\ UNCHANGED followUp

Trigger(g) ==
  /\ run' = IF run.at = "idle" THEN NewRun(g) ELSE run
  /\ followUp' = (followUp \/ (run.at # "idle" /\ run.current # g))

(* An event starts the worker when it is down. *)
Wake == up' = TRUE /\ booting' = (booting \/ ~up)

InvalidateCredentials ==
  /\ generation' = generation + 1
  /\ binding' = None /\ cache' = None

(* createSyncRuntimeMessageListener.  Both messages of an options page     *)
(* invalidate.                                                             *)
Deliver(o) ==
  /\ message[o] # None
  /\ message' = [message EXCEPT ![o] = None]
  /\ Wake /\ InvalidateCredentials
  /\ \/ message[o] = "connection" /\ Trigger(generation + 1) /\ owed' = TRUE
     \/ message[o] = "invalidate" /\ UNCHANGED <<runVars, owed>>
  /\ UNCHANGED <<settingsVars, pending, page, boundVars, faults, op, alarm, saveVars, finished>>

Lose(o) ==
  /\ message[o] # None /\ Fault
  /\ message' = [message EXCEPT ![o] = None]
  /\ UNCHANGED <<settingsVars, pending, page, boundVars, workerVars, alarm, saveVars, finished>>

(* startSyncRuntime: an interrupted identity migration is resumed first.   *)
Start ==
  /\ booting /\ booting' = FALSE
  /\ Trigger(generation)
  /\ UNCHANGED <<connectionVars, up, credentialVars, op, owed, alarm, saveVars, finished>>

(* The periodic alarm.  A panel that is opened, a local mutation and a     *)
(* finished identity migration send a message that does the same.          *)
PeriodicAlarm ==
  /\ Wake /\ Trigger(generation)
  /\ UNCHANGED <<connectionVars, credentialVars, op, owed, alarm, saveVars, finished>>

RetryAlarm ==
  /\ alarm /\ alarm' = FALSE
  /\ Wake /\ Trigger(generation)
  /\ UNCHANGED <<connectionVars, credentialVars, op, owed, saveVars, finished>>

(* Chrome suspends an idle worker and may kill a busy one. *)
Terminate ==
  /\ up /\ up' = FALSE
  /\ \/ run.at = "idle" /\ ~ booting /\ UNCHANGED faults
     \/ Fault
  /\ booting' = FALSE /\ generation' = 0 /\ run' = NoRun /\ followUp' = FALSE
  /\ binding' = None /\ cache' = None /\ op' = None /\ owed' = FALSE
  /\ UNCHANGED <<settingsVars, pending, page, message, boundVars, alarm, saveVars, finished>>

-----------------------------------------------------------------------------
(* createLocalMutationSyncObserver: it read the settings at a time when     *)
(* there was a connection.  Its message is a trigger like PeriodicAlarm.    *)
Enqueue ==
  /\ saves < MaxSaves
  /\ saves' = saves + 1 /\ queue' = queue \cup {saves'}
  /\ UNCHANGED <<connectionVars, workerVars, alarm, finished>>

-----------------------------------------------------------------------------
(* #run. *)

(* What most steps of a run leave alone. *)
outside == <<settingsVars, pending, page, message, boundVars, up, booting, saves>>

Goes(stage) == run' = [run EXCEPT !.at = stage] /\ UNCHANGED followUp

(* Mutant of EndRun: #inFlight is not cleared.                             *)
EndRunInFlight ==
  /\ run' = IF followUp THEN NewRun(generation) ELSE [run EXCEPT !.at = "settled"]
  /\ followUp' = FALSE /\ binding' = None

(* The operation settles and the follow-up, if any, triggers. *)
EndRun ==
  /\ run' = IF followUp THEN NewRun(generation) ELSE NoRun
  /\ followUp' = FALSE /\ binding' = None

ReadSettings ==
  /\ run.at = "settings"
  /\ \/ run' = [run EXCEPT !.at = "bind", !.conn = connection] /\ UNCHANGED <<followUp, faults>>
     \/ Goes("schedule") /\ Fault
  /\ owed' = FALSE
  /\ UNCHANGED <<outside, credentialVars, op, alarm, queue, finished>>

Usable(c) == c \notin expired \cup {None}

(* Mutant of IsCurrent: the connection is only tested for being there.     *)
IsThere(c) == connection # None

(* isSameConnectionIdentity. *)
IsCurrent(c) == connection = c

Bind ==
  /\ run.at = "bind"
  /\ \/ /\ Usable(run.conn)
        /\ run' = [run EXCEPT !.at = "engine", !.generation = generation]
        /\ binding' = run.conn /\ UNCHANGED followUp
     \/ ~ Usable(run.conn) /\ Goes("clear") /\ UNCHANGED binding
  /\ UNCHANGED <<outside, faults, generation, cache, op, owed, alarm, queue, finished>>

(* engine.sync throws; the credentials are released when the run ends.     *)
EngineThrows ==
  /\ Running /\ op = None
  /\ Goes("schedule") /\ Fault
  /\ UNCHANGED <<outside, credentialVars, op, owed, alarm, queue, finished>>

EngineEnds ==
  /\ Running /\ op = None /\ run.listed /\ run.todo = {}
  /\ LET complete == ~ run.failed /\ queue = {} IN
       /\ finished' = finished \cup (IF complete THEN {run.conn} ELSE {})
       /\ Goes(IF complete /\ run.generation = generation THEN "record" ELSE "schedule")
  /\ binding' = None
  /\ UNCHANGED <<outside, faults, generation, cache, op, owed, alarm, queue>>

(* updateLastSuccessfulSyncAtIfCurrent. *)
Record ==
  /\ run.at = "record"
  /\ \/ synced' = (synced \/ IsCurrent(run.conn)) /\ UNCHANGED faults
     \/ Fault /\ UNCHANGED synced
  /\ Goes("schedule")
  /\ UNCHANGED <<connection, expired, pending, page, message, boundVars, up, booting,
                 credentialVars, op, owed, alarm, saveVars, finished>>

(* #scheduleRetryAlarm: the queue is listed. *)
Schedule ==
  /\ run.at = "schedule"
  /\ \/ /\ Goes(IF queue = {} THEN "clear" ELSE "create")
        /\ UNCHANGED <<binding, faults>>
     \/ EndRun /\ Fault
  /\ UNCHANGED <<outside, generation, cache, op, owed, alarm, queue, finished>>

SetAlarm ==
  /\ run.at \in {"clear", "create"}
  /\ \/ alarm' = (run.at = "create") /\ UNCHANGED faults
     \/ Fault /\ UNCHANGED alarm
  /\ EndRun
  /\ UNCHANGED <<outside, generation, cache, op, owed, queue, finished>>

-----------------------------------------------------------------------------
(* A remote operation: the credential provider of the worker, the          *)
(* coordinator's getProtocolCredentials, the issuer, and the request.      *)

operationVars == <<outside, alarm, owed, finished>>

(* A list that fails makes the engine throw, a put is counted. *)
Failed(k) ==
  /\ op' = None
  /\ run' = IF k = List THEN [run EXCEPT !.at = "schedule"]
                        ELSE [run EXCEPT !.failed = TRUE, !.todo = @ \ {k}]
  /\ UNCHANGED followUp

Rejected == Failed(op.kind) /\ UNCHANGED faults
Breaks == Failed(op.kind) /\ Fault
OpGoes(stage) == op' = [op EXCEPT !.at = stage] /\ UNCHANGED <<runVars, faults>>

(* The providers get: nothing is bound once credentials were invalidated.  *)
StartOperation(k) ==
  /\ Running /\ op = None
  /\ IF run.listed THEN k \in run.todo ELSE k = List
  /\ \/ binding = None /\ Failed(k)
     \/ /\ binding # None
        /\ op' = [at |-> "before", kind |-> k, conn |-> run.conn, epoch |-> 0]
        /\ run' = IF k = List THEN [run EXCEPT !.todo = queue] ELSE run
        /\ UNCHANGED followUp
  /\ UNCHANGED <<operationVars, faults, credentialVars, queue>>

OpAt(stage) == op # None /\ op.at = stage

(* getProtocolCredentials reads the settings and continues with the token  *)
(* that is stored.                                                         *)
ReadBefore ==
  /\ OpAt("before")
  /\ \/ /\ IsCurrent(run.conn) /\ Usable(connection)
        /\ op' = [op EXCEPT !.at = "lookup", !.conn = connection]
        /\ UNCHANGED <<runVars, faults>>
     \/ ~ (IsCurrent(run.conn) /\ Usable(connection)) /\ Rejected
     \/ Breaks
  /\ UNCHANGED <<operationVars, credentialVars, queue>>

(* MemoryByosProtocolCredentialProvider.get. *)
Lookup ==
  /\ OpAt("lookup")
  /\ op' = IF cache # None /\ cache.conn = op.conn
           THEN [op EXCEPT !.at = "after", !.epoch = cache.epoch]
           ELSE [op EXCEPT !.at = "issuing", !.epoch = generation]
  /\ UNCHANGED <<operationVars, faults, runVars, credentialVars, queue>>

(* Mutant of Issue: a late answer is cached.                               *)
IssueLate ==
  /\ OpAt("issuing")
  /\ \/ OpGoes("after") /\ cache' = [conn |-> op.conn, epoch |-> op.epoch]
     \/ Breaks /\ UNCHANGED cache
  /\ UNCHANGED <<operationVars, generation, binding, queue>>

(* rejectIfCleared. *)
Issue ==
  /\ OpAt("issuing")
  /\ \/ /\ op.epoch = generation /\ OpGoes("after")
        /\ cache' = [conn |-> op.conn, epoch |-> op.epoch]
     \/ op.epoch # generation /\ Rejected /\ UNCHANGED cache
     \/ Breaks /\ UNCHANGED cache
  /\ UNCHANGED <<operationVars, generation, binding, queue>>

(* The settings are read again. *)
ReadAfter ==
  /\ OpAt("after")
  /\ \/ IsCurrent(run.conn) /\ OpGoes("send") /\ UNCHANGED cache
     \/ ~ IsCurrent(run.conn) /\ Rejected /\ cache' = None
     \/ Breaks /\ cache' = None
  /\ UNCHANGED <<operationVars, generation, binding, queue>>

(* The provider compares the binding; then the request leaves. *)
Send ==
  /\ OpAt("send")
  /\ \/ binding # None /\ OpGoes("sending")
     \/ binding = None /\ Rejected
  /\ UNCHANGED <<operationVars, credentialVars, queue>>

Respond ==
  /\ OpAt("sending")
  /\ \/ /\ op' = None /\ UNCHANGED <<followUp, faults>>
        /\ run' = [run EXCEPT !.listed = TRUE, !.todo = @ \ {op.kind}]
        /\ queue' = queue \ {op.kind}
     \/ Breaks /\ UNCHANGED queue
  /\ UNCHANGED <<operationVars, credentialVars>>

-----------------------------------------------------------------------------
RunStep ==
  \/ ReadSettings \/ Bind \/ EngineThrows \/ EngineEnds \/ Record \/ Schedule \/ SetAlarm
  \/ \E k \in 0 .. MaxSaves : StartOperation(k)
  \/ ReadBefore \/ Lookup \/ Issue \/ ReadAfter \/ Send \/ Respond

PageStep(o) == PageNext(o) /\ UNCHANGED <<workerVars, alarm, saveVars, finished>>

Next ==
  \/ \E o \in Page : PageStep(o) \/ Deliver(o) \/ Lose(o)
  \/ Expire /\ UNCHANGED <<workerVars, alarm, saveVars, finished>>
  \/ Start \/ PeriodicAlarm \/ RetryAlarm \/ Terminate
  \/ Enqueue
  \/ RunStep

Spec == Init /\ [][Next]_vars

(* Promises settle, messages arrive and the periodic alarm keeps firing.   *)
Fairness ==
  /\ WF_vars(RunStep) /\ WF_vars(Start) /\ WF_vars(PeriodicAlarm)
  /\ \A o \in Page : WF_vars(Deliver(o))

FairSpec == Spec /\ Fairness

-----------------------------------------------------------------------------
Run == [at : {"idle", "settings", "bind", "engine", "record", "schedule", "create", "clear"},
        conn : Connection \cup {None}, current : Nat, generation : Nat,
        listed : BOOLEAN, todo : SUBSET Nat, failed : BOOLEAN]
Operation == [at : {"before", "lookup", "issuing", "after", "send", "sending"},
              kind : Nat, conn : Connection \cup {None}, epoch : Nat]
Credentials == [conn : Connection \cup {None}, epoch : Nat]

TypeOK ==
  /\ ConnectionTypeOK
  /\ up \in BOOLEAN /\ booting \in BOOLEAN /\ generation \in Nat
  /\ run \in Run /\ followUp \in BOOLEAN
  /\ binding \in Connection \cup {None}
  /\ cache \in Credentials \cup {None} /\ op \in Operation \cup {None}
  /\ alarm \in BOOLEAN /\ queue \in SUBSET Nat /\ saves \in Nat /\ owed \in BOOLEAN
  /\ finished \subseteq Connection \cup {None}

(* A request leaves with credentials that were issued after the last       *)
(* invalidation, however late the issuer answered and whoever asked first: *)
(* the cache, rejectIfCleared and the binding together.                    *)
FreshCredentials ==
  [][(~ OpAt("sending") /\ OpAt("sending")') => op.epoch = generation]_vars

(* A request of a run carries credentials of the connection the run was    *)
(* bound to, although an operation reads the settings anew, twice.         *)
RequestsOfBoundConnection == OpAt("send") \/ OpAt("sending") => op.conn = run.conn

(* "Last synced" is only shown of a connection through which everything    *)
(* was synchronized, never of one that replaced it during the run.         *)
SuccessOfStoredConnection == synced => connection \in finished

(* A new connection is synchronized without waiting for an alarm: until a  *)
(* run reads the settings anew, one is about to or a follow-up waits for   *)
(* the run in flight, which has read them before.                          *)
ConnectionServed == owed => run.at = "settings" \/ followUp

(* A queued save leaves the queue, unless the connection ends: what a      *)
(* coalesced trigger misses, an alarm finds.                               *)
SavedIsSynced == (queue # {}) ~> (queue = {} \/ ~ Usable(connection))

(* README.md:147, "Disconnect clears [...] in-memory S3 credentials": once  *)
(* the connection is removed and no run is under way, none are cached.     *)
DisconnectClearsCredentials == connection = None /\ run.at = "idle" => cache = None
=============================================================================
