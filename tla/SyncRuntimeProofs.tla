-------------------------- MODULE SyncRuntimeProofs --------------------------
(***************************************************************************)
(* Proofs about the worker's runs and the connection.                      *)
(***************************************************************************)
EXTENDS SyncRuntime, TLAPS

USE DEF List

-----------------------------------------------------------------------------
(* Type correctness. *)

LEMMA InitTyped == Init => TypeOK
<1> SUFFICES ASSUME Init PROVE TypeOK
  OBVIOUS
<1>1. ConnectionTypeOK
  <2>1. Idle \in [at : Stage, attempt : Nat]
    BY DEF Idle, Stage
  <2> QED BY <2>1 DEF Init, ConnectionInit, ConnectionTypeOK, Connection
<1>2. NoRun \in Run
  BY DEF NoRun, Run
<1> QED BY <1>1, <1>2 DEF Init, TypeOK

(* The stages of a page's operation.                                       *)
LEMMA MovesTyped ==
  ASSUME page \in [Page -> [at : Stage, attempt : Nat]], NEW o \in Page, NEW stage \in Stage,
         Moves(o, stage)
  PROVE  page' \in [Page -> [at : Stage, attempt : Nat]]
  BY DEF Moves, Idle, Stage

LEMMA FaultTyped ==
  ASSUME faults \in Nat, Fault \/ UNCHANGED faults
  PROVE  faults' \in Nat
  BY DEF Fault

LEMMA PageTyped ==
  ASSUME ConnectionTypeOK, NEW o \in Page, PageNext(o)
  PROVE  ConnectionTypeOK'
<1> USE DEF ConnectionTypeOK, Connection
<1>1. CASE Connect(o)
  BY <1>1, MovesTyped DEF Connect, Steps, settingsVars, boundVars, Stage
<1>2. CASE ClearPending(o)
  BY <1>2, MovesTyped, FaultTyped DEF ClearPending, Steps, Fails, settingsVars, boundVars, Stage
<1>3. CASE Prepare(o)
  <2>1. page' \in [Page -> [at : Stage, attempt : Nat]]
    <3>1. attempts' \in Nat
      BY <1>3 DEF Prepare
    <3>2. CASE page' = [page EXCEPT ![o] = [@ EXCEPT !.at = "consent", !.attempt = attempts']]
      BY <3>1, <3>2 DEF Stage
    <3> QED BY <1>3, <3>2, MovesTyped DEF Prepare, Fails, Stage
  <2>2. attempts' \in Nat /\ faults' \in Nat
    BY <1>3, FaultTyped DEF Prepare, Fails
  <2> QED BY <1>3, <2>1, <2>2 DEF Prepare, Fails, settingsVars
<1>4. CASE Consent(o)
  BY <1>4, MovesTyped DEF Consent, Steps, settingsVars, boundVars, Stage
<1>5. CASE LoadPending(o)
  BY <1>5, MovesTyped DEF LoadPending, Steps, settingsVars, boundVars, Stage
<1>6. CASE StoreConnection(o)
  BY <1>6, MovesTyped, FaultTyped DEF StoreConnection, Steps, Fails, boundVars, Stage
<1>7. CASE Finish(o)
  BY <1>7, MovesTyped, FaultTyped DEF Finish, Steps, Fails, settingsVars, boundVars, Stage
<1>8. CASE Abort(o)
  BY <1>8, MovesTyped, FaultTyped DEF Abort, Steps, Fails, settingsVars, boundVars, Stage
<1>9. CASE Disconnect(o)
  BY <1>9, MovesTyped DEF Disconnect, Steps, settingsVars, Stage
<1>10. CASE Forget(o)
  BY <1>10, MovesTyped, FaultTyped DEF Forget, Steps, Fails, settingsVars, boundVars, Stage
<1>11. CASE Remove(o)
  BY <1>11, MovesTyped, FaultTyped DEF Remove, Steps, Fails, boundVars, Stage
<1>12. CASE Close(o)
  BY <1>12, MovesTyped, FaultTyped DEF Close, Fails, settingsVars, boundVars, Stage
<1> QED BY <1>1, <1>2, <1>3, <1>4, <1>5, <1>6, <1>7, <1>8, <1>9, <1>10, <1>11, <1>12
        DEF PageNext

(* The runs a trigger, the end of a run and a change of stage leave.       *)
LEMMA NewRunTyped ==
  ASSUME NEW g \in Nat
  PROVE  /\ NewRun(g) \in Run /\ NewRun(g).at = "settings" /\ NewRun(g).current = g
         /\ NoRun \in Run /\ NoRun.at = "idle" /\ NoRun.current = 0
  BY DEF NewRun, NoRun, Run, Connection

LEMMA TriggerTyped ==
  ASSUME run \in Run, followUp \in BOOLEAN, NEW g \in Nat, Trigger(g)
  PROVE  run' \in Run /\ followUp' \in BOOLEAN
  BY NewRunTyped DEF Trigger

LEMMA EndRunTyped ==
  ASSUME generation \in Nat, EndRun
  PROVE  run' \in Run /\ followUp' \in BOOLEAN
  BY NewRunTyped DEF EndRun

LEMMA FailedTyped ==
  ASSUME run \in Run, NEW k \in Nat, Failed(k)
  PROVE  run' \in Run /\ op' = None /\ followUp' = followUp
  BY DEF Failed, Run

LEMMA WorkerEventTyped ==
  ASSUME TypeOK,
         \/ \E o \in Page : Deliver(o) \/ Lose(o)
         \/ Start \/ PeriodicAlarm \/ RetryAlarm \/ Terminate \/ Enqueue
  PROVE  TypeOK'
<1> USE DEF TypeOK, ConnectionTypeOK
<1>1. ASSUME NEW o \in Page, Deliver(o) PROVE TypeOK'
  <2>1. run' \in Run /\ followUp' \in BOOLEAN
    <3>1. generation + 1 \in Nat
      OBVIOUS
    <3> QED BY <1>1, <3>1, TriggerTyped DEF Deliver, runVars
  <2>2. message' \in [Page -> {None, "invalidate", "connection"}]
    BY <1>1 DEF Deliver
  <2>3. ConnectionTypeOK'
    BY <1>1, <2>2 DEF Deliver, settingsVars, boundVars
  <2>4. generation' \in Nat /\ binding' = None /\ cache' = None
    BY <1>1 DEF Deliver, InvalidateCredentials
  <2>5. up' \in BOOLEAN /\ booting' \in BOOLEAN /\ owed' \in BOOLEAN
    BY ONLY <1>1, owed \in BOOLEAN, Zenon DEF Deliver, Wake, runVars
  <2> QED BY <1>1, <2>1, <2>3, <2>4, <2>5 DEF Deliver, saveVars
<1>2. ASSUME NEW o \in Page, Lose(o) PROVE TypeOK'
  BY <1>2, FaultTyped DEF Lose, settingsVars, boundVars, workerVars, runVars, credentialVars, saveVars
<1>3. CASE Start
  BY <1>3, TriggerTyped DEF Start, connectionVars, credentialVars, saveVars
<1>4. CASE PeriodicAlarm
  BY <1>4, TriggerTyped DEF PeriodicAlarm, Wake, connectionVars, credentialVars, saveVars
<1>5. CASE RetryAlarm
  BY <1>5, TriggerTyped DEF RetryAlarm, Wake, connectionVars, credentialVars, saveVars
<1>6. CASE Terminate
  <2>1. NoRun \in Run /\ 0 \in Nat
    BY NewRunTyped
  <2> QED BY <1>6, <2>1, FaultTyped DEF Terminate, settingsVars, boundVars, saveVars
<1>7. CASE Enqueue
  BY <1>7 DEF Enqueue, connectionVars, workerVars, runVars, credentialVars
<1> QED BY <1>1, <1>2, <1>3, <1>4, <1>5, <1>6, <1>7

LEMMA RunTyped ==
  ASSUME TypeOK,
         \/ ReadSettings \/ Bind \/ EngineThrows \/ EngineEnds \/ Record \/ Schedule \/ SetAlarm
  PROVE  TypeOK'
<1> USE DEF TypeOK, ConnectionTypeOK, outside, settingsVars, boundVars, runVars, credentialVars
<1>0. ASSUME NEW stage \in {"engine", "record", "schedule", "create", "clear"}, Goes(stage)
      PROVE  run' \in Run /\ followUp' \in BOOLEAN
  BY <1>0 DEF Goes, Run
<1>1. CASE ReadSettings
  <2>1. run' \in Run /\ followUp' \in BOOLEAN
    BY <1>0, <1>1 DEF ReadSettings, Run
  <2> QED BY <1>1, <2>1, FaultTyped DEF ReadSettings
<1>2. CASE Bind
  <2>1. run' \in Run /\ followUp' \in BOOLEAN
    BY <1>0, <1>2 DEF Bind, Run
  <2>2. run.conn \in Connection \cup {None}
    BY DEF Run
  <2> QED BY <1>2, <2>1, <2>2 DEF Bind
<1>3. CASE EngineThrows
  BY <1>0, <1>3, FaultTyped DEF EngineThrows
<1>4. CASE EngineEnds
  <2>1. run' \in Run /\ followUp' \in BOOLEAN
    BY <1>0, <1>4 DEF EngineEnds
  <2>2. run.conn \in Connection \cup {None}
    BY DEF Run
  <2> QED BY <1>4, <2>1, <2>2 DEF EngineEnds
<1>5. CASE Record
  BY <1>0, <1>5, FaultTyped DEF Record, saveVars
<1>6. CASE Schedule
  <2>1. run' \in Run /\ followUp' \in BOOLEAN
    BY <1>0, <1>6, EndRunTyped DEF Schedule
  <2> QED BY <1>6, <2>1, FaultTyped DEF Schedule, EndRun
<1>7. CASE SetAlarm
  BY <1>7, EndRunTyped, FaultTyped DEF SetAlarm, EndRun
<1> QED BY <1>1, <1>2, <1>3, <1>4, <1>5, <1>6, <1>7

LEMMA OperationTyped ==
  ASSUME TypeOK,
         \/ \E k \in 0 .. MaxSaves : StartOperation(k)
         \/ ReadBefore \/ Lookup \/ Issue \/ ReadAfter \/ Send \/ Respond
  PROVE  TypeOK'
<1> USE DEF TypeOK, ConnectionTypeOK, operationVars, outside, settingsVars, boundVars, runVars,
            credentialVars
<1>a. op # None => op \in Operation /\ op.kind \in Nat /\ op.epoch \in Nat
                   /\ op.conn \in Connection \cup {None}
  BY DEF Operation
<1>b. ASSUME NEW stage \in {"before", "lookup", "issuing", "after", "send", "sending"}, op # None
      PROVE  [op EXCEPT !.at = stage] \in Operation
  BY <1>a, <1>b DEF Operation
<1>c. ASSUME op # None, Rejected \/ Breaks
      PROVE  run' \in Run /\ op' = None /\ followUp' = followUp /\ faults' \in Nat
  BY <1>a, <1>c, FailedTyped, FaultTyped DEF Rejected, Breaks
<1>d. ASSUME NEW stage \in {"send", "sending", "after"}, op # None, OpGoes(stage)
      PROVE  op' \in Operation /\ run' = run /\ followUp' = followUp /\ faults' = faults
  BY <1>b, <1>d DEF OpGoes
<1>1. ASSUME NEW k \in 0 .. MaxSaves, StartOperation(k) PROVE TypeOK'
  <2>1. CASE binding = None /\ Failed(k)
    BY <1>1, <2>1, FailedTyped, SavesAssumption DEF StartOperation
  <2>2. CASE binding # None
    <3>1. run' \in Run
      BY <1>1, <2>2 DEF StartOperation, Run
    <3>2. op' \in Operation
      BY <1>1, <2>2, SavesAssumption DEF StartOperation, Operation, Run
    <3> QED BY <1>1, <2>2, <3>1, <3>2 DEF StartOperation
  <2> QED BY <1>1, <2>1, <2>2 DEF StartOperation
<1>2. CASE ReadBefore
  <2>1. CASE Rejected \/ Breaks
    BY <1>2, <1>c, <2>1 DEF ReadBefore, OpAt
  <2>2. CASE op' = [op EXCEPT !.at = "lookup", !.conn = connection] /\ UNCHANGED <<runVars, faults>>
    <3>1. op' \in Operation
      BY <1>2, <1>a, <2>2 DEF ReadBefore, OpAt, Operation
    <3> QED BY <1>2, <2>2, <3>1 DEF ReadBefore
  <2> QED BY <1>2, <2>1, <2>2 DEF ReadBefore
<1>3. CASE Lookup
  <2>1. op' \in Operation
    BY <1>3, <1>a DEF Lookup, OpAt, Operation, Credentials
  <2> QED BY <1>3, <2>1 DEF Lookup
<1>4. CASE Issue
  <2>1. CASE (Rejected \/ Breaks) /\ UNCHANGED cache
    BY <1>4, <1>c, <2>1 DEF Issue, OpAt
  <2>2. CASE OpGoes("after") /\ cache' = [conn |-> op.conn, epoch |-> op.epoch]
    BY <1>4, <1>a, <1>d, <2>2 DEF Issue, OpAt, Credentials
  <2> QED BY <1>4, <2>1, <2>2 DEF Issue
<1>5. CASE ReadAfter
  BY <1>5, <1>c, <1>d DEF ReadAfter, OpAt
<1>6. CASE Send
  BY <1>6, <1>c, <1>d DEF Send, OpAt
<1>7. CASE Respond
  <2>1. CASE Breaks
    BY <1>7, <1>c, <2>1 DEF Respond, OpAt
  <2>2. CASE run' = [run EXCEPT !.listed = TRUE, !.todo = @ \ {op.kind}]
    <3>1. run' \in Run
      BY <2>2 DEF Run
    <3> QED BY <1>7, <1>c, <3>1 DEF Respond, OpAt
  <2> QED BY <1>7, <2>1, <2>2 DEF Respond
<1> QED BY <1>1, <1>2, <1>3, <1>4, <1>5, <1>6, <1>7

(* Every variable of the pages and of the worker keeps its type.           *)
THEOREM RuntimeTypeCorrect == Spec => []TypeOK
<1>1. Init => TypeOK
  BY InitTyped
<1>2. TypeOK /\ [Next]_vars => TypeOK'
  <2> SUFFICES ASSUME TypeOK, [Next]_vars PROVE TypeOK'
    OBVIOUS
  <2>1. ASSUME NEW o \in Page, PageStep(o) PROVE TypeOK'
    BY <2>1, PageTyped
       DEF PageStep, TypeOK, workerVars, runVars, credentialVars, saveVars
  <2>2. CASE Expire /\ UNCHANGED <<workerVars, alarm, saveVars, finished>>
    BY <2>2 DEF Expire, TypeOK, ConnectionTypeOK, boundVars, workerVars, runVars, credentialVars,
       saveVars
  <2>3. CASE UNCHANGED vars
    BY <2>3 DEF vars, TypeOK, ConnectionTypeOK, connectionVars, workerVars, runVars,
       credentialVars, saveVars
  <2> QED BY <2>1, <2>2, <2>3, WorkerEventTyped, RunTyped, OperationTyped DEF Next, RunStep
<1> QED BY <1>1, <1>2, PTL DEF Spec
-----------------------------------------------------------------------------
(* What relates the worker's generation to what it captured, and a run to  *)
(* the settings.                                                           *)

(* An operation under way belongs to the engine and to the run's           *)
(* connection.                                                             *)
OperationInv == op # None => run.at = "engine" /\ op.conn = run.conn

(* The cache and, while the binding stands, an operation that has its      *)
(* credentials are of the present generation.                              *)
EpochInv ==
  /\ cache # None => cache.epoch = generation
  /\ op # None /\ binding # None /\ op.at \in {"after", "send"} => op.epoch = generation

(* A run in flight was triggered in the present generation or before, so a *)
(* new connection's trigger cannot join it.                                *)
TriggerInv ==
  /\ run.current <= generation
  /\ owed => run.at = "settings" \/ followUp

SuccessInv ==
  /\ run.at = "record" => run.conn \in finished
  /\ synced => connection \in finished

RuntimeInv == OperationInv /\ EpochInv /\ TriggerInv /\ SuccessInv

LEMMA InitInv == Init => RuntimeInv
  BY DEF Init, ConnectionInit, RuntimeInv, OperationInv, EpochInv, TriggerInv, SuccessInv, NoRun

(* What a run in flight was triggered in and what it is bound to survive a *)
(* trigger.                                                                *)
LEMMA TriggerKeeps ==
  ASSUME TypeOK, RuntimeInv, NEW g \in Nat, generation <= g, Trigger(g)
  PROVE  /\ run'.current <= g
         /\ run.at # "idle" => run' = run
         /\ run'.at = "settings" => run.at = "idle" \/ run.at = "settings"
         /\ run'.at = "record" => run' = run
         /\ owed => run'.at = "settings" \/ followUp'
         /\ run.current # g => run'.at = "settings" \/ followUp'
<1>0. generation \in Nat /\ run.current \in Nat /\ run.current <= g
  BY DEF TypeOK, Run, RuntimeInv, TriggerInv
<1>1. CASE run.at = "idle"
  BY <1>0, <1>1, NewRunTyped DEF Trigger
<1>2. CASE run.at # "idle"
  <2>1. run' = run /\ (followUp => followUp') /\ (run.current # g => followUp')
    BY <1>2 DEF Trigger
  <2> QED BY <1>0, <1>2, <2>1 DEF RuntimeInv, TriggerInv
<1> QED BY <1>1, <1>2

LEMMA PageInv ==
  ASSUME TypeOK, RuntimeInv, NEW o \in Page, PageStep(o)
  PROVE  RuntimeInv'
<1>1. UNCHANGED <<workerVars, finished>>
  BY DEF PageStep
<1>2. synced' => connection' \in finished'
  <2>1. \/ UNCHANGED <<connection, synced>>
        \/ synced' = FALSE
    BY DEF PageStep, PageNext, Connect, ClearPending, Prepare, Consent, LoadPending,
       StoreConnection, Finish, Abort, Disconnect, Forget, Remove, Close, settingsVars
  <2> QED BY <1>1, <2>1 DEF RuntimeInv, SuccessInv
<1> QED BY <1>1, <1>2 DEF workerVars, runVars, credentialVars, RuntimeInv, OperationInv, EpochInv,
           TriggerInv, SuccessInv

LEMMA WorkerEventInv ==
  ASSUME TypeOK, RuntimeInv,
         \/ \E o \in Page : Deliver(o) \/ Lose(o)
         \/ Start \/ PeriodicAlarm \/ RetryAlarm \/ Terminate \/ Enqueue
  PROVE  RuntimeInv'
<1> USE DEF RuntimeInv
<1>0. generation \in Nat /\ run.current \in Nat
  BY DEF TypeOK, Run
<1>t. ASSUME Trigger(generation),
             UNCHANGED <<connection, synced, generation, binding, cache, op, owed, finished>>
      PROVE  RuntimeInv'
  BY <1>0, <1>t, TriggerKeeps DEF OperationInv, EpochInv, TriggerInv, SuccessInv
<1>1. ASSUME NEW o \in Page, Deliver(o) PROVE RuntimeInv'
  <2>0. /\ generation' = generation + 1 /\ binding' = None /\ cache' = None
        /\ UNCHANGED <<connection, synced, op, finished>>
    BY <1>1 DEF Deliver, InvalidateCredentials, settingsVars
  <2>1. CASE Trigger(generation + 1) /\ owed' = TRUE
    BY <1>0, <2>0, <2>1, TriggerKeeps DEF OperationInv, EpochInv, TriggerInv, SuccessInv
  <2>2. CASE UNCHANGED <<runVars, owed>>
    BY <1>0, <2>0, <2>2 DEF runVars, OperationInv, EpochInv, TriggerInv, SuccessInv
  <2> QED BY <1>1, <2>1, <2>2 DEF Deliver
<1>2. ASSUME NEW o \in Page, Lose(o) PROVE RuntimeInv'
  BY <1>2 DEF Lose, settingsVars, workerVars, runVars, credentialVars, OperationInv, EpochInv,
     TriggerInv, SuccessInv
<1>3. CASE Start
  BY <1>3, <1>t DEF Start, connectionVars, credentialVars
<1>4. CASE PeriodicAlarm
  BY <1>4, <1>t DEF PeriodicAlarm, connectionVars, credentialVars
<1>5. CASE RetryAlarm
  BY <1>5, <1>t DEF RetryAlarm, connectionVars, credentialVars
<1>6. CASE Terminate
  BY <1>6, NewRunTyped DEF Terminate, settingsVars, OperationInv, EpochInv, TriggerInv, SuccessInv
<1>7. CASE Enqueue
  BY <1>7 DEF Enqueue, connectionVars, workerVars, runVars, credentialVars, OperationInv, EpochInv,
     TriggerInv, SuccessInv
<1> QED BY <1>1, <1>2, <1>3, <1>4, <1>5, <1>6, <1>7

LEMMA RunInv ==
  ASSUME TypeOK, RuntimeInv,
         \/ ReadSettings \/ Bind \/ EngineThrows \/ EngineEnds \/ Record \/ Schedule \/ SetAlarm
  PROVE  RuntimeInv'
<1> USE DEF RuntimeInv, outside, settingsVars, credentialVars
<1>0. generation \in Nat /\ run \in Run /\ run.current \in Nat
  BY DEF TypeOK, Run
<1>g. ASSUME NEW stage, Goes(stage)
      PROVE  /\ run'.at = stage /\ run'.conn = run.conn /\ run'.current = run.current
             /\ followUp' = followUp
  BY <1>0, <1>g DEF Goes, Run
<1>e. ASSUME EndRun, run.at \notin {"engine", "settings"},
             UNCHANGED <<connection, synced, generation, cache, op, owed, finished>>
      PROVE  RuntimeInv'
  BY <1>0, <1>e, NewRunTyped DEF EndRun, OperationInv, EpochInv, TriggerInv, SuccessInv
<1>1. CASE ReadSettings
  <2>1. /\ run'.at \in {"bind", "schedule"} /\ run'.current = run.current
        /\ owed' = FALSE /\ op = None
    BY <1>0, <1>1, <1>g DEF ReadSettings, OperationInv, Run
  <2> QED BY <1>1, <2>1 DEF ReadSettings, OperationInv, EpochInv, TriggerInv, SuccessInv
<1>2. CASE Bind
  <2>1. /\ run'.at \in {"engine", "clear"} /\ run'.current = run.current
        /\ followUp' = followUp /\ op = None
    BY <1>0, <1>2, <1>g DEF Bind, OperationInv, Run
  <2> QED BY <1>2, <2>1 DEF Bind, OperationInv, EpochInv, TriggerInv, SuccessInv
<1>3. CASE EngineThrows
  BY <1>3, <1>g DEF EngineThrows, Running, OperationInv, EpochInv, TriggerInv, SuccessInv
<1>4. CASE EngineEnds
  <2>1. /\ run'.at \in {"record", "schedule"} /\ run'.conn = run.conn
        /\ run'.current = run.current /\ followUp' = followUp
        /\ finished \subseteq finished'
        /\ run'.at = "record" => run.conn \in finished'
    <3> DEFINE complete == ~ run.failed /\ queue = {}
               stage == IF complete /\ run.generation = generation THEN "record" ELSE "schedule"
    <3>1. Goes(stage) /\ finished' = finished \cup (IF complete THEN {run.conn} ELSE {})
      BY <1>4 DEF EngineEnds
    <3>2. stage \in {"record", "schedule"} /\ (stage = "record" => complete)
      OBVIOUS
    <3> HIDE DEF stage, complete
    <3> QED BY <1>g, <3>1, <3>2
  <2> QED BY <1>4, <2>1 DEF EngineEnds, Running, OperationInv, EpochInv, TriggerInv, SuccessInv
<1>5. CASE Record
  <2>1. /\ run'.at = "schedule" /\ run'.current = run.current /\ followUp' = followUp
        /\ op = None
    BY <1>0, <1>5, <1>g DEF Record, OperationInv
  <2>2. synced' => connection' \in finished'
    BY <1>5 DEF Record, IsCurrent, SuccessInv
  <2> QED BY <1>5, <2>1, <2>2 DEF Record, OperationInv, EpochInv, TriggerInv, SuccessInv
<1>6. CASE Schedule
  <2>1. CASE EndRun
    BY <1>6, <2>1, <1>e DEF Schedule
  <2>2. CASE Goes(IF queue = {} THEN "clear" ELSE "create") /\ UNCHANGED binding
    <3>1. /\ run'.at \in {"clear", "create"} /\ run'.current = run.current
          /\ followUp' = followUp /\ op = None
      BY <1>0, <1>6, <2>2, <1>g DEF Schedule, OperationInv
    <3> QED BY <1>6, <2>2, <3>1 DEF Schedule, OperationInv, EpochInv, TriggerInv, SuccessInv
  <2> QED BY <1>6, <2>1, <2>2 DEF Schedule
<1>7. CASE SetAlarm
  BY <1>7, <1>e DEF SetAlarm
<1> QED BY <1>1, <1>2, <1>3, <1>4, <1>5, <1>6, <1>7

(* An operation that goes on keeps the run, one that ends takes the run    *)
(* out of the engine or leaves it there.                                   *)
LEMMA OperationInvKept ==
  ASSUME TypeOK, RuntimeInv,
         \/ \E k \in 0 .. MaxSaves : StartOperation(k)
         \/ ReadBefore \/ Lookup \/ Issue \/ ReadAfter \/ Send \/ Respond
  PROVE  RuntimeInv'
<1> USE DEF RuntimeInv, operationVars, outside, settingsVars, credentialVars, runVars
<1>0. /\ generation \in Nat /\ run \in Run /\ run.current \in Nat
      /\ op # None => op \in Operation
      /\ cache # None => cache \in Credentials
  BY DEF TypeOK, Run
<1>f. ASSUME NEW k, Failed(k), Running, UNCHANGED <<connection, synced, generation, owed, finished>>,
             cache' = None \/ cache' = cache
      PROVE  RuntimeInv'
  <2>1. /\ run'.at \in {"engine", "schedule"} /\ run'.current = run.current
        /\ run'.conn = run.conn /\ followUp' = followUp /\ op' = None
    BY <1>0, <1>f DEF Failed, Running, Run
  <2> QED BY <1>f, <2>1 DEF Running, OperationInv, EpochInv, TriggerInv, SuccessInv
<1>1. ASSUME NEW k \in 0 .. MaxSaves, StartOperation(k) PROVE RuntimeInv'
  <2>1. CASE Failed(k)
    BY <1>1, <1>f, <2>1 DEF StartOperation
  <2>2. CASE /\ op' = [at |-> "before", kind |-> k, conn |-> run.conn, epoch |-> 0]
             /\ run' = IF k = List THEN [run EXCEPT !.todo = queue] ELSE run
             /\ UNCHANGED followUp
    <3>1. run'.at = "engine" /\ run'.current = run.current /\ run'.conn = run.conn
      <4>1. run.at = "engine"
        BY <1>1 DEF StartOperation, Running
      <4>2. CASE run' = run
        BY <4>1, <4>2
      <4>3. CASE run' = [run EXCEPT !.todo = queue]
        BY <1>0, <4>1, <4>3 DEF Run
      <4> QED BY <2>2, <4>2, <4>3
    <3>2. op'.conn = run.conn /\ op'.at = "before"
      BY <2>2
    <3>3. UNCHANGED <<connection, synced, generation, binding, cache, owed, finished>>
      BY <1>1 DEF StartOperation
    <3> QED BY <2>2, <3>1, <3>2, <3>3 DEF OperationInv, EpochInv, TriggerInv, SuccessInv
  <2> QED BY <1>1, <2>1, <2>2 DEF StartOperation
<1>2. CASE ReadBefore
  <2>1. CASE Rejected \/ Breaks
    BY <1>2, <1>f, <2>1 DEF ReadBefore, Rejected, Breaks, OpAt, Running, OperationInv
  <2>2. CASE IsCurrent(run.conn) /\ op' = [op EXCEPT !.at = "lookup", !.conn = connection]
             /\ UNCHANGED runVars
    <3>1. op'.at = "lookup" /\ op'.conn = run.conn
      BY <1>0, <1>2, <2>2 DEF ReadBefore, OpAt, Operation, IsCurrent
    <3> QED BY <1>2, <2>2, <3>1
            DEF ReadBefore, OpAt, OperationInv, EpochInv, TriggerInv, SuccessInv
  <2> QED BY <1>2, <2>1, <2>2 DEF ReadBefore
<1>3. CASE Lookup
  <2>1. op'.epoch = generation /\ op'.conn = op.conn
    BY <1>0, <1>3 DEF Lookup, OpAt, Operation, EpochInv
  <2> QED BY <1>3, <2>1 DEF Lookup, OpAt, OperationInv, EpochInv, TriggerInv, SuccessInv
<1>s. ASSUME NEW stage, OpGoes(stage), op # None
      PROVE  op'.at = stage /\ op'.conn = op.conn /\ op'.epoch = op.epoch
  BY <1>0, <1>s DEF OpGoes, Operation
<1>4. CASE Issue
  <2>1. CASE (Rejected \/ Breaks) /\ UNCHANGED cache
    BY <1>4, <1>f, <2>1 DEF Issue, Rejected, Breaks, OpAt, Running, OperationInv
  <2>2. CASE op.epoch = generation /\ OpGoes("after")
             /\ cache' = [conn |-> op.conn, epoch |-> op.epoch]
    BY <1>4, <1>s, <2>2
       DEF Issue, OpGoes, OpAt, OperationInv, EpochInv, TriggerInv, SuccessInv
  <2> QED BY <1>4, <2>1, <2>2 DEF Issue
<1>5. CASE ReadAfter
  <2>1. CASE Rejected \/ Breaks
    BY <1>5, <1>f, <2>1 DEF ReadAfter, Rejected, Breaks, OpAt, Running, OperationInv
  <2>2. CASE OpGoes("send") /\ UNCHANGED cache
    BY <1>5, <1>s, <2>2
       DEF ReadAfter, OpGoes, OpAt, OperationInv, EpochInv, TriggerInv, SuccessInv
  <2> QED BY <1>5, <2>1, <2>2 DEF ReadAfter
<1>6. CASE Send
  <2>1. CASE Rejected
    BY <1>6, <1>f, <2>1 DEF Send, Rejected, OpAt, Running, OperationInv
  <2>2. CASE OpGoes("sending")
    BY <1>6, <1>s, <2>2 DEF Send, OpGoes, OpAt, OperationInv, EpochInv, TriggerInv, SuccessInv
  <2> QED BY <1>6, <2>1, <2>2 DEF Send
<1>7. CASE Respond
  <2>1. CASE Breaks
    BY <1>7, <1>f, <2>1 DEF Respond, Breaks, OpAt, Running, OperationInv
  <2>2. CASE op' = None /\ run' = [run EXCEPT !.listed = TRUE, !.todo = @ \ {op.kind}]
             /\ UNCHANGED followUp
    <3>1. run'.at = run.at /\ run'.current = run.current /\ run'.conn = run.conn
      BY <1>0, <2>2 DEF Run
    <3> QED BY <1>7, <2>2, <3>1 DEF Respond, OperationInv, EpochInv, TriggerInv, SuccessInv
  <2> QED BY <1>7, <2>1, <2>2 DEF Respond
<1> QED BY <1>1, <1>2, <1>3, <1>4, <1>5, <1>6, <1>7

THEOREM RuntimeInvariant == Spec => [](TypeOK /\ RuntimeInv)
<1>1. Init => RuntimeInv
  BY InitInv
<1>2. TypeOK /\ RuntimeInv /\ [Next]_vars => RuntimeInv'
  <2> SUFFICES ASSUME TypeOK, RuntimeInv, [Next]_vars PROVE RuntimeInv'
    OBVIOUS
  <2>1. CASE Expire /\ UNCHANGED <<workerVars, alarm, saveVars, finished>>
    BY <2>1 DEF Expire, workerVars, runVars, credentialVars, RuntimeInv, OperationInv, EpochInv,
       TriggerInv, SuccessInv
  <2>2. CASE UNCHANGED vars
    BY <2>2 DEF vars, connectionVars, workerVars, runVars, credentialVars, RuntimeInv,
       OperationInv, EpochInv, TriggerInv, SuccessInv
  <2> QED BY <2>1, <2>2, PageInv, WorkerEventInv, RunInv, OperationInvKept DEF Next, RunStep
<1> QED BY <1>1, <1>2, RuntimeTypeCorrect, PTL DEF Spec

(* A request never carries credentials of another connection than the one  *)
(* its run was bound to.                                                   *)
THEOREM RequestsBound == Spec => []RequestsOfBoundConnection
<1>1. RuntimeInv => RequestsOfBoundConnection
  BY DEF RuntimeInv, OperationInv, RequestsOfBoundConnection, OpAt
<1> QED BY <1>1, RuntimeInvariant, PTL

(* The trigger of a new connection is never lost in a run that has read    *)
(* the settings before.                                                    *)
THEOREM ConnectionsServed == Spec => []ConnectionServed
<1>1. RuntimeInv => ConnectionServed
  BY DEF RuntimeInv, TriggerInv, ConnectionServed
<1> QED BY <1>1, RuntimeInvariant, PTL

(* A success is recorded of the connection that was synchronized.          *)
THEOREM SuccessRecorded == Spec => []SuccessOfStoredConnection
<1>1. RuntimeInv => SuccessOfStoredConnection
  BY DEF RuntimeInv, SuccessInv, SuccessOfStoredConnection
<1> QED BY <1>1, RuntimeInvariant, PTL

(* A request only leaves with credentials issued after the last            *)
(* invalidation.                                                           *)
THEOREM CredentialsFresh == Spec => FreshCredentials
<1>1. TypeOK /\ RuntimeInv /\ [Next]_vars
        => [(~ OpAt("sending") /\ OpAt("sending")') => op.epoch = generation]_vars
  <2> SUFFICES ASSUME TypeOK, RuntimeInv, [Next]_vars, ~ OpAt("sending"), OpAt("sending")'
               PROVE  op.epoch = generation
    OBVIOUS
  <2>1. CASE Send
    BY <2>1 DEF Send, OpAt, Rejected, Failed, RuntimeInv, EpochInv
  <2>2. CASE UNCHANGED op \/ op' = None
    BY <2>2 DEF OpAt
  <2>3. ASSUME op # None, NEW stage \in {"send", "after"}, OpGoes(stage)
        PROVE  FALSE
    BY <2>3 DEF OpGoes, OpAt, TypeOK, Operation
  <2>4. ASSUME NEW k, Failed(k) PROVE FALSE
    BY <2>2, <2>4 DEF Failed, OpAt
  <2>5. ASSUME NEW k \in 0 .. MaxSaves, StartOperation(k) PROVE FALSE
    BY <2>4, <2>5 DEF StartOperation, OpAt
  <2>6. ~ ReadBefore
    BY <2>4 DEF ReadBefore, Rejected, Breaks, OpAt, TypeOK, Operation
  <2>7. ~ Lookup
    BY DEF Lookup, OpAt, TypeOK, Operation
  <2>8. ~ Issue /\ ~ ReadAfter
    BY <2>3, <2>4 DEF Issue, ReadAfter, Rejected, Breaks, OpAt
  <2>9. ~ Respond
    BY DEF Respond
  <2>10. CASE \/ \E o \in Page : PageStep(o) \/ Deliver(o) \/ Lose(o)
              \/ Start \/ PeriodicAlarm \/ RetryAlarm \/ Terminate \/ Enqueue
              \/ Expire /\ UNCHANGED <<workerVars, alarm, saveVars, finished>>
              \/ UNCHANGED vars
    BY <2>2, <2>10 DEF PageStep, Deliver, Lose, Start, PeriodicAlarm, RetryAlarm, Terminate,
       Enqueue, workerVars, vars
  <2>11. CASE \/ ReadSettings \/ Bind \/ EngineThrows \/ EngineEnds \/ Record \/ Schedule
              \/ SetAlarm
    BY <2>2, <2>11 DEF ReadSettings, Bind, EngineThrows, EngineEnds, Record, Schedule, SetAlarm
  <2> QED BY <2>1, <2>5, <2>6, <2>7, <2>8, <2>9, <2>10, <2>11 DEF Next, RunStep
<1> QED BY <1>1, RuntimeInvariant, PTL DEF Spec, FreshCredentials
=============================================================================
