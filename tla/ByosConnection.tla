---------------------------- MODULE ByosConnection ----------------------------
(***************************************************************************)
(* Options pages connect to BYOS and disconnect from it:                   *)
(* src/src/services/byosCoordinator.ts, byosOAuth.ts, and the actions of   *)
(* src/src/options/App.tsx.  Every page has a coordinator of its own; the  *)
(* pending authorization and the stored connection are shared.             *)
(*                                                                         *)
(* A page runs one operation at a time (operationInFlight), so a lifecycle *)
(* generation of its coordinator cannot move during an operation.  The     *)
(* exchange of the code for a token belongs to the step that stores it.    *)
(***************************************************************************)
EXTENDS Naturals

CONSTANTS
  Page,           \* options pages
  None,           \* no connection, no authorization, no message
  MaxAttempts,    \* bound: authorizations
  MaxDisconnects, \* bound: disconnects
  MaxFaults       \* bound: failures of storage, network and messages, terminations

ASSUME ConnectionAssumption ==
  None \notin Nat /\ MaxAttempts \in Nat /\ MaxDisconnects \in Nat /\ MaxFaults \in Nat

VARIABLES
  connection,  \* the stored connection: the attempt that authorized it
  synced,      \* it has lastSuccessfulSyncAt
  expired,     \* connections whose token has expired
  pending,     \* the PKCE session: the attempt it belongs to
  page,        \* per page: at what its operation is
  message,     \* per page: the message to the worker under way
  attempts,    \* authorizations so far
  disconnects, \* disconnects so far
  faults       \* failures and terminations so far

connectionVars == <<connection, synced, expired, pending, page, message,
                    attempts, disconnects, faults>>

Connection == Nat
Stage == {"idle", "clear", "prepare", "consent", "complete", "store", "finish", "abort",
          "invalidate", "remove"}
Idle == [at |-> "idle", attempt |-> 0]

(* The user has connected before. *)
ConnectionInit ==
  /\ connection = 1 /\ attempts = 1
  /\ synced = FALSE /\ expired = {} /\ pending = None
  /\ page = [o \in Page |-> Idle]
  /\ message = [o \in Page |-> None]
  /\ disconnects = 0 /\ faults = 0

(* Something fails. *)
Fault == faults < MaxFaults /\ faults' = faults + 1

At(o, stage) == page[o].at = stage
Moves(o, stage) ==
  page' = [page EXCEPT ![o] = IF stage = "idle" THEN Idle ELSE [@ EXCEPT !.at = stage]]
Steps(o, stage) == Moves(o, stage) /\ UNCHANGED faults
Fails(o, stage) == Fault /\ Moves(o, stage)

settingsVars == <<connection, synced, expired>>
boundVars == <<attempts, disconnects>>

(* The token of a connection expires. *)
Expire ==
  /\ connection \notin expired \cup {None}
  /\ expired' = expired \cup {connection}
  /\ UNCHANGED <<connection, synced, pending, page, message, boundVars, faults>>

-----------------------------------------------------------------------------
(* performByosAction('connect'), #runConnect. *)

Connect(o) ==
  /\ At(o, "idle") /\ message[o] = None /\ attempts < MaxAttempts
  /\ Steps(o, "clear")
  /\ UNCHANGED <<settingsVars, pending, message, boundVars>>

ClearPending(o) ==
  /\ At(o, "clear")
  /\ \/ Steps(o, "prepare") /\ pending' = None
     \/ Fails(o, "abort") /\ UNCHANGED pending
  /\ UNCHANGED <<settingsVars, message, boundVars>>

(* prepareAuthorization: verifier and state are stored. *)
Prepare(o) ==
  /\ At(o, "prepare") /\ attempts < MaxAttempts
  /\ attempts' = attempts + 1
  /\ \/ /\ page' = [page EXCEPT ![o] = [@ EXCEPT !.at = "consent", !.attempt = attempts']]
        /\ pending' = attempts'
        /\ UNCHANGED faults
     \/ Fails(o, "abort") /\ UNCHANGED pending
  /\ UNCHANGED <<settingsVars, message, disconnects>>

(* launchAuthorization: the user takes any time and may decline. *)
Consent(o) ==
  /\ At(o, "consent")
  /\ \E stage \in {"complete", "abort"} : Steps(o, stage)
  /\ UNCHANGED <<settingsVars, pending, message, boundVars>>

(* completeAuthorization: the callback may belong to another authorization *)
(* and the session may be too old.                                         *)
LoadPending(o) ==
  /\ At(o, "complete")
  /\ \/ pending = page[o].attempt /\ Steps(o, "store")
     \/ Steps(o, "abort")
  /\ UNCHANGED <<settingsVars, pending, message, boundVars>>

(* The exchange and updateByosConnection; either fails, the second also    *)
(* while a migration is pending.                                           *)
StoreConnection(o) ==
  /\ At(o, "store")
  /\ \/ /\ Steps(o, "finish")
        /\ connection' = page[o].attempt /\ synced' = FALSE
     \/ Fails(o, "abort") /\ UNCHANGED <<connection, synced>>
  /\ UNCHANGED <<expired, pending, message, boundVars>>

(* The session is cleared and synchronization is requested. *)
Finish(o) ==
  /\ At(o, "finish")
  /\ \/ Steps(o, "idle") /\ pending' = None /\ message' = [message EXCEPT ![o] = "connection"]
     \/ Fails(o, "abort") /\ UNCHANGED <<pending, message>>
  /\ UNCHANGED <<settingsVars, boundVars>>

(* A connect that failed clears the session once more. *)
Abort(o) ==
  /\ At(o, "abort")
  /\ \/ Steps(o, "idle") /\ pending' = None
     \/ Fails(o, "idle") /\ UNCHANGED pending
  /\ UNCHANGED <<settingsVars, message, boundVars>>

-----------------------------------------------------------------------------
(* performByosAction('disconnect'). *)

Disconnect(o) ==
  /\ At(o, "idle") /\ message[o] = None /\ disconnects < MaxDisconnects
  /\ disconnects' = disconnects + 1
  /\ Steps(o, "invalidate")
  /\ message' = [message EXCEPT ![o] = "invalidate"]
  /\ UNCHANGED <<settingsVars, pending, attempts>>

(* The worker has answered, or the message is lost.  A pending migration   *)
(* is resumed and the session cleared.                                     *)
Forget(o) ==
  /\ At(o, "invalidate") /\ message[o] = None
  /\ \/ Steps(o, "remove") /\ pending' = None
     \/ Fails(o, "idle") /\ UNCHANGED pending
  /\ UNCHANGED <<settingsVars, message, boundVars>>

Remove(o) ==
  /\ At(o, "remove")
  /\ \/ Steps(o, "idle") /\ connection' = None /\ synced' = FALSE
     \/ Fails(o, "idle") /\ UNCHANGED <<connection, synced>>
  /\ UNCHANGED <<expired, pending, message, boundVars>>

(* The page is closed under its operation. *)
Close(o) ==
  /\ ~ At(o, "idle") /\ Fails(o, "idle")
  /\ UNCHANGED <<settingsVars, pending, message, boundVars>>

PageNext(o) ==
  \/ Connect(o) \/ ClearPending(o) \/ Prepare(o) \/ Consent(o) \/ LoadPending(o)
  \/ StoreConnection(o) \/ Finish(o) \/ Abort(o)
  \/ Disconnect(o) \/ Forget(o) \/ Remove(o) \/ Close(o)

-----------------------------------------------------------------------------
ConnectionTypeOK ==
  /\ connection \in Connection \cup {None} /\ synced \in BOOLEAN
  /\ expired \subseteq Connection /\ pending \in Connection \cup {None}
  /\ page \in [Page -> [at : Stage, attempt : Nat]]
  /\ message \in [Page -> {None, "invalidate", "connection"}]
  /\ attempts \in Nat /\ disconnects \in Nat /\ faults \in Nat
=============================================================================
