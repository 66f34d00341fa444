-------------------------- MODULE AgentToolAction --------------------------
(***************************************************************************)
(* The gate between the AI agent and the tools it may use for one          *)
(* principal: immediate tools run at once, every other call becomes a      *)
(* pending action the user confirms within ten minutes, one at a time.     *)
(*                                                                         *)
(* A repository call is one transaction, hence one step. A request to the  *)
(* gate is a handler that runs several, with the tool's own work between   *)
(* them, and that a restart of the server may cut off anywhere.            *)
(***************************************************************************)
EXTENDS Naturals, FiniteSets

CONSTANTS
  Calls,                   \* toolCallIds, each with its tool and arguments
  Immediate,               \* the calls of tools that need no confirmation
  Handlers,                \* requests to the gate running at the same time
  MaxCrashes               \* bound: requests cut off

ASSUME ImmediateAssumption == Immediate \subseteq Calls
ASSUME MaxCrashesAssumption == MaxCrashes \in Nat

VARIABLES
  action,                  \* AgentToolAction.status, "NONE" when there is no row
  overdue,                 \* AgentToolAction.expiresAt has passed
  active,                  \* the action that holds the principal's activeKey
  effects,                 \* how often the tool's work was done for a call
  handler,                 \* where each request stands, and on which call
  crashes                  \* how many requests were cut off

gateVars == <<action, overdue, active, effects, handler, crashes>>

NoCall == "none"
ASSUME NoCallAssumption == NoCall \notin Calls

Statuses == {"NONE", "PENDING", "EXECUTING", "EXECUTED", "FAILED", "CANCELLED", "EXPIRED"}
Idle == [at |-> "IDLE", call |-> NoCall]

At(h, point) == handler[h].at = point
Goto(h, point, c) == handler' = [handler EXCEPT ![h] = [at |-> point, call |-> c]]
Finish(h) == handler' = [handler EXCEPT ![h] = Idle]

Expirable(c) == action[c] = "PENDING" /\ overdue[c]

(* The rows, and the holder of the key, once overdue actions have expired. *)
ExpiredActions == [c \in Calls |-> IF Expirable(c) THEN "EXPIRED" ELSE action[c]]
ActiveUnexpired == IF active # NoCall /\ Expirable(active) THEN NoCall ELSE active

(* A row that leaves PENDING or EXECUTING for good gives the key up. *)
Settle(c, newStatus) ==
  /\ action' = [action EXCEPT ![c] = newStatus]
  /\ active' = IF active = c THEN NoCall ELSE active

PassDeadline(c) ==
  /\ action[c] = "PENDING" /\ ~ overdue[c]
  /\ overdue' = [overdue EXCEPT ![c] = TRUE]
  /\ UNCHANGED <<action, active, effects, handler, crashes>>

Current ==
  /\ action' = ExpiredActions
  /\ active' = ActiveUnexpired
  /\ UNCHANGED <<overdue, effects, handler, crashes>>

(* A call id used before returns the action it made. *)
InvokeImmediate(h, c) ==
  /\ At(h, "IDLE") /\ c \in Immediate
  /\ action[c] = "NONE"
  /\ action' = [action EXCEPT ![c] = "EXECUTING"]
  /\ Goto(h, "EXECUTE", c)
  /\ UNCHANGED <<overdue, active, effects, crashes>>

(* The tool prepares its command between the look at the current action    *)
(* and the transaction that records a new one.                             *)
Prepare(h, c) ==
  /\ At(h, "IDLE") /\ c \notin Immediate
  /\ action' = ExpiredActions
  /\ active' = ActiveUnexpired
  /\ IF active' = NoCall THEN Goto(h, "PREPARE", c) ELSE UNCHANGED handler
  /\ UNCHANGED <<overdue, effects, crashes>>

(* Faulty: the transaction trusts the look taken before the preparation. *)
CreatePendingBlind(h) ==
  LET c == handler[h].call IN
    /\ At(h, "PREPARE")
    /\ action[c] = "NONE"
    /\ action' = [ExpiredActions EXCEPT ![c] = "PENDING"]
    /\ active' = c
    /\ overdue' = [overdue EXCEPT ![c] = FALSE]
    /\ Finish(h)
    /\ UNCHANGED <<effects, crashes>>

CreatePending(h) ==
  LET c == handler[h].call IN
    /\ At(h, "PREPARE")
    /\ IF action[c] = "NONE" /\ ActiveUnexpired = NoCall
         THEN /\ action' = [ExpiredActions EXCEPT ![c] = "PENDING"]
              /\ active' = c
              /\ overdue' = [overdue EXCEPT ![c] = FALSE]
         ELSE /\ action' = ExpiredActions
              /\ active' = ActiveUnexpired
              /\ UNCHANGED overdue
    /\ Finish(h)
    /\ UNCHANGED <<effects, crashes>>

(* Faulty: a second confirmation starts the execution again. *)
ConfirmAgain(h, c) ==
  /\ At(h, "IDLE")
  /\ action[c] \in {"PENDING", "EXECUTING"}
  /\ action' = [action EXCEPT ![c] = "EXECUTING"]
  /\ Goto(h, "EXECUTE", c)
  /\ UNCHANGED <<overdue, active, effects, crashes>>

Confirm(h, c) ==
  /\ At(h, "IDLE")
  /\ action[c] = "PENDING"
  /\ IF overdue[c]
       THEN Settle(c, "EXPIRED") /\ UNCHANGED handler
       ELSE /\ action' = [action EXCEPT ![c] = "EXECUTING"]
            /\ Goto(h, "EXECUTE", c)
            /\ UNCHANGED active
  /\ UNCHANGED <<overdue, effects, crashes>>

(* Faulty: an action may be cancelled at any time. *)
CancelAnyTime(c) ==
  /\ action[c] # "NONE"
  /\ Settle(c, "CANCELLED")
  /\ UNCHANGED <<overdue, effects, handler, crashes>>

Cancel(c) ==
  /\ action[c] = "PENDING"
  /\ Settle(c, "CANCELLED")
  /\ UNCHANGED <<overdue, effects, handler, crashes>>

(* The tool does its work, refuses to, or throws after having done it. *)
Execute(h) ==
  LET c == handler[h].call IN
    /\ At(h, "EXECUTE")
    /\ \/ effects' = [effects EXCEPT ![c] = @ + 1] /\ Goto(h, "COMPLETE", c)
       \/ effects' = [effects EXCEPT ![c] = @ + 1] /\ Goto(h, "FAIL", c)
       \/ UNCHANGED effects /\ Goto(h, "FAIL", c)
    /\ UNCHANGED <<action, overdue, active, crashes>>

Close(h, newStatus) ==
  LET c == handler[h].call IN
    /\ IF action[c] = "EXECUTING" THEN Settle(c, newStatus) ELSE UNCHANGED <<action, active>>
    /\ Finish(h)
    /\ UNCHANGED <<overdue, effects, crashes>>

(* Faulty: the handler's catch block records nothing. *)
FailSilently(h) ==
  At(h, "FAIL") /\ Finish(h) /\ UNCHANGED <<action, overdue, active, effects, crashes>>

Complete(h) == At(h, "COMPLETE") /\ Close(h, "EXECUTED")
Fail(h) == At(h, "FAIL") /\ Close(h, "FAILED")

(* The update fails: the handler's catch block records a failure instead. *)
FailToComplete(h) ==
  /\ At(h, "COMPLETE")
  /\ Goto(h, "FAIL", handler[h].call)
  /\ UNCHANGED <<action, overdue, active, effects, crashes>>

Crash(h) ==
  /\ ~ At(h, "IDLE") /\ crashes < MaxCrashes
  /\ Finish(h)
  /\ crashes' = crashes + 1
  /\ UNCHANGED <<action, overdue, active, effects>>

GateInit ==
  /\ action = [c \in Calls |-> "NONE"]
  /\ overdue = [c \in Calls |-> FALSE]
  /\ active = NoCall
  /\ effects = [c \in Calls |-> 0]
  /\ handler = [h \in Handlers |-> Idle]
  /\ crashes = 0

HandlerStep(h) ==
  CreatePending(h) \/ Execute(h) \/ Complete(h) \/ FailToComplete(h) \/ Fail(h)

GateNext ==
  \/ Current
  \/ \E c \in Calls : PassDeadline(c) \/ Cancel(c)
  \/ \E h \in Handlers, c \in Calls : InvokeImmediate(h, c) \/ Prepare(h, c) \/ Confirm(h, c)
  \/ \E h \in Handlers : HandlerStep(h) \/ Crash(h)

(* A request that is not cut off runs to its end. *)
GateSpec ==
  GateInit /\ [][GateNext]_gateVars /\ \A h \in Handlers : WF_gateVars(HandlerStep(h))

(***************************************************************************)
(* Properties.                                                             *)
(***************************************************************************)
(* Rows and handlers hold the values the code gives them, and a tool only  *)
(* works for a call that has a row.                                        *)
GateTypeOK ==
  /\ action \in [Calls -> Statuses]
  /\ overdue \in [Calls -> BOOLEAN]
  /\ active \in Calls \union {NoCall}
  /\ effects \in [Calls -> Nat]
  /\ handler \in [Handlers -> [at : {"IDLE", "PREPARE", "EXECUTE", "COMPLETE", "FAIL"},
                               call : Calls \union {NoCall}]]
  /\ \A h \in Handlers :
       \/ handler[h] = Idle
       \/ handler[h].at = "PREPARE" /\ handler[h].call \in Calls \ Immediate
       \/ /\ handler[h].at \in {"EXECUTE", "COMPLETE", "FAIL"} /\ handler[h].call \in Calls
          /\ action[handler[h].call] # "NONE"
  /\ crashes \in 0..MaxCrashes

(* The principal has one action to confirm or under way at a time, and its *)
(* key is free exactly when there is none, however preparations,           *)
(* confirmations, cancellations and expiries overlap.                      *)
OneActionAtATime ==
  \A c \in Calls :
    (active = c) <=> (c \notin Immediate /\ action[c] \in {"PENDING", "EXECUTING"})

(* A tool works at most once for a call, never for one that was cancelled, *)
(* expired or not yet confirmed, and always for one reported as executed.  *)
WorksOnceIfConfirmed ==
  \A c \in Calls :
    /\ effects[c] <= 1
    /\ effects[c] = 1 => action[c] \in {"EXECUTING", "EXECUTED", "FAILED"}
    /\ action[c] = "EXECUTED" => effects[c] = 1

(* What the user was told of an action never changes afterwards. *)
OutcomeIsFinal ==
  [][\A c \in Calls :
       action[c] \in {"EXECUTED", "FAILED", "CANCELLED", "EXPIRED"} => action'[c] = action[c]
    ]_gateVars

UnderWay(c) ==
  \E h \in Handlers : handler[h].call = c /\ handler[h].at \in {"EXECUTE", "COMPLETE", "FAIL"}

(* An action being executed comes to its end, unless its request was cut   *)
(* off; nothing ever resumes that one.                                     *)
ExecutionEnds ==
  \A c \in Calls :
    action[c] = "EXECUTING" ~> (action[c] # "EXECUTING" \/ (crashes > 0 /\ ~ UnderWay(c)))
===========================================================================
