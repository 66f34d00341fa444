----------------------- MODULE AgentToolAction_proofs -----------------------
(***************************************************************************)
(* Proofs about AgentToolAction, for any calls and any number of requests  *)
(* to the gate at the same time.                                           *)
(*                                                                         *)
(* What the runs check says nothing of a request between two of its        *)
(* transactions. The invariant adds it: while a request works on a call,   *)
(* the row is EXECUTING, no other request works on that call, and whether  *)
(* the work was done yet is known from where the request stands.           *)
(***************************************************************************)
EXTENDS AgentToolAction, TLAPS

Working(h) == handler[h].at \in {"EXECUTE", "COMPLETE", "FAIL"}

OneRequestPerCall ==
  \A h, k \in Handlers : Working(h) /\ Working(k) /\ handler[h].call = handler[k].call => h = k
RequestKnowsItsCall ==
  \A h \in Handlers :
    /\ Working(h) => action[handler[h].call] = "EXECUTING"
    /\ At(h, "EXECUTE") => effects[handler[h].call] = 0
    /\ At(h, "COMPLETE") => effects[handler[h].call] = 1

GateInv ==
  GateTypeOK /\ OneActionAtATime /\ WorksOnceIfConfirmed /\ OneRequestPerCall /\ RequestKnowsItsCall

(***************************************************************************)
(* Rows.                                                                   *)
(***************************************************************************)
(* Expiring overdue actions changes pending ones only, and keeps the key   *)
(* with the one that is left.                                              *)
LEMMA ExpiredEffect ==
  ASSUME GateTypeOK, OneActionAtATime
  PROVE  /\ ExpiredActions \in [Calls -> Statuses]
         /\ ActiveUnexpired \in Calls \union {NoCall}
         /\ \A c \in Calls : \/ ExpiredActions[c] = action[c]
                             \/ action[c] = "PENDING" /\ ExpiredActions[c] = "EXPIRED"
         /\ \A c \in Calls : (ActiveUnexpired = c) <=>
              (c \notin Immediate /\ ExpiredActions[c] \in {"PENDING", "EXECUTING"})
<1>1. /\ ExpiredActions \in [Calls -> Statuses]
      /\ \A c \in Calls : \/ ExpiredActions[c] = action[c]
                          \/ action[c] = "PENDING" /\ ExpiredActions[c] = "EXPIRED"
  BY DEF GateTypeOK, ExpiredActions, Expirable, Statuses
<1>2. ActiveUnexpired \in Calls \union {NoCall}
  BY DEF GateTypeOK, ActiveUnexpired
<1>3. ASSUME NEW c \in Calls
      PROVE  (ActiveUnexpired = c) <=>
               (c \notin Immediate /\ ExpiredActions[c] \in {"PENDING", "EXECUTING"})
  BY NoCallAssumption DEF OneActionAtATime, ActiveUnexpired, ExpiredActions, Expirable
<1> QED
  BY <1>1, <1>2, <1>3

(* A step that changes rows, not requests, and leaves those being executed *)
(* alone keeps the rest of the invariant.                                  *)
LEMMA RowsKept ==
  ASSUME GateInv, action' \in [Calls -> Statuses], overdue' \in [Calls -> BOOLEAN],
         active' \in Calls \union {NoCall}, UNCHANGED <<effects, crashes>>,
         handler' \in [Handlers -> [at : {"IDLE", "PREPARE", "EXECUTE", "COMPLETE", "FAIL"},
                                    call : Calls \union {NoCall}]],
         \A h \in Handlers : handler'[h] = handler[h] \/ handler'[h] = Idle
                               \/ (handler'[h].at = "PREPARE" /\ handler'[h].call \in Calls \ Immediate),
         \A c \in Calls : \/ action'[c] = action[c]
                          \/ action[c] = "PENDING" /\ action'[c] \in {"EXPIRED", "CANCELLED"}
                          \/ action[c] = "NONE" /\ action'[c] = "PENDING",
         OneActionAtATime'
  PROVE  GateInv'
<1> USE DEF GateInv
<1>1. \A h \in Handlers : Working(h)' => handler'[h] = handler[h] /\ Working(h)
  BY DEF Working, Idle
<1>2. GateTypeOK'
  BY DEF GateTypeOK, Idle
<1>3. WorksOnceIfConfirmed'
  BY DEF WorksOnceIfConfirmed
<1>4. OneRequestPerCall'
  BY <1>1 DEF OneRequestPerCall
<1>5. RequestKnowsItsCall'
  <2>1. \A h \in Handlers : Working(h) => handler[h].call \in Calls
    BY DEF GateTypeOK, Working, Idle
  <2>2. \A h \in Handlers : Working(h) => action'[handler[h].call] = "EXECUTING"
    BY <2>1 DEF RequestKnowsItsCall
  <2> QED
    BY <1>1, <2>2 DEF RequestKnowsItsCall, Working, At
<1> QED
  BY <1>2, <1>3, <1>4, <1>5

(* Where a request stands, after a step of its own.                        *)
LEMMA GotoEffect ==
  ASSUME GateTypeOK, NEW h \in Handlers, NEW c \in Calls \union {NoCall},
         NEW point \in {"IDLE", "PREPARE", "EXECUTE", "COMPLETE", "FAIL"}, Goto(h, point, c)
  PROVE  /\ handler' \in [Handlers -> [at : {"IDLE", "PREPARE", "EXECUTE", "COMPLETE", "FAIL"},
                                       call : Calls \union {NoCall}]]
         /\ handler'[h].at = point /\ handler'[h].call = c
         /\ \A k \in Handlers \ {h} : handler'[k] = handler[k]
<1> DEFINE new == [at |-> point, call |-> c]
<1>1. new.at = point /\ new.call = c
  OBVIOUS
<1>2. new \in [at : {"IDLE", "PREPARE", "EXECUTE", "COMPLETE", "FAIL"}, call : Calls \union {NoCall}]
  OBVIOUS
<1>3. handler' = [handler EXCEPT ![h] = new]
  BY DEF Goto
<1> HIDE DEF new
<1> QED
  BY <1>1, <1>2, <1>3 DEF GateTypeOK
LEMMA FinishEffect ==
  ASSUME GateTypeOK, NEW h \in Handlers, Finish(h)
  PROVE  /\ handler' \in [Handlers -> [at : {"IDLE", "PREPARE", "EXECUTE", "COMPLETE", "FAIL"},
                                       call : Calls \union {NoCall}]]
         /\ handler'[h] = Idle
         /\ \A k \in Handlers \ {h} : handler'[k] = handler[k]
  BY DEF GateTypeOK, Finish, Idle

(***************************************************************************)
(* Steps on pending actions.                                               *)
(***************************************************************************)
LEMMA PassDeadlineKept ==
  ASSUME GateInv, NEW c \in Calls, PassDeadline(c)
  PROVE  GateInv'
<1>1. /\ overdue' \in [Calls -> BOOLEAN] /\ OneActionAtATime'
      /\ UNCHANGED <<action, active, effects, handler, crashes>>
  BY DEF PassDeadline, GateInv, GateTypeOK, OneActionAtATime
<1> QED
  BY <1>1, RowsKept DEF GateInv, GateTypeOK

LEMMA CurrentKept ==
  ASSUME GateInv, Current
  PROVE  GateInv'
<1>1. OneActionAtATime'
  BY ExpiredEffect DEF GateInv, Current, OneActionAtATime
<1>2. \A c \in Calls : action'[c] = action[c] \/ (action[c] = "PENDING" /\ action'[c] = "EXPIRED")
  BY ExpiredEffect DEF GateInv, Current
<1>3. /\ action' \in [Calls -> Statuses] /\ active' \in Calls \union {NoCall}
      /\ overdue' \in [Calls -> BOOLEAN] /\ UNCHANGED <<effects, handler, crashes>>
  BY ExpiredEffect DEF GateInv, GateTypeOK, Current
<1> QED
  BY <1>1, <1>2, <1>3, RowsKept DEF GateInv, GateTypeOK

(* Ending a pending action gives the key up, and it had the key.           *)
LEMMA SettleEffect ==
  ASSUME GateInv, NEW c \in Calls, NEW s \in Statuses \ {"PENDING", "EXECUTING"}, Settle(c, s)
  PROVE  /\ action' \in [Calls -> Statuses] /\ active' \in Calls \union {NoCall}
         /\ action'[c] = s /\ \A d \in Calls \ {c} : action'[d] = action[d]
         /\ OneActionAtATime'
<1>1. /\ action' \in [Calls -> Statuses] /\ active' \in Calls \union {NoCall}
      /\ action'[c] = s /\ \A d \in Calls \ {c} : action'[d] = action[d]
  BY DEF GateInv, GateTypeOK, Settle
<1>2. active' # c /\ \A d \in Calls \ {c} : active' = d <=> active = d
  BY NoCallAssumption DEF Settle
<1>3. OneActionAtATime'
  BY <1>1, <1>2 DEF GateInv, OneActionAtATime
<1> QED
  BY <1>1, <1>3

LEMMA CancelKept ==
  ASSUME GateInv, NEW c \in Calls, Cancel(c)
  PROVE  GateInv'
<1>1. action[c] = "PENDING" /\ Settle(c, "CANCELLED") /\ UNCHANGED <<overdue, effects, handler, crashes>>
  BY DEF Cancel
<1>2. /\ action' \in [Calls -> Statuses] /\ active' \in Calls \union {NoCall}
      /\ action'[c] = "CANCELLED" /\ \A d \in Calls \ {c} : action'[d] = action[d]
      /\ OneActionAtATime'
  BY <1>1, SettleEffect DEF Statuses
<1> QED
  BY <1>1, <1>2, RowsKept DEF GateInv, GateTypeOK

LEMMA PrepareKept ==
  ASSUME GateInv, NEW h \in Handlers, NEW c \in Calls, Prepare(h, c)
  PROVE  GateInv'
<1>1. OneActionAtATime'
  BY ExpiredEffect DEF GateInv, Prepare, OneActionAtATime
<1>2. \A d \in Calls : action'[d] = action[d] \/ (action[d] = "PENDING" /\ action'[d] = "EXPIRED")
  BY ExpiredEffect DEF GateInv, Prepare
<1>3. /\ action' \in [Calls -> Statuses] /\ active' \in Calls \union {NoCall}
      /\ overdue' \in [Calls -> BOOLEAN] /\ UNCHANGED <<effects, crashes>>
  BY ExpiredEffect DEF GateInv, GateTypeOK, Prepare
<1>4. /\ handler' \in [Handlers -> [at : {"IDLE", "PREPARE", "EXECUTE", "COMPLETE", "FAIL"},
                                    call : Calls \union {NoCall}]]
      /\ \A k \in Handlers :
           \/ handler'[k] = handler[k]
           \/ handler'[k].at = "PREPARE" /\ handler'[k].call \in Calls \ Immediate
  <2>1. CASE Goto(h, "PREPARE", c)
    <3>1. /\ handler'[h].at = "PREPARE" /\ handler'[h].call = c
          /\ \A k \in Handlers \ {h} : handler'[k] = handler[k]
          /\ handler' \in [Handlers -> [at : {"IDLE", "PREPARE", "EXECUTE", "COMPLETE", "FAIL"},
                                        call : Calls \union {NoCall}]]
      BY <2>1, GotoEffect DEF GateInv
    <3>2. handler'[h].at = "PREPARE" /\ handler'[h].call \in Calls \ Immediate
      BY <3>1 DEF Prepare
    <3> QED
      BY <3>1, <3>2
  <2>2. CASE UNCHANGED handler
    BY <2>2 DEF GateInv, GateTypeOK
  <2> QED
    BY <2>1, <2>2 DEF Prepare
<1> QED
  BY <1>1, <1>2, <1>3, <1>4, RowsKept

(* The key is looked at again when the action is recorded, so a second     *)
(* preparation that ran meanwhile does not take it.                        *)
LEMMA CreatePendingKept ==
  ASSUME GateInv, NEW h \in Handlers, CreatePending(h)
  PROVE  GateInv'
<1> DEFINE c == handler[h].call
<1> USE DEF GateInv
<1>1. c \in Calls \ Immediate
  BY DEF CreatePending, GateTypeOK, At, Idle
<1>2. /\ handler' \in [Handlers -> [at : {"IDLE", "PREPARE", "EXECUTE", "COMPLETE", "FAIL"},
                                    call : Calls \union {NoCall}]]
      /\ \A k \in Handlers : handler'[k] = handler[k] \/ handler'[k] = Idle
  BY FinishEffect DEF CreatePending
<1>3. CASE /\ action[c] = "NONE" /\ ActiveUnexpired = NoCall
           /\ action' = [ExpiredActions EXCEPT ![c] = "PENDING"]
           /\ active' = c
           /\ overdue' = [overdue EXCEPT ![c] = FALSE]
  <2>1. /\ action' \in [Calls -> Statuses] /\ action'[c] = "PENDING"
        /\ \A d \in Calls \ {c} : action'[d] = ExpiredActions[d]
    BY <1>1, <1>3, ExpiredEffect DEF Statuses
  <2>2. \A d \in Calls : \/ action'[d] = action[d]
                         \/ action[d] = "PENDING" /\ action'[d] = "EXPIRED"
                         \/ action[d] = "NONE" /\ action'[d] = "PENDING"
    BY <1>3, <2>1, ExpiredEffect
  <2>3. OneActionAtATime'
    BY <1>1, <1>3, <2>1, ExpiredEffect, NoCallAssumption DEF OneActionAtATime
  <2>4. overdue' \in [Calls -> BOOLEAN] /\ active' \in Calls \union {NoCall}
    BY <1>1, <1>3 DEF GateTypeOK
  <2>5. UNCHANGED <<effects, crashes>>
    BY DEF CreatePending
  <2> QED
    BY <1>2, <2>1, <2>2, <2>3, <2>4, <2>5, RowsKept
<1>4. CASE action' = ExpiredActions /\ active' = ActiveUnexpired /\ UNCHANGED overdue
  <2>1. OneActionAtATime' /\ action' \in [Calls -> Statuses] /\ active' \in Calls \union {NoCall}
    BY <1>4, ExpiredEffect DEF OneActionAtATime
  <2>2. \A d \in Calls : action'[d] = action[d] \/ (action[d] = "PENDING" /\ action'[d] = "EXPIRED")
    BY <1>4, ExpiredEffect
  <2>3. overdue' \in [Calls -> BOOLEAN] /\ UNCHANGED <<effects, crashes>>
    BY <1>4 DEF GateTypeOK, CreatePending
  <2> QED
    BY <1>2, <2>1, <2>2, <2>3, RowsKept
<1> QED
  BY <1>3, <1>4 DEF CreatePending

(***************************************************************************)
(* Steps of requests at work.                                              *)
(***************************************************************************)
(* A request begins to work on a call no other request works on.           *)
LEMMA BeginKept ==
  ASSUME GateInv, NEW h \in Handlers, NEW c \in Calls, action[c] \in {"NONE", "PENDING"},
         action' = [action EXCEPT ![c] = "EXECUTING"], Goto(h, "EXECUTE", c),
         UNCHANGED <<overdue, active, effects, crashes>>,
         c \in Immediate \/ action[c] = "PENDING"
  PROVE  GateInv'
<1> USE DEF GateInv
<1>1. /\ action' \in [Calls -> Statuses] /\ action'[c] = "EXECUTING"
      /\ \A d \in Calls \ {c} : action'[d] = action[d]
  BY DEF GateTypeOK, Statuses
<1>2. /\ handler' \in [Handlers -> [at : {"IDLE", "PREPARE", "EXECUTE", "COMPLETE", "FAIL"},
                                    call : Calls \union {NoCall}]]
      /\ handler'[h].at = "EXECUTE" /\ handler'[h].call = c
      /\ \A k \in Handlers \ {h} : handler'[k] = handler[k]
  BY GotoEffect DEF GateInv
<1>3. \A k \in Handlers : Working(k) => handler[k].call # c /\ handler[k].call \in Calls
  BY DEF RequestKnowsItsCall, GateTypeOK, Working, Idle
<1>4. GateTypeOK'
  <2>1. \A k \in Handlers \ {h} :
          \/ handler[k] = Idle
          \/ handler[k].at = "PREPARE" /\ handler[k].call \in Calls \ Immediate
          \/ /\ handler[k].at \in {"EXECUTE", "COMPLETE", "FAIL"} /\ handler[k].call \in Calls
             /\ action'[handler[k].call] # "NONE"
    BY <1>1 DEF GateTypeOK
  <2> QED
    BY <1>1, <1>2, <2>1 DEF GateTypeOK
<1>5. OneActionAtATime'
  BY <1>1 DEF OneActionAtATime
<1>6. effects[c] = 0
  BY DEF WorksOnceIfConfirmed, GateTypeOK
<1>7. WorksOnceIfConfirmed'
  BY <1>1, <1>6 DEF WorksOnceIfConfirmed
<1>8. OneRequestPerCall'
  BY <1>2, <1>3 DEF OneRequestPerCall, Working
<1>9. RequestKnowsItsCall'
  <2>1. ASSUME NEW k \in Handlers \ {h}
        PROVE  /\ Working(k) => action'[handler[k].call] = "EXECUTING"
               /\ At(k, "EXECUTE") => effects'[handler[k].call] = 0
               /\ At(k, "COMPLETE") => effects'[handler[k].call] = 1
    BY <1>1, <1>3 DEF RequestKnowsItsCall, Working, At
  <2> QED
    BY <1>1, <1>2, <1>6, <2>1 DEF RequestKnowsItsCall, Working, At
<1> QED
  BY <1>4, <1>5, <1>7, <1>8, <1>9

LEMMA InvokeImmediateKept ==
  ASSUME GateInv, NEW h \in Handlers, NEW c \in Calls, InvokeImmediate(h, c)
  PROVE  GateInv'
  BY BeginKept DEF InvokeImmediate

LEMMA ConfirmKept ==
  ASSUME GateInv, NEW h \in Handlers, NEW c \in Calls, Confirm(h, c)
  PROVE  GateInv'
<1>1. action[c] = "PENDING" /\ UNCHANGED <<overdue, effects, crashes>>
  BY DEF Confirm
<1>2. CASE Settle(c, "EXPIRED") /\ UNCHANGED handler
  <2>1. /\ action' \in [Calls -> Statuses] /\ active' \in Calls \union {NoCall}
        /\ action'[c] = "EXPIRED" /\ \A d \in Calls \ {c} : action'[d] = action[d]
        /\ OneActionAtATime'
    BY <1>2, SettleEffect DEF Statuses
  <2> QED
    BY <1>1, <1>2, <2>1, RowsKept DEF GateInv, GateTypeOK
<1>3. CASE action' = [action EXCEPT ![c] = "EXECUTING"] /\ Goto(h, "EXECUTE", c) /\ UNCHANGED active
  BY <1>1, <1>3, BeginKept
<1> QED
  BY <1>2, <1>3 DEF Confirm

(* The tool's work is done at most once, for the request that may do it.   *)
LEMMA ExecuteKept ==
  ASSUME GateInv, NEW h \in Handlers, Execute(h)
  PROVE  GateInv'
<1> DEFINE c == handler[h].call
<1> USE DEF GateInv
<1>1. /\ c \in Calls /\ action[c] = "EXECUTING" /\ effects[c] = 0 /\ Working(h)
      /\ UNCHANGED <<action, overdue, active, crashes>>
  BY DEF Execute, RequestKnowsItsCall, GateTypeOK, Working, At, Idle
<1>2. PICK point \in {"COMPLETE", "FAIL"}, n \in {0, 1} :
        /\ effects' = [effects EXCEPT ![c] = n] /\ Goto(h, point, c)
        /\ point = "COMPLETE" => n = 1
  <2>1. CASE effects' = [effects EXCEPT ![c] = @ + 1] /\ (Goto(h, "COMPLETE", c) \/ Goto(h, "FAIL", c))
    <3>1. effects' = [effects EXCEPT ![c] = 1]
      BY <1>1, <2>1 DEF GateTypeOK
    <3> QED
      BY <2>1, <3>1
  <2>2. CASE UNCHANGED effects /\ Goto(h, "FAIL", c)
    <3>1. effects' = [effects EXCEPT ![c] = 0]
      BY <1>1, <2>2 DEF GateTypeOK
    <3> QED
      BY <2>2, <3>1
  <2> QED
    BY <2>1, <2>2 DEF Execute
<1>3. /\ handler' \in [Handlers -> [at : {"IDLE", "PREPARE", "EXECUTE", "COMPLETE", "FAIL"},
                                    call : Calls \union {NoCall}]]
      /\ handler'[h].at = point /\ handler'[h].call = c
      /\ \A k \in Handlers \ {h} : handler'[k] = handler[k]
  BY <1>1, <1>2, GotoEffect
<1>4. /\ effects' \in [Calls -> Nat] /\ effects'[c] = n
      /\ \A d \in Calls \ {c} : effects'[d] = effects[d]
  BY <1>1, <1>2 DEF GateTypeOK
<1>5. \A k \in Handlers \ {h} : Working(k) => handler[k].call \in Calls \ {c}
  BY <1>1 DEF OneRequestPerCall, GateTypeOK, Working, Idle
<1>6. GateTypeOK'
  <2>1. \A k \in Handlers \ {h} :
          \/ handler[k] = Idle
          \/ handler[k].at = "PREPARE" /\ handler[k].call \in Calls \ Immediate
          \/ /\ handler[k].at \in {"EXECUTE", "COMPLETE", "FAIL"} /\ handler[k].call \in Calls
             /\ action'[handler[k].call] # "NONE"
    BY <1>1 DEF GateTypeOK
  <2> QED
    BY <1>1, <1>3, <1>4, <2>1 DEF GateTypeOK
<1>7. OneActionAtATime'
  BY <1>1 DEF OneActionAtATime
<1>8. WorksOnceIfConfirmed'
  BY <1>1, <1>4 DEF WorksOnceIfConfirmed
<1>9. OneRequestPerCall'
  BY <1>3, <1>5 DEF OneRequestPerCall, Working
<1>10. RequestKnowsItsCall'
  <2>1. ASSUME NEW k \in Handlers \ {h}
        PROVE  /\ Working(k) => action'[handler[k].call] = "EXECUTING"
               /\ At(k, "EXECUTE") => effects'[handler[k].call] = 0
               /\ At(k, "COMPLETE") => effects'[handler[k].call] = 1
    BY <1>1, <1>4, <1>5 DEF RequestKnowsItsCall, Working, At
  <2> QED
    BY <1>1, <1>2, <1>3, <1>4, <2>1 DEF RequestKnowsItsCall, Working, At
<1> QED
  BY <1>6, <1>7, <1>8, <1>9, <1>10

(* A request leaves its work, the row keeping its status or being closed.  *)
LEMMA LeaveKept ==
  ASSUME GateInv, NEW h \in Handlers, Working(h), UNCHANGED <<overdue, effects>>,
         crashes' \in 0..MaxCrashes, Finish(h),
         \/ UNCHANGED <<action, active>>
         \/ Settle(handler[h].call, "EXECUTED") /\ effects[handler[h].call] = 1
         \/ Settle(handler[h].call, "FAILED")
  PROVE  GateInv'
<1> DEFINE c == handler[h].call
<1> USE DEF GateInv
<1>1. c \in Calls /\ action[c] = "EXECUTING"
  BY DEF RequestKnowsItsCall, GateTypeOK, Working, Idle
<1>2. /\ handler' \in [Handlers -> [at : {"IDLE", "PREPARE", "EXECUTE", "COMPLETE", "FAIL"},
                                    call : Calls \union {NoCall}]]
      /\ handler'[h] = Idle /\ \A k \in Handlers \ {h} : handler'[k] = handler[k]
  BY FinishEffect
<1>3. /\ action' \in [Calls -> Statuses] /\ active' \in Calls \union {NoCall}
      /\ action'[c] \in {"EXECUTING", "EXECUTED", "FAILED"}
      /\ action'[c] = "EXECUTED" => effects[c] = 1
      /\ \A d \in Calls \ {c} : action'[d] = action[d]
      /\ OneActionAtATime'
  <2>1. CASE UNCHANGED <<action, active>>
    BY <1>1, <2>1 DEF GateTypeOK, OneActionAtATime
  <2>2. CASE Settle(c, "EXECUTED") /\ effects[c] = 1
    BY <1>1, <2>2, SettleEffect DEF Statuses
  <2>3. CASE Settle(c, "FAILED")
    BY <1>1, <2>3, SettleEffect DEF Statuses
  <2> QED
    BY <2>1, <2>2, <2>3
<1>4. \A k \in Handlers \ {h} : Working(k) => handler[k].call \in Calls \ {c}
  BY <1>1 DEF OneRequestPerCall, GateTypeOK, Working, Idle
<1>5. GateTypeOK'
  <2>1. \A k \in Handlers \ {h} :
          \/ handler[k] = Idle
          \/ handler[k].at = "PREPARE" /\ handler[k].call \in Calls \ Immediate
          \/ /\ handler[k].at \in {"EXECUTE", "COMPLETE", "FAIL"} /\ handler[k].call \in Calls
             /\ action'[handler[k].call] # "NONE"
    BY <1>1, <1>3, <1>4 DEF GateTypeOK, Working
  <2> QED
    BY <1>2, <1>3, <2>1 DEF GateTypeOK
<1>6. WorksOnceIfConfirmed'
  BY <1>1, <1>3 DEF WorksOnceIfConfirmed
<1>7. OneRequestPerCall'
  BY <1>2 DEF OneRequestPerCall, Working, Idle
<1>8. RequestKnowsItsCall'
  <2>1. ASSUME NEW k \in Handlers \ {h}
        PROVE  /\ Working(k) => action'[handler[k].call] = "EXECUTING"
               /\ At(k, "EXECUTE") => effects'[handler[k].call] = 0
               /\ At(k, "COMPLETE") => effects'[handler[k].call] = 1
    BY <1>3, <1>4 DEF RequestKnowsItsCall, Working, At
  <2> QED
    BY <1>2, <2>1 DEF RequestKnowsItsCall, Working, At, Idle
<1> QED
  BY <1>3, <1>5, <1>6, <1>7, <1>8

LEMMA CloseKept ==
  ASSUME GateInv, NEW h \in Handlers, Complete(h) \/ Fail(h)
  PROVE  GateInv'
<1>1. Working(h) /\ UNCHANGED <<overdue, effects>> /\ Finish(h) /\ crashes' \in 0..MaxCrashes
  BY DEF Complete, Fail, Close, Working, At, GateInv, GateTypeOK
<1>2. At(h, "COMPLETE") => effects[handler[h].call] = 1
  BY DEF GateInv, RequestKnowsItsCall
<1>3. CASE Complete(h)
  BY <1>1, <1>2, <1>3, LeaveKept DEF Complete, Close
<1>4. CASE Fail(h)
  BY <1>1, <1>4, LeaveKept DEF Fail, Close
<1> QED
  BY <1>3, <1>4

(* A request that is cut off while it prepares an action leaves nothing    *)
(* behind, and one that is cut off at work leaves the row EXECUTING.       *)
LEMMA CrashKept ==
  ASSUME GateInv, NEW h \in Handlers, Crash(h)
  PROVE  GateInv'
<1> USE MaxCrashesAssumption DEF GateInv
<1>1. crashes' \in 0..MaxCrashes /\ Finish(h) /\ UNCHANGED <<action, overdue, active, effects>>
  BY DEF Crash, GateTypeOK
<1>2. CASE Working(h)
  BY <1>1, <1>2, LeaveKept
<1>3. CASE ~ Working(h)
  <2>1. /\ handler' \in [Handlers -> [at : {"IDLE", "PREPARE", "EXECUTE", "COMPLETE", "FAIL"},
                                      call : Calls \union {NoCall}]]
        /\ handler'[h] = Idle /\ \A k \in Handlers \ {h} : handler'[k] = handler[k]
    BY <1>1, FinishEffect
  <2>2. GateTypeOK'
    BY <1>1, <2>1 DEF GateTypeOK
  <2>3. OneActionAtATime' /\ WorksOnceIfConfirmed'
    BY <1>1 DEF OneActionAtATime, WorksOnceIfConfirmed
  <2>4. OneRequestPerCall' /\ RequestKnowsItsCall'
    BY <1>1, <2>1 DEF OneRequestPerCall, RequestKnowsItsCall, Working, At, Idle
  <2> QED
    BY <2>2, <2>3, <2>4
<1> QED
  BY <1>2, <1>3

LEMMA FailToCompleteKept ==
  ASSUME GateInv, NEW h \in Handlers, FailToComplete(h)
  PROVE  GateInv'
<1> DEFINE c == handler[h].call
<1> USE DEF GateInv
<1>1. c \in Calls /\ Working(h) /\ UNCHANGED <<action, overdue, active, effects, crashes>>
  BY DEF FailToComplete, GateTypeOK, Working, At, Idle
<1>2. /\ handler' \in [Handlers -> [at : {"IDLE", "PREPARE", "EXECUTE", "COMPLETE", "FAIL"},
                                    call : Calls \union {NoCall}]]
      /\ handler'[h].at = "FAIL" /\ handler'[h].call = c
      /\ \A k \in Handlers \ {h} : handler'[k] = handler[k]
  BY <1>1, GotoEffect DEF FailToComplete
<1>3. GateTypeOK'
  BY <1>1, <1>2 DEF GateTypeOK, RequestKnowsItsCall
<1>4. OneActionAtATime' /\ WorksOnceIfConfirmed'
  BY <1>1 DEF OneActionAtATime, WorksOnceIfConfirmed
<1>5. OneRequestPerCall' /\ RequestKnowsItsCall'
  BY <1>1, <1>2 DEF OneRequestPerCall, RequestKnowsItsCall, Working, At
<1> QED
  BY <1>3, <1>4, <1>5

LEMMA GateNextKept ==
  ASSUME GateInv, [GateNext]_gateVars
  PROVE  GateInv'
<1>1. CASE Current
  BY <1>1, CurrentKept
<1>2. ASSUME NEW c \in Calls, PassDeadline(c) \/ Cancel(c)  PROVE GateInv'
  BY <1>2, PassDeadlineKept, CancelKept
<1>3. ASSUME NEW h \in Handlers, NEW c \in Calls,
             InvokeImmediate(h, c) \/ Prepare(h, c) \/ Confirm(h, c)
      PROVE  GateInv'
  BY <1>3, InvokeImmediateKept, PrepareKept, ConfirmKept
<1>4. ASSUME NEW h \in Handlers, HandlerStep(h) \/ Crash(h)  PROVE GateInv'
  BY <1>4, CreatePendingKept, ExecuteKept, CloseKept, FailToCompleteKept, CrashKept DEF HandlerStep
<1>5. CASE UNCHANGED gateVars
  BY <1>5 DEF gateVars, GateInv, GateTypeOK, OneActionAtATime, WorksOnceIfConfirmed,
              OneRequestPerCall, RequestKnowsItsCall, Working, At
<1> QED
  BY <1>1, <1>2, <1>3, <1>4, <1>5 DEF GateNext

LEMMA GateInitInv ==
  ASSUME GateInit
  PROVE  GateInv
  BY NoCallAssumption, MaxCrashesAssumption DEF GateInit, GateInv, GateTypeOK, OneActionAtATime,
     WorksOnceIfConfirmed, OneRequestPerCall, RequestKnowsItsCall, Working, At, Idle, Statuses

(***************************************************************************)
(* Theorems.                                                               *)
(***************************************************************************)
(* The strengthened invariant holds, however requests, expiries and        *)
(* restarts overlap.                                                       *)
THEOREM GateInvHolds == GateSpec => []GateInv
<1>1. GateInit => GateInv
  BY GateInitInv
<1>2. GateInv /\ [GateNext]_gateVars => GateInv'
  BY GateNextKept
<1> QED
  BY <1>1, <1>2, PTL DEF GateSpec

(* Rows and requests hold the values the code gives them.                  *)
THEOREM GateTyped == GateSpec => []GateTypeOK
<1>1. GateInv => GateTypeOK
  BY DEF GateInv
<1> QED
  BY <1>1, GateInvHolds, PTL

(* The principal's key belongs to the one action pending or under way.     *)
THEOREM OneActionAtATimeHolds == GateSpec => []OneActionAtATime
<1>1. GateInv => OneActionAtATime
  BY DEF GateInv
<1> QED
  BY <1>1, GateInvHolds, PTL

(* A tool works at most once for a call, and only if it was confirmed.     *)
THEOREM WorksOnceIfConfirmedHolds == GateSpec => []WorksOnceIfConfirmed
<1>1. GateInv => WorksOnceIfConfirmed
  BY DEF GateInv
<1> QED
  BY <1>1, GateInvHolds, PTL

(* No step changes an action that has its outcome.                         *)
LEMMA OutcomeKept ==
  ASSUME GateInv, [GateNext]_gateVars, NEW c \in Calls,
         action[c] \in {"EXECUTED", "FAILED", "CANCELLED", "EXPIRED"}
  PROVE  action'[c] = action[c]
<1>0. action \in [Calls -> Statuses]
  BY DEF GateInv, GateTypeOK
<1>1. ExpiredActions[c] = action[c]
  BY DEF ExpiredActions, Expirable
<1>2. CASE Current
  BY <1>1, <1>2 DEF Current
<1>3. ASSUME NEW d \in Calls, PassDeadline(d) \/ Cancel(d)  PROVE action'[c] = action[c]
  BY <1>0, <1>3 DEF PassDeadline, Cancel, Settle
<1>4. ASSUME NEW h \in Handlers, NEW d \in Calls,
             InvokeImmediate(h, d) \/ Prepare(h, d) \/ Confirm(h, d)
      PROVE  action'[c] = action[c]
  BY <1>0, <1>1, <1>4 DEF InvokeImmediate, Prepare, Confirm, Settle
<1>5. ASSUME NEW h \in Handlers, HandlerStep(h) \/ Crash(h)  PROVE action'[c] = action[c]
  <2>1. CASE CreatePending(h)
    <3>1. ExpiredActions \in [Calls -> Statuses]
      BY ExpiredEffect DEF GateInv
    <3> QED
      BY <1>1, <2>1, <3>1 DEF CreatePending
  <2>2. CASE Complete(h) \/ Fail(h)
    BY <1>0, <2>2 DEF Complete, Fail, Close, Settle
  <2>3. CASE Execute(h) \/ FailToComplete(h) \/ Crash(h)
    BY <2>3 DEF Execute, FailToComplete, Crash
  <2> QED
    BY <1>5, <2>1, <2>2, <2>3 DEF HandlerStep
<1>6. CASE UNCHANGED gateVars
  BY <1>6 DEF gateVars
<1> QED
  BY <1>2, <1>3, <1>4, <1>5, <1>6 DEF GateNext

(* What the user was told of an action stays so.                           *)
THEOREM OutcomeIsFinalHolds == GateSpec => OutcomeIsFinal
<1>1. GateInv /\ [GateNext]_gateVars =>
        [\A c \in Calls :
           action[c] \in {"EXECUTED", "FAILED", "CANCELLED", "EXPIRED"} => action'[c] = action[c]
        ]_gateVars
  BY OutcomeKept
<1> QED
  BY <1>1, GateInvHolds, PTL DEF GateSpec, OutcomeIsFinal
=============================================================================
