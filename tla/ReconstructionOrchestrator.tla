--------------------- MODULE ReconstructionOrchestrator ---------------------
(***************************************************************************)
(* The polling loop that drives the reconstruction of one asset at a time  *)
(* on one GPU instance.  One tick of it reads one row, asks the cloud      *)
(* about it, and writes the row back by its id alone; between these steps  *)
(* owners and callbacks write rows and the process may restart.            *)
(*                                                                         *)
(* Time is left out: a deadline that a row can miss may be found missed at *)
(* any look at it, and a period of grace may be found over at any look     *)
(* after the first.  Every write of an active jobState sets jobStartedAt.  *)
(***************************************************************************)
EXTENDS ReconstructionJob

CONSTANTS
  MaxAttempts,             \* config.maxAttempts
  KeepWarm                 \* config.keepWarm

ASSUME MaxAttemptsAssumption == MaxAttempts \in Nat
ASSUME KeepWarmAssumption == KeepWarm \in BOOLEAN

VARIABLES
  tick,                    \* where the tick stands, and what it read of the row
  emptyQueueTicks,
  backoff,                 \* nextStartAttemptAt lies ahead
  successSeen              \* the assets of successSeenAt

memory == <<emptyQueueTicks, backoff, successSeen>>
reconVars == <<assetVars, jobVars, tick, memory>>

Waiting == [at |-> "WAITING", asset |-> 0, command |-> NoJob, attempts |-> 0]

At(point) == tick.at = point
Goto(point) == tick' = [tick EXCEPT !.at = point]
Take(a, point) ==
  tick' = [at |-> point, asset |-> a, command |-> row[a].command, attempts |-> row[a].attempts]
EndTick == tick' = Waiting

(* Faulty: rows the query for queued ones leaves out. *)
QueuedWithoutState == {a \in Assets : row[a].status = "PROCESSING" /\ row[a].jobState = "NULL"}

Active == {a \in Assets : row[a].jobState \in {"GPU_STARTING", "RUNNING"}}
Queued == {a \in Assets : row[a].status = "PROCESSING" /\ row[a].jobState \in {"NULL", "QUEUED"}}
Oldest(S) == {a \in S : \A b \in S : a <= b}

ReconstructionInit ==
  /\ AssetInit
  /\ JobInit
  /\ tick = Waiting
  /\ emptyQueueTicks = 0
  /\ backoff = FALSE
  /\ successSeen = {}

BeginTick(active) ==
  /\ At("WAITING")
  /\ \/ \E a \in active :
          /\ emptyQueueTicks' = 0
          /\ Take(a, IF row[a].jobState = "RUNNING" THEN "RUNNING" ELSE "STARTING")
     \/ active = {} /\ Goto("QUEUE") /\ UNCHANGED emptyQueueTicks
  /\ UNCHANGED <<assetVars, jobVars, backoff, successSeen>>

(* Faulty: an asset that waits for the instance is overlooked. *)
StartTickUnlessRunning == BeginTick({a \in Assets : row[a].jobState = "RUNNING"})

StartTick == BeginTick(Active)

ReadQueue ==
  /\ At("QUEUE")
  /\ \/ Queued = {} /\ Goto("IDLE") /\ UNCHANGED emptyQueueTicks
     \/ \E a \in Oldest(Queued) : Take(a, "SECURE") /\ emptyQueueTicks' = 0
  /\ UNCHANGED <<assetVars, jobVars, backoff, successSeen>>

(* The instance is stopped at the second empty look in a row. *)
MaybeIdleStop ==
  /\ At("IDLE") /\ EndTick
  /\ LET stop == gpu = "running" /\ ~ KeepWarm /\ emptyQueueTicks = 1
     IN  /\ emptyQueueTicks' =
              IF gpu = "running" /\ ~ KeepWarm /\ ~ stop THEN emptyQueueTicks + 1 ELSE 0
         /\ IF stop THEN StopInstance ELSE UNCHANGED <<gpu, jobs>>
  /\ UNCHANGED <<assetVars, faults, backoff, successSeen>>

StartInstance ==
  /\ At("SECURE") /\ Goto("PROMOTE")
  /\ gpu = "stopped" /\ ~ backoff
  /\ gpu' = "pending"
  /\ UNCHANGED <<assetVars, jobs, faults, memory>>

LackCapacity ==
  /\ At("SECURE") /\ EndTick
  /\ gpu = "stopped" /\ ~ backoff
  /\ Fault("capacity")
  /\ backoff' = TRUE
  /\ UNCHANGED <<assetVars, gpu, jobs, emptyQueueTicks, successSeen>>

FindInstance ==
  /\ At("SECURE")
  /\ IF gpu = "running"
     THEN Goto("PROMOTE")
     ELSE (gpu = "stopped" => backoff) /\ EndTick
  /\ UNCHANGED <<assetVars, jobVars, memory>>

EndBackoff ==
  /\ backoff /\ backoff' = FALSE
  /\ UNCHANGED <<assetVars, jobVars, tick, emptyQueueTicks, successSeen>>

Row == row[tick.asset]

(* The steps that write the row, blindly; a row that is gone is an error   *)
(* that ends the tick.                                                     *)
WriteBack(point, new) ==
  /\ At(point) /\ EndTick
  /\ Write(tick.asset, new)
  /\ UNCHANGED <<edits, requests, jobVars, emptyQueueTicks, backoff>>

Promoted(r) == [r EXCEPT !.jobState = "GPU_STARTING"]
Promote == WriteBack("PROMOTE", Promoted(Row)) /\ UNCHANGED successSeen

Dispatched(r) ==
  [r EXCEPT !.jobState = "RUNNING", !.command = tick.command, !.attempts = @ + 1]
RecordDispatch == WriteBack("SENT", Dispatched(Row)) /\ UNCHANGED successSeen

Requeued(r) == [r EXCEPT !.jobState = "QUEUED", !.command = NoJob]
Requeue == WriteBack("REQUEUE", Requeued(Row)) /\ successSeen' = successSeen \ {tick.asset}

FailJob == WriteBack("FAIL", MarkedFailed(Row)) /\ successSeen' = successSeen \ {tick.asset}

StartingTimesOut ==
  /\ At("STARTING") /\ Goto("FAIL")
  /\ UNCHANGED <<assetVars, jobVars, memory>>

FindOffline ==
  /\ At("STARTING") /\ EndTick
  /\ UNCHANGED <<assetVars, jobVars, memory>>

FindOnline ==
  /\ At("STARTING") /\ Goto("SEND")
  /\ gpu = "running"
  /\ UNCHANGED <<assetVars, jobVars, memory>>

Dispatch ==
  /\ At("SEND")
  /\ SendJobCommand(tick.asset)
  /\ tick' = [tick EXCEPT !.at = "SENT", !.command = Len(jobs')]
  /\ UNCHANGED <<assetVars, gpu, faults, memory>>

(* A cancellation that fails is logged and the job failed all the same. *)
RunningTimesOut ==
  /\ At("RUNNING") /\ Goto("FAIL")
  /\ \/ CancelCommand(tick.command) /\ UNCHANGED faults
     \/ Fault("cancel") /\ UNCHANGED jobs
  /\ UNCHANGED <<assetVars, gpu, memory>>

(* A fault, unless the row has no command: the lookup of it fails.         *)
LoseCommand ==
  /\ At("RUNNING") /\ Goto("REQUEUE")
  /\ IF tick.command = NoJob THEN UNCHANGED faults ELSE Fault("lookup")
  /\ UNCHANGED <<assetVars, gpu, jobs, memory>>

Command == jobs[tick.command].state
Find(states) ==
  /\ At("RUNNING") /\ tick.command # NoJob
  /\ Command \in states
  /\ UNCHANGED <<assetVars, jobVars, emptyQueueTicks, backoff>>

FindRunning ==
  /\ Find(Running) /\ EndTick
  /\ successSeen' = successSeen \ {tick.asset}

FindSuccess ==
  /\ Find({"SUCCESS"}) /\ EndTick
  /\ successSeen' = successSeen \cup {tick.asset}

GraceIsOver ==
  /\ Find({"SUCCESS"}) /\ Goto("FAIL")
  /\ tick.asset \in successSeen
  /\ successSeen' = successSeen \ {tick.asset}

FindFailure ==
  /\ Find({"FAILED", "CANCELLED"})
  /\ Goto(IF tick.attempts < MaxAttempts THEN "REQUEUE" ELSE "FAIL")
  /\ successSeen' = successSeen \ {tick.asset}

(* A fault: a call the tick awaits throws; the tick ends, memory is kept. *)
FailTick ==
  /\ tick.at \notin {"WAITING", "RUNNING"}
  /\ Fault("await") /\ EndTick
  /\ UNCHANGED <<assetVars, gpu, jobs, memory>>

(* A fault: the process restarts; requests under way are lost with it.   *)
Crash ==
  /\ Fault("crash") /\ EndTick
  /\ emptyQueueTicks' = 0 /\ backoff' = FALSE /\ successSeen' = {}
  /\ edits' = {}
  /\ UNCHANGED <<row, requests, gpu, jobs>>

Handle ==
  \/ StartTick \/ ReadQueue \/ MaybeIdleStop
  \/ StartInstance \/ FindInstance
  \/ Promote \/ RecordDispatch \/ Requeue \/ FailJob
  \/ StartingTimesOut \/ FindOffline \/ FindOnline \/ Dispatch
  \/ RunningTimesOut \/ FindRunning \/ FindSuccess \/ GraceIsOver \/ FindFailure

ReconstructionNext ==
  \/ Owner /\ UNCHANGED <<jobVars, tick, memory>>
  \/ Gpu /\ UNCHANGED <<tick, memory>>
  \/ Handle
  \/ EndBackoff
  \/ LackCapacity \/ LoseCommand \/ FailTick \/ Crash

ReconstructionSpec == ReconstructionInit /\ [][ReconstructionNext]_reconVars

(* The loop sets its next timer in a finally block, so a tick always comes *)
(* and always goes on; the provider boots, halts and ends every command    *)
(* (it kills a script at its executionTimeout); time passes, so a deadline *)
(* that is looked at again and again is one day found over.                *)
ReconstructionFairness ==
  /\ WF_reconVars(Handle)
  /\ WF_reconVars(EndBackoff)
  /\ WF_reconVars((Boot \/ Halt) /\ UNCHANGED <<tick, memory>>)
  /\ WF_reconVars((\E j \in DOMAIN jobs : JobEnds(j)) /\ UNCHANGED <<tick, memory>>)
  /\ SF_reconVars(StartingTimesOut)
  /\ SF_reconVars(GraceIsOver)

FairReconstructionSpec == ReconstructionSpec /\ ReconstructionFairness

(* The steps after which nobody waits any more for a command that may      *)
(* still run: its number is not recorded; it is given up because looking   *)
(* it up or cancelling it failed; its asset is removed or, by a request    *)
(* that read it as failed, put back into the queue.                        *)
AbandonsCommand ==
  \/ At("SENT") /\ EndTick /\ faults' # faults
  \/ At("RUNNING") /\ tick'.at \in {"REQUEUE", "FAIL"} /\ faults' # faults
  \/ \E a \in Active : Remove(a)
  \/ \E e \in edits :
       /\ RequeueReconstruction(e)
       /\ \/ e.asset \in Active
          \/ \E j \in DOMAIN jobs : jobs[j].asset = e.asset /\ jobs[j].state \in Running

AttendedSpec == ReconstructionInit /\ [][ReconstructionNext /\ ~ AbandonsCommand]_reconVars
-----------------------------------------------------------------------------
(* One asset at a time is being started or run ("one job at a time"): only *)
(* a tick that found no active row makes one active, although the row it   *)
(* makes active may have been changed by anybody since it was read.        *)
OneActiveAsset == Cardinality(Active) <= 1

(* An asset shown as being processed is waiting for the loop or in its     *)
(* hands: none of the writers, each of which sets only its own columns and *)
(* some from a stale read, can leave it PROCESSING with its job over, where *)
(* neither the loop nor the owner's retry would ever pick it up again.     *)
ProcessingIsInHand ==
  \A a \in Assets :
    row[a].status = "PROCESSING" => row[a].jobState \in {"QUEUED", "GPU_STARTING", "RUNNING"}

(* Every asset that is being processed is finished, failed or removed at   *)
(* last, through lost commands, lost callbacks, restarts and the shutdowns *)
(* of an idle instance, and however the others fare in the queue.          *)
ProcessingEnds ==
  \A a \in Assets : row[a].status = "PROCESSING" ~> row[a].status # "PROCESSING"

(* While no command is abandoned, no two work at a time: the loop's claim  *)
(* holds through lost callbacks, restarts at any other point and retries.  *)
OneJobWorks ==
  \A i, j \in DOMAIN jobs : jobs[i].state = "WORKING" /\ jobs[j].state = "WORKING" => i = j

(* The claim of the loop's header: jobs run one by one on the instance.    *)
OneCommandAtATime ==
  Cardinality({j \in DOMAIN jobs : jobs[j].state \in Running}) <= 1
=============================================================================
