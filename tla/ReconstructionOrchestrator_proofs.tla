----------------- MODULE ReconstructionOrchestrator_proofs ------------------
(***************************************************************************)
(* Proofs about ReconstructionOrchestrator, for any set of assets, bounds  *)
(* and admitted faults: at most one asset is active, and an asset that is  *)
(* being processed is always in somebody's hands.                          *)
(*                                                                         *)
(* The first needs to know what a tick may rely on while it is between two *)
(* of its steps: a tick that found nothing active is still right when it   *)
(* makes an asset active, and one that found an active asset still has the *)
(* only one, since nobody else makes assets active.                        *)
(*                                                                         *)
(* The second part is about the commands: no two work at a time unless one *)
(* was abandoned.                                                          *)
(***************************************************************************)
EXTENDS ReconstructionOrchestrator, FiniteSetTheorems, TLAPS

ActiveStates == {"GPU_STARTING", "RUNNING"}

Rows == [status : Statuses \cup {"ABSENT", "REMOVED"}, jobState : JobStates,
         command : Nat, attempts : Nat]
Edits == [kind : {"RETRY", "FILE"}, asset : Assets, read : Statuses]
Jobs == [asset : Assets, state : Running \cup Ended]
Points == {"WAITING", "QUEUE", "IDLE", "SECURE", "PROMOTE", "STARTING", "SEND", "SENT",
           "RUNNING", "REQUEUE", "FAIL"}
Ticks == [at : Points, asset : Assets \cup {0}, command : Nat, attempts : Nat]

(* The points at which the tick has no asset in hand, and those at which   *)
(* it has found none active.                                               *)
Unassigned == {"WAITING", "QUEUE", "IDLE"}
FoundNone == {"QUEUE", "IDLE", "SECURE", "PROMOTE"}

RowsTypeOK == row \in [Assets -> Rows]
OthersTypeOK ==
  /\ edits \in SUBSET Edits
  /\ jobs \in Seq(Jobs)
TickTypeOK ==
  /\ tick \in Ticks
  /\ tick.at \notin Unassigned => tick.asset \in Assets

TickHoldsActive ==
  /\ tick.at \in FoundNone => Active = {}
  /\ tick.at \notin FoundNone \cup {"WAITING"} => Active \subseteq {tick.asset}
  /\ \A a, b \in Active : a = b

ReconstructionInv ==
  RowsTypeOK /\ OthersTypeOK /\ TickTypeOK /\ ProcessingIsInHand /\ TickHoldsActive

(***************************************************************************)
(* Rows.                                                                   *)
(***************************************************************************)
InHand(r) == r.status = "PROCESSING" => r.jobState \in {"QUEUED"} \cup ActiveStates

(* What a step may do to the rows: keep them typed and in hand, and make   *)
(* no asset active but those of S.                                         *)
RowStep(S) == RowsTypeOK' /\ ProcessingIsInHand' /\ Active' \subseteq Active \cup S

(* Leaving the rows alone is such a step. *)
LEMMA RowsKept ==
  ASSUME RowsTypeOK, ProcessingIsInHand, UNCHANGED row, NEW S
  PROVE  RowStep(S)
  BY DEF RowStep, RowsTypeOK, ProcessingIsInHand, Active

(* So is writing a row that is in hand over another. *)
LEMMA OneRowWritten ==
  ASSUME RowsTypeOK, ProcessingIsInHand, NEW S,
         NEW a \in Assets, NEW new \in Rows, InHand(new),
         new.jobState \in ActiveStates => row[a].jobState \in ActiveStates \/ a \in S,
         row' = [row EXCEPT ![a] = new]
  PROVE  RowStep(S)
<1>1. RowsTypeOK'
  BY DEF RowsTypeOK
<1>2. \A b \in Assets : row'[b] = IF b = a THEN new ELSE row[b]
  BY DEF RowsTypeOK
<1>3. ProcessingIsInHand'
  BY <1>2 DEF ProcessingIsInHand, InHand, ActiveStates
<1>4. Active' \subseteq Active \cup S
  BY <1>2 DEF Active, ActiveStates
<1> QED
  BY <1>1, <1>3, <1>4 DEF RowStep

(* The same of the update by id, which does nothing when the row is gone. *)
LEMMA WriteStep ==
  ASSUME RowsTypeOK, ProcessingIsInHand, NEW S,
         NEW a \in Assets, NEW new \in Rows, InHand(new),
         new.jobState \in ActiveStates => row[a].jobState \in ActiveStates \/ a \in S,
         Write(a, new)
  PROVE  RowStep(S)
<1>1. CASE row' = row
  BY <1>1, RowsKept
<1>2. CASE row' = [row EXCEPT ![a] = new]
  BY <1>2, OneRowWritten
<1> QED
  BY <1>1, <1>2 DEF Write

(* The rows the writers make of a row: none is active but the tick's.      *)
LEMMA NewRowIsInHand ==
  /\ NewRow("PROCESSING", "QUEUED") \in Rows /\ InHand(NewRow("PROCESSING", "QUEUED"))
  /\ NewRow("UPLOADED", "NULL") \in Rows /\ InHand(NewRow("UPLOADED", "NULL"))
  /\ NewRow("REMOVED", "NULL") \in Rows /\ InHand(NewRow("REMOVED", "NULL"))
  /\ \A status, jobState : NewRow(status, jobState).jobState = jobState
  BY DEF NewRow, NoJob, Rows, Statuses, JobStates, InHand, ActiveStates

(* The rows the two callbacks make: their job is over, and so is the
   processing. *)
LEMMA CallbackRow ==
  ASSUME NEW r \in Rows
  PROVE  /\ Attached(r) \in Rows /\ InHand(Attached(r)) /\ Attached(r).jobState = "DONE"
         /\ MarkedFailed(r) \in Rows /\ InHand(MarkedFailed(r))
         /\ MarkedFailed(r).jobState = "FAILED"
  BY DEF Attached, MarkedFailed, Rows, Statuses, JobStates, InHand

(* A write of the status alone is in hand, since it ends the processing. *)
LEMMA StatusOnlyRow ==
  ASSUME NEW r \in Rows, NEW status \in Statuses \ {"PROCESSING"}
  PROVE  LET new == [r EXCEPT !.status = status]
         IN  new \in Rows /\ InHand(new) /\ new.jobState = r.jobState
  BY DEF Rows, InHand

(***************************************************************************)
(* The steps of owners and of commands, which leave the tick alone.        *)
(***************************************************************************)
(* Uploads, registrations, removals, retries and new files. *)
LEMMA OwnerStep ==
  ASSUME RowsTypeOK, OthersTypeOK, ProcessingIsInHand, Owner
  PROVE  RowStep({}) /\ edits' \in SUBSET Edits
<1>1. ASSUME NEW a \in Assets, Intake(a)
      PROVE  RowStep({}) /\ edits' \in SUBSET Edits
  <2>1. PICK new \in {NewRow("UPLOADED", "NULL"), NewRow("PROCESSING", "QUEUED")} :
          row' = [row EXCEPT ![a] = new]
    BY <1>1 DEF Intake
  <2>2. new \in Rows /\ InHand(new) /\ new.jobState \notin ActiveStates
    BY NewRowIsInHand DEF ActiveStates
  <2> QED
    BY <1>1, <2>1, <2>2, OneRowWritten DEF Intake, OthersTypeOK
<1>2. ASSUME NEW a \in Assets, Register(a)
      PROVE  RowStep({}) /\ edits' \in SUBSET Edits
  <2>1. row[a] \in Rows /\ "REGISTERED" \in Statuses \ {"PROCESSING"}
    BY DEF RowsTypeOK, Statuses
  <2>2. row' = [row EXCEPT ![a] = [row[a] EXCEPT !.status = "REGISTERED"]]
    BY <1>2 DEF Register
  <2> QED
    BY <1>2, <2>1, <2>2, StatusOnlyRow, OneRowWritten DEF Register, OthersTypeOK
<1>3. ASSUME NEW a \in Assets, Remove(a)
      PROVE  RowStep({}) /\ edits' \in SUBSET Edits
  BY <1>3, NewRowIsInHand, OneRowWritten DEF Remove, OthersTypeOK, ActiveStates
<1>4. ASSUME NEW a \in Assets, AskRetry(a) \/ AskNewFile(a)
      PROVE  RowStep({}) /\ edits' \in SUBSET Edits
  <2>1. UNCHANGED row
    BY <1>4 DEF AskRetry, AskNewFile
  <2>2. row[a].status \in Statuses
    BY <1>4 DEF AskRetry, AskNewFile, Request, Exists
  <2>3. edits' \in SUBSET Edits
    BY <1>4, <2>2 DEF AskRetry, AskNewFile, OthersTypeOK, Edits, Statuses
  <2> QED
    BY <2>1, <2>3, RowsKept
<1>5. ASSUME NEW e \in edits, RequeueReconstruction(e)
      PROVE  RowStep({}) /\ edits' \in SUBSET Edits
  <2>1. e.asset \in Assets /\ edits' \in SUBSET Edits
    BY <1>5 DEF OthersTypeOK, Edits, RequeueReconstruction, Answer
  <2> QED
    BY <1>5, <2>1, NewRowIsInHand, WriteStep DEF RequeueReconstruction, ActiveStates
<1>6. ASSUME NEW e \in edits, UpdateFile(e)
      PROVE  RowStep({}) /\ edits' \in SUBSET Edits
  <2>1. e.asset \in Assets /\ e.read \in Statuses /\ edits' \in SUBSET Edits
    BY <1>6 DEF OthersTypeOK, Edits, UpdateFile, Answer
  <2>2. row[e.asset] \in Rows
    BY <2>1 DEF RowsTypeOK
  <2>3. StatusWithNewFile(e.read) \in Statuses \ {"PROCESSING"}
    BY <2>1 DEF StatusWithNewFile, Statuses
  <2> QED
    BY <1>6, <2>1, <2>2, <2>3, StatusOnlyRow, WriteStep DEF UpdateFile
<1> QED
  BY <1>1, <1>2, <1>3, <1>4, <1>5, <1>6 DEF Owner

(* A command changes its state. *)
LEMMA JobsTyped ==
  ASSUME jobs \in Seq(Jobs), NEW j \in DOMAIN jobs, NEW state \in Running \cup Ended,
         jobs' = [jobs EXCEPT ![j].state = state]
  PROVE  jobs' \in Seq(Jobs)
<1>1. jobs[j] \in Jobs
  OBVIOUS
<1>2. [jobs[j] EXCEPT !.state = state] \in Jobs
  BY <1>1 DEF Jobs
<1> QED
  BY <1>2

(* What the API does when a command calls back. *)
LEMMA CallbackStep ==
  ASSUME RowsTypeOK, ProcessingIsInHand, NEW a \in Assets,
         AttachReconstructedFile(a) \/ MarkReconstructionFailed(a)
  PROVE  RowStep({})
<1>1. row[a] \in Rows
  BY DEF RowsTypeOK
<1>2. CASE AttachReconstructedFile(a)
  BY <1>1, <1>2, CallbackRow, WriteStep DEF AttachReconstructedFile, ActiveStates
<1>3. CASE MarkReconstructionFailed(a)
  BY <1>1, <1>3, CallbackRow, WriteStep DEF MarkReconstructionFailed, ActiveStates
<1> QED
  BY <1>2, <1>3

(* The instance and its commands. *)
LEMMA GpuStep ==
  ASSUME RowsTypeOK, OthersTypeOK, ProcessingIsInHand, Gpu
  PROVE  RowStep({}) /\ OthersTypeOK'
<1>1. ASSUME NEW j \in DOMAIN jobs, JobEnds(j) \/ LoseCompletion(j)
      PROVE  RowStep({}) /\ OthersTypeOK'
  <2>1. PICK state \in Running \cup Ended : jobs' = [jobs EXCEPT ![j].state = state]
    BY <1>1 DEF JobEnds, FailToReconstruct, Complete, LoseCompletion, ReportFailure,
                LoseFailure, JobStep, Running, Ended
  <2>2. OthersTypeOK'
    <3>1. edits' = edits
      BY <1>1 DEF JobEnds, FailToReconstruct, Complete, LoseCompletion, ReportFailure,
                  LoseFailure, JobStep
    <3> QED
      BY <2>1, <3>1, JobsTyped DEF OthersTypeOK
  <2>3. jobs[j].asset \in Assets
    <3>1. jobs[j] \in Jobs
      BY DEF OthersTypeOK
    <3> QED
      BY <3>1 DEF Jobs
  <2>4. \/ UNCHANGED row
        \/ AttachReconstructedFile(jobs[j].asset)
        \/ MarkReconstructionFailed(jobs[j].asset)
    BY <1>1 DEF JobEnds, FailToReconstruct, Complete, LoseCompletion, ReportFailure,
                LoseFailure
  <2> QED
    BY <2>2, <2>3, <2>4, CallbackStep, RowsKept
<1>2. CASE Boot \/ Halt
  BY <1>2, RowsKept DEF Boot, Halt, assetVars, OthersTypeOK
<1> QED
  BY <1>1, <1>2 DEF Gpu

(***************************************************************************)
(* The steps of the tick.                                                  *)
(***************************************************************************)
(* A tick that goes on from one point to another with the asset it has.    *)
LEMMA GotoType ==
  ASSUME TickTypeOK, NEW point \in Points, Goto(point),
         point \notin Unassigned => tick.at \notin Unassigned
  PROVE  TickTypeOK' /\ tick'.at = point /\ tick'.asset = tick.asset
  BY DEF TickTypeOK, Goto, Ticks

(* A tick that takes an asset, and what it reads of its row. *)
LEMMA TakeType ==
  ASSUME RowsTypeOK, NEW a \in Assets, NEW point \in Points, Take(a, point)
  PROVE  TickTypeOK' /\ tick'.at = point /\ tick'.asset = a
<1>1. row[a] \in Rows
  BY DEF RowsTypeOK
<1> QED
  BY <1>1 DEF Take, TickTypeOK, Ticks, Rows

(* A tick that ends. *)
LEMMA EndType ==
  ASSUME EndTick
  PROVE  TickTypeOK' /\ tick'.at = "WAITING"
  BY DEF EndTick, Waiting, TickTypeOK, Ticks, Points, Unassigned, NoJob

(* What the tick may rely on survives every step that makes nothing active *)
(* and does not move the tick, or ends it.                                 *)
LEMMA HoldsWhenShrinking ==
  ASSUME TickHoldsActive, RowStep({}),
         UNCHANGED tick \/ tick'.at = "WAITING"
  PROVE  TickHoldsActive'
  BY DEF TickHoldsActive, RowStep, FoundNone

(* The point a tick goes on to relies on nothing new.                      *)
LEMMA HoldsWhenGoingOn ==
  ASSUME TickHoldsActive, RowStep({}), tick.at # "WAITING",
         tick'.asset = tick.asset,
         tick'.at \in FoundNone <=> tick.at \in FoundNone
  PROVE  TickHoldsActive'
  BY DEF TickHoldsActive, RowStep, FoundNone

(* The tick's own write ends it, and makes at most its asset active.       *)
LEMMA HoldsWhenWriting ==
  ASSUME TickHoldsActive, RowStep({tick.asset}),
         tick.at # "WAITING", tick'.at = "WAITING"
  PROVE  TickHoldsActive'
<1>1. Active \subseteq {tick.asset}
  BY DEF TickHoldsActive
<1>2. Active' \subseteq {tick.asset}
  BY <1>1 DEF RowStep
<1> QED
  BY <1>2 DEF TickHoldsActive, FoundNone

(* What every step of the tick gives of the next state.                    *)
Kept == RowsTypeOK' /\ ProcessingIsInHand' /\ OthersTypeOK' /\ TickTypeOK' /\ TickHoldsActive'

(* A step that leaves the rows alone and ends the tick.                    *)
LEMMA EndsQuietly ==
  ASSUME ReconstructionInv, UNCHANGED row, OthersTypeOK', EndTick
  PROVE  Kept
<1>1. RowStep({})
  BY RowsKept DEF ReconstructionInv
<1> QED
  BY <1>1, EndType, HoldsWhenShrinking DEF Kept, RowStep, ReconstructionInv

(* One that leaves the rows alone and goes on to a point where the tick    *)
(* relies on nothing new.                                                  *)
LEMMA GoesOnQuietly ==
  ASSUME ReconstructionInv, UNCHANGED row, OthersTypeOK',
         NEW point \in Points, Goto(point), tick.at # "WAITING",
         point \notin Unassigned => tick.at \notin Unassigned,
         point \in FoundNone <=> tick.at \in FoundNone
  PROVE  Kept
<1>1. RowStep({})
  BY RowsKept DEF ReconstructionInv
<1>2. TickTypeOK' /\ tick'.at = point /\ tick'.asset = tick.asset
  BY GotoType DEF ReconstructionInv
<1> QED
  BY <1>1, <1>2, HoldsWhenGoingOn DEF Kept, RowStep, ReconstructionInv

(* The tick begins: it takes the active asset, or knows there is none. *)
LEMMA StartTickStep ==
  ASSUME ReconstructionInv, StartTick
  PROVE  Kept
<1>1. UNCHANGED <<row, edits, jobs>>
  BY DEF StartTick, BeginTick, assetVars, jobVars
<1>2. RowStep({}) /\ OthersTypeOK' /\ Active' = Active
  BY <1>1, RowsKept DEF ReconstructionInv, OthersTypeOK, Active
<1>3. ASSUME NEW a \in Active,
             Take(a, IF row[a].jobState = "RUNNING" THEN "RUNNING" ELSE "STARTING")
      PROVE  TickTypeOK' /\ TickHoldsActive'
  <2>1. PICK point \in {"RUNNING", "STARTING"} : Take(a, point)
    BY <1>3
  <2>2. a \in Assets /\ point \in Points
    BY DEF Active, Points
  <2>3. TickTypeOK' /\ tick'.at = point /\ tick'.asset = a
    BY <2>1, <2>2, TakeType DEF ReconstructionInv
  <2>4. Active \subseteq {a}
    BY DEF ReconstructionInv, TickHoldsActive
  <2> QED
    BY <1>2, <2>3, <2>4 DEF ReconstructionInv, TickHoldsActive, FoundNone
<1>4. ASSUME Active = {}, Goto("QUEUE")
      PROVE  TickTypeOK' /\ TickHoldsActive'
  <2>1. TickTypeOK' /\ tick'.at = "QUEUE"
    BY <1>4, GotoType DEF ReconstructionInv, Points, Unassigned
  <2> QED
    BY <1>2, <1>4, <2>1 DEF TickHoldsActive, FoundNone
<1>5. TickTypeOK' /\ TickHoldsActive'
  BY <1>3, <1>4 DEF StartTick, BeginTick
<1> QED
  BY <1>2, <1>5 DEF Kept, RowStep

(* It takes the oldest queued asset while nothing is active. *)
LEMMA ReadQueueStep ==
  ASSUME ReconstructionInv, ReadQueue
  PROVE  Kept
<1>1. UNCHANGED <<row, edits, jobs>> /\ tick.at = "QUEUE"
  BY DEF ReadQueue, assetVars, jobVars, At
<1>2. RowStep({}) /\ OthersTypeOK' /\ Active' = {}
  BY <1>1, RowsKept DEF ReconstructionInv, OthersTypeOK, Active, TickHoldsActive, FoundNone
<1>3. CASE Goto("IDLE")
  BY <1>1, <1>2, <1>3, GoesOnQuietly DEF Points, Unassigned, FoundNone
<1>4. ASSUME NEW a \in Oldest(Queued), Take(a, "SECURE")
      PROVE  Kept
  <2>1. a \in Assets /\ "SECURE" \in Points
    BY DEF Oldest, Queued, Points
  <2>2. TickTypeOK' /\ tick'.at = "SECURE"
    BY <1>4, <2>1, TakeType DEF ReconstructionInv
  <2>3. TickHoldsActive'
    BY <1>2, <2>2 DEF TickHoldsActive, FoundNone
  <2> QED
    BY <1>2, <2>2, <2>3 DEF Kept, RowStep
<1> QED
  BY <1>3, <1>4 DEF ReadQueue

(* The commands of an instance that is stopped. *)
LEMMA StopInstanceType ==
  ASSUME jobs \in Seq(Jobs), StopInstance
  PROVE  jobs' \in Seq(Jobs)
<1> DEFINE Stopped(j) == IF jobs[j].state \in Running
                         THEN [jobs[j] EXCEPT !.state = "FAILED"] ELSE jobs[j]
<1>1. \A j \in DOMAIN jobs : Stopped(j) \in Jobs
  <2>1. TAKE j \in DOMAIN jobs
  <2>2. jobs[j] \in Jobs
    OBVIOUS
  <2> QED
    BY <2>2 DEF Jobs, Ended
<1>2. jobs' = [j \in 1..Len(jobs) |-> Stopped(j)]
  BY DEF StopInstance
<1> HIDE DEF Stopped
<1> QED
  BY <1>1, <1>2

(* A command number that a row holds may be cancelled whatever it is. *)
LEMMA CancelCommandType ==
  ASSUME jobs \in Seq(Jobs), NEW j \in Nat, CancelCommand(j)
  PROVE  jobs' \in Seq(Jobs)
<1>1. CASE UNCHANGED jobs
  BY <1>1
<1>2. ASSUME NEW end \in {"CANCELLED", "FAILING"}, jobs' = [jobs EXCEPT ![j].state = end]
      PROVE  jobs' \in Seq(Jobs)
  <2>1. CASE j \in DOMAIN jobs
    BY <1>2, <2>1, JobsTyped DEF Running, Ended
  <2>2. CASE j \notin DOMAIN jobs
    <3>1. DOMAIN jobs' = 1..Len(jobs) /\ \A i \in DOMAIN jobs : jobs'[i] = jobs[i]
      BY <1>2, <2>2
    <3>2. jobs' = [i \in 1..Len(jobs) |-> jobs'[i]]
      BY <1>2, <3>1
    <3> QED
      BY <3>1, <3>2
  <2> QED
    BY <2>1, <2>2
<1> QED
  BY <1>1, <1>2 DEF CancelCommand

(* The steps of a tick that write nothing and end it.                      *)
LEMMA EndingStep ==
  ASSUME ReconstructionInv,
         \/ MaybeIdleStop
         \/ LackCapacity
         \/ FindInstance /\ EndTick
         \/ FindOffline
         \/ FindRunning
         \/ FindSuccess
         \/ FailTick
         \/ Crash
  PROVE  Kept
<1>1. UNCHANGED row /\ EndTick
  BY DEF MaybeIdleStop, LackCapacity, FindInstance, FindOffline, FindRunning, FindSuccess,
         Find, FailTick, Crash, assetVars
<1>2. jobs' \in Seq(Jobs)
  <2>1. CASE UNCHANGED jobs
    BY <2>1 DEF ReconstructionInv, OthersTypeOK
  <2>2. CASE StopInstance
    BY <2>2, StopInstanceType DEF ReconstructionInv, OthersTypeOK
  <2> QED
    BY <2>1, <2>2 DEF MaybeIdleStop, LackCapacity, FindInstance, FindOffline, FindRunning,
                      FindSuccess, Find, FailTick, Crash, jobVars
<1>3. edits' \in SUBSET Edits
  BY DEF MaybeIdleStop, LackCapacity, FindInstance, FindOffline, FindRunning, FindSuccess,
         Find, FailTick, Crash, assetVars, ReconstructionInv, OthersTypeOK
<1> QED
  BY <1>1, <1>2, <1>3, EndsQuietly DEF OthersTypeOK

(* The steps of a tick that write nothing and go on.                       *)
LEMMA GoingOnStep ==
  ASSUME ReconstructionInv,
         \/ StartInstance
         \/ FindInstance /\ Goto("PROMOTE")
         \/ StartingTimesOut
         \/ FindOnline
         \/ RunningTimesOut
         \/ LoseCommand
         \/ GraceIsOver
         \/ FindFailure
  PROVE  Kept
<1>1. UNCHANGED <<row, edits>>
  BY DEF StartInstance, FindInstance, StartingTimesOut, FindOnline, RunningTimesOut,
         LoseCommand, GraceIsOver, FindFailure, Find, assetVars
<1>2. jobs' \in Seq(Jobs)
  <2>1. CASE UNCHANGED jobs
    BY <2>1 DEF ReconstructionInv, OthersTypeOK
  <2>2. CASE CancelCommand(tick.command)
    <3>1. tick.command \in Nat
      BY DEF ReconstructionInv, TickTypeOK, Ticks
    <3> QED
      BY <2>2, <3>1, CancelCommandType DEF ReconstructionInv, OthersTypeOK
  <2> QED
    BY <2>1, <2>2 DEF StartInstance, FindInstance, StartingTimesOut, FindOnline,
                      RunningTimesOut, LoseCommand, GraceIsOver, FindFailure, Find, jobVars
<1>3. OthersTypeOK'
  BY <1>1, <1>2 DEF ReconstructionInv, OthersTypeOK
<1>4. CASE tick.at = "SECURE" /\ Goto("PROMOTE")
  BY <1>1, <1>3, <1>4, GoesOnQuietly DEF Points, Unassigned, FoundNone
<1>5. ASSUME tick.at \in {"STARTING", "RUNNING"},
             NEW point \in {"SEND", "REQUEUE", "FAIL"}, Goto(point)
      PROVE  Kept
  <2>1. point \in Points /\ point \notin FoundNone
    BY DEF Points, FoundNone
  <2>2. tick.at \notin Unassigned /\ tick.at \notin FoundNone /\ tick.at # "WAITING"
    BY <1>5 DEF Unassigned, FoundNone
  <2> QED
    BY <1>1, <1>3, <1>5, <2>1, <2>2, GoesOnQuietly
<1> QED
  BY <1>4, <1>5 DEF StartInstance, FindInstance, StartingTimesOut, FindOnline,
                    RunningTimesOut, LoseCommand, GraceIsOver, FindFailure, Find, At

(* A command is sent: the tick takes its number.                           *)
LEMMA DispatchStep ==
  ASSUME ReconstructionInv, Dispatch
  PROVE  Kept
<1>1. tick.at = "SEND" /\ tick \in Ticks /\ tick.asset \in Assets
  BY DEF Dispatch, At, ReconstructionInv, TickTypeOK, Unassigned
<1>2. [asset |-> tick.asset, state |-> "WORKING"] \in Jobs
  BY <1>1 DEF Jobs, Running
<1>3. jobs' \in Seq(Jobs) /\ Len(jobs') \in Nat
  BY <1>2 DEF Dispatch, SendJobCommand, ReconstructionInv, OthersTypeOK
<1>4. TickTypeOK' /\ tick'.at = "SENT" /\ tick'.asset = tick.asset
  BY <1>1, <1>3 DEF Dispatch, TickTypeOK, Ticks, Points, Unassigned
<1>5. RowStep({}) /\ OthersTypeOK'
  BY <1>3, RowsKept DEF Dispatch, assetVars, ReconstructionInv, OthersTypeOK
<1>6. TickHoldsActive'
  BY <1>1, <1>4, <1>5, HoldsWhenGoingOn DEF ReconstructionInv, FoundNone
<1> QED
  BY <1>4, <1>5, <1>6 DEF Kept, RowStep

(* The tick's own writes: whatever the row has become since it was read,   *)
(* the new one is in hand, and no other row is touched.                    *)
LEMMA WriteBackStep ==
  ASSUME ReconstructionInv, Promote \/ RecordDispatch \/ Requeue \/ FailJob
  PROVE  Kept
<1> DEFINE S == {tick.asset}
<1>1. tick.at \in {"PROMOTE", "SENT", "REQUEUE", "FAIL"}
  BY DEF Promote, RecordDispatch, Requeue, FailJob, WriteBack, At
<1>2. tick.asset \in Assets /\ tick.command \in Nat
  BY <1>1 DEF ReconstructionInv, TickTypeOK, Ticks, Unassigned
<1>3. Row \in Rows
  BY <1>2 DEF Row, ReconstructionInv, RowsTypeOK
<1>4. PICK new \in {Promoted(Row), Dispatched(Row), Requeued(Row), MarkedFailed(Row)} :
        Write(tick.asset, new)
  BY DEF Promote, RecordDispatch, Requeue, FailJob, WriteBack
<1>5. new \in Rows /\ InHand(new)
  <2>1. Promoted(Row) \in Rows /\ InHand(Promoted(Row))
    BY <1>3 DEF Promoted, Rows, JobStates, InHand, ActiveStates
  <2>2. Dispatched(Row) \in Rows /\ InHand(Dispatched(Row))
    <3>1. Row.attempts + 1 \in Nat
      BY <1>3 DEF Rows
    <3> QED
      BY <1>2, <1>3, <3>1 DEF Dispatched, Rows, JobStates, InHand, ActiveStates
  <2>3. Requeued(Row) \in Rows /\ InHand(Requeued(Row))
    BY <1>3 DEF Requeued, Rows, JobStates, InHand, NoJob
  <2>4. MarkedFailed(Row) \in Rows /\ InHand(MarkedFailed(Row))
    BY <1>3, CallbackRow
  <2> QED
    BY <2>1, <2>2, <2>3, <2>4
<1>6. RowStep(S)
  BY <1>2, <1>4, <1>5, WriteStep DEF ReconstructionInv
<1>7. EndTick /\ UNCHANGED <<edits, jobs>>
  BY DEF Promote, RecordDispatch, Requeue, FailJob, WriteBack, jobVars
<1>8. TickTypeOK' /\ tick'.at = "WAITING"
  BY <1>7, EndType
<1>9. TickHoldsActive'
  BY <1>1, <1>6, <1>8, HoldsWhenWriting DEF ReconstructionInv
<1> QED
  BY <1>6, <1>7, <1>8, <1>9 DEF Kept, RowStep, ReconstructionInv, OthersTypeOK

(* What others do leaves the tick what it relies on.                       *)
LEMMA OthersStep ==
  ASSUME ReconstructionInv,
         \/ Owner /\ UNCHANGED <<jobVars, tick, memory>>
         \/ Gpu /\ UNCHANGED <<tick, memory>>
         \/ EndBackoff
         \/ UNCHANGED reconVars
  PROVE  Kept
<1>1. UNCHANGED tick
  BY DEF EndBackoff, reconVars
<1>2. RowStep({}) /\ OthersTypeOK'
  <2>1. CASE Owner /\ UNCHANGED <<jobVars, tick, memory>>
    BY <2>1, OwnerStep DEF ReconstructionInv, OthersTypeOK, jobVars
  <2>2. CASE Gpu
    BY <2>2, GpuStep DEF ReconstructionInv
  <2>3. CASE UNCHANGED <<row, edits, jobs>>
    BY <2>3, RowsKept DEF ReconstructionInv, OthersTypeOK
  <2> QED
    BY <2>1, <2>2, <2>3 DEF EndBackoff, reconVars, assetVars, jobVars
<1>3. TickHoldsActive'
  BY <1>1, <1>2, HoldsWhenShrinking DEF ReconstructionInv
<1> QED
  BY <1>1, <1>2, <1>3 DEF Kept, RowStep, ReconstructionInv, TickTypeOK

(***************************************************************************)
(* The theorems.                                                           *)
(***************************************************************************)
(* The rows, the commands and the tick keep their types, and the tick      *)
(* keeps what it relies on.                                                *)
THEOREM ReconstructionInvHolds == ReconstructionSpec => []ReconstructionInv
<1>1. ReconstructionInit => ReconstructionInv
  <2> SUFFICES ASSUME ReconstructionInit PROVE ReconstructionInv
    OBVIOUS
  <2>1. NewRow("ABSENT", "NULL") \in Rows
    BY DEF NewRow, Rows, JobStates, NoJob
  <2>2. RowsTypeOK /\ \A a \in Assets : row[a] = NewRow("ABSENT", "NULL")
    BY <2>1 DEF ReconstructionInit, AssetInit, RowsTypeOK
  <2>3. ProcessingIsInHand /\ Active = {}
    BY <2>2 DEF ProcessingIsInHand, Active, NewRow
  <2>4. OthersTypeOK
    BY DEF ReconstructionInit, AssetInit, JobInit, OthersTypeOK
  <2>5. tick \in Ticks /\ tick.at = "WAITING"
    BY DEF ReconstructionInit, Waiting, Ticks, Points, NoJob
  <2> QED
    BY <2>2, <2>3, <2>4, <2>5
    DEF ReconstructionInv, TickTypeOK, TickHoldsActive, Unassigned, FoundNone
<1>2. ReconstructionInv /\ [ReconstructionNext]_reconVars => ReconstructionInv'
  <2> SUFFICES ASSUME ReconstructionInv, [ReconstructionNext]_reconVars
               PROVE  ReconstructionInv'
    OBVIOUS
  <2>1. CASE \/ Owner /\ UNCHANGED <<jobVars, tick, memory>>
             \/ Gpu /\ UNCHANGED <<tick, memory>>
             \/ EndBackoff
             \/ UNCHANGED reconVars
    BY <2>1, OthersStep DEF Kept, ReconstructionInv
  <2>2. CASE StartTick
    BY <2>2, StartTickStep DEF Kept, ReconstructionInv
  <2>3. CASE ReadQueue
    BY <2>3, ReadQueueStep DEF Kept, ReconstructionInv
  <2>4. CASE MaybeIdleStop \/ LackCapacity \/ FindOffline \/ FindRunning \/ FindSuccess
             \/ FailTick \/ Crash
    BY <2>4, EndingStep DEF Kept, ReconstructionInv
  <2>5. CASE StartInstance \/ StartingTimesOut \/ FindOnline \/ RunningTimesOut
             \/ LoseCommand \/ GraceIsOver \/ FindFailure
    BY <2>5, GoingOnStep DEF Kept, ReconstructionInv
  <2>6. CASE FindInstance
    <3>1. EndTick \/ Goto("PROMOTE")
      BY <2>6 DEF FindInstance
    <3> QED
      BY <2>6, <3>1, EndingStep, GoingOnStep DEF Kept, ReconstructionInv
  <2>7. CASE Dispatch
    BY <2>7, DispatchStep DEF Kept, ReconstructionInv
  <2>8. CASE Promote \/ RecordDispatch \/ Requeue \/ FailJob
    BY <2>8, WriteBackStep DEF Kept, ReconstructionInv
  <2> QED
    BY <2>1, <2>2, <2>3, <2>4, <2>5, <2>6, <2>7, <2>8 DEF ReconstructionNext, Handle
<1> QED
  BY <1>1, <1>2, PTL DEF ReconstructionSpec

(* None of the writers - the loop, which writes back what it decided on a  *)
(* row read steps ago, the two callbacks, the owner's retry and the new    *)
(* file whose status was computed before an await - leaves an asset shown  *)
(* as being processed with a job that is over.                             *)
THEOREM ProcessingStaysInHand == ReconstructionSpec => []ProcessingIsInHand
<1>1. ReconstructionInv => ProcessingIsInHand
  BY DEF ReconstructionInv
<1> QED
  BY <1>1, ReconstructionInvHolds, PTL

(* At most one asset is being started or run, through restarts of the API  *)
(* and ticks that fail in the middle.                                      *)
THEOREM AtMostOneActive == ReconstructionSpec => []OneActiveAsset
<1>1. ReconstructionInv => OneActiveAsset
  <2> SUFFICES ASSUME ReconstructionInv PROVE OneActiveAsset
    OBVIOUS
  <2>1. CASE Active = {}
    BY <2>1, FS_EmptySet DEF OneActiveAsset
  <2>2. CASE Active # {}
    <3>1. PICK a \in Active : Active = {a}
      BY <2>2 DEF ReconstructionInv, TickHoldsActive
    <3>2. Cardinality({a}) = 1
      BY FS_Singleton
    <3> QED
      BY <3>1, <3>2 DEF OneActiveAsset
  <2> QED
    BY <2>1, <2>2
<1> QED
  BY <1>1, ReconstructionInvHolds, PTL
(***************************************************************************)
(* One job works at a time while no command is abandoned. A command that   *)
(* runs is the one its asset's row names, or the one the tick has just     *)
(* sent; while it works, the row is RUNNING, so that no other is sent. The *)
(* invariant says so, and what that gives a tick between two of its steps. *)
(***************************************************************************)
Runs(j) == j \in DOMAIN jobs /\ jobs[j].state \in Running
Works(j) == j \in DOMAIN jobs /\ jobs[j].state = "WORKING"
RunsFor(a) == {j \in DOMAIN jobs : jobs[j].state \in Running /\ jobs[j].asset = a}

JustSent(j) == tick.at = "SENT" /\ tick.command = j /\ tick.asset = jobs[j].asset

(* An asset that is not there has no job. *)
GoneIsIdle(a) == row[a].status \in {"ABSENT", "REMOVED"} => row[a].jobState = "NULL"

(* A command that runs is known; one that works is waited for.             *)
Known(j) ==
  LET r == row[jobs[j].asset] IN
  \/ JustSent(j)
  \/ r.command = j /\ r.jobState \in {"RUNNING", "DONE", "FAILED"}
  \/ r.status = "REMOVED"
Attended(j) ==
  LET r == row[jobs[j].asset] IN
  \/ JustSent(j) /\ r.jobState = "GPU_STARTING"
  \/ r.command = j /\ r.jobState = "RUNNING"

(* What the tick may rely on. *)
AssetIsThere == tick.at \notin Unassigned => row[tick.asset].status # "ABSENT"
StillStarting == tick.at \in {"STARTING", "SEND"} => row[tick.asset].jobState = "GPU_STARTING"
NotYetRunning == tick.at = "SENT" => row[tick.asset].jobState # "RUNNING"
OnlyItsCommand == tick.at \in {"SENT", "RUNNING"} => RunsFor(tick.asset) \subseteq {tick.command}
NoCommand == tick.at \in {"SECURE", "PROMOTE", "REQUEUE"} => RunsFor(tick.asset) = {}
NoneWorks == tick.at = "FAIL" => \A j \in RunsFor(tick.asset) : ~ Works(j)

TickKnows ==
  AssetIsThere /\ StillStarting /\ NotYetRunning /\ OnlyItsCommand /\ NoCommand /\ NoneWorks

CommandsInv ==
  /\ \A a \in Assets : GoneIsIdle(a)
  /\ \A j \in DOMAIN jobs : Runs(j) => Known(j)
  /\ \A j \in DOMAIN jobs : Works(j) => Attended(j)

AttendedInv == ReconstructionInv /\ CommandsInv /\ TickKnows /\ faults \in Nat

(* No command is begun, and none that stopped working works again.         *)
NoneBegins ==
  /\ DOMAIN jobs' = DOMAIN jobs
  /\ \A j \in DOMAIN jobs :
       /\ jobs'[j].asset = jobs[j].asset
       /\ jobs'[j].state \in Running => jobs[j].state \in Running
       /\ jobs'[j].state = "WORKING" => jobs[j].state = "WORKING"

LEMMA FewerRun ==
  ASSUME NoneBegins
  PROVE  /\ \A j : Runs(j)' => Runs(j)
         /\ \A j : Works(j)' => Works(j)
         /\ \A a : RunsFor(a)' \subseteq RunsFor(a)
  BY DEF NoneBegins, Runs, Works, RunsFor

LEMMA WorksIsRuns ==
  \A j : Works(j) => Runs(j)
  BY DEF Works, Runs, Running

LEMMA JobsAsset ==
  ASSUME OthersTypeOK, NEW j \in DOMAIN jobs
  PROVE  jobs[j].asset \in Assets
<1>1. jobs[j] \in Jobs
  BY DEF OthersTypeOK
<1> QED
  BY <1>1 DEF Jobs

(* Two commands that run for an asset that was not removed are the same.   *)
LEMMA OneRunsFor ==
  ASSUME CommandsInv, TickKnows, NEW a \in Assets, row[a].status # "REMOVED",
         NEW i \in RunsFor(a), NEW j \in RunsFor(a)
  PROVE  i = j
<1>1. Known(i) /\ Known(j) /\ jobs[i].asset = a /\ jobs[j].asset = a
  BY DEF CommandsInv, Runs, RunsFor
<1>2. CASE tick.at = "SENT" /\ tick.asset = a
  BY <1>2 DEF TickKnows, OnlyItsCommand
<1>3. CASE ~ (tick.at = "SENT" /\ tick.asset = a)
  BY <1>1, <1>3 DEF Known, JustSent
<1> QED
  BY <1>2, <1>3

(* What another step than the tick's may do to the row of an asset.        *)
Restyled(a) ==
  /\ row'[a].jobState = row[a].jobState /\ row'[a].command = row[a].command
  /\ row'[a].status = row[a].status \/ {row'[a].status, row[a].status} \subseteq Statuses
Created(a) ==
  /\ row[a].status = "ABSENT" /\ row'[a].status \in Statuses
Discarded(a) ==
  /\ row[a].status # "ABSENT" /\ a \notin Active
  /\ row'[a].status = "REMOVED" /\ row'[a].jobState = "NULL"
PutBack(a) ==
  /\ row[a].status \in Statuses /\ a \notin Active /\ RunsFor(a) = {}
  /\ row'[a].status \in Statuses /\ row'[a].jobState = "QUEUED"
CalledBack(a) ==
  /\ row[a].status \in Statuses /\ row'[a].status \in Statuses
  /\ row'[a].jobState \in {"DONE", "FAILED"} /\ row'[a].command = row[a].command
  /\ \E j \in RunsFor(a) : ~ Works(j)'

RowsMove ==
  \A a \in Assets : Restyled(a) \/ Created(a) \/ Discarded(a) \/ PutBack(a) \/ CalledBack(a)

(* Such a step keeps the invariant.                                        *)
LEMMA RowsMoveKept ==
  ASSUME AttendedInv, NoneBegins, RowsMove, UNCHANGED tick
  PROVE  CommandsInv' /\ TickKnows'
<1>1. /\ \A j : Runs(j)' => Runs(j)
      /\ \A j : Works(j)' => Works(j)
      /\ \A a : RunsFor(a)' \subseteq RunsFor(a)
  BY FewerRun
<1>2. ASSUME NEW a \in Assets, RunsFor(a) # {}
      PROVE  row[a].status # "ABSENT" \/ (tick.at = "SENT" /\ tick.asset = a)
  BY <1>2 DEF AttendedInv, CommandsInv, GoneIsIdle, RunsFor, Runs, Known, JustSent
<1>3. ASSUME NEW a \in Assets, RunsFor(a) # {} PROVE row[a].status # "ABSENT"
  BY <1>2, <1>3 DEF AttendedInv, TickKnows, AssetIsThere, Unassigned
<1>4. ASSUME NEW a \in Assets PROVE GoneIsIdle(a)'
  BY DEF AttendedInv, CommandsInv, GoneIsIdle, RowsMove, Restyled, Created, Discarded, PutBack,
         CalledBack, Statuses
<1>5. ASSUME NEW j \in DOMAIN jobs PROVE jobs[j].asset \in Assets /\ jobs'[j].asset = jobs[j].asset
  BY JobsAsset DEF AttendedInv, ReconstructionInv, NoneBegins
<1>6. ASSUME NEW j \in DOMAIN jobs, Runs(j)' PROVE Known(j)'
  <2> DEFINE a == jobs[j].asset
  <2>1. a \in Assets /\ Known(j) /\ j \in RunsFor(a) /\ jobs'[j].asset = a
    BY <1>1, <1>5, <1>6 DEF AttendedInv, CommandsInv, RunsFor, Runs
  <2>2. CASE JustSent(j)
    BY <2>1, <2>2 DEF Known, JustSent
  <2>3. CASE row[a].status = "REMOVED"
    <3>1. row'[a].status = "REMOVED"
      BY <2>1, <2>3 DEF RowsMove, Restyled, Created, Discarded, PutBack, CalledBack, Statuses
    <3> QED
      BY <2>1, <3>1 DEF Known
  <2>4. CASE row[a].command = j /\ row[a].jobState \in {"RUNNING", "DONE", "FAILED"}
    <3>1. ~ Created(a) /\ ~ PutBack(a)
      BY <1>3, <2>1 DEF Created, PutBack
    <3>2. CASE Discarded(a)
      BY <2>1, <3>2 DEF Discarded, Known
    <3>3. CASE Restyled(a) \/ CalledBack(a)
      BY <2>1, <2>4, <3>3 DEF Restyled, CalledBack, Known
    <3> QED
      BY <2>1, <3>1, <3>2, <3>3 DEF RowsMove
  <2> QED
    BY <2>1, <2>2, <2>3, <2>4 DEF Known
<1>7. ASSUME NEW j \in DOMAIN jobs, Works(j)' PROVE Attended(j)'
  <2> DEFINE a == jobs[j].asset
  <2>1. /\ a \in Assets /\ Attended(j) /\ j \in RunsFor(a) /\ jobs'[j].asset = a
        /\ Works(j)
    BY <1>1, <1>5, <1>7, WorksIsRuns DEF AttendedInv, CommandsInv, RunsFor, Runs
  <2>2. row[a].jobState \in {"GPU_STARTING", "RUNNING"} /\ a \in Active
    BY <2>1 DEF Attended, Active
  <2>3. row[a].status \notin {"ABSENT", "REMOVED"}
    BY <2>1, <2>2 DEF AttendedInv, CommandsInv, GoneIsIdle
  <2>4. ~ CalledBack(a)
    BY <1>7, <2>1, <2>3, OneRunsFor DEF CalledBack, AttendedInv
  <2>5. Restyled(a)
    BY <2>1, <2>2, <2>3, <2>4 DEF RowsMove, Created, Discarded, PutBack
  <2> QED
    BY <2>1, <2>5 DEF Attended, JustSent, Restyled
<1>8. CommandsInv'
  BY <1>4, <1>6, <1>7 DEF CommandsInv, NoneBegins
<1>9. CASE tick.at \in Unassigned
  BY <1>8, <1>9 DEF TickKnows, AssetIsThere, StillStarting, NotYetRunning, OnlyItsCommand, NoCommand,
              NoneWorks, Unassigned
<1>10. CASE tick.at \notin Unassigned
  <2> DEFINE a == tick.asset
  <2>1. a \in Assets /\ row[a].status # "ABSENT"
    BY <1>10 DEF AttendedInv, ReconstructionInv, TickTypeOK, TickKnows, AssetIsThere
  <2>2. AssetIsThere'
    BY <2>1 DEF AssetIsThere, RowsMove, Restyled, Created, Discarded, PutBack, CalledBack, Statuses
  <2>3. ASSUME tick.at \in {"STARTING", "SEND"} PROVE row'[a].jobState = "GPU_STARTING"
    <3>1. row[a].jobState = "GPU_STARTING" /\ a \in Active
      BY <2>1, <2>3 DEF AttendedInv, TickKnows, StillStarting, Active
    <3>2. RunsFor(a) = {}
      <4> SUFFICES ASSUME NEW j \in RunsFor(a) PROVE FALSE
        OBVIOUS
      <4>1. Known(j) /\ jobs[j].asset = a
        BY DEF AttendedInv, CommandsInv, RunsFor, Runs
      <4> QED
        BY <2>1, <2>3, <3>1, <4>1 DEF Known, JustSent, AttendedInv, CommandsInv, GoneIsIdle
    <3> QED
      BY <2>1, <3>1, <3>2 DEF RowsMove, Restyled, Created, Discarded, PutBack, CalledBack
  <2>4. ASSUME tick.at = "SENT" PROVE row'[a].jobState # "RUNNING"
    BY <2>1, <2>4 DEF AttendedInv, TickKnows, NotYetRunning, RowsMove, Restyled, Created, Discarded,
       PutBack, CalledBack
  <2>5. OnlyItsCommand' /\ NoCommand'
    BY <1>1 DEF AttendedInv, TickKnows, OnlyItsCommand, NoCommand
  <2>6. NoneWorks'
    BY <1>1 DEF AttendedInv, TickKnows, NoneWorks
  <2> QED
    BY <1>8, <2>2, <2>3, <2>4, <2>5, <2>6 DEF TickKnows, StillStarting, NotYetRunning
<1> QED
  BY <1>8, <1>9, <1>10
(* Owners, who abandon no command. *)
LEMMA OwnerMoves ==
  ASSUME AttendedInv, Owner, UNCHANGED <<jobVars, tick, memory>>, ~ AbandonsCommand
  PROVE  RowsMove
<1>1. /\ \A a \in Assets : row[a] \in Rows /\ GoneIsIdle(a)
      /\ row \in [Assets -> Rows]
  BY DEF AttendedInv, CommandsInv, ReconstructionInv, RowsTypeOK
<1>2. ASSUME NEW a \in Assets, Intake(a) PROVE RowsMove
  <2>1. PICK new \in {NewRow("UPLOADED", "NULL"), NewRow("PROCESSING", "QUEUED")} :
          row' = [row EXCEPT ![a] = new]
    BY <1>2 DEF Intake
  <2>2. Created(a)
    BY <1>1, <1>2, <2>1 DEF Intake, Created, NewRow, Statuses
  <2>3. \A b \in Assets \ {a} : Restyled(b)
    BY <1>1, <2>1 DEF Restyled
  <2> QED
    BY <2>2, <2>3 DEF RowsMove
<1>3. ASSUME NEW a \in Assets, Register(a) PROVE RowsMove
  BY <1>1, <1>3 DEF Register, Request, Exists, RowsMove, Restyled, Statuses
<1>4. ASSUME NEW a \in Assets, Remove(a) PROVE RowsMove
  <2>1. a \notin Active
    BY <1>4 DEF AbandonsCommand
  <2>2. Discarded(a)
    BY <1>1, <1>4, <2>1 DEF Remove, Request, Exists, Discarded, NewRow, Statuses
  <2>3. \A b \in Assets \ {a} : Restyled(b)
    BY <1>1, <1>4 DEF Remove, Restyled
  <2> QED
    BY <2>2, <2>3 DEF RowsMove
<1>5. ASSUME UNCHANGED row PROVE RowsMove
  BY <1>5 DEF RowsMove, Restyled
<1>6. ASSUME NEW e \in edits, RequeueReconstruction(e) PROVE RowsMove
  <2>1. e.asset \in Assets
    BY DEF AttendedInv, ReconstructionInv, OthersTypeOK, Edits
  <2>2. e.asset \notin Active /\ RunsFor(e.asset) = {}
    BY <1>6 DEF AbandonsCommand, RunsFor
  <2>3. CASE row' = row
    BY <1>5, <2>3
  <2>4. CASE Exists(e.asset) /\ row' = [row EXCEPT ![e.asset] = NewRow("PROCESSING", "QUEUED")]
    <3>1. PutBack(e.asset)
      BY <1>1, <2>1, <2>2, <2>4 DEF PutBack, Exists, NewRow, Statuses
    <3>2. \A b \in Assets \ {e.asset} : Restyled(b)
      BY <1>1, <2>1, <2>4 DEF Restyled
    <3> QED
      BY <2>1, <3>1, <3>2 DEF RowsMove
  <2> QED
    BY <1>6, <2>3, <2>4 DEF RequeueReconstruction, Write
<1>7. ASSUME NEW e \in edits, UpdateFile(e) PROVE RowsMove
  <2>1. e.asset \in Assets /\ StatusWithNewFile(e.read) \in Statuses
    BY DEF AttendedInv, ReconstructionInv, OthersTypeOK, Edits, StatusWithNewFile, Statuses
  <2>2. CASE row' = row
    BY <1>5, <2>2
  <2>3. CASE /\ Exists(e.asset)
             /\ row' = [row EXCEPT ![e.asset] =
                          [row[e.asset] EXCEPT !.status = StatusWithNewFile(e.read)]]
    <3>1. /\ row'[e.asset].jobState = row[e.asset].jobState
          /\ row'[e.asset].command = row[e.asset].command
          /\ row'[e.asset].status = StatusWithNewFile(e.read)
      BY <1>1, <2>1, <2>3 DEF Rows
    <3>2. Restyled(e.asset)
      BY <2>1, <2>3, <3>1 DEF Restyled, Exists
    <3>3. \A b \in Assets \ {e.asset} : Restyled(b)
      BY <1>1, <2>1, <2>3 DEF Restyled
    <3> QED
      BY <2>1, <3>2, <3>3 DEF RowsMove
  <2> QED
    BY <1>7, <2>2, <2>3 DEF UpdateFile, Write
<1> QED
  BY <1>2, <1>3, <1>4, <1>5, <1>6, <1>7 DEF Owner, AskRetry, AskNewFile

(* One command changes its state, and works no more. *)
LEMMA OneStops ==
  ASSUME OthersTypeOK, NEW j \in DOMAIN jobs, NEW state \in (Running \cup Ended) \ {"WORKING"},
         state \in Running => jobs[j].state \in Running,
         jobs' = [jobs EXCEPT ![j].state = state]
  PROVE  NoneBegins /\ ~ Works(j)'
<1>1. \A i \in DOMAIN jobs : jobs[i] \in Jobs
  BY DEF OthersTypeOK
<1>2. DOMAIN jobs' = DOMAIN jobs
  BY DEF OthersTypeOK
<1>3. \A i \in DOMAIN jobs : i # j => jobs'[i] = jobs[i]
  OBVIOUS
<1>4. jobs'[j].state = state /\ jobs'[j].asset = jobs[j].asset
  BY <1>1 DEF Jobs
<1> QED
  BY <1>2, <1>3, <1>4 DEF NoneBegins, Works

LEMMA JobsStay ==
  ASSUME UNCHANGED jobs
  PROVE  NoneBegins
  BY DEF NoneBegins

(* Commands, which call back for their assets. *)
LEMMA GpuMoves ==
  ASSUME AttendedInv, Gpu, UNCHANGED tick
  PROVE  RowsMove /\ NoneBegins
<1>1. ASSUME NEW j \in DOMAIN jobs, JobEnds(j) \/ LoseCompletion(j)
      PROVE  RowsMove /\ NoneBegins
  <2>1. /\ Runs(j)
        /\ \E state \in (Running \cup Ended) \ {"WORKING"} : jobs' = [jobs EXCEPT ![j].state = state]
    BY <1>1 DEF JobEnds, FailToReconstruct, Complete, LoseCompletion, ReportFailure, LoseFailure,
       JobStep, Running, Ended, Runs
  <2>2. NoneBegins /\ ~ Works(j)'
    BY <2>1, OneStops DEF Runs, AttendedInv, ReconstructionInv
  <2> DEFINE a == jobs[j].asset
  <2>3. a \in Assets /\ j \in RunsFor(a)
    BY <2>1, JobsAsset DEF AttendedInv, ReconstructionInv, Runs, RunsFor
  <2>4. CASE UNCHANGED row
    BY <2>2, <2>4 DEF RowsMove, Restyled
  <2>5. CASE AttachReconstructedFile(a) \/ MarkReconstructionFailed(a)
    <3>1. PICK new \in {Attached(row[a]), MarkedFailed(row[a])} :
            Exists(a) /\ row' = [row EXCEPT ![a] = new]
      BY <2>5 DEF AttachReconstructedFile, MarkReconstructionFailed, Write
    <3>2. row[a] \in Rows /\ row \in [Assets -> Rows]
      BY <2>3 DEF AttendedInv, ReconstructionInv, RowsTypeOK
    <3>3. /\ new.status \in Statuses /\ new.jobState \in {"DONE", "FAILED"}
          /\ new.command = row[a].command
      BY <3>2 DEF Attached, MarkedFailed, Rows, Statuses
    <3>4. CalledBack(a)
      BY <2>2, <2>3, <3>1, <3>2, <3>3 DEF CalledBack, Exists
    <3>5. \A b \in Assets \ {a} : Restyled(b)
      BY <3>1, <3>2 DEF Restyled
    <3> QED
      BY <2>2, <3>4, <3>5 DEF RowsMove
  <2> QED
    BY <1>1, <2>4, <2>5 DEF JobEnds, FailToReconstruct, Complete, LoseCompletion, ReportFailure,
       LoseFailure
<1>2. CASE Boot \/ Halt
  BY <1>2, JobsStay DEF Boot, Halt, assetVars, RowsMove, Restyled
<1> QED
  BY <1>1, <1>2 DEF Gpu

(* Whatever is not the tick's own step. *)
LEMMA OthersAttend ==
  ASSUME AttendedInv, ~ AbandonsCommand,
         \/ Owner /\ UNCHANGED <<jobVars, tick, memory>>
         \/ Gpu /\ UNCHANGED <<tick, memory>>
         \/ EndBackoff
         \/ UNCHANGED reconVars
  PROVE  CommandsInv' /\ TickKnows'
<1>1. CASE Owner /\ UNCHANGED <<jobVars, tick, memory>>
  BY <1>1, OwnerMoves, JobsStay, RowsMoveKept DEF jobVars
<1>2. CASE Gpu /\ UNCHANGED <<tick, memory>>
  BY <1>2, GpuMoves, RowsMoveKept
<1>3. CASE UNCHANGED <<row, jobs, tick>>
  <2>1. RowsMove
    BY <1>3 DEF RowsMove, Restyled
  <2> QED
    BY <1>3, <2>1, JobsStay, RowsMoveKept
<1> QED
  BY <1>1, <1>2, <1>3 DEF EndBackoff, reconVars, assetVars, jobVars
(***************************************************************************)
(* The tick's own steps.                                                   *)
(***************************************************************************)
(* A step that leaves the rows alone, except the one that records a number *)
(* just given, leaves every command known.                                 *)
LEMMA QuietlyKnown ==
  ASSUME AttendedInv, UNCHANGED row, NoneBegins, tick.at # "SENT"
  PROVE  CommandsInv'
<1>1. \A j : (Runs(j)' => Runs(j)) /\ (Works(j)' => Works(j))
  BY FewerRun
<1>2. \A j \in DOMAIN jobs' : j \in DOMAIN jobs /\ jobs'[j].asset = jobs[j].asset
  BY DEF NoneBegins
<1>3. \A j \in DOMAIN jobs' : Runs(j)' => Known(j)'
  BY <1>1, <1>2 DEF AttendedInv, CommandsInv, Known, JustSent
<1>4. \A j \in DOMAIN jobs' : Works(j)' => Attended(j)'
  BY <1>1, <1>2 DEF AttendedInv, CommandsInv, Attended, JustSent
<1> QED
  BY <1>3, <1>4 DEF AttendedInv, CommandsInv, GoneIsIdle

(* A tick that has no asset relies on nothing.                             *)
LEMMA NothingToKnow ==
  ASSUME tick'.at \in Unassigned
  PROVE  TickKnows'
  BY DEF TickKnows, AssetIsThere, StillStarting, NotYetRunning, OnlyItsCommand, NoCommand,
         NoneWorks, Unassigned

LEMMA EndedTick ==
  ASSUME EndTick
  PROVE  tick'.at = "WAITING" /\ TickKnows'
  BY NothingToKnow DEF EndTick, Waiting, Unassigned

(* What is running for an asset with a row that is there.                  *)
LEMMA RunsForRow ==
  ASSUME AttendedInv, NEW a \in Assets, row[a].status # "REMOVED",
         ~ (tick.at = "SENT" /\ tick.asset = a)
  PROVE  /\ RunsFor(a) \subseteq {row[a].command}
         /\ RunsFor(a) # {} => row[a].jobState \in {"RUNNING", "DONE", "FAILED"}
         /\ \A j \in RunsFor(a) : Works(j) => row[a].jobState = "RUNNING"
<1>1. ASSUME NEW j \in RunsFor(a)
      PROVE  row[a].command = j /\ row[a].jobState \in {"RUNNING", "DONE", "FAILED"}
  BY DEF AttendedInv, CommandsInv, RunsFor, Runs, Known, JustSent
<1>2. ASSUME NEW j \in RunsFor(a), Works(j) PROVE row[a].jobState = "RUNNING"
  BY <1>2 DEF AttendedInv, CommandsInv, RunsFor, Attended, JustSent
<1> QED
  BY <1>1, <1>2

LEMMA ActiveIsThere ==
  ASSUME AttendedInv, NEW a \in Assets, row[a].jobState # "NULL"
  PROVE  row[a].status \notin {"ABSENT", "REMOVED"}
  BY DEF AttendedInv, CommandsInv, GoneIsIdle

LEMMA StartTickAttends ==
  ASSUME AttendedInv, StartTick
  PROVE  CommandsInv' /\ TickKnows'
<1>1. UNCHANGED <<row, jobs>> /\ tick.at = "WAITING"
  BY DEF StartTick, BeginTick, assetVars, jobVars, At
<1>2. CommandsInv'
  BY <1>1, JobsStay, QuietlyKnown
<1>3. CASE Goto("QUEUE")
  BY <1>2, <1>3, NothingToKnow DEF Goto, Unassigned, AttendedInv, ReconstructionInv, TickTypeOK, Ticks
<1>4. ASSUME NEW a \in Active,
             Take(a, IF row[a].jobState = "RUNNING" THEN "RUNNING" ELSE "STARTING")
      PROVE  TickKnows'
  <2>1. a \in Assets /\ row[a].jobState \in {"GPU_STARTING", "RUNNING"}
    BY DEF Active
  <2>2. row[a].status \notin {"ABSENT", "REMOVED"}
    BY <2>1, ActiveIsThere
  <2>3. RunsFor(a) \subseteq {row[a].command} /\ RunsFor(a)' = RunsFor(a)
    BY <1>1, <2>1, <2>2, RunsForRow DEF RunsFor
  <2>4. /\ tick'.asset = a /\ tick'.command = row[a].command
        /\ tick'.at = IF row[a].jobState = "RUNNING" THEN "RUNNING" ELSE "STARTING"
    BY <1>4 DEF Take
  <2> QED
    BY <1>1, <2>1, <2>2, <2>3, <2>4
    DEF TickKnows, AssetIsThere, StillStarting, NotYetRunning, OnlyItsCommand, NoCommand, NoneWorks
<1> QED
  BY <1>2, <1>3, <1>4 DEF StartTick, BeginTick

LEMMA ReadQueueAttends ==
  ASSUME AttendedInv, ReadQueue
  PROVE  CommandsInv' /\ TickKnows'
<1>1. UNCHANGED <<row, jobs>> /\ tick.at = "QUEUE"
  BY DEF ReadQueue, assetVars, jobVars, At
<1>2. CommandsInv'
  BY <1>1, JobsStay, QuietlyKnown
<1>3. CASE Goto("IDLE")
  BY <1>2, <1>3, NothingToKnow DEF Goto, Unassigned, AttendedInv, ReconstructionInv, TickTypeOK, Ticks
<1>4. ASSUME NEW a \in Oldest(Queued), Take(a, "SECURE")
      PROVE  TickKnows'
  <2>1. a \in Assets /\ row[a].status = "PROCESSING" /\ row[a].jobState \in {"NULL", "QUEUED"}
    BY DEF Oldest, Queued
  <2>2. RunsFor(a) = {} /\ RunsFor(a)' = RunsFor(a)
    BY <1>1, <2>1, RunsForRow DEF RunsFor
  <2>3. tick'.asset = a /\ tick'.at = "SECURE"
    BY <1>4 DEF Take
  <2> QED
    BY <1>1, <2>1, <2>2, <2>3
    DEF TickKnows, AssetIsThere, StillStarting, NotYetRunning, OnlyItsCommand, NoCommand, NoneWorks
<1> QED
  BY <1>2, <1>3, <1>4 DEF ReadQueue

(* Stopping the instance and cancelling a command begin none.              *)
LEMMA StopsAll ==
  ASSUME OthersTypeOK, StopInstance
  PROVE  NoneBegins
<1>1. \A i \in DOMAIN jobs : jobs[i] \in Jobs
  BY DEF OthersTypeOK
<1> QED
  BY <1>1 DEF StopInstance, NoneBegins, Jobs, Running

LEMMA Cancels ==
  ASSUME OthersTypeOK, NEW j \in Nat, CancelCommand(j)
  PROVE  NoneBegins /\ ~ Works(j)'
<1>1. DOMAIN jobs = 1..Len(jobs) /\ Len(jobs) \in Nat
  BY DEF OthersTypeOK
<1>2. CASE j \in DOMAIN jobs /\ jobs[j].state = "WORKING"
  <2>1. j # NoJob
    BY <1>1, <1>2 DEF NoJob
  <2>2. PICK end \in {"CANCELLED", "FAILING"} : jobs' = [jobs EXCEPT ![j].state = end]
    BY <1>2, <2>1 DEF CancelCommand
  <2> QED
    BY <1>2, <2>2, OneStops DEF Running, Ended
<1>3. CASE j \in DOMAIN jobs /\ jobs[j].state # "WORKING"
  BY <1>3, JobsStay DEF CancelCommand, Works
<1>4. CASE j \notin DOMAIN jobs
  <2>1. UNCHANGED jobs \/ \E end \in {"CANCELLED", "FAILING"} : jobs' = [jobs EXCEPT ![j].state = end]
    BY DEF CancelCommand
  <2>2. DOMAIN jobs' = DOMAIN jobs /\ \A i \in DOMAIN jobs : jobs'[i] = jobs[i]
    BY <1>1, <1>4, <2>1 DEF OthersTypeOK
  <2> QED
    BY <1>4, <2>2 DEF NoneBegins, Works
<1> QED
  BY <1>2, <1>3, <1>4

(* A tick that ends without writing. The one that has just sent a command  *)
(* does not, for that would abandon it.                                    *)
LEMMA EndingAttends ==
  ASSUME AttendedInv, ~ AbandonsCommand,
         \/ MaybeIdleStop
         \/ LackCapacity
         \/ FindInstance /\ EndTick
         \/ FindOffline
         \/ FindRunning
         \/ FindSuccess
         \/ FailTick
         \/ Crash
  PROVE  CommandsInv' /\ TickKnows'
<1>1. UNCHANGED row /\ EndTick
  BY DEF MaybeIdleStop, LackCapacity, FindInstance, FindOffline, FindRunning, FindSuccess,
         Find, FailTick, Crash, assetVars
<1>2. NoneBegins
  <2>1. UNCHANGED jobs \/ StopInstance
    BY DEF MaybeIdleStop, LackCapacity, FindInstance, FindOffline, FindRunning, FindSuccess,
           Find, FailTick, Crash, jobVars
  <2> QED
    BY <2>1, JobsStay, StopsAll DEF AttendedInv, ReconstructionInv
<1>3. tick.at # "SENT"
  <2>1. faults \in Nat
    BY DEF AttendedInv
  <2>2. tick.at # "SENT" \/ faults' = faults + 1
    BY DEF MaybeIdleStop, LackCapacity, FindInstance, FindOffline, FindRunning, FindSuccess,
           Find, FailTick, Crash, Fault, At
  <2>3. tick.at # "SENT" \/ faults' = faults
    BY <1>1 DEF AbandonsCommand, At
  <2> QED
    BY <2>1, <2>2, <2>3
<1> QED
  BY <1>1, <1>2, <1>3, QuietlyKnown, EndedTick

(* A tick that goes on without writing. *)
LEMMA GoingOnAttends ==
  ASSUME AttendedInv, ~ AbandonsCommand,
         \/ StartInstance
         \/ FindInstance /\ Goto("PROMOTE")
         \/ StartingTimesOut
         \/ FindOnline
         \/ RunningTimesOut
         \/ LoseCommand
         \/ GraceIsOver
         \/ FindFailure
  PROVE  CommandsInv' /\ TickKnows'
<1> DEFINE a == tick.asset
<1>1. UNCHANGED row /\ tick.at \in {"SECURE", "STARTING", "RUNNING"}
  BY DEF StartInstance, FindInstance, StartingTimesOut, FindOnline, RunningTimesOut,
         LoseCommand, GraceIsOver, FindFailure, Find, assetVars, At
<1>2. a \in Assets /\ row[a].status # "ABSENT" /\ tick \in Ticks /\ tick.command \in Nat
  BY <1>1 DEF AttendedInv, ReconstructionInv, TickTypeOK, TickKnows, AssetIsThere, Unassigned, Ticks
<1>3. faults \in Nat /\ OthersTypeOK /\ DOMAIN jobs = 1..Len(jobs) /\ Len(jobs) \in Nat
  BY DEF AttendedInv, ReconstructionInv, OthersTypeOK
<1>4. ASSUME RunningTimesOut PROVE CancelCommand(tick.command)
  <2>1. tick'.at = "FAIL" /\ tick.at = "RUNNING"
    BY <1>2, <1>4 DEF RunningTimesOut, Goto, At, Ticks
  <2>2. faults' = faults
    BY <2>1 DEF AbandonsCommand, At
  <2> QED
    BY <1>3, <1>4, <2>2 DEF RunningTimesOut, Fault
<1>5. NoneBegins
  <2>1. CASE RunningTimesOut
    BY <1>2, <1>3, <1>4, <2>1, Cancels
  <2>2. CASE ~ RunningTimesOut
    BY <2>2, JobsStay DEF StartInstance, FindInstance, StartingTimesOut, FindOnline, LoseCommand,
       GraceIsOver, FindFailure, Find, jobVars
  <2> QED
    BY <2>1, <2>2
<1>6. CommandsInv'
  BY <1>1, <1>5, QuietlyKnown
<1>7. \A b : RunsFor(b)' \subseteq RunsFor(b)
  BY <1>5, FewerRun
<1>8. ASSUME NEW point \in {"PROMOTE", "SEND", "FAIL", "REQUEUE"}, Goto(point),
             point = "PROMOTE" => tick.at = "SECURE",
             point = "SEND" => tick.at = "STARTING",
             point = "REQUEUE" => RunsFor(a) = {},
             point = "FAIL" => \A j \in RunsFor(a) : ~ Works(j)'
      PROVE  TickKnows'
  <2>1. tick'.at = point /\ tick'.asset = a /\ row' = row
    BY <1>1, <1>2, <1>8 DEF Goto, Ticks
  <2>2. AssetIsThere' /\ StillStarting' /\ NotYetRunning' /\ OnlyItsCommand'
    BY <1>2, <1>8, <2>1
    DEF AttendedInv, TickKnows, AssetIsThere, StillStarting, NotYetRunning, OnlyItsCommand
  <2>3. NoCommand' /\ NoneWorks'
    BY <1>7, <1>8, <2>1 DEF AttendedInv, TickKnows, NoCommand, NoneWorks
  <2> QED
    BY <2>2, <2>3 DEF TickKnows
<1>9. CASE StartInstance \/ (FindInstance /\ Goto("PROMOTE"))
  BY <1>6, <1>8, <1>9 DEF StartInstance, FindInstance, At
<1>10. CASE FindOnline
  BY <1>6, <1>8, <1>10 DEF FindOnline, At
<1>11. CASE StartingTimesOut
  <2>1. row[a].jobState = "GPU_STARTING" /\ tick.at = "STARTING" /\ UNCHANGED jobs
    BY <1>11 DEF StartingTimesOut, At, AttendedInv, TickKnows, StillStarting, jobVars
  <2>2. RunsFor(a) = {}
    BY <1>2, <2>1, ActiveIsThere, RunsForRow
  <2> QED
    BY <1>6, <1>8, <1>11, <2>2 DEF StartingTimesOut
<1>12. ASSUME tick.at = "RUNNING" PROVE RunsFor(a) \subseteq {tick.command}
  BY <1>12 DEF AttendedInv, TickKnows, OnlyItsCommand
<1>13. CASE RunningTimesOut
  <2>1. tick.at = "RUNNING" /\ Goto("FAIL")
    BY <1>13 DEF RunningTimesOut, At
  <2>2. ASSUME NEW j \in Nat, j = tick.command PROVE ~ Works(j)'
    BY <1>3, <1>4, <1>13, <2>2, Cancels
  <2>3. \A j \in RunsFor(a) : ~ Works(j)'
    BY <1>2, <1>12, <2>1, <2>2
  <2> QED
    BY <1>6, <1>8, <2>1, <2>3
<1>14. CASE LoseCommand
  <2>1. tick.at = "RUNNING" /\ Goto("REQUEUE") /\ tick'.at = "REQUEUE"
    BY <1>2, <1>14 DEF LoseCommand, At, Goto, Ticks
  <2>2. faults' = faults
    BY <2>1 DEF AbandonsCommand, At
  <2>3. tick.command = 0
    BY <1>3, <1>14, <2>2 DEF LoseCommand, Fault, NoJob
  <2>4. RunsFor(a) = {}
    BY <1>3, <1>12, <2>1, <2>3 DEF RunsFor
  <2> QED
    BY <1>6, <1>8, <2>1, <2>4
<1>15. CASE GraceIsOver \/ FindFailure
  <2>1. /\ tick.at = "RUNNING" /\ UNCHANGED jobs
        /\ jobs[tick.command].state \in {"SUCCESS", "FAILED", "CANCELLED"}
        /\ Goto("FAIL") \/ Goto("REQUEUE")
    BY <1>15 DEF GraceIsOver, FindFailure, Find, Command, At, jobVars
  <2>2. RunsFor(a) = {}
    BY <1>12, <2>1 DEF RunsFor, Running
  <2> QED
    BY <1>6, <1>8, <2>1, <2>2
<1> QED
  BY <1>9, <1>10, <1>11, <1>13, <1>14, <1>15
(* A command is sent for an asset that has none, while no other works.     *)
LEMMA DispatchAttends ==
  ASSUME AttendedInv, Dispatch
  PROVE  CommandsInv' /\ TickKnows'
<1>0. PICK a, n : a = tick.asset /\ n = Len(jobs) + 1
  OBVIOUS
<1>1. tick.at = "SEND" /\ a \in Assets /\ row' = row /\ tick \in Ticks
  BY <1>0 DEF Dispatch, At, assetVars, AttendedInv, ReconstructionInv, TickTypeOK, Unassigned
<1>2. row[a].jobState = "GPU_STARTING" /\ row[a].status \notin {"ABSENT", "REMOVED"}
  <2>1. row[a].jobState = "GPU_STARTING"
    BY <1>0, <1>1 DEF AttendedInv, TickKnows, StillStarting
  <2> QED
    BY <1>1, <2>1, ActiveIsThere
<1>3. RunsFor(a) = {}
  BY <1>1, <1>2, RunsForRow
<1>4. /\ Len(jobs) \in Nat /\ DOMAIN jobs = 1..Len(jobs) /\ DOMAIN jobs' = 1..n /\ Len(jobs') = n
      /\ \A j \in DOMAIN jobs : jobs'[j] = jobs[j]
      /\ jobs'[n] = [asset |-> a, state |-> "WORKING"]
  BY <1>0 DEF Dispatch, SendJobCommand, AttendedInv, ReconstructionInv, OthersTypeOK
<1>5. tick'.at = "SENT" /\ tick'.command = n /\ tick'.asset = a
  BY <1>0, <1>1, <1>4 DEF Dispatch, Ticks
<1>6. ASSUME NEW j \in DOMAIN jobs'
      PROVE  \/ j = n
             \/ j \in DOMAIN jobs /\ jobs'[j] = jobs[j] /\ j # n
  BY <1>0, <1>4
<1>7. JustSent(n)' /\ jobs'[n].asset = a
  BY <1>4, <1>5 DEF JustSent
<1>8. ASSUME NEW j \in DOMAIN jobs', Runs(j)' PROVE Known(j)'
  <2>1. CASE j = n
    BY <1>7, <2>1 DEF Known
  <2>2. CASE j \in DOMAIN jobs /\ jobs'[j] = jobs[j]
    BY <1>1, <1>8, <2>2 DEF AttendedInv, CommandsInv, Runs, Known, JustSent
  <2> QED
    BY <1>6, <2>1, <2>2
<1>9. ASSUME NEW j \in DOMAIN jobs', Works(j)' PROVE Attended(j)'
  <2>1. CASE j = n
    BY <1>1, <1>2, <1>7, <2>1 DEF Attended
  <2>2. CASE j \in DOMAIN jobs /\ jobs'[j] = jobs[j]
    BY <1>1, <1>9, <2>2 DEF AttendedInv, CommandsInv, Works, Attended, JustSent
  <2> QED
    BY <1>6, <2>1, <2>2
<1>10. CommandsInv'
  BY <1>1, <1>8, <1>9 DEF AttendedInv, CommandsInv, GoneIsIdle
<1>11. TickKnows'
  <2>1. RunsFor(tick.asset)' \subseteq {tick'.command}
    BY <1>3, <1>5, <1>6 DEF RunsFor
  <2> QED
    BY <1>1, <1>2, <1>5, <2>1
    DEF TickKnows, AssetIsThere, StillStarting, NotYetRunning, OnlyItsCommand, NoCommand, NoneWorks
<1> QED
  BY <1>10, <1>11

(* The tick writes the row and ends. What it writes agrees with the        *)
(* command that runs for the asset, if any does.                           *)
LEMMA WriteAttends ==
  ASSUME AttendedInv, UNCHANGED jobs, EndTick, NEW a \in Assets, a = tick.asset, NEW new \in Rows,
         row[a].status # "ABSENT",
         Write(a, new), Exists(a) => new.status \in Statuses,
         \A j \in RunsFor(a) : /\ new.command = j /\ new.jobState \in {"RUNNING", "DONE", "FAILED"}
                               /\ Works(j) => new.jobState = "RUNNING"
  PROVE  CommandsInv' /\ TickKnows'
<1>1. row \in [Assets -> Rows] /\ tick'.at = "WAITING" /\ TickKnows'
  BY EndedTick DEF AttendedInv, ReconstructionInv, RowsTypeOK
<1>2. ASSUME NEW j \in DOMAIN jobs
      PROVE  /\ jobs'[j] = jobs[j] /\ jobs[j].asset \in Assets
             /\ Runs(j)' <=> Runs(j)
             /\ Works(j)' <=> Works(j)
             /\ Runs(j) => Known(j)
             /\ Works(j) => Attended(j) /\ Runs(j)
             /\ jobs[j].asset = a /\ Runs(j) => j \in RunsFor(a)
  BY JobsAsset, WorksIsRuns DEF AttendedInv, ReconstructionInv, CommandsInv, Runs, Works, RunsFor
<1>3. CASE Exists(a) /\ row' = [row EXCEPT ![a] = new]
  <2>1. row'[a] = new /\ \A b \in Assets \ {a} : row'[b] = row[b]
    BY <1>1, <1>3
  <2>2. \A b \in Assets : GoneIsIdle(b)'
    BY <1>3, <2>1 DEF AttendedInv, CommandsInv, GoneIsIdle, Statuses
  <2>3. ASSUME NEW j \in DOMAIN jobs, Runs(j) PROVE Known(j)'
    <3>1. CASE jobs[j].asset = a
      BY <1>2, <2>1, <2>3, <3>1 DEF Known
    <3>2. CASE jobs[j].asset # a
      BY <1>2, <2>1, <2>3, <3>2 DEF Known, JustSent
    <3> QED
      BY <3>1, <3>2
  <2>4. ASSUME NEW j \in DOMAIN jobs, Works(j) PROVE Attended(j)'
    <3>1. CASE jobs[j].asset = a
      BY <1>2, <2>1, <2>4, <3>1 DEF Attended
    <3>2. CASE jobs[j].asset # a
      BY <1>2, <2>1, <2>4, <3>2 DEF Attended, JustSent
    <3> QED
      BY <3>1, <3>2
  <2> QED
    BY <1>1, <1>2, <2>2, <2>3, <2>4 DEF CommandsInv
<1>4. CASE ~ Exists(a) /\ row' = row
  <2>1. row[a].status = "REMOVED" /\ row[a].jobState = "NULL"
    <3>1. row[a].status = "REMOVED"
      BY <1>1, <1>4 DEF Exists, Rows
    <3> QED
      BY <3>1 DEF AttendedInv, CommandsInv, GoneIsIdle
  <2>2. ASSUME NEW j \in DOMAIN jobs, Runs(j) PROVE Known(j)'
    BY <1>2, <1>4, <2>1, <2>2 DEF Known, JustSent
  <2>3. ASSUME NEW j \in DOMAIN jobs, Works(j) PROVE Attended(j)'
    BY <1>2, <1>4, <2>1, <2>3 DEF Attended, JustSent
  <2> QED
    BY <1>1, <1>2, <1>4, <2>2, <2>3 DEF AttendedInv, CommandsInv, GoneIsIdle
<1> QED
  BY <1>3, <1>4 DEF Write

LEMMA WriteBackAttends ==
  ASSUME AttendedInv, Promote \/ RecordDispatch \/ Requeue \/ FailJob
  PROVE  CommandsInv' /\ TickKnows'
<1> DEFINE a == tick.asset
<1>1. tick.at \in {"PROMOTE", "SENT", "REQUEUE", "FAIL"} /\ EndTick /\ UNCHANGED jobs
  BY DEF Promote, RecordDispatch, Requeue, FailJob, WriteBack, At, jobVars
<1>2. a \in Assets /\ row[a] \in Rows /\ row[a].status # "ABSENT" /\ tick.command \in Nat
  BY <1>1 DEF AttendedInv, ReconstructionInv, RowsTypeOK, TickTypeOK, Ticks, Unassigned,
              TickKnows, AssetIsThere
<1>3. /\ Promoted(row[a]) \in Rows /\ Promoted(row[a]).status = row[a].status
      /\ Requeued(row[a]) \in Rows /\ Requeued(row[a]).status = row[a].status
  BY <1>2 DEF Promoted, Requeued, Rows, JobStates, NoJob
<1>4. /\ Dispatched(row[a]) \in Rows /\ Dispatched(row[a]).status = row[a].status
      /\ Dispatched(row[a]).command = tick.command /\ Dispatched(row[a]).jobState = "RUNNING"
  <2>1. row[a].attempts + 1 \in Nat
    BY <1>2 DEF Rows
  <2> QED
    BY <1>2, <2>1 DEF Dispatched, Rows, JobStates
<1>5. /\ MarkedFailed(row[a]) \in Rows /\ MarkedFailed(row[a]).status \in Statuses
      /\ MarkedFailed(row[a]).command = row[a].command /\ MarkedFailed(row[a]).jobState = "FAILED"
  BY <1>2 DEF MarkedFailed, Rows, Statuses, JobStates
<1> HIDE DEF a
<1>6. CASE Promote \/ Requeue
  <2>1. RunsFor(a) = {}
    BY <1>6 DEF Promote, Requeue, WriteBack, At, AttendedInv, TickKnows, NoCommand, a
  <2>2. Write(a, Promoted(row[a])) \/ Write(a, Requeued(row[a]))
    BY <1>6 DEF Promote, Requeue, WriteBack, Row, a
  <2> QED
    BY <1>1, <1>2, <1>3, <2>1, <2>2, WriteAttends DEF Exists, a
<1>7. CASE RecordDispatch
  <2>1. RunsFor(a) \subseteq {tick.command}
    BY <1>7 DEF RecordDispatch, WriteBack, At, AttendedInv, TickKnows, OnlyItsCommand, a
  <2>2. Write(a, Dispatched(row[a]))
    BY <1>7 DEF RecordDispatch, WriteBack, Row, a
  <2> QED
    BY <1>1, <1>2, <1>4, <2>1, <2>2, WriteAttends DEF Exists, a
<1>8. CASE FailJob
  <2>1. tick.at = "FAIL" /\ \A j \in RunsFor(a) : ~ Works(j)
    BY <1>8 DEF FailJob, WriteBack, At, AttendedInv, TickKnows, NoneWorks, a
  <2>2. Write(a, MarkedFailed(row[a]))
    BY <1>8 DEF FailJob, WriteBack, Row, a
  <2>3. CASE row[a].status # "REMOVED"
    <3>1. RunsFor(a) \subseteq {row[a].command}
      BY <1>2, <2>1, <2>3, RunsForRow
    <3> QED
      BY <1>1, <1>2, <1>5, <2>1, <2>2, <3>1, WriteAttends DEF a
  <2>4. CASE row[a].status = "REMOVED"
    <3>1. UNCHANGED row
      BY <2>2, <2>4 DEF Write, Exists, Statuses
    <3> QED
      BY <1>1, <2>1, <3>1, JobsStay, QuietlyKnown, EndedTick
  <2> QED
    BY <2>3, <2>4
<1> QED
  BY <1>6, <1>7, <1>8

(* The number of faults stays one. *)
LEMMA FaultsCounted ==
  ASSUME AttendedInv, [ReconstructionNext]_reconVars
  PROVE  faults' \in Nat
<1>1. faults \in Nat
  BY DEF AttendedInv
<1>2. faults' = faults \/ faults' = faults + 1
  BY DEF ReconstructionNext, Owner, Gpu, Handle, JobEnds, FailToReconstruct, Complete,
     LoseCompletion, ReportFailure, LoseFailure, Boot, Halt, StartTick, BeginTick, ReadQueue,
     MaybeIdleStop, StartInstance, FindInstance, Promote, RecordDispatch, Requeue, FailJob,
     WriteBack, StartingTimesOut, FindOffline, FindOnline, Dispatch, RunningTimesOut, FindRunning,
     FindSuccess, GraceIsOver, FindFailure, Find, EndBackoff, LackCapacity, LoseCommand, FailTick,
     Crash, Fault, jobVars, assetVars, reconVars
<1> QED
  BY <1>1, <1>2

(* A step that abandons no command keeps the invariant.                    *)
LEMMA AttendedStep ==
  ASSUME AttendedInv, ReconstructionInv', [ReconstructionNext /\ ~ AbandonsCommand]_reconVars
  PROVE  AttendedInv'
<1>1. faults' \in Nat
  BY FaultsCounted
<1>2. CASE UNCHANGED reconVars
  <2>1. UNCHANGED <<row, jobs, tick>>
    BY <1>2 DEF reconVars, assetVars, jobVars
  <2>2. RowsMove
    BY <2>1 DEF RowsMove, Restyled
  <2> QED
    BY <1>1, <2>1, <2>2, JobsStay, RowsMoveKept DEF AttendedInv
<1>3. CASE ReconstructionNext /\ ~ AbandonsCommand
  <2>1. CASE \/ Owner /\ UNCHANGED <<jobVars, tick, memory>>
             \/ Gpu /\ UNCHANGED <<tick, memory>>
             \/ EndBackoff
    BY <1>1, <1>3, <2>1, OthersAttend DEF AttendedInv
  <2>2. CASE StartTick
    BY <1>1, <2>2, StartTickAttends DEF AttendedInv
  <2>3. CASE ReadQueue
    BY <1>1, <2>3, ReadQueueAttends DEF AttendedInv
  <2>4. CASE MaybeIdleStop \/ LackCapacity \/ FindOffline \/ FindRunning \/ FindSuccess
             \/ FailTick \/ Crash
    BY <1>1, <1>3, <2>4, EndingAttends DEF AttendedInv
  <2>5. CASE StartInstance \/ StartingTimesOut \/ FindOnline \/ RunningTimesOut
             \/ LoseCommand \/ GraceIsOver \/ FindFailure
    BY <1>1, <1>3, <2>5, GoingOnAttends DEF AttendedInv
  <2>6. CASE FindInstance
    <3>1. EndTick \/ Goto("PROMOTE")
      BY <2>6 DEF FindInstance
    <3> QED
      BY <1>1, <1>3, <2>6, <3>1, EndingAttends, GoingOnAttends DEF AttendedInv
  <2>7. CASE Dispatch
    BY <1>1, <2>7, DispatchAttends DEF AttendedInv
  <2>8. CASE Promote \/ RecordDispatch \/ Requeue \/ FailJob
    BY <1>1, <2>8, WriteBackAttends DEF AttendedInv
  <2> QED
    BY <1>3, <2>1, <2>2, <2>3, <2>4, <2>5, <2>6, <2>7, <2>8 DEF ReconstructionNext, Handle
<1> QED
  BY <1>2, <1>3

(* Two commands that work are the same: an active row names each of them,  *)
(* or the tick has just sent it, and only one asset is active.             *)
LEMMA OnlyOneWorks ==
  ASSUME AttendedInv
  PROVE  OneJobWorks
<1> SUFFICES ASSUME NEW i \in DOMAIN jobs, NEW j \in DOMAIN jobs,
                    jobs[i].state = "WORKING", jobs[j].state = "WORKING"
             PROVE  i = j
  BY DEF OneJobWorks
<1>1. /\ Attended(i) /\ Attended(j)
      /\ jobs[i].asset \in Assets /\ jobs[j].asset \in Assets
  BY JobsAsset DEF AttendedInv, ReconstructionInv, CommandsInv, Works
<1>2. jobs[i].asset \in Active /\ jobs[j].asset \in Active
  BY <1>1 DEF Attended, Active
<1>3. jobs[i].asset = jobs[j].asset
  BY <1>2 DEF AttendedInv, ReconstructionInv, TickHoldsActive
<1> QED
  BY <1>1, <1>3 DEF Attended, JustSent

(* The loop's claim, as far as it holds: two commands work at the same     *)
(* time only after one was abandoned in one of the four ways that          *)
(* AbandonsCommand names. Neither lost callbacks nor retries, restarts and *)
(* failed calls at any other point lead to it.                             *)
THEOREM AttendedJobsWorkAlone == AttendedSpec => []OneJobWorks
<1>1. ReconstructionInit => CommandsInv /\ TickKnows /\ faults \in Nat
  <2> SUFFICES ASSUME ReconstructionInit PROVE CommandsInv /\ TickKnows /\ faults \in Nat
    OBVIOUS
  <2>1. \A a \in Assets : row[a].jobState = "NULL"
    BY DEF ReconstructionInit, AssetInit, NewRow
  <2>2. DOMAIN jobs = {} /\ faults = 0 /\ tick.at = "WAITING"
    BY DEF ReconstructionInit, JobInit, Waiting
  <2> QED
    BY <2>1, <2>2 DEF CommandsInv, GoneIsIdle, TickKnows, AssetIsThere, StillStarting,
       NotYetRunning, OnlyItsCommand, NoCommand, NoneWorks, Unassigned
<1>2. AttendedSpec => ReconstructionSpec
  <2>1. [ReconstructionNext /\ ~ AbandonsCommand]_reconVars => [ReconstructionNext]_reconVars
    OBVIOUS
  <2> QED
    BY <2>1, PTL DEF AttendedSpec, ReconstructionSpec
<1>3. AttendedSpec => []ReconstructionInv
  BY <1>2, ReconstructionInvHolds, PTL
<1>4. AttendedInv /\ ReconstructionInv' /\ [ReconstructionNext /\ ~ AbandonsCommand]_reconVars
        => AttendedInv'
  BY AttendedStep
<1>5. ReconstructionInv /\ CommandsInv /\ TickKnows /\ faults \in Nat => AttendedInv
  BY DEF AttendedInv
<1>6. AttendedInv => OneJobWorks
  BY OnlyOneWorks
<1> QED
  BY <1>1, <1>3, <1>4, <1>5, <1>6, PTL DEF AttendedSpec
=============================================================================
