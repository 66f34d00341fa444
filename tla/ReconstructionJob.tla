------------------------- MODULE ReconstructionJob --------------------------
(***************************************************************************)
(* The GPU instance and the commands that run a reconstruction on it.  A   *)
(* command is a shell script: it works, then posts its result to the API   *)
(* and succeeds when the API has accepted it; otherwise it posts a failure *)
(* (a post whose own failure changes nothing) and fails.  A callback names *)
(* the asset and not the command, and may come from a command nobody waits *)
(* for any more.                                                           *)
(***************************************************************************)
EXTENDS SplatAsset, Sequences

CONSTANTS
  FaultKinds,              \* the faults that may happen
  MaxFaults                \* bound: how many faults happen

ASSUME MaxFaultsAssumption == MaxFaults \in Nat

VARIABLES
  gpu,                     \* state of the instance
  jobs,                    \* the commands sent, by number: asset and state
  faults                   \* how many faults have happened

jobVars == <<gpu, jobs, faults>>

(* WORKING and FAILING commands run; the provider reports the others ended. *)
Running == {"WORKING", "FAILING"}
Ended == {"SUCCESS", "FAILED", "CANCELLED"}
GpuStates == {"stopped", "pending", "running", "stopping"}

Fault(kind) ==
  /\ kind \in FaultKinds
  /\ faults < MaxFaults
  /\ faults' = faults + 1

JobInit ==
  /\ gpu \in {"stopped", "running"}
  /\ jobs = <<>>
  /\ faults = 0

JobStep(j, from, to) ==
  /\ jobs[j].state = from
  /\ jobs' = [jobs EXCEPT ![j].state = to]
  /\ UNCHANGED <<gpu, edits, requests>>

FailToReconstruct(j) ==
  /\ JobStep(j, "WORKING", "FAILING")
  /\ UNCHANGED <<row, faults>>

(* The file is posted and accepted. *)
Complete(j) ==
  /\ JobStep(j, "WORKING", "SUCCESS")
  /\ AttachReconstructedFile(jobs[j].asset)
  /\ UNCHANGED faults

(* A fault: the API takes the file, and the script does not learn of it. *)
LoseCompletion(j) ==
  /\ JobStep(j, "WORKING", "FAILING")
  /\ AttachReconstructedFile(jobs[j].asset)
  /\ Fault("callback")

ReportFailure(j) ==
  /\ JobStep(j, "FAILING", "FAILED")
  /\ MarkReconstructionFailed(jobs[j].asset)
  /\ UNCHANGED faults

(* The report is lost, or refused because the asset is gone. *)
LoseFailure(j) ==
  /\ JobStep(j, "FAILING", "FAILED")
  /\ IF Exists(jobs[j].asset) THEN Fault("callback") ELSE UNCHANGED faults
  /\ UNCHANGED row

Boot ==
  /\ gpu = "pending" /\ gpu' = "running"
  /\ UNCHANGED <<assetVars, jobs, faults>>

Halt ==
  /\ gpu = "stopping" /\ gpu' = "stopped"
  /\ UNCHANGED <<assetVars, jobs, faults>>

(* Whatever runs on an instance that is stopped never reports. *)
StopInstance ==
  /\ gpu' = "stopping"
  /\ jobs' = [j \in DOMAIN jobs |->
                IF jobs[j].state \in Running THEN [jobs[j] EXCEPT !.state = "FAILED"]
                ELSE jobs[j]]

SendJobCommand(a) == jobs' = Append(jobs, [asset |-> a, state |-> "WORKING"])

(* A command that is cancelled is killed, before or after its exit trap *)
(* could begin to report a failure.  Without a command nothing is done. *)
CancelCommand(j) ==
  IF j # NoJob /\ jobs[j].state = "WORKING"
  THEN \E end \in {"CANCELLED", "FAILING"} : jobs' = [jobs EXCEPT ![j].state = end]
  ELSE UNCHANGED jobs

JobEnds(j) ==
  \/ FailToReconstruct(j)
  \/ Complete(j)
  \/ ReportFailure(j)
  \/ LoseFailure(j)

Gpu ==
  \/ \E j \in DOMAIN jobs : JobEnds(j) \/ LoseCompletion(j)
  \/ Boot
  \/ Halt
=============================================================================
