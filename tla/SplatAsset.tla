----------------------------- MODULE SplatAsset -----------------------------
(***************************************************************************)
(* The rows of the splat assets (3D scans of a room) as the API's handlers *)
(* see them: an upload creates a row, its owner registers it, gives it a   *)
(* file, asks for another reconstruction or deletes it.  A request that    *)
(* reads the row, stores a file and only then writes is two steps, and     *)
(* anybody may write between them.  What is kept of a row is its place in  *)
(* the life of the asset and of the reconstruction job.                    *)
(***************************************************************************)
EXTENDS Naturals, FiniteSets

CONSTANTS
  Assets,                  \* numbers, in the order the assets are created in
  MaxRequests              \* bound: requests of owners other than uploads

ASSUME AssetsAssumption == Assets \subseteq Nat
ASSUME MaxRequestsAssumption == MaxRequests \in Nat

VARIABLES
  row,                     \* SplatAsset: status, jobState, jobCommandId, jobAttempts
  edits,                   \* the requests that have read a row and not yet written it
  requests                 \* how many requests owners have made

assetVars == <<row, edits, requests>>

NoJob == 0                 \* jobCommandId = null

Statuses == {"PROCESSING", "UPLOADED", "REGISTERED", "FAILED"}
JobStates == {"NULL", "QUEUED", "GPU_STARTING", "RUNNING", "DONE", "FAILED"}

NewRow(status, jobState) ==
  [status |-> status, jobState |-> jobState, command |-> NoJob, attempts |-> 0]

Exists(a) == row[a].status \in Statuses

AssetInit ==
  /\ row = [a \in Assets |-> NewRow("ABSENT", "NULL")]
  /\ edits = {}
  /\ requests = 0

Request(a) ==
  /\ Exists(a)
  /\ requests < MaxRequests
  /\ requests' = requests + 1

(* A finished scan needs no job, a video or a capture waits for the GPU. *)
Intake(a) ==
  /\ row[a].status = "ABSENT"
  /\ \A b \in Assets : b < a => row[b].status # "ABSENT"
  /\ \E new \in {NewRow("UPLOADED", "NULL"), NewRow("PROCESSING", "QUEUED")} :
       row' = [row EXCEPT ![a] = new]
  /\ UNCHANGED <<edits, requests>>

Register(a) ==
  /\ Request(a)
  /\ row' = [row EXCEPT ![a].status = "REGISTERED"]
  /\ UNCHANGED edits

Remove(a) ==
  /\ Request(a)
  /\ row' = [row EXCEPT ![a] = NewRow("REMOVED", "NULL")]
  /\ UNCHANGED edits

AskRetry(a) ==
  /\ Request(a)
  /\ row[a].status = "FAILED"
  /\ edits' = edits \cup {[kind |-> "RETRY", asset |-> a, read |-> "FAILED"]}
  /\ UNCHANGED row

AskNewFile(a) ==
  /\ Request(a)
  /\ edits' = edits \cup {[kind |-> "FILE", asset |-> a, read |-> row[a].status]}
  /\ UNCHANGED row

(* The second step of a request is an error when the row is gone. *)
Answer(e) == e \in edits /\ edits' = edits \ {e} /\ UNCHANGED requests
Write(a, new) == row' = IF Exists(a) THEN [row EXCEPT ![a] = new] ELSE row

RequeueReconstruction(e) ==
  /\ Answer(e) /\ e.kind = "RETRY"
  /\ Write(e.asset, NewRow("PROCESSING", "QUEUED"))

(* The status written is computed from the status that was read. *)
StatusWithNewFile(read) == IF read \in {"PROCESSING", "REGISTERED"} THEN "UPLOADED" ELSE read

UpdateFile(e) ==
  /\ Answer(e) /\ e.kind = "FILE"
  /\ Write(e.asset, [row[e.asset] EXCEPT !.status = StatusWithNewFile(e.read)])

(* What the two callbacks of a reconstruction write, whatever the row says. *)
(* Faulty: the status is left to the update of the stored file. *)
AttachedJobOnly(r) == [r EXCEPT !.jobState = "DONE"]
Attached(r) == [r EXCEPT !.status = "UPLOADED", !.jobState = "DONE"]
MarkedFailed(r) == [r EXCEPT !.status = "FAILED", !.jobState = "FAILED"]

AttachReconstructedFile(a) == Exists(a) /\ Write(a, Attached(row[a]))
MarkReconstructionFailed(a) == Exists(a) /\ Write(a, MarkedFailed(row[a]))

Owner ==
  \/ \E a \in Assets :
       Intake(a) \/ Register(a) \/ Remove(a) \/ AskRetry(a) \/ AskNewFile(a)
  \/ \E e \in edits : RequeueReconstruction(e) \/ UpdateFile(e)
=============================================================================
