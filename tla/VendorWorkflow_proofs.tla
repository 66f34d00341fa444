------------------------ MODULE VendorWorkflow_proofs ------------------------
(***************************************************************************)
(* Proofs about VendorWorkflow next to direct handling, for any repairs,   *)
(* vendors and number of estimates.                                        *)
(*                                                                         *)
(* Nearly all an action does concerns one repair, and what has to hold of  *)
(* a repair is stated of that repair alone (RepairInv). So a step is shown *)
(* to leave the other repairs untouched, or cancelled while they were only *)
(* requested, and to keep RepairInv of the one it is about.                *)
(***************************************************************************)
EXTENDS DirectHandling, TLAPS

(***************************************************************************)
(* The invariant of a repair. Beyond what the runs check it says: an       *)
(* estimate is under review only while the repair is open for it, so that  *)
(* confirming a visit cannot take up a repair that has ended; what was     *)
(* approved is a price; a price the landlord bears was approved by the     *)
(* manager; and a repair that does not exist is not billed.                *)
(***************************************************************************)
NewestInForce(r) ==
  /\ \A v \in WithStatus(r, {"DRAFT", "SUBMITTED", "VISIT_SCHEDULED"}) : v = version[r]
  /\ \A v, w \in WithStatus(r, {"APPROVED"}) : v = w
SubmittedIsOpen(r) ==
  \A v \in WithStatus(r, {"SUBMITTED"}) : repair[r] \in UnderWay \union {"ESTIMATE_SUBMITTED"}
ApprovedIsPrice(r) == \A v \in WithStatus(r, {"APPROVED"}) : kind[r][v] = "FIXED_ESTIMATE"
WorkApproved(r) ==
  repair[r] \in {"ESTIMATE_APPROVED", "IN_PROGRESS", "COMPLETION_REPORTED", "COMPLETED"}
    => WithStatus(r, {"APPROVED"}) # {}
ApproverBears(r) ==
  bearer[r] = "LANDLORD" => \A v \in WithStatus(r, {"APPROVED"}) : reviewer[r][v] = "MANAGER"
BilledApproved(r) ==
  billed[r] # 0 =>
    /\ billed[r] \in WithStatus(r, {"APPROVED"})
    /\ reviewer[r][billed[r]] = IF TenantWorkflowActor(r) THEN "TENANT" ELSE "MANAGER"
    /\ repair[r] # "ABSENT"

RepairInv(r) ==
  /\ NewestInForce(r)
  /\ SubmittedIsOpen(r)
  /\ ApprovedIsPrice(r)
  /\ WorkApproved(r)
  /\ ApproverBears(r)
  /\ BilledApproved(r)

WorkflowInv == VendorWorkflowTypeOK /\ OneActiveRepair /\ \A r \in Repairs : RepairInv(r)

(***************************************************************************)
(* Types.                                                                  *)
(***************************************************************************)
(* Changing a field of one repair keeps the field's type.                  *)
LEMMA FieldSet ==
  ASSUME NEW A, NEW S, NEW f \in [A -> S], NEW a \in A, NEW x \in S
  PROVE  [f EXCEPT ![a] = x] \in [A -> S]
  OBVIOUS

(* Settling the estimates of a repair gives each of them a status.         *)
LEMMA SettleTyped ==
  ASSUME EstimateTypeOK, NEW r \in Repairs, NEW v, NEW s \in EstimateStatuses, NEW V, NEW S
  PROVE  Settle(r, v, s, V, S) \in [Versions -> EstimateStatuses]
<1>1. "SUPERSEDED" \in EstimateStatuses
  BY DEF EstimateStatuses
<1>2. \A w \in Versions : estimate[r][w] \in EstimateStatuses
  BY DEF EstimateTypeOK
<1> QED
  BY <1>1, <1>2 DEF Settle

(* What a step about repair r leaves alone.                                *)
OthersUntouched(r) ==
  \A q \in Repairs \ {r} :
    /\ repair'[q] = repair[q] /\ bearer'[q] = bearer[q] /\ tenantAsked'[q] = tenantAsked[q]
    /\ version'[q] = version[q] /\ estimate'[q] = estimate[q] /\ kind'[q] = kind[q]
    /\ reviewer'[q] = reviewer[q] /\ billed'[q] = billed[q]

(* A repair that is left alone keeps its invariant.                        *)
LEMMA UntouchedKept ==
  ASSUME NEW q, RepairInv(q),
         repair'[q] = repair[q], bearer'[q] = bearer[q], tenantAsked'[q] = tenantAsked[q],
         version'[q] = version[q], estimate'[q] = estimate[q], kind'[q] = kind[q],
         reviewer'[q] = reviewer[q], billed'[q] = billed[q]
  PROVE  RepairInv(q)'
  BY DEF RepairInv, NewestInForce, SubmittedIsOpen, ApprovedIsPrice, WorkApproved, ApproverBears,
         BilledApproved, WithStatus, TenantWorkflowActor

(* A step that keeps the vendors and brings no repair r back to life.      *)
Standing(r) == assigned' = assigned /\ vendor' = vendor /\ (repair'[r] \in Live => repair[r] \in Live)

LEMMA SubmitEstimateStep ==
  ASSUME WorkflowInv, NEW r \in Repairs, NEW v \in Versions, SubmitEstimate(r, v)
  PROVE  VendorWorkflowTypeOK' /\ OthersUntouched(r) /\ Standing(r) /\ RepairInv(r)'
<1> USE DEF WorkflowInv, VendorWorkflowTypeOK
<1> DEFINE row == Settle(r, v, "SUBMITTED", 1..v, {"REVISION_REQUESTED"})
<1>1. row \in [Versions -> EstimateStatuses]
  <2>1. "SUBMITTED" \in EstimateStatuses
    BY DEF EstimateStatuses, Pending
  <2> QED
    BY <2>1, SettleTyped
<1>2. estimate' = [estimate EXCEPT ![r] = row]
  BY DEF SubmitEstimate, SetEstimates
<1>3. \A w \in Versions : \/ w = v /\ row[w] = "SUBMITTED"
                          \/ w # v /\ row[w] = estimate[r][w]
                          \/ w # v /\ row[w] = "SUPERSEDED" /\ estimate[r][w] = "REVISION_REQUESTED"
  BY DEF Settle
<1>4. estimate'[r] = row
  BY <1>2 DEF EstimateTypeOK
<1> HIDE DEF row
<1>5. VendorWorkflowTypeOK'
  <2>1. TicketTypeOK'
    BY DEF SubmitEstimate, TicketTypeOK, TicketStatuses
  <2>2. RepairTypeOK'
    BY DEF SubmitEstimate, RepairTypeOK, Move, RepairStatuses, Live
  <2>3. EstimateTypeOK'
    BY <1>1, <1>2, <1>3 DEF SubmitEstimate, EstimateTypeOK
  <2> QED
    BY <2>1, <2>2, <2>3
<1>6. OthersUntouched(r)
  BY <1>2 DEF SubmitEstimate, OthersUntouched, EstimateTypeOK, RepairTypeOK, Move
<1>7. Standing(r)
  BY DEF SubmitEstimate, Standing, RepairTypeOK, Move
<1>8. RepairInv(r)'
  <2> USE <1>3, <1>4 DEF RepairInv, WithStatus, SubmitEstimate
  <2>1. NewestInForce(r)'
    BY DEF NewestInForce
  <2>2. SubmittedIsOpen(r)'
    BY DEF SubmittedIsOpen, Move, RepairTypeOK
  <2>3. ApprovedIsPrice(r)'
    BY DEF ApprovedIsPrice
  <2>4. WorkApproved(r)'
    <3> SUFFICES ASSUME repair'[r] \in {"ESTIMATE_APPROVED", "IN_PROGRESS",
                                        "COMPLETION_REPORTED", "COMPLETED"}
                 PROVE  WithStatus(r, {"APPROVED"})' # {}
      BY DEF WorkApproved
    <3>1. repair'[r] = repair[r]
      BY DEF Move, RepairTypeOK
    <3>2. PICK w \in Versions : estimate[r][w] = "APPROVED"
      BY <3>1 DEF WorkApproved
    <3>3. estimate'[r][w] = "APPROVED"
      BY <3>2
    <3> QED
      BY <3>3
  <2>5. ApproverBears(r)'
    BY DEF ApproverBears
  <2>6. BilledApproved(r)'
    BY DEF BilledApproved, NoPaymentRequest
  <2> QED
    BY <2>1, <2>2, <2>3, <2>4, <2>5, <2>6
<1> QED
  BY <1>5, <1>6, <1>7, <1>8

LEMMA DeclineJobStep ==
  ASSUME WorkflowInv, NEW r \in Repairs, NEW v \in Versions, DeclineJob(r, v)
  PROVE  VendorWorkflowTypeOK' /\ OthersUntouched(r) /\ RepairInv(r)'
<1> USE DEF WorkflowInv, VendorWorkflowTypeOK
<1> DEFINE settled == Settle(r, v, "DECLINED", 1..v, {"REVISION_REQUESTED"})
           row == [w \in Versions |-> IF settled[w] = "APPROVED" THEN "SUPERSEDED" ELSE settled[w]]
<1>1. row \in [Versions -> EstimateStatuses \ {"APPROVED"}]
  <2>1. "DECLINED" \in EstimateStatuses /\ "SUPERSEDED" \in EstimateStatuses
    BY DEF EstimateStatuses, Pending
  <2>2. settled \in [Versions -> EstimateStatuses]
    BY <2>1, SettleTyped
  <2> QED
    BY <2>1, <2>2
<1>2. estimate' = [estimate EXCEPT ![r] = row]
  BY DEF DeclineJob, SetEstimates
<1>3. \A w \in Versions : \/ w = v /\ row[w] = "DECLINED"
                          \/ w # v /\ row[w] = estimate[r][w]
                          \/ w # v /\ row[w] = "SUPERSEDED"
                                   /\ estimate[r][w] \in {"REVISION_REQUESTED", "APPROVED"}
  BY DEF Settle
<1>4. estimate'[r] = row
  BY <1>2 DEF EstimateTypeOK
<1> HIDE DEF row
<1>5. VendorWorkflowTypeOK'
  <2>1. TicketTypeOK'
    BY DEF DeclineJob, TicketTypeOK, TicketStatuses, ComplaintStatuses, MoveTicket
  <2>2. RepairTypeOK'
    BY DEF DeclineJob, RepairTypeOK, Move, RepairStatuses, Closed
  <2>3. EstimateTypeOK'
    BY <1>1, <1>2, <1>3 DEF DeclineJob, EstimateTypeOK
  <2> QED
    BY <2>1, <2>2, <2>3
<1>6. OthersUntouched(r)
  BY <1>2 DEF DeclineJob, OthersUntouched, EstimateTypeOK, RepairTypeOK, Move
<1>7. RepairInv(r)'
  <2> USE <1>3, <1>4 DEF RepairInv, WithStatus, DeclineJob
  <2>1. NewestInForce(r)'
    BY DEF NewestInForce
  <2>2. SubmittedIsOpen(r)'
    BY DEF SubmittedIsOpen, NewestInForce
  <2>3. ApprovedIsPrice(r)'
    BY DEF ApprovedIsPrice
  <2>4. WorkApproved(r)'
    BY DEF WorkApproved, Move, RepairTypeOK
  <2>5. ApproverBears(r)'
    BY DEF ApproverBears, RepairTypeOK
  <2>6. BilledApproved(r)'
    BY DEF BilledApproved, NoPaymentRequest
  <2> QED
    BY <2>1, <2>2, <2>3, <2>4, <2>5, <2>6
<1> QED
  BY <1>5, <1>6, <1>7

(* What restoring the repair sets, whichever of its branches is taken.     *)
LEMMA RestoreEffect ==
  ASSUME VendorWorkflowTypeOK, NEW r \in Repairs, NEW v \in Versions,
         repair[r] \in Live, RestoreAfterEstimateExit(r, v)
  PROVE  /\ repair' \in [Repairs -> RepairStatuses] /\ bearer' \in [Repairs -> Bearers \union {"NONE"}]
         /\ ticket' \in TicketStatuses /\ complaint' \in ComplaintStatuses
         /\ \A q \in Repairs \ {r} : repair'[q] = repair[q] /\ bearer'[q] = bearer[q]
         /\ \/ repair[r] \in UnderWay /\ repair'[r] = repair[r] /\ bearer'[r] = bearer[r]
            \/ /\ WithStatus(r, {"APPROVED"}) \ {v} # {}
               /\ repair'[r] = "ESTIMATE_APPROVED" /\ bearer'[r] = bearer[r]
            \/ repair'[r] = "REQUESTED" /\ bearer'[r] = "NONE"
<1> USE DEF VendorWorkflowTypeOK, RepairTypeOK, TicketTypeOK
<1>1. CASE repair[r] \in UnderWay
  BY <1>1 DEF RestoreAfterEstimateExit
<1>2. CASE repair[r] \notin UnderWay
  BY <1>2 DEF RestoreAfterEstimateExit, Move, MoveTicket, RepairStatuses, Live, TicketStatuses,
              ComplaintStatuses
<1> QED
  BY <1>1, <1>2

LEMMA WithdrawEstimateStep ==
  ASSUME WorkflowInv, NEW r \in Repairs, NEW v \in Versions, WithdrawEstimate(r, v)
  PROVE  VendorWorkflowTypeOK' /\ OthersUntouched(r) /\ Standing(r) /\ RepairInv(r)'
<1> USE DEF WorkflowInv, VendorWorkflowTypeOK
<1>1. /\ estimate' \in [Repairs -> [Versions -> EstimateStatuses]]
      /\ estimate'[r][v] = "WITHDRAWN"
      /\ \A w \in Versions \ {v} : estimate'[r][w] = estimate[r][w]
      /\ \A q \in Repairs \ {r} : estimate'[q] = estimate[q]
  BY DEF WithdrawEstimate, EstimateTypeOK, EstimateStatuses
<1>2. /\ repair' \in [Repairs -> RepairStatuses] /\ bearer' \in [Repairs -> Bearers \union {"NONE"}]
      /\ ticket' \in TicketStatuses /\ complaint' \in ComplaintStatuses
      /\ \A q \in Repairs \ {r} : repair'[q] = repair[q] /\ bearer'[q] = bearer[q]
      /\ \/ repair'[r] = repair[r] /\ bearer'[r] = bearer[r] /\ repair[r] # "ESTIMATE_SUBMITTED"
         \/ /\ repair[r] = "ESTIMATE_SUBMITTED"
            /\ \/ /\ WithStatus(r, {"APPROVED"}) \ {v} # {}
                  /\ repair'[r] = "ESTIMATE_APPROVED" /\ bearer'[r] = bearer[r]
               \/ repair'[r] = "REQUESTED" /\ bearer'[r] = "NONE"
  <2>1. CASE repair[r] = "ESTIMATE_SUBMITTED"
    <3>1. repair[r] \in Live /\ repair[r] \notin UnderWay /\ RestoreAfterEstimateExit(r, v)
      BY <2>1 DEF WithdrawEstimate, Live, UnderWay
    <3> QED
      BY <2>1, <3>1, RestoreEffect
  <2>2. CASE repair[r] # "ESTIMATE_SUBMITTED"
    BY <2>2 DEF WithdrawEstimate, RepairTypeOK, TicketTypeOK
  <2> QED
    BY <2>1, <2>2
<1>3. VendorWorkflowTypeOK'
  <2>1. TicketTypeOK' /\ RepairTypeOK'
    BY <1>2 DEF WithdrawEstimate, TicketTypeOK, RepairTypeOK
  <2>2. EstimateTypeOK'
    BY <1>1 DEF WithdrawEstimate, EstimateTypeOK
  <2> QED
    BY <2>1, <2>2
<1>4. OthersUntouched(r)
  BY <1>1, <1>2 DEF WithdrawEstimate, OthersUntouched
<1>5. Standing(r)
  BY <1>2 DEF WithdrawEstimate, Standing, Live
<1>6. RepairInv(r)'
  <2> USE <1>1 DEF RepairInv, WithStatus, WithdrawEstimate
  <2>1. NewestInForce(r)'
    BY DEF NewestInForce
  <2>2. SubmittedIsOpen(r)'
    BY <1>2 DEF SubmittedIsOpen, NewestInForce
  <2>3. ApprovedIsPrice(r)'
    BY DEF ApprovedIsPrice
  <2>4. WorkApproved(r)'
    BY <1>2 DEF WorkApproved
  <2>5. ApproverBears(r)'
    BY <1>2 DEF ApproverBears
  <2>6. BilledApproved(r)'
    BY DEF BilledApproved, NoPaymentRequest
  <2> QED
    BY <2>1, <2>2, <2>3, <2>4, <2>5, <2>6
<1> QED
  BY <1>3, <1>4, <1>5, <1>6

LEMMA SaveEstimateDraftStep ==
  ASSUME WorkflowInv, NEW r \in Repairs, NEW k \in Kinds, SaveEstimateDraft(r, k)
  PROVE  VendorWorkflowTypeOK' /\ OthersUntouched(r) /\ Standing(r) /\ RepairInv(r)'
<1> USE MaxEstimatesAssumption DEF WorkflowInv, VendorWorkflowTypeOK
<1> DEFINE old == version[r]
<1>0. old \in 0..MaxEstimates
  BY DEF EstimateTypeOK
<1>1. CASE /\ old > 0 /\ estimate[r][old] = "DRAFT"
           /\ kind' = [kind EXCEPT ![r][old] = k]
           /\ UNCHANGED <<version, estimate>>
  <2>1. old \in Versions
    BY <1>0, <1>1 DEF Versions
  <2>2. /\ kind' \in [Repairs -> [Versions -> Kinds \union {"NONE"}]]
        /\ \A w \in Versions \ {old} : kind'[r][w] = kind[r][w]
        /\ \A q \in Repairs \ {r} : kind'[q] = kind[q]
    BY <1>1, <2>1 DEF EstimateTypeOK
  <2>3. VendorWorkflowTypeOK'
    BY <1>1, <2>2 DEF SaveEstimateDraft, ticketVars, TicketTypeOK, RepairTypeOK, EstimateTypeOK
  <2>4. OthersUntouched(r) /\ Standing(r)
    BY <1>1, <2>2 DEF SaveEstimateDraft, ticketVars, OthersUntouched, Standing
  <2>5. ApprovedIsPrice(r)'
    BY <1>1, <2>2 DEF RepairInv, ApprovedIsPrice, WithStatus
  <2>6. RepairInv(r)'
    BY <1>1, <2>5 DEF SaveEstimateDraft, RepairInv, NewestInForce, SubmittedIsOpen, WorkApproved,
                      ApproverBears, BilledApproved, WithStatus, TenantWorkflowActor
  <2> QED
    BY <2>3, <2>4, <2>6
<1> DEFINE row == Settle(r, old + 1, "DRAFT", {old}, {"VISIT_SCHEDULED", "REJECTED"})
<1>2. CASE /\ old < MaxEstimates
           /\ old > 0 => estimate[r][old] \notin {"DRAFT", "SUBMITTED"}
           /\ version' = [version EXCEPT ![r] = old + 1]
           /\ SetEstimates(r, row)
           /\ kind' = [kind EXCEPT ![r][old + 1] = k]
  <2>1. old + 1 \in Versions
    BY <1>0, <1>2 DEF Versions
  <2>2. row \in [Versions -> EstimateStatuses]
    <3>1. "DRAFT" \in EstimateStatuses
      BY DEF EstimateStatuses, Pending
    <3> QED
      BY <3>1, SettleTyped
  <2>3. estimate' = [estimate EXCEPT ![r] = row]
    BY <1>2 DEF SetEstimates
  <2>4. \A w \in Versions : \/ w = old + 1 /\ row[w] = "DRAFT"
                            \/ w # old + 1 /\ row[w] = estimate[r][w]
                                 /\ ~(w = old /\ estimate[r][w] = "VISIT_SCHEDULED")
                            \/ w # old + 1 /\ w = old /\ row[w] = "SUPERSEDED"
                                 /\ estimate[r][w] \in {"VISIT_SCHEDULED", "REJECTED"}
    BY DEF Settle
  <2>5. estimate'[r] = row
    BY <2>3 DEF EstimateTypeOK
  <2> HIDE DEF row
  <2>6. /\ kind' \in [Repairs -> [Versions -> Kinds \union {"NONE"}]]
        /\ \A w \in Versions \ {old + 1} : kind'[r][w] = kind[r][w]
        /\ \A q \in Repairs \ {r} : kind'[q] = kind[q]
    BY <1>2, <2>1 DEF EstimateTypeOK
  <2>7. /\ version' \in [Repairs -> 0..MaxEstimates] /\ version'[r] = old + 1
        /\ \A q \in Repairs \ {r} : version'[q] = version[q]
    BY <1>0, <1>2 DEF EstimateTypeOK
  <2>8. VendorWorkflowTypeOK'
    <3>1. TicketTypeOK' /\ RepairTypeOK'
      BY DEF SaveEstimateDraft, ticketVars, TicketTypeOK, RepairTypeOK
    <3>2. \A w \in Versions : row[w] = "NONE" <=> w > old + 1
      BY <1>0, <2>4 DEF EstimateTypeOK, Versions
    <3>3. EstimateTypeOK'
      BY <2>2, <2>3, <2>5, <2>6, <2>7, <3>2 DEF SaveEstimateDraft, EstimateTypeOK
    <3> QED
      BY <3>1, <3>3
  <2>9. OthersUntouched(r) /\ Standing(r)
    BY <2>3, <2>6, <2>7 DEF SaveEstimateDraft, ticketVars, OthersUntouched, Standing, EstimateTypeOK
  <2>10. RepairInv(r)'
    <3> USE <2>4, <2>5 DEF RepairInv, WithStatus, SaveEstimateDraft
    <3>1. NewestInForce(r)'
      <4>1. \A w \in Versions : row[w] \in {"DRAFT", "SUBMITTED", "VISIT_SCHEDULED"} => w = old + 1
        <5> TAKE w \in Versions
        <5>1. CASE row[w] = estimate[r][w] /\ w # old + 1
          BY <1>0, <1>2, <5>1 DEF NewestInForce, Versions
        <5> QED
          BY <5>1
      <4> QED
        BY <2>7, <4>1 DEF NewestInForce
    <3>2. SubmittedIsOpen(r)'
      BY DEF SubmittedIsOpen
    <3>3. ApprovedIsPrice(r)'
      BY <2>6 DEF ApprovedIsPrice
    <3>4. WorkApproved(r)'
      <4>1. estimate[r][old + 1] = "NONE"
        BY <1>0, <2>1 DEF EstimateTypeOK
      <4>2. \A w \in WithStatus(r, {"APPROVED"}) : row[w] = "APPROVED"
        BY <4>1
      <4>3. repair' = repair /\ WorkApproved(r)
        OBVIOUS
      <4> QED
        BY <4>2, <4>3 DEF WorkApproved
    <3>5. ApproverBears(r)'
      BY DEF ApproverBears
    <3>6. BilledApproved(r)'
      BY DEF BilledApproved, NoPaymentRequest
    <3> QED
      BY <3>1, <3>2, <3>3, <3>4, <3>5, <3>6
  <2> QED
    BY <2>8, <2>9, <2>10
<1> QED
  BY <1>1, <1>2 DEF SaveEstimateDraft

(***************************************************************************)
(* Reviews.                                                                *)
(***************************************************************************)
(* What the reviewer and the status of one estimate are set to.            *)
LEMMA ReviewEffect ==
  ASSUME VendorWorkflowTypeOK, NEW r \in Repairs, NEW v \in Versions,
         NEW who \in {"MANAGER", "TENANT"}, reviewer' = [reviewer EXCEPT ![r][v] = who]
  PROVE  /\ reviewer' \in [Repairs -> [Versions -> {"NONE", "MANAGER", "TENANT"}]]
         /\ reviewer'[r][v] = who
         /\ \A w \in Versions \ {v} : reviewer'[r][w] = reviewer[r][w]
         /\ \A q \in Repairs \ {r} : reviewer'[q] = reviewer[q]
  BY DEF VendorWorkflowTypeOK, EstimateTypeOK
LEMMA ReviewedEffect ==
  ASSUME VendorWorkflowTypeOK, NEW r \in Repairs, NEW v \in Versions,
         NEW s \in EstimateStatuses, estimate' = [estimate EXCEPT ![r][v] = s]
  PROVE  /\ estimate' \in [Repairs -> [Versions -> EstimateStatuses]]
         /\ estimate'[r][v] = s
         /\ \A w \in Versions \ {v} : estimate'[r][w] = estimate[r][w]
         /\ \A q \in Repairs \ {r} : estimate'[q] = estimate[q]
  BY DEF VendorWorkflowTypeOK, EstimateTypeOK
(* An approval leaves no other estimate approved.                          *)
LEMMA ApproveEffect ==
  ASSUME VendorWorkflowTypeOK, NEW r \in Repairs, NEW v \in Versions, Approve(r, v)
  PROVE  /\ estimate' \in [Repairs -> [Versions -> EstimateStatuses]]
         /\ estimate'[r][v] = "APPROVED"
         /\ \A w \in Versions \ {v} :
              \/ estimate'[r][w] = estimate[r][w] /\ estimate[r][w] # "APPROVED"
              \/ estimate'[r][w] = "SUPERSEDED" /\ estimate[r][w] = "APPROVED"
         /\ \A q \in Repairs \ {r} : estimate'[q] = estimate[q]
<1> USE DEF VendorWorkflowTypeOK
<1> DEFINE row == Settle(r, v, "APPROVED", Versions, {"APPROVED"})
<1>1. row \in [Versions -> EstimateStatuses]
  <2>1. "APPROVED" \in EstimateStatuses
    BY DEF EstimateStatuses
  <2> QED
    BY <2>1, SettleTyped
<1>2. estimate' = [estimate EXCEPT ![r] = row]
  BY DEF Approve, SetEstimates
<1>3. row[v] = "APPROVED" /\ \A w \in Versions \ {v} :
        \/ row[w] = estimate[r][w] /\ estimate[r][w] # "APPROVED"
        \/ row[w] = "SUPERSEDED" /\ estimate[r][w] = "APPROVED"
  BY DEF Settle
<1>4. estimate'[r] = row
  BY <1>2 DEF EstimateTypeOK
<1> HIDE DEF row
<1> QED
  BY <1>1, <1>2, <1>3, <1>4 DEF EstimateTypeOK

(* A review creates no version and removes none.                           *)
LEMMA ReviewedTyped ==
  ASSUME EstimateTypeOK, NEW r \in Repairs, version' = version, kind' = kind,
         estimate' \in [Repairs -> [Versions -> EstimateStatuses]],
         reviewer' \in [Repairs -> [Versions -> {"NONE", "MANAGER", "TENANT"}]],
         \A q \in Repairs \ {r} : estimate'[q] = estimate[q],
         \A w \in Versions : estimate'[r][w] = "NONE" <=> estimate[r][w] = "NONE"
  PROVE  EstimateTypeOK'
<1>1. \A q \in Repairs, w \in Versions : estimate'[q][w] = "NONE" <=> w > version'[q]
  <2> TAKE q \in Repairs, w \in Versions
  <2>1. estimate[q][w] = "NONE" <=> w > version'[q]
    BY DEF EstimateTypeOK
  <2>2. estimate'[q][w] = "NONE" <=> estimate[q][w] = "NONE"
    OBVIOUS
  <2> QED
    BY <2>1, <2>2
<1> QED
  BY <1>1 DEF EstimateTypeOK

(* Whoever approves: the estimate under review was the newest one, so no   *)
(* other is under review beside the approval.                              *)
LEMMA ApprovalKept ==
  ASSUME WorkflowInv, NEW r \in Repairs, NEW v \in Versions, NEW who \in {"MANAGER", "TENANT"},
         Review(r, v, who), Approve(r, v),
         repair'[r] \in UnderWay \union {"ESTIMATE_APPROVED"},
         bearer'[r] = "LANDLORD" => who = "MANAGER"
  PROVE  RepairInv(r)'
<1> USE DEF WorkflowInv, VendorWorkflowTypeOK, WithStatus
<1>1. /\ estimate'[r][v] = "APPROVED"
      /\ \A w \in Versions \ {v} :
           \/ estimate'[r][w] = estimate[r][w] /\ estimate[r][w] # "APPROVED"
           \/ estimate'[r][w] = "SUPERSEDED" /\ estimate[r][w] = "APPROVED"
  BY ApproveEffect
<1>2. reviewer'[r][v] = who
  BY ReviewEffect DEF Review
<1>3. /\ version' = version /\ kind' = kind /\ billed' = billed /\ tenantAsked' = tenantAsked
      /\ estimate[r][v] = "SUBMITTED" /\ kind[r][v] = "FIXED_ESTIMATE" /\ billed[r] = 0
  BY DEF Review, Approve, NoPaymentRequest
<1>4. NewestInForce(r)
  BY DEF RepairInv
<1>5. NewestInForce(r)'
  BY <1>1, <1>3, <1>4 DEF NewestInForce
<1>6. SubmittedIsOpen(r)'
  <2>1. WithStatus(r, {"SUBMITTED"})' = {}
    BY <1>1, <1>3, <1>4 DEF NewestInForce
  <2> QED
    BY <2>1 DEF SubmittedIsOpen
<1>7. ApprovedIsPrice(r)'
  BY <1>1, <1>3 DEF ApprovedIsPrice
<1>8. WorkApproved(r)'
  BY <1>1 DEF WorkApproved
<1>9. ApproverBears(r)'
  BY <1>1, <1>2 DEF ApproverBears
<1>10. BilledApproved(r)'
  BY <1>3 DEF BilledApproved
<1> QED
  BY <1>5, <1>6, <1>7, <1>8, <1>9, <1>10 DEF RepairInv

LEMMA RevisionStep ==
  ASSUME WorkflowInv, NEW r \in Repairs, NEW v \in Versions, NEW who \in {"MANAGER", "TENANT"},
         Review(r, v, who), RequestRevision(r, v)
  PROVE  VendorWorkflowTypeOK' /\ OthersUntouched(r) /\ Standing(r) /\ RepairInv(r)'
<1> USE DEF WorkflowInv, VendorWorkflowTypeOK
<1>1. /\ estimate' \in [Repairs -> [Versions -> EstimateStatuses]]
      /\ estimate'[r][v] = "REVISION_REQUESTED"
      /\ \A w \in Versions \ {v} : estimate'[r][w] = estimate[r][w]
      /\ \A q \in Repairs \ {r} : estimate'[q] = estimate[q]
  <2>1. "REVISION_REQUESTED" \in EstimateStatuses
    BY DEF EstimateStatuses, Pending
  <2> QED
    BY <2>1, ReviewedEffect DEF RequestRevision
<1>2. /\ reviewer' \in [Repairs -> [Versions -> {"NONE", "MANAGER", "TENANT"}]]
      /\ \A w \in Versions \ {v} : reviewer'[r][w] = reviewer[r][w]
      /\ \A q \in Repairs \ {r} : reviewer'[q] = reviewer[q]
  BY ReviewEffect DEF Review
<1>3. VendorWorkflowTypeOK'
  <2>1. TicketTypeOK' /\ RepairTypeOK'
    BY DEF Review, RequestRevision, TicketTypeOK, RepairTypeOK
  <2>2. \A w \in Versions : estimate'[r][w] = "NONE" <=> estimate[r][w] = "NONE"
    BY <1>1 DEF Review
  <2>3. EstimateTypeOK'
    BY <1>1, <1>2, <2>2, ReviewedTyped DEF Review
  <2> QED
    BY <2>1, <2>3
<1>4. OthersUntouched(r) /\ Standing(r)
  BY <1>1, <1>2 DEF Review, RequestRevision, OthersUntouched, Standing
<1>5. RepairInv(r)'
  <2> USE <1>1, <1>2 DEF RepairInv, WithStatus, Review, RequestRevision
  <2>1. NewestInForce(r)'
    BY DEF NewestInForce
  <2>2. SubmittedIsOpen(r)'
    BY DEF SubmittedIsOpen
  <2>3. ApprovedIsPrice(r)'
    BY DEF ApprovedIsPrice
  <2>4. WorkApproved(r)'
    BY DEF WorkApproved
  <2>5. ApproverBears(r)'
    BY DEF ApproverBears
  <2>6. BilledApproved(r)'
    BY DEF BilledApproved, NoPaymentRequest
  <2> QED
    BY <2>1, <2>2, <2>3, <2>4, <2>5, <2>6
<1> QED
  BY <1>3, <1>4, <1>5

(* What the approval leaves besides the invariant of the repair.           *)
LEMMA ApprovalFrame ==
  ASSUME WorkflowInv, NEW r \in Repairs, NEW v \in Versions, NEW who \in {"MANAGER", "TENANT"},
         Review(r, v, who), Approve(r, v),
         NEW b \in Bearers, bearer' = [bearer EXCEPT ![r] = b],
         repair' = repair \/ Move(r, "ESTIMATE_APPROVED")
  PROVE  VendorWorkflowTypeOK' /\ OthersUntouched(r) /\ Standing(r)
<1> USE DEF WorkflowInv, VendorWorkflowTypeOK
<1>1. /\ estimate' \in [Repairs -> [Versions -> EstimateStatuses]]
      /\ estimate'[r][v] = "APPROVED"
      /\ \A w \in Versions \ {v} :
           \/ estimate'[r][w] = estimate[r][w] /\ estimate[r][w] # "APPROVED"
           \/ estimate'[r][w] = "SUPERSEDED" /\ estimate[r][w] = "APPROVED"
      /\ \A q \in Repairs \ {r} : estimate'[q] = estimate[q]
  BY ApproveEffect
<1>2. /\ reviewer' \in [Repairs -> [Versions -> {"NONE", "MANAGER", "TENANT"}]]
      /\ \A q \in Repairs \ {r} : reviewer'[q] = reviewer[q]
  BY ReviewEffect DEF Review
<1>3. /\ repair' \in [Repairs -> RepairStatuses]
      /\ \A q \in Repairs \ {r} : repair'[q] = repair[q]
  BY DEF Move, RepairTypeOK, RepairStatuses, Live
<1>4. TicketTypeOK' /\ RepairTypeOK'
  BY <1>3 DEF Review, Approve, TicketTypeOK, RepairTypeOK
<1>5. \A w \in Versions : estimate'[r][w] = "NONE" <=> estimate[r][w] = "NONE"
  BY <1>1 DEF Review
<1>6. EstimateTypeOK'
  BY <1>1, <1>2, <1>5, ReviewedTyped DEF Review
<1>7. OthersUntouched(r)
  BY <1>1, <1>2, <1>3 DEF Review, RepairTypeOK, OthersUntouched
<1>8. Standing(r)
  BY DEF Review, Standing
<1> QED
  BY <1>4, <1>6, <1>7, <1>8

LEMMA RejectStep ==
  ASSUME WorkflowInv, NEW r \in Repairs, NEW v \in Versions, Review(r, v, "MANAGER"),
         estimate' = [estimate EXCEPT ![r][v] = "REJECTED"], RestoreAfterEstimateExit(r, v)
  PROVE  VendorWorkflowTypeOK' /\ OthersUntouched(r) /\ Standing(r) /\ RepairInv(r)'
<1> USE DEF WorkflowInv, VendorWorkflowTypeOK
<1>1. /\ estimate' \in [Repairs -> [Versions -> EstimateStatuses]]
      /\ estimate'[r][v] = "REJECTED"
      /\ \A w \in Versions \ {v} : estimate'[r][w] = estimate[r][w]
      /\ \A q \in Repairs \ {r} : estimate'[q] = estimate[q]
  <2>1. "REJECTED" \in EstimateStatuses
    BY DEF EstimateStatuses
  <2> QED
    BY <2>1, ReviewedEffect
<1>2. /\ reviewer' \in [Repairs -> [Versions -> {"NONE", "MANAGER", "TENANT"}]]
      /\ \A w \in Versions \ {v} : reviewer'[r][w] = reviewer[r][w]
      /\ \A q \in Repairs \ {r} : reviewer'[q] = reviewer[q]
  BY ReviewEffect DEF Review
<1>3. /\ repair' \in [Repairs -> RepairStatuses] /\ bearer' \in [Repairs -> Bearers \union {"NONE"}]
      /\ ticket' \in TicketStatuses /\ complaint' \in ComplaintStatuses
      /\ \A q \in Repairs \ {r} : repair'[q] = repair[q] /\ bearer'[q] = bearer[q]
      /\ \/ repair[r] \in UnderWay /\ repair'[r] = repair[r] /\ bearer'[r] = bearer[r]
         \/ /\ WithStatus(r, {"APPROVED"}) \ {v} # {}
            /\ repair'[r] = "ESTIMATE_APPROVED" /\ bearer'[r] = bearer[r]
         \/ repair'[r] = "REQUESTED" /\ bearer'[r] = "NONE"
  BY RestoreEffect DEF Review
<1>4. VendorWorkflowTypeOK'
  <2>1. TicketTypeOK' /\ RepairTypeOK'
    BY <1>3 DEF Review, TicketTypeOK, RepairTypeOK
  <2>2. \A w \in Versions : estimate'[r][w] = "NONE" <=> estimate[r][w] = "NONE"
    BY <1>1 DEF Review
  <2>3. EstimateTypeOK'
    BY <1>1, <1>2, <2>2, ReviewedTyped DEF Review
  <2> QED
    BY <2>1, <2>3
<1>5. OthersUntouched(r) /\ Standing(r)
  BY <1>1, <1>2, <1>3 DEF Review, OthersUntouched, Standing
<1>6. RepairInv(r)'
  <2> USE <1>1, <1>2 DEF RepairInv, WithStatus, Review
  <2>1. NewestInForce(r)'
    BY DEF NewestInForce
  <2>2. SubmittedIsOpen(r)'
    BY <1>3 DEF SubmittedIsOpen, NewestInForce
  <2>3. ApprovedIsPrice(r)'
    BY DEF ApprovedIsPrice
  <2>4. WorkApproved(r)'
    BY <1>3 DEF WorkApproved
  <2>5. ApproverBears(r)'
    BY <1>3 DEF ApproverBears
  <2>6. BilledApproved(r)'
    BY DEF BilledApproved, NoPaymentRequest
  <2> QED
    BY <2>1, <2>2, <2>3, <2>4, <2>5, <2>6
<1> QED
  BY <1>4, <1>5, <1>6

LEMMA ReviewEstimateStep ==
  ASSUME WorkflowInv, NEW r \in Repairs, NEW v \in Versions, ReviewEstimate(r, v)
  PROVE  VendorWorkflowTypeOK' /\ OthersUntouched(r) /\ Standing(r) /\ RepairInv(r)'
<1>1. Review(r, v, "MANAGER")
  BY DEF ReviewEstimate
<1>2. CASE /\ Approve(r, v)
           /\ \E b \in Bearers : bearer' = [bearer EXCEPT ![r] = b]
           /\ IF repair[r] \in UnderWay THEN UNCHANGED repair ELSE Move(r, "ESTIMATE_APPROVED")
  <2>1. repair' = repair \/ Move(r, "ESTIMATE_APPROVED")
    BY <1>2
  <2>2. repair'[r] \in UnderWay \union {"ESTIMATE_APPROVED"}
    BY <1>2 DEF Move, WorkflowInv, VendorWorkflowTypeOK, RepairTypeOK
  <2>3. VendorWorkflowTypeOK' /\ OthersUntouched(r) /\ Standing(r)
    BY <1>1, <1>2, <2>1, ApprovalFrame
  <2>4. RepairInv(r)'
    BY <1>1, <1>2, <2>2, ApprovalKept
  <2> QED
    BY <2>3, <2>4
<1>3. CASE RequestRevision(r, v)
  BY <1>1, <1>3, RevisionStep
<1>4. CASE estimate' = [estimate EXCEPT ![r][v] = "REJECTED"] /\ RestoreAfterEstimateExit(r, v)
  BY <1>1, <1>4, RejectStep
<1> QED
  BY <1>2, <1>3, <1>4 DEF ReviewEstimate

LEMMA ReviewTenantEstimateStep ==
  ASSUME WorkflowInv, NEW r \in Repairs, NEW v \in Versions, ReviewTenantEstimate(r, v)
  PROVE  VendorWorkflowTypeOK' /\ OthersUntouched(r) /\ Standing(r) /\ RepairInv(r)'
<1>1. Review(r, v, "TENANT")
  BY DEF ReviewTenantEstimate
<1>2. CASE /\ Approve(r, v)
           /\ Move(r, "ESTIMATE_APPROVED")
           /\ bearer' = [bearer EXCEPT ![r] = "TENANT"]
  <2>1. repair'[r] = "ESTIMATE_APPROVED" /\ bearer'[r] = "TENANT" /\ "TENANT" \in Bearers
    BY <1>2 DEF Move, Bearers, WorkflowInv, VendorWorkflowTypeOK, RepairTypeOK
  <2>2. VendorWorkflowTypeOK' /\ OthersUntouched(r) /\ Standing(r)
    BY <1>1, <1>2, <2>1, ApprovalFrame
  <2>3. RepairInv(r)'
    BY <1>1, <1>2, <2>1, ApprovalKept
  <2> QED
    BY <2>2, <2>3
<1>3. CASE RequestRevision(r, v)
  BY <1>1, <1>3, RevisionStep
<1> QED
  BY <1>2, <1>3 DEF ReviewTenantEstimate

(* A visit can be confirmed of a repair whatever its status, but an        *)
(* estimate is under review only while the repair is open.                 *)
LEMMA ConfirmVisitStep ==
  ASSUME WorkflowInv, NEW r \in Repairs, NEW v \in Versions, NEW who \in {"MANAGER", "TENANT"},
         ConfirmVisit(r, v, who)
  PROVE  VendorWorkflowTypeOK' /\ OthersUntouched(r) /\ Standing(r) /\ RepairInv(r)'
<1> USE DEF WorkflowInv, VendorWorkflowTypeOK
<1>1. /\ estimate' \in [Repairs -> [Versions -> EstimateStatuses]]
      /\ estimate'[r][v] = "VISIT_SCHEDULED"
      /\ \A w \in Versions \ {v} : estimate'[r][w] = estimate[r][w]
      /\ \A q \in Repairs \ {r} : estimate'[q] = estimate[q]
  <2>1. "VISIT_SCHEDULED" \in EstimateStatuses
    BY DEF EstimateStatuses, Pending
  <2>2. VendorWorkflowTypeOK /\ estimate' = [estimate EXCEPT ![r][v] = "VISIT_SCHEDULED"]
    BY DEF ConfirmVisit
  <2> HIDE DEF WorkflowInv, VendorWorkflowTypeOK
  <2> QED
    BY <2>1, <2>2, ReviewedEffect
<1>2. /\ reviewer' \in [Repairs -> [Versions -> {"NONE", "MANAGER", "TENANT"}]]
      /\ \A w \in Versions \ {v} : reviewer'[r][w] = reviewer[r][w]
      /\ \A q \in Repairs \ {r} : reviewer'[q] = reviewer[q]
  BY ReviewEffect DEF ConfirmVisit
<1>3. repair[r] \in UnderWay \union {"ESTIMATE_SUBMITTED"}
  BY DEF RepairInv, SubmittedIsOpen, WithStatus, ConfirmVisit
<1>4. repair'[r] = "SCHEDULED" /\ \A q \in Repairs \ {r} : repair'[q] = repair[q]
  BY DEF ConfirmVisit, Move, RepairTypeOK
<1>5. VendorWorkflowTypeOK'
  <2>1. TicketTypeOK'
    BY DEF ConfirmVisit, TicketTypeOK, MoveTicket, TicketStatuses, ComplaintStatuses
  <2>2. RepairTypeOK'
    BY DEF ConfirmVisit, RepairTypeOK, Move, RepairStatuses, Live, UnderWay
  <2>3. EstimateTypeOK'
    BY <1>1, <1>2 DEF ConfirmVisit, EstimateTypeOK
  <2> QED
    BY <2>1, <2>2, <2>3
<1>6. OthersUntouched(r)
  BY <1>1, <1>2, <1>4 DEF ConfirmVisit, OthersUntouched
<1>7. Standing(r)
  BY <1>3 DEF ConfirmVisit, Standing, Live
<1>8. RepairInv(r)'
  <2> USE <1>1, <1>2, <1>4 DEF RepairInv, WithStatus, ConfirmVisit
  <2>1. NewestInForce(r)'
    BY DEF NewestInForce
  <2>2. SubmittedIsOpen(r)'
    BY DEF SubmittedIsOpen, UnderWay
  <2>3. ApprovedIsPrice(r)'
    BY DEF ApprovedIsPrice
  <2>4. WorkApproved(r)'
    BY DEF WorkApproved
  <2>5. ApproverBears(r)'
    BY DEF ApproverBears
  <2>6. BilledApproved(r)'
    <3>1. billed[r] # 0 => billed[r] # v /\ billed[r] \in Versions
      BY DEF BilledApproved
    <3> QED
      BY <1>3, <3>1 DEF BilledApproved, TenantWorkflowActor
  <2> QED
    BY <2>1, <2>2, <2>3, <2>4, <2>5, <2>6
<1> QED
  BY <1>5, <1>6, <1>7, <1>8

(***************************************************************************)
(* The work.                                                               *)
(***************************************************************************)
(* Work moves on without an estimate under review and with one approved:   *)
(* what is billed with it must be that approval, by the one who ordered    *)
(* the work.                                                               *)
LEMMA WorkKept ==
  ASSUME WorkflowInv, NEW r \in Repairs, repair[r] \in Live,
         NEW s \in {"SCHEDULED", "IN_PROGRESS", "COMPLETION_REPORTED", "COMPLETED"}, Move(r, s),
         ticket' \in TicketStatuses, complaint' \in ComplaintStatuses,
         UNCHANGED <<assigned, direct, vendor, tenantAsked, bearer, estimateVars>>,
         report' \in [Repairs -> {"NONE", "REPORTED", "APPROVED", "REJECTED"}],
         NEW x \in 0..MaxEstimates, billed' = [billed EXCEPT ![r] = x],
         x # billed[r] => /\ x \in WithStatus(r, {"APPROVED"})
                          /\ reviewer[r][x] = IF TenantWorkflowActor(r) THEN "TENANT" ELSE "MANAGER",
         WithStatus(r, {"SUBMITTED"}) = {}, WithStatus(r, {"APPROVED"}) # {}
  PROVE  VendorWorkflowTypeOK' /\ OthersUntouched(r) /\ Standing(r) /\ RepairInv(r)'
<1> USE DEF WorkflowInv, VendorWorkflowTypeOK, estimateVars
<1>1. /\ repair'[r] = s /\ billed'[r] = x
      /\ \A q \in Repairs \ {r} : repair'[q] = repair[q] /\ billed'[q] = billed[q]
  BY DEF Move, RepairTypeOK
<1>2. VendorWorkflowTypeOK'
  <2>1. TicketTypeOK' /\ EstimateTypeOK'
    BY DEF TicketTypeOK, EstimateTypeOK
  <2>2. RepairTypeOK'
    BY DEF RepairTypeOK, Move, RepairStatuses, Live, UnderWay, Closed
  <2> QED
    BY <2>1, <2>2
<1>3. OthersUntouched(r) /\ Standing(r)
  BY <1>1 DEF OthersUntouched, Standing
<1>4. RepairInv(r)'
  <2> USE DEF RepairInv, WithStatus
  <2>1. NewestInForce(r)' /\ ApprovedIsPrice(r)' /\ ApproverBears(r)'
    BY DEF NewestInForce, ApprovedIsPrice, ApproverBears
  <2>2. SubmittedIsOpen(r)'
    BY DEF SubmittedIsOpen
  <2>3. WorkApproved(r)'
    BY DEF WorkApproved
  <2>4. BilledApproved(r)'
    BY <1>1 DEF BilledApproved, TenantWorkflowActor
  <2> QED
    BY <2>1, <2>2, <2>3, <2>4
<1> QED
  BY <1>2, <1>3, <1>4

LEMMA ScheduleApprovedJobStep ==
  ASSUME WorkflowInv, NEW r \in Repairs, ScheduleApprovedJob(r)
  PROVE  VendorWorkflowTypeOK' /\ OthersUntouched(r) /\ Standing(r) /\ RepairInv(r)'
<1> USE DEF ScheduleApprovedJob, WorkflowInv, VendorWorkflowTypeOK
<1>1. /\ repair[r] \in Live /\ Move(r, "SCHEDULED")
      /\ UNCHANGED <<assigned, direct, vendor, tenantAsked, bearer, estimateVars>>
  BY DEF Live
<1>2. ticket' \in TicketStatuses /\ complaint' \in ComplaintStatuses
  BY DEF MoveTicket, TicketStatuses, ComplaintStatuses
<1>3. billed' = [billed EXCEPT ![r] = billed[r]] /\ billed[r] \in 0..MaxEstimates
      /\ report' \in [Repairs -> {"NONE", "REPORTED", "APPROVED", "REJECTED"}]
  BY DEF RepairTypeOK
<1>4. WithStatus(r, {"SUBMITTED"}) = {} /\ WithStatus(r, {"APPROVED"}) # {}
  BY DEF WithStatus, ApprovedFixed
<1> QED
  BY <1>1, <1>2, <1>3, <1>4, WorkKept

LEMMA StartJobStep ==
  ASSUME WorkflowInv, NEW r \in Repairs, StartJob(r)
  PROVE  VendorWorkflowTypeOK' /\ OthersUntouched(r) /\ Standing(r) /\ RepairInv(r)'
<1> USE DEF StartJob, WorkflowInv, VendorWorkflowTypeOK
<1>1. /\ repair[r] \in Live /\ Move(r, "IN_PROGRESS")
      /\ UNCHANGED <<assigned, direct, vendor, tenantAsked, bearer, estimateVars>>
  BY DEF Live, UnderWay
<1>2. ticket' \in TicketStatuses /\ complaint' \in ComplaintStatuses
  BY DEF MoveTicket, TicketStatuses, ComplaintStatuses
<1>3. billed' = [billed EXCEPT ![r] = billed[r]] /\ billed[r] \in 0..MaxEstimates
      /\ report' \in [Repairs -> {"NONE", "REPORTED", "APPROVED", "REJECTED"}]
  BY DEF RepairTypeOK
<1>4. WithStatus(r, {"SUBMITTED"}) = {} /\ WithStatus(r, {"APPROVED"}) # {}
  BY DEF WithStatus, ApprovedFixed, Pending
<1> QED
  BY <1>1, <1>2, <1>3, <1>4, WorkKept

LEMMA MoveWithTicketTyped ==
  ASSUME NEW r, NEW s, MoveWithTicket(r, s)
  PROVE  Move(r, s) /\ ticket' \in TicketStatuses /\ complaint' \in ComplaintStatuses
<1> DEFINE statuses == ({repair[q] : q \in Repairs \ {r}} \ {"ABSENT", "CANCELLED"}) \union {s}
<1>1. CASE statuses = {"COMPLETED"}
  BY <1>1 DEF MoveWithTicket, SyncTicketRepairAggregate, MoveTicket, TicketStatuses, ComplaintStatuses
<1>2. CASE statuses # {"COMPLETED"}
  BY <1>2 DEF MoveWithTicket, SyncTicketRepairAggregate, MoveTicket, TicketStatuses, ComplaintStatuses
<1> QED
  BY <1>1, <1>2

(* What the landlord is billed was approved by the manager: nobody else's  *)
(* approval leaves the cost with the landlord.                             *)
LEMMA SubmitCompletionStep ==
  ASSUME WorkflowInv, NEW r \in Repairs, SubmitCompletion(r)
  PROVE  VendorWorkflowTypeOK' /\ OthersUntouched(r) /\ Standing(r) /\ RepairInv(r)'
<1> USE DEF WorkflowInv, VendorWorkflowTypeOK
<1>1. /\ repair[r] = "IN_PROGRESS" /\ repair[r] \in Live /\ MoveWithTicket(r, "COMPLETION_REPORTED")
      /\ UNCHANGED <<assigned, direct, vendor, tenantAsked, bearer, estimateVars>>
      /\ report' \in [Repairs -> {"NONE", "REPORTED", "APPROVED", "REJECTED"}]
  BY DEF SubmitCompletion, Live, UnderWay, RepairTypeOK
<1>2. WithStatus(r, {"SUBMITTED"}) = {} /\ WithStatus(r, {"APPROVED"}) # {}
  BY <1>1 DEF SubmitCompletion, WithStatus, Pending, RepairInv, WorkApproved
<1>3. \E x \in 0..MaxEstimates :
        /\ billed' = [billed EXCEPT ![r] = x]
        /\ x # billed[r] => /\ x \in WithStatus(r, {"APPROVED"})
                            /\ reviewer[r][x] = IF TenantWorkflowActor(r) THEN "TENANT" ELSE "MANAGER"
  <2>1. CASE bearer[r] = "LANDLORD"
    <3>1. PICK v \in Versions : v \in ApprovedFixed(r) /\ billed' = [billed EXCEPT ![r] = v]
      BY <2>1 DEF SubmitCompletion, IsLatest
    <3>2. v \in WithStatus(r, {"APPROVED"}) /\ v \in 0..MaxEstimates
      BY <3>1, MaxEstimatesAssumption DEF ApprovedFixed, Versions
    <3>3. reviewer[r][v] = "MANAGER" /\ ~TenantWorkflowActor(r)
      BY <2>1, <3>2 DEF RepairInv, ApproverBears, TenantWorkflowActor
    <3> QED
      BY <3>1, <3>2, <3>3
  <2>2. CASE bearer[r] # "LANDLORD"
    BY <2>2 DEF SubmitCompletion, RepairTypeOK
  <2> QED
    BY <2>1, <2>2
<1> QED
  BY <1>1, <1>2, <1>3, MoveWithTicketTyped, WorkKept

LEMMA DecideTenantCompletionStep ==
  ASSUME WorkflowInv, NEW r \in Repairs, NEW d \in {"APPROVED", "REJECTED"},
         DecideTenantCompletion(r, d)
  PROVE  VendorWorkflowTypeOK' /\ OthersUntouched(r) /\ Standing(r) /\ RepairInv(r)'
<1> USE DEF WorkflowInv, VendorWorkflowTypeOK
<1>1. /\ repair[r] = "COMPLETION_REPORTED" /\ repair[r] \in Live
      /\ UNCHANGED <<assigned, direct, vendor, tenantAsked, bearer, estimateVars>>
      /\ report' \in [Repairs -> {"NONE", "REPORTED", "APPROVED", "REJECTED"}]
  BY DEF DecideTenantCompletion, Decidable, Live, RepairTypeOK
<1>2. WithStatus(r, {"SUBMITTED"}) = {} /\ WithStatus(r, {"APPROVED"}) # {}
  BY <1>1 DEF RepairInv, SubmittedIsOpen, WorkApproved, UnderWay
<1>3. CASE MoveWithTicket(r, "IN_PROGRESS") /\ UNCHANGED billed
  <2>1. billed' = [billed EXCEPT ![r] = billed[r]] /\ billed[r] \in 0..MaxEstimates
    BY <1>3 DEF RepairTypeOK
  <2> QED
    BY <1>1, <1>2, <1>3, <2>1, MoveWithTicketTyped, WorkKept
<1>4. CASE /\ \E v \in Versions :
                 /\ IsLatest(v, {w \in ApprovedFixed(r) : reviewer[r][w] = "TENANT"})
                 /\ billed' = [billed EXCEPT ![r] = v]
           /\ MoveWithTicket(r, "COMPLETED")
  <2>1. PICK v \in Versions : /\ v \in ApprovedFixed(r) /\ reviewer[r][v] = "TENANT"
                              /\ billed' = [billed EXCEPT ![r] = v]
    BY <1>4 DEF IsLatest
  <2>2. v \in WithStatus(r, {"APPROVED"}) /\ v \in 0..MaxEstimates /\ TenantWorkflowActor(r)
    BY <2>1, MaxEstimatesAssumption DEF ApprovedFixed, Versions, DecideTenantCompletion
  <2> QED
    BY <1>1, <1>2, <1>4, <2>1, <2>2, MoveWithTicketTyped, WorkKept
<1> QED
  BY <1>3, <1>4 DEF DecideTenantCompletion

LEMMA DecideCompletionStep ==
  ASSUME WorkflowInv, NEW r \in Repairs, NEW d \in {"APPROVED", "REJECTED"}, DecideCompletion(r, d)
  PROVE  VendorWorkflowTypeOK' /\ OthersUntouched(r) /\ Standing(r) /\ RepairInv(r)'
<1> USE DEF WorkflowInv, VendorWorkflowTypeOK
<1>1. /\ repair[r] = "COMPLETION_REPORTED" /\ repair[r] \in Live
      /\ UNCHANGED <<assigned, direct, vendor, tenantAsked, bearer, estimateVars>>
      /\ report' \in [Repairs -> {"NONE", "REPORTED", "APPROVED", "REJECTED"}]
  BY DEF DecideCompletion, Decidable, Live, RepairTypeOK
<1>2. WithStatus(r, {"SUBMITTED"}) = {} /\ WithStatus(r, {"APPROVED"}) # {}
  BY <1>1 DEF RepairInv, SubmittedIsOpen, WorkApproved, UnderWay
<1>3. billed' = [billed EXCEPT ![r] = billed[r]] /\ billed[r] \in 0..MaxEstimates
  BY DEF DecideCompletion, RepairTypeOK
<1>4. \E s \in {"COMPLETED", "IN_PROGRESS"} : MoveWithTicket(r, s)
  BY DEF DecideCompletion
<1> QED
  BY <1>1, <1>2, <1>3, <1>4, MoveWithTicketTyped, WorkKept

(***************************************************************************)
(* A new repair, beside others of which none stays active.                 *)
(***************************************************************************)
LEMMA NewRepairStep ==
  ASSUME WorkflowInv, NEW r \in Repairs, NEW w \in Vendors, NEW byTenant \in BOOLEAN,
         NEW others \in [Repairs -> RepairStatuses],
         \A p \in Repairs : /\ others[p] \notin Live
                            /\ \/ others[p] = repair[p]
                               \/ repair[p] = "REQUESTED" /\ others[p] = "CANCELLED",
         NewRepair(r, w, byTenant, others)
  PROVE  WorkflowInv'
<1> USE DEF WorkflowInv, VendorWorkflowTypeOK, NewRepair, estimateVars
<1>1. repair'[r] = "REQUESTED" /\ \A p \in Repairs \ {r} : repair'[p] = others[p]
  OBVIOUS
<1>2. VendorWorkflowTypeOK'
  <2>1. TicketTypeOK'
    BY DEF TicketTypeOK, MoveTicket, TicketStatuses, ComplaintStatuses
  <2>2. RepairTypeOK'
    <3>1. "REQUESTED" \in RepairStatuses
      BY DEF RepairStatuses, Live
    <3>2. repair' \in [Repairs -> RepairStatuses] /\ vendor' \in [Repairs -> Vendors \union {"NONE"}]
      BY <3>1 DEF RepairTypeOK
    <3>3. (IF byTenant THEN "TENANT" ELSE "NONE") \in Bearers \union {"NONE"}
      BY DEF Bearers
    <3>4. bearer' \in [Repairs -> Bearers \union {"NONE"}] /\ tenantAsked' \in [Repairs -> BOOLEAN]
      BY <3>3, FieldSet DEF RepairTypeOK
    <3> QED
      BY <3>2, <3>4 DEF RepairTypeOK
  <2>3. EstimateTypeOK'
    BY DEF EstimateTypeOK
  <2> QED
    BY <2>1, <2>2, <2>3
<1>3. OneActiveRepair'
  <2>1. LiveRepairs' = {r}
    BY <1>1 DEF LiveRepairs, Live
  <2>2. assigned' = vendor'[r]
    BY DEF RepairTypeOK
  <2> QED
    BY <2>1, <2>2 DEF OneActiveRepair
<1>4. ASSUME NEW p \in Repairs \ {r}  PROVE RepairInv(p)'
  <2>1. /\ bearer'[p] = bearer[p] /\ tenantAsked'[p] = tenantAsked[p]
        /\ \/ repair'[p] = repair[p]
           \/ repair[p] = "REQUESTED" /\ repair'[p] = "CANCELLED"
    BY <1>1 DEF RepairTypeOK
  <2> USE <2>1 DEF RepairInv, WithStatus
  <2>2. NewestInForce(p)' /\ ApprovedIsPrice(p)' /\ ApproverBears(p)'
    BY DEF NewestInForce, ApprovedIsPrice, ApproverBears
  <2>3. SubmittedIsOpen(p)'
    BY DEF SubmittedIsOpen, UnderWay
  <2>4. WorkApproved(p)'
    BY DEF WorkApproved
  <2>5. BilledApproved(p)'
    BY DEF BilledApproved, TenantWorkflowActor
  <2> QED
    BY <2>2, <2>3, <2>4, <2>5
<1>5. RepairInv(r)'
  <2>1. bearer'[r] # "LANDLORD" /\ repair[r] = "ABSENT"
    BY DEF RepairTypeOK
  <2> USE <1>1, <2>1 DEF RepairInv, WithStatus
  <2>2. NewestInForce(r)' /\ ApprovedIsPrice(r)' /\ ApproverBears(r)'
    BY DEF NewestInForce, ApprovedIsPrice, ApproverBears
  <2>3. SubmittedIsOpen(r)'
    BY DEF SubmittedIsOpen, UnderWay
  <2>4. WorkApproved(r)'
    BY DEF WorkApproved
  <2>5. BilledApproved(r)'
    BY DEF BilledApproved
  <2> QED
    BY <2>2, <2>3, <2>4, <2>5
<1> QED
  BY <1>2, <1>3, <1>4, <1>5

LEMMA AssignmentStepKept ==
  ASSUME WorkflowInv, AssignmentStep
  PROVE  WorkflowInv'
<1> USE DEF WorkflowInv, VendorWorkflowTypeOK
<1>1. repair \in [Repairs -> RepairStatuses]
  BY DEF RepairTypeOK
<1>2. PICK r \in Repairs, w \in Vendors : AssignVendor(r, w) \/ RequestVendor(r, w)
  BY DEF AssignmentStep
<1>3. CASE LiveRepairs = {} /\ \E byTenant \in BOOLEAN : NewRepair(r, w, byTenant, repair)
  BY <1>1, <1>3, NewRepairStep DEF LiveRepairs
<1>4. CASE \E q \in LiveRepairs :
             /\ repair[q] = "REQUESTED"
             /\ NewRepair(r, w, FALSE, [repair EXCEPT ![q] = "CANCELLED"])
  <2>1. PICK q \in LiveRepairs : /\ repair[q] = "REQUESTED"
                                 /\ NewRepair(r, w, FALSE, [repair EXCEPT ![q] = "CANCELLED"])
    BY <1>4
  <2> DEFINE others == [repair EXCEPT ![q] = "CANCELLED"]
  <2>2. q \in Repairs /\ \A p \in Repairs \ {q} : repair[p] \notin Live
    BY DEF OneActiveRepair, LiveRepairs
  <2>3. others \in [Repairs -> RepairStatuses]
    BY <1>1 DEF RepairStatuses, Closed
  <2>4. \A p \in Repairs : /\ others[p] \notin Live
                           /\ \/ others[p] = repair[p]
                              \/ repair[p] = "REQUESTED" /\ others[p] = "CANCELLED"
    BY <1>1, <2>1, <2>2 DEF Live, UnderWay
  <2> HIDE DEF WorkflowInv
  <2> QED
    BY <2>1, <2>3, <2>4, NewRepairStep
<1> QED
  BY <1>2, <1>3, <1>4 DEF AssignVendor, RequestVendor

(***************************************************************************)
(* All steps.                                                              *)
(***************************************************************************)
LEMMA StandingKept ==
  ASSUME WorkflowInv, NEW r \in Repairs, VendorWorkflowTypeOK', OthersUntouched(r), Standing(r),
         RepairInv(r)'
  PROVE  WorkflowInv'
<1> USE DEF WorkflowInv
<1>1. LiveRepairs' \subseteq LiveRepairs
  BY DEF LiveRepairs, OthersUntouched, Standing
<1>2. OneActiveRepair'
  BY <1>1 DEF OneActiveRepair, Standing
<1>3. ASSUME NEW q \in Repairs \ {r}  PROVE RepairInv(q)'
  BY UntouchedKept DEF OthersUntouched
<1> QED
  BY <1>2, <1>3

(* A vendor that declines leaves no active repair.                         *)
LEMMA DeclineJobKept ==
  ASSUME WorkflowInv, NEW r \in Repairs, NEW v \in Versions, DeclineJob(r, v)
  PROVE  WorkflowInv'
<1>1. VendorWorkflowTypeOK' /\ OthersUntouched(r) /\ RepairInv(r)'
  BY DeclineJobStep
<1>2. repair'[r] = "CANCELLED" /\ repair[r] \in Live
  BY DEF DeclineJob, Move, WorkflowInv, VendorWorkflowTypeOK, RepairTypeOK
<1>3. \A q \in LiveRepairs : q = r
  BY <1>2 DEF WorkflowInv, OneActiveRepair, LiveRepairs
<1>4. LiveRepairs' = {}
  BY <1>1, <1>2, <1>3 DEF LiveRepairs, OthersUntouched, Live, UnderWay
<1>5. OneActiveRepair'
  BY <1>4 DEF OneActiveRepair
<1>6. ASSUME NEW q \in Repairs \ {r}  PROVE RepairInv(q)'
  BY <1>1, UntouchedKept DEF OthersUntouched, WorkflowInv
<1> QED
  BY <1>1, <1>5, <1>6 DEF WorkflowInv

LEMMA RepairStepKept ==
  ASSUME WorkflowInv, NEW r \in Repairs, RepairStep(r)
  PROVE  WorkflowInv'
<1>1. ASSUME NEW k \in Kinds, SaveEstimateDraft(r, k)  PROVE WorkflowInv'
  BY <1>1, SaveEstimateDraftStep, StandingKept
<1>2. ASSUME NEW v \in Versions, EstimateStep(r, v)  PROVE WorkflowInv'
  <2>1. CASE SubmitEstimate(r, v)
    BY <2>1, SubmitEstimateStep, StandingKept
  <2>2. CASE DeclineJob(r, v)
    BY <2>2, DeclineJobKept
  <2>3. CASE WithdrawEstimate(r, v)
    BY <2>3, WithdrawEstimateStep, StandingKept
  <2>4. CASE ReviewEstimate(r, v)
    BY <2>4, ReviewEstimateStep, StandingKept
  <2>5. CASE ReviewTenantEstimate(r, v)
    BY <2>5, ReviewTenantEstimateStep, StandingKept
  <2>6. CASE ConfirmEstimateVisit(r, v) \/ ConfirmTenantEstimateVisit(r, v)
    BY <2>6, ConfirmVisitStep, StandingKept DEF ConfirmEstimateVisit, ConfirmTenantEstimateVisit
  <2> QED
    BY <1>2, <2>1, <2>2, <2>3, <2>4, <2>5, <2>6 DEF EstimateStep
<1>3. CASE ScheduleApprovedJob(r)
  BY <1>3, ScheduleApprovedJobStep, StandingKept
<1>4. CASE StartJob(r)
  BY <1>4, StartJobStep, StandingKept
<1>5. CASE SubmitCompletion(r)
  BY <1>5, SubmitCompletionStep, StandingKept
<1>6. ASSUME NEW d \in {"APPROVED", "REJECTED"},
             DecideTenantCompletion(r, d) \/ DecideCompletion(r, d)
      PROVE  WorkflowInv'
  BY <1>6, DecideTenantCompletionStep, DecideCompletionStep, StandingKept
<1> QED
  BY <1>1, <1>2, <1>3, <1>4, <1>5, <1>6 DEF RepairStep

(* Direct handling and the store's transitions leave the repairs alone.    *)
LEMMA RepairsUntouchedKept ==
  ASSUME WorkflowInv, UNCHANGED <<assigned, repairVars>>, ticket' \in TicketStatuses,
         complaint' \in ComplaintStatuses, direct' \in {"NONE", "ACTIVE", "COMPLETED"}
  PROVE  WorkflowInv'
<1> USE DEF WorkflowInv, VendorWorkflowTypeOK, repairVars, estimateVars
<1>1. VendorWorkflowTypeOK'
  BY DEF TicketTypeOK, RepairTypeOK, EstimateTypeOK
<1>2. OneActiveRepair'
  BY DEF OneActiveRepair, LiveRepairs
<1>3. ASSUME NEW q \in Repairs  PROVE RepairInv(q)'
  BY UntouchedKept
<1> QED
  BY <1>1, <1>2, <1>3

LEMMA TransitionTicketKept ==
  ASSUME WorkflowInv, NEW t \in TicketStatuses, TransitionTicket(t)
  PROVE  WorkflowInv'
<1>1. ComplaintStatusFor[t] \in ComplaintStatuses
  BY DEF ComplaintStatusFor, TicketStatuses, ComplaintStatuses
<1>2. /\ UNCHANGED <<assigned, repairVars>> /\ ticket' \in TicketStatuses
      /\ complaint' \in ComplaintStatuses /\ direct' \in {"NONE", "ACTIVE", "COMPLETED"}
  BY <1>1 DEF TransitionTicket, MoveTicket, WorkflowInv, VendorWorkflowTypeOK, TicketTypeOK
<1> QED
  BY <1>2, RepairsUntouchedKept

LEMMA TicketStepKept ==
  ASSUME WorkflowInv, DirectStep \/ TicketStep
  PROVE  WorkflowInv'
<1>1. CASE DirectStep
  <2>1. /\ UNCHANGED <<assigned, repairVars>> /\ ticket' \in TicketStatuses
        /\ complaint' \in ComplaintStatuses /\ direct' \in {"NONE", "ACTIVE", "COMPLETED"}
    BY <1>1 DEF DirectStep, StartDirectHandling, CompleteDirectHandling, CancelDirectHandling,
                MoveTicket, TicketStatuses, ComplaintStatuses
  <2> QED
    BY <2>1, RepairsUntouchedKept
<1>2. CASE TicketStep
  <2>1. \E t \in TicketStatuses : TransitionTicket(t)
    BY <1>2 DEF TicketStep, RequestAdditionalInfo, SendManagerTicketReply, AddTenantFollowup,
                SetManagerTicketLane, ConfirmTenantCompletion, ReopenTenantComplaint, TicketStatuses
  <2> QED
    BY <2>1, TransitionTicketKept
<1> QED
  BY <1>1, <1>2

LEMMA NextKept ==
  ASSUME WorkflowInv, [DirectHandlingNext]_workflowVars
  PROVE  WorkflowInv'
<1>1. CASE WorkflowNext
  BY <1>1, AssignmentStepKept, RepairStepKept DEF WorkflowNext
<1>2. CASE DirectStep \/ TicketStep
  BY <1>2, TicketStepKept
<1>3. CASE UNCHANGED workflowVars
  <2>1. /\ UNCHANGED <<assigned, repairVars>> /\ ticket' \in TicketStatuses
        /\ complaint' \in ComplaintStatuses /\ direct' \in {"NONE", "ACTIVE", "COMPLETED"}
    BY <1>3 DEF workflowVars, repairVars, estimateVars, WorkflowInv, VendorWorkflowTypeOK, TicketTypeOK
  <2> QED
    BY <2>1, RepairsUntouchedKept
<1> QED
  BY <1>1, <1>2, <1>3 DEF DirectHandlingNext

LEMMA InitInv ==
  ASSUME DirectHandlingInit
  PROVE  WorkflowInv
<1> USE DEF DirectHandlingInit, WorkflowInit
<1>1. TicketTypeOK
  BY DEF TicketTypeOK, TicketStatuses, ComplaintStatuses
<1>2. RepairTypeOK
  BY MaxEstimatesAssumption DEF RepairTypeOK, RepairStatuses
<1>3. EstimateTypeOK
  BY MaxEstimatesAssumption DEF EstimateTypeOK, EstimateStatuses, Versions
<1>4. OneActiveRepair
  BY DEF OneActiveRepair, LiveRepairs, Live, UnderWay
<1>5. ASSUME NEW r \in Repairs  PROVE RepairInv(r)
  BY DEF RepairInv, NewestInForce, SubmittedIsOpen, ApprovedIsPrice, WorkApproved, ApproverBears,
         BilledApproved, WithStatus
<1> QED
  BY <1>1, <1>2, <1>3, <1>4, <1>5 DEF WorkflowInv, VendorWorkflowTypeOK

(***************************************************************************)
(* Theorems.                                                               *)
(***************************************************************************)
(* The strengthened invariant holds, whoever handles the ticket.           *)
THEOREM WorkflowInvHolds == DirectHandlingSpec => []WorkflowInv
<1>1. DirectHandlingInit => WorkflowInv
  BY InitInv
<1>2. WorkflowInv /\ [DirectHandlingNext]_workflowVars => WorkflowInv'
  BY NextKept
<1> QED
  BY <1>1, <1>2, PTL DEF DirectHandlingSpec

(* Every row of the workflow has its type, and versions are numbered from  *)
(* 1 without a gap.                                                        *)
THEOREM WorkflowTyped == DirectHandlingSpec => []VendorWorkflowTypeOK
<1>1. WorkflowInv => VendorWorkflowTypeOK
  BY DEF WorkflowInv
<1> QED
  BY <1>1, WorkflowInvHolds, PTL

(* A ticket never has two active repairs, and names the vendor of the one  *)
(* it has: "one_active_repair_per_ticket" has nothing left to refuse.      *)
THEOREM OneActiveRepairHolds == DirectHandlingSpec => []OneActiveRepair
<1>1. WorkflowInv => OneActiveRepair
  BY DEF WorkflowInv
<1> QED
  BY <1>1, WorkflowInvHolds, PTL

(* Only the newest estimate can be edited, reviewed or visited, and at     *)
(* most one is approved.                                                   *)
THEOREM OneEstimateInForceHolds == DirectHandlingSpec => []OneEstimateInForce
<1>1. WorkflowInv => OneEstimateInForce
  BY DEF WorkflowInv, OneEstimateInForce, RepairInv, NewestInForce
<1> QED
  BY <1>1, WorkflowInvHolds, PTL

(* Work that has begun, is reported or is done rests on an approved fixed  *)
(* price.                                                                  *)
THEOREM WorkRestsOnApprovalHolds == DirectHandlingSpec => []WorkRestsOnApproval
<1>1. WorkflowInv => WorkRestsOnApproval
  BY DEF WorkflowInv, WorkRestsOnApproval, RepairInv, WorkApproved, ApprovedIsPrice, ApprovedFixed,
         WithStatus
<1> QED
  BY <1>1, WorkflowInvHolds, PTL

(* What is billed is the approved price, approved by the one who ordered   *)
(* the work.                                                               *)
THEOREM BilledPriceWasApprovedHolds == DirectHandlingSpec => []BilledPriceWasApproved
<1>1. WorkflowInv => BilledPriceWasApproved
  BY DEF WorkflowInv, BilledPriceWasApproved, RepairInv, BilledApproved, ApprovedIsPrice,
         ApprovedFixed, WithStatus
<1> QED
  BY <1>1, WorkflowInvHolds, PTL

(* No step takes up a completed or cancelled repair.                       *)
LEMMA ClosedKept ==
  ASSUME WorkflowInv, [DirectHandlingNext]_workflowVars, NEW q \in Repairs, repair[q] \in Closed
  PROVE  repair'[q] = repair[q]
<1> USE DEF Closed
<1>0. repair \in [Repairs -> RepairStatuses]
  BY DEF WorkflowInv, VendorWorkflowTypeOK, RepairTypeOK
<1>1. CASE AssignmentStep
  BY <1>0, <1>1 DEF AssignmentStep, AssignVendor, RequestVendor, NewRepair
<1>2. ASSUME NEW r \in Repairs, RepairStep(r)  PROVE repair'[q] = repair[q]
  <2>1. CASE r # q
    <3>1. CASE \E k \in Kinds : SaveEstimateDraft(r, k)
      BY <3>1 DEF SaveEstimateDraft
    <3>2. ASSUME NEW v \in Versions, EstimateStep(r, v)  PROVE repair'[q] = repair[q]
      BY <1>0, <2>1, <3>2 DEF EstimateStep, SubmitEstimate, DeclineJob, WithdrawEstimate,
         ReviewEstimate, ReviewTenantEstimate, ConfirmEstimateVisit, ConfirmTenantEstimateVisit,
         ConfirmVisit, RestoreAfterEstimateExit, RequestRevision, Move
    <3>3. CASE ScheduleApprovedJob(r) \/ StartJob(r) \/ SubmitCompletion(r)
      BY <1>0, <2>1, <3>3 DEF ScheduleApprovedJob, StartJob, SubmitCompletion, MoveWithTicket, Move
    <3>4. CASE \E d \in {"APPROVED", "REJECTED"} : DecideTenantCompletion(r, d) \/ DecideCompletion(r, d)
      BY <1>0, <2>1, <3>4 DEF DecideTenantCompletion, DecideCompletion, MoveWithTicket, Move
    <3> QED
      BY <1>2, <3>1, <3>2, <3>3, <3>4 DEF RepairStep
  <2>2. CASE r = q
    <3>1. CASE \E k \in Kinds : SaveEstimateDraft(r, k)
      BY <3>1 DEF SaveEstimateDraft
    <3>2. ASSUME NEW v \in Versions, EstimateStep(r, v)  PROVE repair'[q] = repair[q]
      <4>1. repair[r] \notin Live
        BY <2>2 DEF Live, UnderWay
      <4>2. WithStatus(r, {"SUBMITTED"}) = {}
        BY <2>2, <4>1 DEF WorkflowInv, RepairInv, SubmittedIsOpen, Live, UnderWay
      <4>3. ~ConfirmVisit(r, v, "MANAGER") /\ ~ConfirmVisit(r, v, "TENANT")
        BY <4>2 DEF ConfirmVisit, WithStatus
      <4> QED
        BY <2>2, <3>2, <4>1, <4>3 DEF EstimateStep, SubmitEstimate, DeclineJob, WithdrawEstimate,
           ReviewEstimate, ReviewTenantEstimate, Review, ConfirmEstimateVisit,
           ConfirmTenantEstimateVisit
    <3>3. CASE ScheduleApprovedJob(r) \/ StartJob(r) \/ SubmitCompletion(r)
      BY <2>2, <3>3 DEF ScheduleApprovedJob, StartJob, SubmitCompletion
    <3>4. CASE \E d \in {"APPROVED", "REJECTED"} : DecideTenantCompletion(r, d) \/ DecideCompletion(r, d)
      BY <2>2, <3>4 DEF DecideTenantCompletion, DecideCompletion, Decidable
    <3> QED
      BY <1>2, <3>1, <3>2, <3>3, <3>4 DEF RepairStep
  <2> QED
    BY <2>1, <2>2
<1>3. CASE DirectStep \/ TicketStep
  BY <1>3 DEF DirectStep, StartDirectHandling, CompleteDirectHandling, CancelDirectHandling, TicketStep,
     RequestAdditionalInfo, SendManagerTicketReply, AddTenantFollowup, SetManagerTicketLane,
     ConfirmTenantCompletion, ReopenTenantComplaint, TransitionTicket, repairVars
<1>4. CASE UNCHANGED workflowVars
  BY <1>4 DEF workflowVars
<1> QED
  BY <1>1, <1>2, <1>3, <1>4 DEF DirectHandlingNext, WorkflowNext

(* A repair that has ended stays as it is, though confirming a visit and   *)
(* withdrawing an estimate do not ask for its status.                      *)
THEOREM ClosedStaysClosedHolds == DirectHandlingSpec => ClosedStaysClosed
<1>1. WorkflowInv /\ [DirectHandlingNext]_workflowVars =>
        [\A r \in Repairs : repair[r] \in Closed => repair'[r] = repair[r]]_workflowVars
  BY ClosedKept
<1> QED
  BY <1>1, WorkflowInvHolds, PTL DEF DirectHandlingSpec, ClosedStaysClosed
=============================================================================
