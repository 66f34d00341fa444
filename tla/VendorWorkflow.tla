--------------------------- MODULE VendorWorkflow ---------------------------
(***************************************************************************)
(* The repairs of one complaint ticket: a vendor is assigned by the        *)
(* manager or asked by the tenant, proposes estimates, works, and reports  *)
(* completion, and whoever ordered the work reviews and decides.           *)
(*                                                                         *)
(* Each action is one transaction of the vendor workflow repository or of  *)
(* the tenant's vendor connection repository. All of them lock the ticket  *)
(* or the repair first, so a transaction is one step. A refused call and a *)
(* replay change nothing and are stuttering steps.                         *)
(*                                                                         *)
(* Amounts, dates, notes and messages are left out, and so is what happens *)
(* to a payment request once it exists: VendorPayment goes on from there.  *)
(***************************************************************************)
EXTENDS Integers, FiniteSets

CONSTANTS
  Repairs,                 \* ids of the repairs the ticket may get
  Vendors,                 \* vendors that may be assigned
  MaxEstimates             \* bound: estimates per repair

ASSUME MaxEstimatesAssumption == MaxEstimates \in Nat
ASSUME VendorsAssumption == "NONE" \notin Vendors

VARIABLES
  ticket,                  \* Ticket.status
  complaint,               \* Complaint.status
  assigned,                \* Ticket.assignedVendorId, "NONE" for null
  direct,                  \* the manager's own handling: Ticket.directHandlingStartedAt, -CompletedAt
  repair,                  \* RepairRequest.status, "ABSENT" when there is no row
  vendor,                  \* RepairRequest.vendorId
  tenantAsked,             \* the VENDOR_JOB_ASSIGNED event names the tenant as its actor
  bearer,                  \* RepairRequest.costBearer, "NONE" for null
  version,                 \* number of VendorEstimate rows of the repair
  estimate,                \* VendorEstimate.status by version
  kind,                    \* VendorEstimate.responseType by version
  reviewer,                \* who reviewed the estimate
  report,                  \* the latest VendorCompletionReport and its decision
  billed                   \* version the VendorPaymentRequest was made of, 0 for no request

ticketVars == <<ticket, complaint, assigned, direct>>
estimateVars == <<version, estimate, kind, reviewer>>
workflowVars ==
  <<ticket, complaint, assigned, direct, repair, vendor, tenantAsked, bearer,
    version, estimate, kind, reviewer, report, billed>>

Versions == 1..MaxEstimates
Bearers == {"LANDLORD", "TENANT", "PENDING"}
Kinds == {"FIXED_ESTIMATE", "VISIT_REQUIRED", "DECLINED"}

(* Repair statuses. *)
Closed == {"COMPLETED", "CANCELLED"}
UnderWay == {"SCHEDULED", "IN_PROGRESS"}
Live == UnderWay \union {"REQUESTED", "ESTIMATE_SUBMITTED", "ESTIMATE_APPROVED",
                         "COMPLETION_REPORTED"}
RepairStatuses == Live \union Closed \union {"ABSENT"}

(* Estimate statuses. *)
Pending == {"DRAFT", "SUBMITTED", "VISIT_SCHEDULED", "REVISION_REQUESTED"}
EstimateStatuses ==
  Pending \union {"NONE", "APPROVED", "REJECTED", "DECLINED", "WITHDRAWN", "SUPERSEDED"}

TicketStatuses ==
  {"RECEIVED", "REVIEWING", "ADDITIONAL_INFO_REQUESTED", "VENDOR_ASSIGNMENT_PENDING",
   "VENDOR_ASSIGNED", "ESTIMATE_REVIEW", "REPAIR_IN_PROGRESS", "COMPLETION_REPORTED",
   "COMPLETED", "REOPENED"}
ComplaintStatuses ==
  {"SUBMITTED", "REVIEWING", "ADDITIONAL_INFO_REQUESTED", "VENDOR_ASSIGNED",
   "REPAIR_IN_PROGRESS", "COMPLETED", "REOPENED"}
Requestable ==
  {"RECEIVED", "REVIEWING", "ADDITIONAL_INFO_REQUESTED", "VENDOR_ASSIGNMENT_PENDING",
   "REOPENED"}
Assignable == Requestable \union {"VENDOR_ASSIGNED", "REPAIR_IN_PROGRESS"}

(***************************************************************************)
(* Reading the rows of a repair.                                           *)
(***************************************************************************)
LiveRepairs == {r \in Repairs : repair[r] \in Live}
WithStatus(r, statuses) == {v \in Versions : estimate[r][v] \in statuses}
ApprovedFixed(r) ==
  {v \in WithStatus(r, {"APPROVED"}) : kind[r][v] = "FIXED_ESTIMATE"}
Resolved(r) == bearer[r] \in {"LANDLORD", "TENANT"}
TenantWorkflowActor(r) == bearer[r] = "TENANT" /\ tenantAsked[r]

(* Faulty: estimates may change under a payment request. *)
PaymentRequestIgnored(r) == TRUE

NoPaymentRequest(r) == billed[r] = 0

(* The statuses of r's estimates once v has moved to s, and every other    *)
(* one among the versions given and in one of the statuses is superseded.  *)
Settle(r, v, s, versions, statuses) ==
  [w \in Versions |->
     IF w = v THEN s
     ELSE IF w \in versions /\ estimate[r][w] \in statuses THEN "SUPERSEDED"
     ELSE estimate[r][w]]

SetEstimates(r, statuses) == estimate' = [estimate EXCEPT ![r] = statuses]
Move(r, s) == repair' = [repair EXCEPT ![r] = s]
MoveTicket(t, c) == ticket' = t /\ complaint' = c

(***************************************************************************)
(* A new repair, the current one having moved to the statuses given.       *)
(***************************************************************************)
NewRepair(r, w, byTenant, others) ==
  /\ repair[r] = "ABSENT"
  /\ repair' = [others EXCEPT ![r] = "REQUESTED"]
  /\ vendor' = [vendor EXCEPT ![r] = w]
  /\ tenantAsked' = [tenantAsked EXCEPT ![r] = byTenant]
  /\ bearer' = [bearer EXCEPT ![r] = IF byTenant THEN "TENANT" ELSE "NONE"]
  /\ MoveTicket("VENDOR_ASSIGNED", "VENDOR_ASSIGNED")
  /\ assigned' = w
  /\ UNCHANGED <<direct, estimateVars, report, billed>>

(* Faulty: the current repair stays beside the new one. *)
AssignVendorBeside(r, w) ==
  /\ direct # "ACTIVE"
  /\ \A q \in LiveRepairs : vendor[q] # w /\ repair[q] = "REQUESTED"
  /\ LiveRepairs = {} => ticket \in Assignable
  /\ NewRepair(r, w, FALSE, repair)

(* A current repair that is only requested gives way to the manager's new  *)
(* choice of a vendor; with none, the ticket must be in a status for it.   *)
AssignVendor(r, w) ==
  /\ direct # "ACTIVE"
  /\ \/ /\ LiveRepairs = {}
        /\ ticket \in Assignable
        /\ NewRepair(r, w, FALSE, repair)
     \/ \E q \in LiveRepairs :
          /\ vendor[q] # w
          /\ repair[q] = "REQUESTED"
          /\ NewRepair(r, w, FALSE, [repair EXCEPT ![q] = "CANCELLED"])

(* Whether the manager handles the ticket is not asked here. *)
RequestVendor(r, w) ==
  /\ LiveRepairs = {}
  /\ ticket \in Requestable
  /\ NewRepair(r, w, TRUE, repair)

(***************************************************************************)
(* The vendor's estimates.                                                 *)
(***************************************************************************)
SaveEstimateDraft(r, k) ==
  LET old == version[r] IN
  /\ repair[r] \in Live
  /\ NoPaymentRequest(r)
  /\ \/ /\ old > 0 /\ estimate[r][old] = "DRAFT"
        /\ kind' = [kind EXCEPT ![r][old] = k]
        /\ UNCHANGED <<version, estimate>>
     \/ /\ old < MaxEstimates
        /\ old > 0 => estimate[r][old] \notin {"DRAFT", "SUBMITTED"}
        /\ version' = [version EXCEPT ![r] = old + 1]
        /\ SetEstimates(r, Settle(r, old + 1, "DRAFT", {old}, {"VISIT_SCHEDULED", "REJECTED"}))
        /\ kind' = [kind EXCEPT ![r][old + 1] = k]
  /\ UNCHANGED <<ticketVars, repair, vendor, tenantAsked, bearer, reviewer, report, billed>>

(* Faulty: a draft may still be submitted when the repair has ended. *)
SubmitEstimateAnytime(r, v) ==
  /\ NoPaymentRequest(r)
  /\ estimate[r][v] = "DRAFT"
  /\ kind[r][v] # "DECLINED"
  /\ SetEstimates(r, Settle(r, v, "SUBMITTED", 1..v, {"REVISION_REQUESTED"}))
  /\ Move(r, "ESTIMATE_SUBMITTED")
  /\ ticket' = "ESTIMATE_REVIEW"
  /\ UNCHANGED <<complaint, assigned, direct, vendor, tenantAsked, bearer, version, kind,
                 reviewer, report, billed>>

(* Submitting a draft ends the revisions asked for before it. *)
SubmitEstimate(r, v) ==
  /\ repair[r] \in Live
  /\ NoPaymentRequest(r)
  /\ estimate[r][v] = "DRAFT"
  /\ kind[r][v] # "DECLINED"
  /\ SetEstimates(r, Settle(r, v, "SUBMITTED", 1..v, {"REVISION_REQUESTED"}))
  /\ IF repair[r] \in UnderWay
       THEN UNCHANGED <<repair, ticket>>
       ELSE Move(r, "ESTIMATE_SUBMITTED") /\ ticket' = "ESTIMATE_REVIEW"
  /\ UNCHANGED <<complaint, assigned, direct, vendor, tenantAsked, bearer, version, kind, reviewer,
                 report, billed>>

(* A submission that declines the job: approvals lapse and the repair ends. *)
DeclineJob(r, v) ==
  /\ repair[r] \in Live \ UnderWay
  /\ NoPaymentRequest(r)
  /\ estimate[r][v] = "DRAFT"
  /\ kind[r][v] = "DECLINED"
  /\ SetEstimates(r, [w \in Versions |->
       LET s == Settle(r, v, "DECLINED", 1..v, {"REVISION_REQUESTED"})[w]
       IN  IF s = "APPROVED" THEN "SUPERSEDED" ELSE s])
  /\ Move(r, "CANCELLED")
  /\ bearer' = [bearer EXCEPT ![r] = "NONE"]
  /\ MoveTicket("VENDOR_ASSIGNMENT_PENDING", "REVIEWING")
  /\ assigned' = "NONE"
  /\ UNCHANGED <<direct, vendor, tenantAsked, version, kind, reviewer, report, billed>>

(* What is left of a repair when its estimate v has been withdrawn or      *)
(* rejected: an earlier approval stands, or the repair is requested anew   *)
(* and nobody bears its cost.                                              *)
RestoreAfterEstimateExit(r, v) ==
  IF repair[r] \in UnderWay
    THEN UNCHANGED <<repair, bearer, ticket, complaint>>
  ELSE IF WithStatus(r, {"APPROVED"}) \ {v} # {}
    THEN /\ Move(r, "ESTIMATE_APPROVED")
         /\ MoveTicket("ESTIMATE_REVIEW", "REVIEWING")
         /\ UNCHANGED bearer
    ELSE /\ Move(r, "REQUESTED")
         /\ bearer' = [bearer EXCEPT ![r] = "NONE"]
         /\ MoveTicket("VENDOR_ASSIGNED", "VENDOR_ASSIGNED")

WithdrawEstimate(r, v) ==
  /\ NoPaymentRequest(r)
  /\ estimate[r][v] \in {"DRAFT", "SUBMITTED"}
  /\ estimate' = [estimate EXCEPT ![r][v] = "WITHDRAWN"]
  /\ IF repair[r] = "ESTIMATE_SUBMITTED"
       THEN RestoreAfterEstimateExit(r, v)
       ELSE UNCHANGED <<repair, bearer, ticket, complaint>>
  /\ UNCHANGED <<assigned, direct, vendor, tenantAsked, version, kind, reviewer, report, billed>>

(***************************************************************************)
(* Reviewing an estimate: the tenant for work the tenant asked for, or     *)
(* else the manager.                                                       *)
(***************************************************************************)
Review(r, v, who) ==
  /\ repair[r] \in Live
  /\ NoPaymentRequest(r)
  /\ estimate[r][v] = "SUBMITTED"
  /\ reviewer' = [reviewer EXCEPT ![r][v] = who]
  /\ UNCHANGED <<assigned, direct, vendor, tenantAsked, version, kind, report, billed>>

(* Faulty: a new approval leaves the one before it in force. *)
ApproveBesideTheOld(r, v) ==
  /\ kind[r][v] = "FIXED_ESTIMATE"
  /\ estimate' = [estimate EXCEPT ![r][v] = "APPROVED"]
  /\ UNCHANGED <<ticket, complaint>>

Approve(r, v) ==
  /\ kind[r][v] = "FIXED_ESTIMATE"
  /\ SetEstimates(r, Settle(r, v, "APPROVED", Versions, {"APPROVED"}))
  /\ UNCHANGED <<ticket, complaint>>

RequestRevision(r, v) ==
  /\ estimate' = [estimate EXCEPT ![r][v] = "REVISION_REQUESTED"]
  /\ UNCHANGED <<repair, bearer, ticket, complaint>>

ReviewEstimate(r, v) ==
  /\ ~TenantWorkflowActor(r)
  /\ Review(r, v, "MANAGER")
  /\ \/ /\ Approve(r, v)
        /\ \E b \in Bearers : bearer' = [bearer EXCEPT ![r] = b]
        /\ IF repair[r] \in UnderWay THEN UNCHANGED repair ELSE Move(r, "ESTIMATE_APPROVED")
     \/ RequestRevision(r, v)
     \/ /\ estimate' = [estimate EXCEPT ![r][v] = "REJECTED"]
        /\ RestoreAfterEstimateExit(r, v)

(* Unlike the manager's, the tenant's approval takes the repair back to    *)
(* ESTIMATE_APPROVED also when work is under way.                          *)
ReviewTenantEstimate(r, v) ==
  /\ TenantWorkflowActor(r)
  /\ Review(r, v, "TENANT")
  /\ \/ /\ Approve(r, v)
        /\ Move(r, "ESTIMATE_APPROVED")
        /\ bearer' = [bearer EXCEPT ![r] = "TENANT"]
     \/ RequestRevision(r, v)

(* Confirming the visit a vendor proposes instead of a price. The status   *)
(* of the repair is not looked at.                                         *)
ConfirmVisit(r, v, who) ==
  /\ v = version[r]
  /\ estimate[r][v] = "SUBMITTED"
  /\ kind[r][v] = "VISIT_REQUIRED"
  /\ estimate' = [estimate EXCEPT ![r][v] = "VISIT_SCHEDULED"]
  /\ reviewer' = [reviewer EXCEPT ![r][v] = who]
  /\ Move(r, "SCHEDULED")
  /\ MoveTicket("REPAIR_IN_PROGRESS", "REPAIR_IN_PROGRESS")
  /\ UNCHANGED <<assigned, direct, vendor, tenantAsked, bearer, version, kind, report, billed>>

ConfirmEstimateVisit(r, v) == ~TenantWorkflowActor(r) /\ ConfirmVisit(r, v, "MANAGER")
ConfirmTenantEstimateVisit(r, v) == TenantWorkflowActor(r) /\ ConfirmVisit(r, v, "TENANT")

(***************************************************************************)
(* The work.                                                               *)
(***************************************************************************)
ScheduleApprovedJob(r) ==
  /\ Resolved(r)
  /\ repair[r] = "ESTIMATE_APPROVED"
  /\ ApprovedFixed(r) # {}
  /\ WithStatus(r, {"SUBMITTED", "REVISION_REQUESTED"}) = {}
  /\ Move(r, "SCHEDULED")
  /\ MoveTicket("REPAIR_IN_PROGRESS", "REPAIR_IN_PROGRESS")
  /\ UNCHANGED <<assigned, direct, vendor, tenantAsked, bearer, estimateVars, report, billed>>

(* Faulty: a confirmed visit is enough to begin the work. *)
StartJobOnVisit(r) ==
  /\ Resolved(r)
  /\ WithStatus(r, Pending \ {"VISIT_SCHEDULED"}) = {}
  /\ repair[r] = "SCHEDULED"
  /\ Move(r, "IN_PROGRESS")
  /\ MoveTicket("REPAIR_IN_PROGRESS", "REPAIR_IN_PROGRESS")
  /\ UNCHANGED <<assigned, direct, vendor, tenantAsked, bearer, estimateVars, report, billed>>

StartJob(r) ==
  /\ Resolved(r)
  /\ ApprovedFixed(r) # {}
  /\ WithStatus(r, Pending) = {}
  /\ repair[r] = "SCHEDULED"
  /\ Move(r, "IN_PROGRESS")
  /\ MoveTicket("REPAIR_IN_PROGRESS", "REPAIR_IN_PROGRESS")
  /\ UNCHANGED <<assigned, direct, vendor, tenantAsked, bearer, estimateVars, report, billed>>

(* The ticket follows the repairs that were not cancelled, r having moved  *)
(* to s.                                                                   *)
SyncTicketRepairAggregate(r, s) ==
  LET others == {repair[q] : q \in Repairs \ {r}} \ {"ABSENT", "CANCELLED"}
      statuses == others \union {s}
  IN  CASE statuses = {"COMPLETED"} -> MoveTicket("COMPLETED", "COMPLETED")
        [] statuses # {"COMPLETED"} /\ statuses \subseteq {"COMPLETED", "COMPLETION_REPORTED"} ->
             MoveTicket("COMPLETION_REPORTED", "REPAIR_IN_PROGRESS")
        [] OTHER -> MoveTicket("REPAIR_IN_PROGRESS", "REPAIR_IN_PROGRESS")

MoveWithTicket(r, s) == Move(r, s) /\ SyncTicketRepairAggregate(r, s)

(* The estimate a query ordered by version returns. *)
IsLatest(v, versions) == v \in versions /\ \A w \in versions : w <= v

(* A landlord's report is billed with it: the request is made of the       *)
(* estimate in force, and a later report must still agree with it.         *)
SubmitCompletion(r) ==
  /\ Resolved(r)
  /\ report[r] \in {"NONE", "REJECTED"}
  /\ repair[r] = "IN_PROGRESS"
  /\ WithStatus(r, Pending) = {}
  /\ IF bearer[r] = "LANDLORD"
       THEN \E v \in Versions :
              /\ IsLatest(v, ApprovedFixed(r))
              /\ billed[r] \in {0, v}
              /\ billed' = [billed EXCEPT ![r] = v]
       ELSE NoPaymentRequest(r) /\ UNCHANGED billed
  /\ report' = [report EXCEPT ![r] = "REPORTED"]
  /\ MoveWithTicket(r, "COMPLETION_REPORTED")
  /\ UNCHANGED <<assigned, direct, vendor, tenantAsked, bearer, estimateVars>>

Decidable(r) == report[r] = "REPORTED" /\ repair[r] = "COMPLETION_REPORTED"

DecideTenantCompletion(r, d) ==
  /\ TenantWorkflowActor(r)
  /\ Decidable(r)
  /\ NoPaymentRequest(r)
  /\ \/ /\ d = "APPROVED"
        /\ \E v \in Versions :
             /\ IsLatest(v, {w \in ApprovedFixed(r) : reviewer[r][w] = "TENANT"})
             /\ billed' = [billed EXCEPT ![r] = v]
        /\ MoveWithTicket(r, "COMPLETED")
     \/ /\ d = "REJECTED"
        /\ MoveWithTicket(r, "IN_PROGRESS")
        /\ UNCHANGED billed
  /\ report' = [report EXCEPT ![r] = d]
  /\ UNCHANGED <<assigned, direct, vendor, tenantAsked, bearer, estimateVars>>

DecideCompletion(r, d) ==
  /\ ~TenantWorkflowActor(r)
  /\ d = "APPROVED" => Resolved(r)
  /\ Decidable(r)
  /\ MoveWithTicket(r, IF d = "APPROVED" THEN "COMPLETED" ELSE "IN_PROGRESS")
  /\ report' = [report EXCEPT ![r] = d]
  /\ UNCHANGED <<assigned, direct, vendor, tenantAsked, bearer, estimateVars, billed>>

WorkflowInit ==
  /\ ticket = "RECEIVED"
  /\ complaint = "SUBMITTED"
  /\ assigned = "NONE"
  /\ direct = "NONE"
  /\ repair = [r \in Repairs |-> "ABSENT"]
  /\ vendor = [r \in Repairs |-> "NONE"]
  /\ tenantAsked = [r \in Repairs |-> FALSE]
  /\ bearer = [r \in Repairs |-> "NONE"]
  /\ version = [r \in Repairs |-> 0]
  /\ estimate = [r \in Repairs |-> [v \in Versions |-> "NONE"]]
  /\ kind = [r \in Repairs |-> [v \in Versions |-> "NONE"]]
  /\ reviewer = [r \in Repairs |-> [v \in Versions |-> "NONE"]]
  /\ report = [r \in Repairs |-> "NONE"]
  /\ billed = [r \in Repairs |-> 0]

(* What is done on an estimate. *)
EstimateStep(r, v) ==
  \/ SubmitEstimate(r, v)
  \/ DeclineJob(r, v)
  \/ WithdrawEstimate(r, v)
  \/ ReviewEstimate(r, v)
  \/ ReviewTenantEstimate(r, v)
  \/ ConfirmEstimateVisit(r, v)
  \/ ConfirmTenantEstimateVisit(r, v)

RepairStep(r) ==
  \/ \E k \in Kinds : SaveEstimateDraft(r, k)
  \/ \E v \in Versions : EstimateStep(r, v)
  \/ ScheduleApprovedJob(r)
  \/ StartJob(r)
  \/ SubmitCompletion(r)
  \/ \E d \in {"APPROVED", "REJECTED"} :
       DecideTenantCompletion(r, d) \/ DecideCompletion(r, d)

AssignmentStep ==
  \E r \in Repairs, w \in Vendors : AssignVendor(r, w) \/ RequestVendor(r, w)

WorkflowNext == AssignmentStep \/ \E r \in Repairs : RepairStep(r)

(***************************************************************************)
(* Properties.                                                             *)
(*                                                                         *)
(* The database has unique indexes on the repairs of a ticket and on the   *)
(* submitted and approved estimates of a repair, and triggers on payment   *)
(* requests. They are not part of the actions: the properties say that the *)
(* transactions alone never lead to a row they would refuse.               *)
(***************************************************************************)
TicketTypeOK ==
  /\ ticket \in TicketStatuses
  /\ complaint \in ComplaintStatuses
  /\ assigned \in Vendors \union {"NONE"}
  /\ direct \in {"NONE", "ACTIVE", "COMPLETED"}
RepairTypeOK ==
  /\ repair \in [Repairs -> RepairStatuses]
  /\ vendor \in [Repairs -> Vendors \union {"NONE"}]
  /\ tenantAsked \in [Repairs -> BOOLEAN]
  /\ bearer \in [Repairs -> Bearers \union {"NONE"}]
  /\ report \in [Repairs -> {"NONE", "REPORTED", "APPROVED", "REJECTED"}]
  /\ billed \in [Repairs -> 0..MaxEstimates]
EstimateTypeOK ==
  /\ version \in [Repairs -> 0..MaxEstimates]
  /\ estimate \in [Repairs -> [Versions -> EstimateStatuses]]
  /\ kind \in [Repairs -> [Versions -> Kinds \union {"NONE"}]]
  /\ reviewer \in [Repairs -> [Versions -> {"NONE", "MANAGER", "TENANT"}]]
  /\ \A r \in Repairs, v \in Versions : estimate[r][v] = "NONE" <=> v > version[r]
VendorWorkflowTypeOK == TicketTypeOK /\ RepairTypeOK /\ EstimateTypeOK

(* One repair of a ticket is active at a time, also when the manager       *)
(* changes the vendor while the tenant asks for one: the assignment and    *)
(* the tenant's request never run into "one_active_repair_per_ticket". And *)
(* the ticket names the vendor of the repair that is active.               *)
OneActiveRepair ==
  /\ \A q, r \in LiveRepairs : q = r
  /\ \A r \in LiveRepairs : assigned = vendor[r]

(* A newer version of an estimate takes the place of the older ones: none  *)
(* of them can still be edited, reviewed or visited, and at most one       *)
(* version is approved. Two estimates in force would be two prices.        *)
OneEstimateInForce ==
  \A r \in Repairs :
    /\ \A v \in WithStatus(r, {"DRAFT", "SUBMITTED", "VISIT_SCHEDULED"}) : v = version[r]
    /\ \A v, w \in WithStatus(r, {"APPROVED"}) : v = w

(* From the approval on, whatever is submitted, withdrawn, rejected,       *)
(* revised or visited meanwhile, work that begins, is reported or is done  *)
(* rests on an approved fixed price.                                       *)
WorkRestsOnApproval ==
  \A r \in Repairs :
    repair[r] \in {"ESTIMATE_APPROVED", "IN_PROGRESS", "COMPLETION_REPORTED", "COMPLETED"}
      => ApprovedFixed(r) # {}

(* The estimate a payment request was made of stays the approved one, as   *)
(* the request's trigger demands of every later update, and the price was  *)
(* approved by the one who decides on the work: by the tenant for work of  *)
(* the tenant, otherwise by the manager.                                   *)
BilledPriceWasApproved ==
  \A r \in Repairs : billed[r] # 0 =>
    /\ billed[r] \in ApprovedFixed(r)
    /\ reviewer[r][billed[r]] = IF TenantWorkflowActor(r) THEN "TENANT" ELSE "MANAGER"

(* A repair that is completed or cancelled is never taken up again, though *)
(* a visit is confirmed without a look at the repair's status and an       *)
(* estimate is withdrawn without one.                                      *)
ClosedStaysClosed ==
  [][\A r \in Repairs : repair[r] \in Closed => repair'[r] = repair[r]]_workflowVars
=============================================================================
