--------------------------- MODULE DirectHandling ---------------------------
(***************************************************************************)
(* The two ways a ticket is handled, composed: by vendors (VendorWorkflow) *)
(* or by the manager in person, with what manager and tenant do to the     *)
(* status of the ticket in between.                                        *)
(*                                                                         *)
(* Starting, completing and cancelling direct handling are transactions    *)
(* that lock the ticket. The other actions are methods of the store: they  *)
(* change its copy of the ticket, which is then written to the database.   *)
(* Here that copy is taken to be current and its writing to be immediate,  *)
(* the best case; the store's copies of the repairs are never written back.*)
(***************************************************************************)
EXTENDS VendorWorkflow

ComplaintStatusFor ==
  [t \in TicketStatuses |->
     CASE t = "RECEIVED" -> "SUBMITTED"
       [] t = "VENDOR_ASSIGNMENT_PENDING" -> "REVIEWING"
       [] t = "ESTIMATE_REVIEW" -> "VENDOR_ASSIGNED"
       [] t = "COMPLETION_REPORTED" -> "REPAIR_IN_PROGRESS"
       [] OTHER -> t]

repairVars == <<repair, vendor, tenantAsked, bearer, estimateVars, report, billed>>

(***************************************************************************)
(* The manager's own handling.                                             *)
(***************************************************************************)
StartDirectHandling ==
  /\ direct # "ACTIVE"
  /\ LiveRepairs = {}
  /\ ticket \in Requestable
  /\ direct' = "ACTIVE"
  /\ MoveTicket("REPAIR_IN_PROGRESS", "REPAIR_IN_PROGRESS")
  /\ UNCHANGED <<assigned, repairVars>>

InHand == LiveRepairs = {} /\ direct = "ACTIVE" /\ ticket = "REPAIR_IN_PROGRESS"

CompleteDirectHandling ==
  /\ InHand
  /\ direct' = "COMPLETED"
  /\ MoveTicket("COMPLETION_REPORTED", "REPAIR_IN_PROGRESS")
  /\ UNCHANGED <<assigned, repairVars>>

CancelDirectHandling ==
  /\ InHand
  /\ direct' = "NONE"
  /\ MoveTicket("REVIEWING", "REVIEWING")
  /\ UNCHANGED <<assigned, repairVars>>

(***************************************************************************)
(* The store's transitions of the ticket.                                  *)
(***************************************************************************)
TransitionTicket(t) ==
  /\ MoveTicket(t, ComplaintStatusFor[t])
  /\ UNCHANGED <<assigned, direct, repairVars>>

(* Asking the tenant is possible in every status, by either of two calls. *)
RequestAdditionalInfo == TransitionTicket("ADDITIONAL_INFO_REQUESTED")

SendManagerTicketReply == ticket = "RECEIVED" /\ TransitionTicket("REVIEWING")

AddTenantFollowup ==
  /\ ticket \in {"ADDITIONAL_INFO_REQUESTED", "REOPENED"}
  /\ TransitionTicket("REVIEWING")

(* The lane of the manager's board is a status the manager picks. *)
SetManagerTicketLane ==
  \E t \in {"RECEIVED", "REPAIR_IN_PROGRESS", "COMPLETED"} : t # ticket /\ TransitionTicket(t)

ConfirmTenantCompletion ==
  ticket = "COMPLETION_REPORTED" /\ TransitionTicket("COMPLETED")

ReopenTenantComplaint ==
  ticket \in {"COMPLETION_REPORTED", "COMPLETED"} /\ TransitionTicket("REOPENED")

TicketStep ==
  \/ RequestAdditionalInfo
  \/ SendManagerTicketReply
  \/ AddTenantFollowup
  \/ SetManagerTicketLane
  \/ ConfirmTenantCompletion
  \/ ReopenTenantComplaint

DirectStep == StartDirectHandling \/ CompleteDirectHandling \/ CancelDirectHandling

DirectHandlingInit == WorkflowInit

DirectHandlingNext == WorkflowNext \/ DirectStep \/ TicketStep

DirectHandlingSpec == DirectHandlingInit /\ [][DirectHandlingNext]_workflowVars
=============================================================================
