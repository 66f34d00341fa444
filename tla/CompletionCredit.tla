------------------------- MODULE CompletionCredit -------------------------
(***************************************************************************)
(* The approval of a completion asks the credit component, through the     *)
(* outbox, to evaluate the payment request: VendorPayment with its         *)
(* evaluation driven by DomainEventOutbox instead of happening by itself.  *)
(* The approval and its delivery row commit together; the evaluation and   *)
(* the record that it was made do not.                                     *)
(***************************************************************************)
EXTENDS VendorPayment, DomainEventOutbox

ASSUME DeliveriesAssumption == Deliveries = Repairs

completionVars == <<vendorPaymentVars, outboxVars>>

(* Faulty: the approval commits without its delivery row. *)
ApproveUnannounced(r) == DecideCompletion(r, "APPROVED") /\ UNCHANGED outboxVars

Approve(r) ==
  /\ DecideCompletion(r, "APPROVED")
  /\ Enqueue(r)
  /\ UNCHANGED <<expired, owner, batch, working, faults>>

(* Faulty: an evaluation that was rolled back is taken for done. *)
EvaluateNothing(w) ==
  \E r \in Repairs : TakeEffect(w, r, TRUE) /\ UNCHANGED vendorPaymentVars

(* Faulty: a delivery that comes late or twice pays whatever the request's *)
(* status has become.                                                      *)
EvaluateAnyStatus(w) ==
  \E r \in Repairs :
    /\ Settleable(r) /\ WithinPolicy(Amount[r])
    /\ SettleLocked(r, "AUTO_CREDIT", AutoKey(r))
    /\ TakeEffect(w, r, TRUE)

(* A request already evaluated, or final by now, is returned as it is; one *)
(* that fails validation would throw, and its delivery be rescheduled.     *)
Evaluate(w) ==
  \E r \in Repairs :
    /\ TakeEffect(w, r, Settleable(r) /\ status[r] # "NONE")
    /\ IF Settleable(r) /\ status[r] = "WAITING_COMPLETION"
         THEN EvaluateAfterCompletion(r)
         ELSE UNCHANGED vendorPaymentVars

(* The evaluation is rolled back: its retries are used up, or the database *)
(* is out of reach.                                                        *)
FailToEvaluate(w) ==
  \E r \in Repairs : FailToTakeEffect(w, r) /\ UNCHANGED vendorPaymentVars

OtherPaymentStep(r) ==
  \/ \E k \in Keys, m \in {"MANUAL_CREDIT", "DIRECT"} : SettlePaymentRequest(r, m, k)
  \/ \E k \in Keys : RequestTenantDirectPayment(r, k)
  \/ ConfirmVendorDirectPayment(r)
  \/ CorrectionStep(r)

OtherWorkStep(r) ==
  \/ SubmitCompletion(r)
  \/ DecideCompletion(r, "REJECTED")
  \/ \E d \in {"APPROVED", "REJECTED"} : DecideTenantCompletion(r, d)

CompletionInit == VendorPaymentInit /\ OutboxInit

CompletionNext ==
  \/ \E r \in Repairs : Approve(r)
  \/ \E w \in Workers : Evaluate(w) \/ FailToEvaluate(w)
  \/ (\E r \in Repairs : OtherWorkStep(r) \/ OtherPaymentStep(r)) /\ UNCHANGED outboxVars
  \/ (\E limit \in Limits \union {0} : SaveAutoPayPolicy(limit)) /\ UNCHANGED outboxVars
  \/ OutboxStep /\ UNCHANGED vendorPaymentVars

(* The poll interval drives every worker, and time passes. *)
CompletionFairness ==
  /\ \A d \in Deliveries :
       WF_completionVars((BecomeDue(d) \/ ExpireLostLease(d)) /\ UNCHANGED vendorPaymentVars)
  /\ \A w \in Workers :
       /\ WF_completionVars(Evaluate(w))
       /\ WF_completionVars(/\ ClaimPending(w) \/ MarkDelivered(w) \/ Reschedule(w)
                            /\ UNCHANGED vendorPaymentVars)

CompletionSpec == CompletionInit /\ [][CompletionNext]_completionVars /\ CompletionFairness

(***************************************************************************)
(* Properties.                                                             *)
(***************************************************************************)
(* A delivery exists exactly for the approvals a manager made, and as long *)
(* as it is not delivered the request it names still passes validation:    *)
(* no event is retried for ever because the work moved on under it.        *)
DeliveryStaysValid ==
  \A r \in Repairs :
    /\ (state[r] # "NONE") <=> (Payer[r] = "MANAGER" /\ decision[r] = "APPROVED")
    /\ state[r] # "NONE" => Settleable(r) /\ status[r] # "NONE"

(* A delivery marked delivered has been evaluated: no crash or failed      *)
(* statement between the two transactions marks one that was not.          *)
DeliveredWasEvaluated ==
  \A r \in Repairs : state[r] = "DELIVERED" => status[r] \in Payable \union Final

(* Every approved completion leads to a payment or to a request that a     *)
(* manager can act on, whatever crashes and failures come in between.      *)
ApprovalIsEvaluated ==
  \A r \in Repairs :
    Payer[r] = "MANAGER" /\ decision[r] = "APPROVED" ~> status[r] # "WAITING_COMPLETION"

(* Driven by deliveries that may come late, twice or from two workers at   *)
(* once, the payment request behaves as VendorPayment says.                *)
ImplementsVendorPayment == VendorPaymentSpec
===========================================================================
