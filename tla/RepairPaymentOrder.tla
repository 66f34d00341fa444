------------------------ MODULE RepairPaymentOrder ------------------------
(***************************************************************************)
(* Card payment of a repair through the payment provider, next to every    *)
(* other way the same payment request may be settled, cancelled or         *)
(* corrected (VendorPayment).                                              *)
(*                                                                         *)
(* A repository call is one transaction, hence one step; a service call    *)
(* is a handler that runs several, with a request to the provider between  *)
(* them, and may be cut off at any point by a restart of the server.       *)
(* Nothing but a payer's call ever resumes the work on an order.           *)
(***************************************************************************)
EXTENDS VendorPayment, TossPayments

CONSTANT Handlers          \* service calls running at the same time

VARIABLES
  orderStatus,             \* RepairPaymentOrder.status, "NONE" for a creation key not used
  orderOf,                 \* RepairPaymentOrder.paymentRequestId
  authority,               \* the payer's account is active and linked to the room
  handler                  \* where each service call stands, and on which order

orderVars == <<orderStatus, orderOf, authority, handler>>
repairPaymentVars == <<vendorPaymentVars, tossVars, orderVars>>

NoRepair == "none"
ASSUME OrdersAssumption == NoOrder \notin Orders /\ NoRepair \notin Repairs

Active == {"READY", "CONFIRMING", "RECONCILIATION_REQUIRED"}
Confirmable == {"CONFIRMING", "RECONCILIATION_REQUIRED"}
OrderStatuses == {"NONE", "APPROVED", "FAILED", "CANCELLED"} \union Active
Points == {"IDLE", "CONFIRM", "LOOKUP", "FINALIZE", "REJECT", "UNCERTAIN"}

Idle == [at |-> "IDLE", order |-> NoOrder]
Goto(h, point, o) == handler' = [handler EXCEPT ![h] = [at |-> point, order |-> o]]
Finish(h) == handler' = [handler EXCEPT ![h] = Idle]
At(h, point) == handler[h].at = point

CanPrepareTossPayment(r) ==
  status[r] \in Payable /\ ~ (Payer[r] = "TENANT" /\ lastMode[r] = "DIRECT")

(* Both rows are locked and the payer's authority is read in the same      *)
(* transaction; without it the order does not exist for the caller.        *)
LockOrderAndAuthority(o) == orderOf[o] # NoRepair /\ authority[orderOf[o]]

(***************************************************************************)
(* Preparing an order.                                                     *)
(***************************************************************************)
NewOrder(o, r, others) ==
  /\ orderStatus[o] = "NONE"
  /\ orderStatus' = [others EXCEPT ![o] = "READY"]
  /\ orderOf' = [orderOf EXCEPT ![o] = r]
  /\ openOrder' = [openOrder EXCEPT ![r] = o]
  /\ UNCHANGED <<ledgerVars, workVars, requestVars, attempts, receipts, announced,
                 policy, tossVars, authority, handler>>

CreateOrder(o, r) ==
  /\ authority[r]
  /\ CanPrepareTossPayment(r)
  /\ openOrder[r] = NoOrder
  /\ NewOrder(o, r, orderStatus)

(* A new order for the same request; the old one is cancelled if it never  *)
(* left the shop, and must otherwise have failed.                          *)
RetryOrder(old, o) ==
  /\ LockOrderAndAuthority(old)
  /\ LET r == orderOf[old] IN
       /\ CanPrepareTossPayment(r)
       /\ \/ orderStatus[old] = "READY"
             /\ NewOrder(o, r, [orderStatus EXCEPT ![old] = "CANCELLED"])
          \/ orderStatus[old] = "FAILED"
             /\ openOrder[r] = NoOrder
             /\ NewOrder(o, r, orderStatus)

(* Faulty: an order that ends keeps its open key. *)
UpdateKeepsKey(o, newStatus) ==
  /\ orderStatus' = [orderStatus EXCEPT ![o] = newStatus]
  /\ UNCHANGED <<vendorPaymentVars, orderOf, authority>>

(* An update of one order row that changes no payment request. *)
UpdateOrder(o, newStatus) ==
  /\ orderStatus' = [orderStatus EXCEPT ![o] = newStatus]
  /\ openOrder' = [openOrder EXCEPT ![orderOf[o]] =
                     IF newStatus \in Active THEN o ELSE IF @ = o THEN NoOrder ELSE @]
  /\ UNCHANGED <<ledgerVars, workVars, requestVars, attempts, receipts, announced,
                 policy, orderOf, authority>>

CancelOrder(o) ==
  /\ LockOrderAndAuthority(o)
  /\ orderStatus[o] \in {"READY", "FAILED"}
  /\ UpdateOrder(o, "CANCELLED")
  /\ UNCHANGED <<tossVars, handler>>

(***************************************************************************)
(* Confirming and reconciling an order.                                    *)
(***************************************************************************)
(* The claim commits and the confirm request leaves; a claim that finds    *)
(* the order further on returns it and changes nothing.                    *)
ConfirmOrder(h, o) ==
  /\ At(h, "IDLE")
  /\ LockOrderAndAuthority(o)
  /\ orderStatus[o] = "READY"
  /\ CanPrepareTossPayment(orderOf[o])
  /\ UpdateOrder(o, "CONFIRMING")
  /\ SendConfirm(o)
  /\ Goto(h, "CONFIRM", o)

ReconcileOrder(h, o) ==
  /\ At(h, "IDLE")
  /\ LockOrderAndAuthority(o)
  /\ orderStatus[o] \in Confirmable
  /\ Goto(h, "LOOKUP", o)
  /\ UNCHANGED <<vendorPaymentVars, tossVars, orderStatus, orderOf, authority>>

(* Faulty: no answer in time is taken for success. *)
AfterConfirmOptimistic(answer) == IF answer = "DECLINED" THEN "REJECT" ELSE "FINALIZE"

AfterConfirm(answer) ==
  CASE answer = "DONE" -> "FINALIZE"
    [] answer = "DECLINED" -> "REJECT"
    [] OTHER -> "UNCERTAIN"

(* Faulty: a refused lookup is taken for a refused payment. *)
AfterLookupRejecting(answer) ==
  CASE answer = "DONE" -> "FINALIZE"
    [] answer \in {"DECLINED", "ABORTED", "EXPIRED"} -> "REJECT"
    [] OTHER -> "UNCERTAIN"

AfterLookup(answer) ==
  CASE answer = "DONE" -> "FINALIZE"
    [] answer \in {"ABORTED", "EXPIRED"} -> "REJECT"
    [] OTHER -> "UNCERTAIN"

ReceiveAnswer(h) ==
  LET o == handler[h].order IN
    /\ \/ At(h, "CONFIRM") /\ \E a \in ConfirmAnswers(o) : Goto(h, AfterConfirm(a), o)
       \/ At(h, "LOOKUP") /\ \E a \in LookupAnswers(o) : Goto(h, AfterLookup(a), o)
    /\ UNCHANGED <<vendorPaymentVars, tossVars, orderStatus, orderOf, authority>>

MayFinalize(o) ==
  LET r == orderOf[o] IN
    /\ LockOrderAndAuthority(o)
    /\ orderStatus[o] \in Confirmable
    /\ CanPrepareTossPayment(r)
    /\ cost[r] = "NONE" /\ entry[r] = 0
    /\ <<r, "TOSS_PAID">> \notin announced

FinalizeOrder(h) ==
  LET o == handler[h].order
      r == orderOf[o]
  IN  /\ At(h, "FINALIZE")
      /\ MayFinalize(o)
      /\ cost' = [cost EXCEPT ![r] = IF Payer[r] = "MANAGER" THEN "CONFIRMED" ELSE @]
      /\ status' = [status EXCEPT ![r] = "TOSS_PAID"]
      /\ entry' = [entry EXCEPT ![r] = 0]
      /\ lastMode' = [lastMode EXCEPT ![r] = "TOSS"]
      /\ orderStatus' = [orderStatus EXCEPT ![o] = "APPROVED"]
      /\ openOrder' = [openOrder EXCEPT ![r] = NoOrder]
      /\ Announce(r, "TOSS_PAID")
      /\ Finish(h)
      /\ UNCHANGED <<ledgerVars, workVars, linked, attempts, receipts, policy,
                     tossVars, orderOf, authority>>

(* The transaction throws, unless another handler has already approved     *)
(* the order, and the handler turns to marking it uncertain.               *)
FailToFinalize(h) ==
  LET o == handler[h].order IN
    /\ At(h, "FINALIZE")
    /\ ~ MayFinalize(o)
    /\ IF LockOrderAndAuthority(o) /\ orderStatus[o] = "APPROVED"
         THEN Finish(h) ELSE Goto(h, "UNCERTAIN", o)
    /\ UNCHANGED <<vendorPaymentVars, tossVars, orderStatus, orderOf, authority>>

(* The last transaction of a handler: it applies or throws, and either way *)
(* the call is over.                                                       *)
Mark(h, newStatus) ==
  LET o == handler[h].order IN
    /\ IF LockOrderAndAuthority(o) /\ orderStatus[o] \in Confirmable
         THEN UpdateOrder(o, newStatus)
         ELSE UNCHANGED <<vendorPaymentVars, orderStatus, orderOf, authority>>
    /\ Finish(h)
    /\ UNCHANGED tossVars

MarkRejected(h) == At(h, "REJECT") /\ Mark(h, "FAILED")
MarkUncertain(h) == At(h, "UNCERTAIN") /\ Mark(h, "RECONCILIATION_REQUIRED")

CutOff(h) ==
  /\ ~ At(h, "IDLE")
  /\ Finish(h)
  /\ UNCHANGED <<vendorPaymentVars, tossVars, orderStatus, orderOf, authority>>

(* The payer moves out, changes hands or is disabled; or comes back. *)
ChangeAuthority(r) ==
  /\ authority' = [authority EXCEPT ![r] = ~ @]
  /\ UNCHANGED <<vendorPaymentVars, tossVars, orderStatus, orderOf, handler>>

(***************************************************************************)
(* The component.                                                          *)
(***************************************************************************)
RepairPaymentInit ==
  /\ VendorPaymentInit
  /\ TossInit
  /\ orderStatus = [o \in Orders |-> "NONE"]
  /\ orderOf = [o \in Orders |-> NoRepair]
  /\ authority = [r \in Repairs |-> TRUE]
  /\ handler = [h \in Handlers |-> Idle]

OrderStep ==
  \/ \E o \in Orders, r \in Repairs : CreateOrder(o, r)
  \/ \E old, o \in Orders : RetryOrder(old, o)
  \/ \E o \in Orders : CancelOrder(o)
  \/ \E r \in Repairs : ChangeAuthority(r)

HandlerStep(h) ==
  \/ \E o \in Orders : ConfirmOrder(h, o) \/ ReconcileOrder(h, o)
  \/ ReceiveAnswer(h)
  \/ FinalizeOrder(h) \/ FailToFinalize(h)
  \/ MarkRejected(h) \/ MarkUncertain(h)
  \/ CutOff(h)

RepairPaymentNext ==
  \/ VendorPaymentNext /\ UNCHANGED <<tossVars, orderVars>>
  \/ TossNext /\ UNCHANGED <<vendorPaymentVars, orderVars>>
  \/ OrderStep
  \/ \E h \in Handlers : HandlerStep(h)

RepairPaymentSpec == RepairPaymentInit /\ [][RepairPaymentNext]_repairPaymentVars

(***************************************************************************)
(* Properties.                                                             *)
(***************************************************************************)
(* Order rows, payments and handlers hold the values the code gives them,  *)
(* and a handler away from idle works on an order that exists. An order    *)
(* holds the open key of its request exactly while it is active: the CHECK *)
(* constraint on the key never aborts a transaction, and no request has    *)
(* two orders a payer could pay.                                           *)
RepairPaymentTypeOK ==
  /\ VendorPaymentTypeOK
  /\ payment \in [Orders -> PaymentStatuses] /\ confirming \subseteq Orders
  /\ orderStatus \in [Orders -> OrderStatuses]
  /\ orderOf \in [Orders -> Repairs \union {NoRepair}]
  /\ \A o \in Orders : (orderStatus[o] = "NONE") <=> (orderOf[o] = NoRepair)
  /\ openOrder \in [Repairs -> Orders \union {NoOrder}]
  /\ authority \in [Repairs -> BOOLEAN]
  /\ \A h \in Handlers :
       \/ handler[h] = Idle
       \/ /\ handler[h].at \in Points \ {"IDLE"}
          /\ handler[h].order \in Orders /\ orderStatus[handler[h].order] # "NONE"
  /\ \A o \in Orders, r \in Repairs :
       (openOrder[r] = o) <=> (orderOf[o] = r /\ orderStatus[o] \in Active)

Captured(r) == {o \in Orders : orderOf[o] = r /\ payment[o] = "DONE"}

(* Money the provider has captured can always be booked: until its order   *)
(* is approved the order stays in a status that reconciliation accepts,    *)
(* and the request stays payable, with no cost and no ledger row, whatever *)
(* other settlement, cancellation or retry was tried meanwhile. Only the   *)
(* payer's own authority can be missing.                                   *)
CapturedMoneyCanBeBooked ==
  \A o \in Orders :
    payment[o] = "DONE" /\ orderStatus[o] # "APPROVED" =>
      LET r == orderOf[o] IN
        /\ orderStatus[o] \in Confirmable
        /\ CanPrepareTossPayment(r)
        /\ cost[r] = "NONE" /\ entry[r] = 0 /\ <<r, "TOSS_PAID">> \notin announced

(* A request is paid by card exactly when one of its orders is approved,   *)
(* and that order, and no other of the request, was captured.              *)
TossPaidMatchesCapture ==
  \A r \in Repairs :
    LET approved == {o \in Orders : orderOf[o] = r /\ orderStatus[o] = "APPROVED"} IN
      /\ (status[r] = "TOSS_PAID") <=> (approved # {})
      /\ status[r] = "TOSS_PAID" => approved = Captured(r) /\ Cardinality(approved) = 1

(* Whichever way pays a repair first, card included, the money leaves at   *)
(* most once: with a capture counted from the moment the provider makes    *)
(* it, the payment still is a PaymentObligation.                           *)
CardObligation == INSTANCE PaymentObligation WITH
  due <- [r \in Repairs |->
            IF Captured(r) # {} /\ status[r] \in Payable THEN "settled" ELSE DueOf(r)],
  outflow <- [r \in Repairs |->
            (IF status[r] = "DIRECT_PAID" THEN Amount[r] ELSE CreditOutflow(r))
              + Amount[r] * Cardinality(Captured(r))]

PaidAtMostOnceWithCard == CardObligation!Spec

(* A failed or cancelled order is never captured afterwards, so a payer    *)
(* who is told so may pay again.                                           *)
GivenUpOrdersStayUnpaid ==
  \A o \in Orders : orderStatus[o] \in {"FAILED", "CANCELLED"} => payment[o] # "DONE"
===========================================================================
