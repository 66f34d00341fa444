--------------------------- MODULE TossPayments ---------------------------
(***************************************************************************)
(* The payment provider, seen through the gateway of the API: a payment    *)
(* per order, which one confirm request may capture, refuse or find        *)
(* expired, at a moment the caller does not control. The caller may give   *)
(* up on the answer (10 seconds) while its request is still on the way.    *)
(*                                                                         *)
(* External code, modelled from what the gateway and its callers make of   *)
(* its answers. A capture, a refusal with an aborted payment and an        *)
(* expiry are final at the provider.                                       *)
(***************************************************************************)
EXTENDS Naturals

CONSTANT Orders            \* order ids known to the provider

VARIABLES
  payment,                 \* the provider's status of the order's payment
  confirming               \* orders whose confirm request is not yet processed

tossVars == <<payment, confirming>>

PaymentStatuses == {"IN_PROGRESS", "DONE", "ABORTED", "EXPIRED"}

TossInit ==
  /\ payment = [o \in Orders |-> "IN_PROGRESS"]
  /\ confirming = {}

SendConfirm(o) ==
  /\ confirming' = confirming \union {o}
  /\ UNCHANGED payment

Process(o, outcome) ==
  /\ o \in confirming
  /\ confirming' = confirming \ {o}
  /\ payment' = [payment EXCEPT ![o] = outcome]

Capture(o) == payment[o] = "IN_PROGRESS" /\ Process(o, "DONE")

(* The card is declined, or the request itself is refused and the payment  *)
(* left as it was.                                                         *)
Refuse(o) ==
  \/ payment[o] = "IN_PROGRESS" /\ Process(o, "ABORTED")
  \/ payment[o] # "DONE" /\ Process(o, payment[o])

Expire(o) ==
  /\ payment[o] = "IN_PROGRESS"
  /\ payment' = [payment EXCEPT ![o] = "EXPIRED"]
  /\ UNCHANGED confirming

TossNext == \E o \in Orders : Capture(o) \/ Refuse(o) \/ Expire(o)

(* What the gateway makes of the answer to a confirm request: a time-out,  *)
(* a network error or a 5xx at any moment, the outcome once there is one.  *)
ConfirmAnswers(o) ==
  {"UNKNOWN"} \union
    (IF o \in confirming THEN {} ELSE {IF payment[o] = "DONE" THEN "DONE" ELSE "DECLINED"})

(* And of a lookup by order id: the status, an unknown outcome, or a 4xx   *)
(* with a code (an unknown order, an invalid key), which the gateway       *)
(* calls a decline as well.                                                *)
LookupAnswers(o) == {payment[o], "UNKNOWN", "DECLINED"}
===========================================================================
