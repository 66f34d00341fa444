---------------------------- MODULE CreditTopup ----------------------------
(***************************************************************************)
(* Topping the credit account up by card, alone or for a payout to a Gara  *)
(* vendor in the same transaction, next to the other payouts from the      *)
(* account (GaraPayout).                                                   *)
(*                                                                         *)
(* A repository call is one Serializable transaction, hence one step; a    *)
(* service call is a handler that runs several, with a request to the      *)
(* provider between them, and may be cut off at any point by a restart of  *)
(* the server. Nothing but a caller ever resumes the work on an order.     *)
(***************************************************************************)
EXTENDS GaraPayout, TossPayments

CONSTANTS
  TopupAmount,             \* [Orders -> Nat]: what each order tops up
  LinkedTo,                \* [Orders -> Registrations \union {NotLinked}]
  NotLinked,               \* CreditTopupOrder.garaManagerVendorId is null
  Handlers                 \* service calls running at the same time

ASSUME TopupAmountAssumption == TopupAmount \in [Orders -> Nat \ {0}]
ASSUME LinkedToAssumption ==
  NotLinked \notin Registrations /\ LinkedTo \in [Orders -> Registrations \union {NotLinked}]
ASSUME TopupKeysAssumption == TopupKeys = Orders
(* The account may start with an earlier top-up, which is none of these.   *)
ASSUME OpeningOrderAssumption == "opening" \notin Orders

VARIABLES
  topup,                   \* CreditTopupOrder.status, "NONE" for a creation key not used
  events,                  \* keys of the events enqueued for the manager
  handler                  \* where each service call stands, and on which order

topupVars == <<topup, events, handler>>
creditTopupVars == <<ledgerVars, policy, payoutVars, tossVars, topupVars>>

Confirmable == {"CONFIRMING", "RECONCILIATION_REQUIRED"}
TopupStatuses == {"NONE", "READY", "APPROVED", "FAILED", "CANCELLED"} \union Confirmable
Points == {"IDLE", "CONFIRM", "LOOKUP", "FINALIZE", "REJECT", "UNCERTAIN"}

Idle == [at |-> "IDLE", order |-> NotLinked]
Goto(h, point, o) == handler' = [handler EXCEPT ![h] = [at |-> point, order |-> o]]
Finish(h) == handler' = [handler EXCEPT ![h] = Idle]
At(h, point) == handler[h].at = point

SetStatus(o, newStatus) == topup' = [topup EXCEPT ![o] = newStatus]
Enqueue(o, code) == events' = events \union {<<o, code>>}

OrderRef(o) == <<"CREDIT_TOPUP_ORDER", o>>
LinkStands(o) == LinkedTo[o] # NotLinked => registered[LinkedTo[o]]

(***************************************************************************)
(* Orders.                                                                 *)
(***************************************************************************)
CreateOrder(o) ==
  /\ topup[o] = "NONE"
  /\ SetStatus(o, "READY")
  /\ UNCHANGED <<ledgerVars, policy, payoutVars, tossVars, events, handler>>

CreateTopupOrder(o) == LinkedTo[o] = NotLinked /\ CreateOrder(o)

CreateGaraTopupOrder(o) ==
  LinkedTo[o] # NotLinked /\ LinkStands(o) /\ CreateOrder(o)

CancelReadyTopup(o) ==
  /\ topup[o] = "READY"
  /\ SetStatus(o, "CANCELLED")
  /\ UNCHANGED <<ledgerVars, policy, payoutVars, tossVars, events, handler>>

(* The claim commits and the confirm request leaves; a claim that finds    *)
(* the order further on returns it and changes nothing.                    *)
ConfirmTopup(h, o) ==
  /\ At(h, "IDLE")
  /\ topup[o] = "READY"
  /\ SetStatus(o, "CONFIRMING")
  /\ SendConfirm(o)
  /\ Goto(h, "CONFIRM", o)
  /\ UNCHANGED <<ledgerVars, policy, payoutVars, events>>

ReconcileTopup(h, o) ==
  /\ At(h, "IDLE")
  /\ topup[o] \in Confirmable
  /\ Goto(h, "LOOKUP", o)
  /\ UNCHANGED <<ledgerVars, policy, payoutVars, tossVars, topup, events>>

AfterConfirm(answer) ==
  CASE answer = "DONE" -> "FINALIZE"
    [] answer = "DECLINED" -> "REJECT"
    [] OTHER -> "UNCERTAIN"

(* A lookup the provider refuses is treated like a refused confirmation. *)
AfterLookup(answer) ==
  CASE answer = "DONE" -> "FINALIZE"
    [] answer \in {"DECLINED", "ABORTED", "EXPIRED"} -> "REJECT"
    [] OTHER -> "UNCERTAIN"

ReceiveAnswer(h) ==
  LET o == handler[h].order IN
    /\ \/ At(h, "CONFIRM") /\ \E a \in ConfirmAnswers(o) : Goto(h, AfterConfirm(a), o)
       \/ At(h, "LOOKUP") /\ \E a \in LookupAnswers(o) : Goto(h, AfterLookup(a), o)
    /\ UNCHANGED <<ledgerVars, policy, payoutVars, tossVars, topup, events>>

(***************************************************************************)
(* The transactions that end a handler.                                    *)
(***************************************************************************)
(* Faulty: an order already approved is credited again. *)
MayFinalizeAgain(o) == balance <= MaxBalance - TopupAmount[o] /\ LinkStands(o)

MayFinalize(o) ==
  /\ topup[o] \in Confirmable
  /\ balance <= MaxBalance - TopupAmount[o]
  /\ LinkStands(o)

(* The account is credited and, for a linked order, debited again for the  *)
(* vendor's payout: two rows in one transaction.                           *)
CreditForPayout(o) ==
  LET topped == balance + TopupAmount[o] IN
    /\ UNCHANGED balance
    /\ ledger' = ledger \o
         << Row("TOPUP", TopupAmount[o], topped, OrderRef(o), <<"topup", o>>, 0),
            Row("MANUAL_DEBIT", -TopupAmount[o], topped - TopupAmount[o], Ref(o),
                <<"gara-topup-payout", o>>, 0) >>
    /\ Record(o, "CREDIT_DEBITED", Len(ledger) + 2)

FinalizeTopup(h) ==
  LET o == handler[h].order IN
    /\ At(h, "FINALIZE")
    /\ MayFinalize(o)
    /\ \/ /\ LinkedTo[o] = NotLinked
          /\ Credit("TOPUP", TopupAmount[o], OrderRef(o), <<"topup", o>>, 0)
          /\ UNCHANGED <<payout, payoutEntry>>
       \/ LinkedTo[o] # NotLinked /\ CreditForPayout(o)
    /\ SetStatus(o, "APPROVED")
    /\ Enqueue(o, "approved")
    /\ Finish(h)
    /\ UNCHANGED <<policy, registered, tossVars>>

(* The transaction throws, unless the order is already approved, and the   *)
(* handler turns to marking it uncertain.                                  *)
FailToFinalize(h) ==
  LET o == handler[h].order IN
    /\ At(h, "FINALIZE")
    /\ ~ MayFinalize(o)
    /\ IF topup[o] = "APPROVED" THEN Finish(h) ELSE Goto(h, "UNCERTAIN", o)
    /\ UNCHANGED <<ledgerVars, policy, payoutVars, tossVars, topup, events>>

(* Faulty: a late refusal overrides an outcome already recorded. *)
RejectAnyTopup(h) ==
  LET o == handler[h].order IN
    /\ At(h, "REJECT")
    /\ SetStatus(o, "FAILED") /\ Enqueue(o, "failed")
    /\ Finish(h)
    /\ UNCHANGED <<ledgerVars, policy, payoutVars, tossVars>>

MarkTopupRejected(h) ==
  LET o == handler[h].order IN
    /\ At(h, "REJECT")
    /\ IF topup[o] \in Confirmable
         THEN SetStatus(o, "FAILED") /\ Enqueue(o, "failed")
         ELSE UNCHANGED <<topup, events>>
    /\ Finish(h)
    /\ UNCHANGED <<ledgerVars, policy, payoutVars, tossVars>>

MarkTopupUncertain(h) ==
  LET o == handler[h].order IN
    /\ At(h, "UNCERTAIN")
    /\ IF topup[o] = "CONFIRMING"
         THEN SetStatus(o, "RECONCILIATION_REQUIRED") ELSE UNCHANGED topup
    /\ Finish(h)
    /\ UNCHANGED <<ledgerVars, policy, payoutVars, tossVars, events>>

Crash(h) ==
  /\ ~ At(h, "IDLE")
  /\ Finish(h)
  /\ UNCHANGED <<ledgerVars, policy, payoutVars, tossVars, topup, events>>

(***************************************************************************)
(* The component.                                                          *)
(***************************************************************************)
CreditTopupInit ==
  /\ GaraPayoutInit
  /\ TossInit
  /\ topup = [o \in Orders |-> "NONE"]
  /\ events = {}
  /\ handler = [h \in Handlers |-> Idle]

TopupStep ==
  \E o \in Orders : CreateTopupOrder(o) \/ CreateGaraTopupOrder(o) \/ CancelReadyTopup(o)

HandlerStep(h) ==
  \/ \E o \in Orders : ConfirmTopup(h, o) \/ ReconcileTopup(h, o)
  \/ ReceiveAnswer(h)
  \/ FinalizeTopup(h) \/ FailToFinalize(h)
  \/ MarkTopupRejected(h) \/ MarkTopupUncertain(h)
  \/ Crash(h)

CreditTopupNext ==
  \/ GaraPayoutNext /\ UNCHANGED <<tossVars, topupVars>>
  \/ TossNext /\ UNCHANGED <<ledgerVars, policy, payoutVars, topupVars>>
  \/ TopupStep
  \/ \E h \in Handlers : HandlerStep(h)

CreditTopupSpec == CreditTopupInit /\ [][CreditTopupNext]_creditTopupVars

(* A lookup that the provider refuses is taken for a refusal of a payment  *)
(* that it has captured or still may capture.                              *)
MayBeCaptured(o) ==
  payment[o] = "DONE" \/ (payment[o] = "IN_PROGRESS" /\ o \in confirming)
MistakesRefusal ==
  \E h \in Handlers :
    At(h, "LOOKUP") /\ handler'[h].at = "REJECT" /\ MayBeCaptured(handler[h].order)

CheckedTopupSpec ==
  CreditTopupInit /\ [][CreditTopupNext /\ ~ MistakesRefusal]_creditTopupVars

(***************************************************************************)
(* Properties.                                                             *)
(***************************************************************************)
CreditsOf(o) == {i \in DOMAIN ledger : ledger[i].ref = OrderRef(o)}

(* An order's card payment reaches the account at most once, in full, and  *)
(* only if the provider captured it, however many confirmations and        *)
(* reconciliations of it overlap; a linked order leaves behind the payout  *)
(* it was made for, of the same amount.                                    *)
CreditedOnceWhenCaptured ==
  \A o \in Orders :
    /\ Cardinality(CreditsOf(o)) = IF topup[o] = "APPROVED" THEN 1 ELSE 0
    /\ \A i \in CreditsOf(o) : ledger[i].amount = TopupAmount[o]
    /\ \A i \in DebitsOf(o) : ledger[i].amount = -TopupAmount[o]
    /\ topup[o] = "APPROVED" =>
         /\ payment[o] = "DONE"
         /\ LinkedTo[o] # NotLinked => payout[o] = "CREDIT_DEBITED"
    /\ payout[o] # "NONE" => topup[o] = "APPROVED"

(* The manager is told of one outcome per order, the one that stands. *)
OneOutcomeTold ==
  \A o \in Orders :
    {c \in {"approved", "failed"} : <<o, c>> \in events} =
      CASE topup[o] = "APPROVED" -> {"approved"}
        [] topup[o] = "FAILED" -> {"failed"}
        [] OTHER -> {}

(* The account keeps the promise of its ledger; see AppendOnlyLedger. *)
LedgerPromise == Promise!Spec

(* Stated to callers whose confirmation could not be recorded: the outcome *)
(* is merely delayed, and checking again later will show it. So money the  *)
(* provider has captured belongs to an order a later check can still book. *)
CapturedTopupCanBeChecked ==
  \A o \in Orders : payment[o] = "DONE" => topup[o] # "FAILED"
===========================================================================
