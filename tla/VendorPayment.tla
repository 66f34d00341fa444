--------------------------- MODULE VendorPayment ---------------------------
(***************************************************************************)
(* The payment request behind a repair: from the vendor's completion       *)
(* report, through its approval, to the one payment that settles it and    *)
(* the corrections that may follow.                                        *)
(*                                                                         *)
(* Each action is one database transaction of the credit command           *)
(* repository or of the vendor workflow repository. All of them lock the   *)
(* repair or its payment request row first, so a transaction is one step.  *)
(* A call that finds its own earlier work (a replay) or is refused changes *)
(* nothing and is a stuttering step.                                       *)
(***************************************************************************)
EXTENDS CreditLedger, FiniteSetsExt

CONSTANTS
  Repairs,                 \* repair requests; a repair has at most one payment request
  Amount,                  \* [Repairs -> Nat]: the approved estimate's total
  Payer,                   \* [Repairs -> {"MANAGER", "TENANT"}]: who bears the cost
  Keys,                    \* idempotency keys clients send
  MaxReports               \* bound: completion reports per repair

ASSUME AmountAssumption == Amount \in [Repairs -> Nat \ {0}]
ASSUME PayerAssumption == Payer \in [Repairs -> {"MANAGER", "TENANT"}]
ASSUME MaxReportsAssumption == MaxReports \in Nat

VARIABLES
  repair,                  \* RepairRequest.status
  report,                  \* version of the latest completion report, 0 for none
  decision,                \* the decision on that report
  linked,                  \* version of the report the payment request refers to
  status,                  \* VendorPaymentRequest.status, "NONE" when there is no row
  lastMode,                \* VendorPaymentRequest.lastAttemptMode
  entry,                   \* VendorPaymentRequest.ledgerEntryId: a ledger position, 0 for null
  cost,                    \* status of the Cost row the request points to
  attempts,                \* VendorPaymentAttempt rows
  receipts,                \* VendorPaymentCommandReceipt rows
  announced,               \* audit rows and the event keys enqueued with them
  openOrder                \* RepairPaymentOrder row whose openOrderKey is the request

workVars == <<repair, report, decision>>
requestVars == <<linked, status, lastMode, entry, cost>>
vendorPaymentVars ==
  <<balance, ledger, repair, report, decision, linked, status, lastMode, entry,
    cost, attempts, receipts, announced, policy, openOrder>>

NoOrder == "none"

CreditPaid == {"AUTO_PAID", "MANUAL_CREDIT_PAID"}
Paid == CreditPaid \union {"DIRECT_PAID", "TOSS_PAID"}
Corrected == {"REVERSED", "DIRECT_PAYMENT_VOIDED", "CANCELLED"}
Final == Paid \union Corrected
Payable == {"PENDING_APPROVAL", "INSUFFICIENT_CREDIT"}
Statuses == {"NONE", "WAITING_COMPLETION"} \union Payable \union Final
Modes == {"AUTO_CREDIT", "MANUAL_CREDIT", "DIRECT", "TOSS"}

Ref(r) == <<"VENDOR_PAYMENT_REQUEST", r>>
AutoKey(r) == <<"auto", r>>
ClientKey(k) == <<"client", k>>

AttemptKeys == {a.key : a \in attempts}
ReceiptKeys == {c.key : c \in receipts}

(***************************************************************************)
(* The vendor's work and its approval.                                     *)
(***************************************************************************)
SubmitCompletion(r) ==
  /\ report[r] < MaxReports
  /\ repair[r] = "IN_PROGRESS"
  /\ report[r] > 0 => decision[r] = "REJECTED"
  /\ IF Payer[r] = "MANAGER"
       THEN /\ status[r] \in {"NONE", "WAITING_COMPLETION"}
            /\ linked' = [linked EXCEPT ![r] = report[r] + 1]
            /\ status' = [status EXCEPT ![r] = "WAITING_COMPLETION"]
       ELSE status[r] = "NONE" /\ UNCHANGED <<linked, status>>
  /\ repair' = [repair EXCEPT ![r] = "COMPLETION_REPORTED"]
  /\ report' = [report EXCEPT ![r] = @ + 1]
  /\ decision' = [decision EXCEPT ![r] = "NONE"]
  /\ UNCHANGED <<balance, ledger, lastMode, entry, cost, attempts, receipts,
                 announced, policy, openOrder>>

Decide(r, d) ==
  /\ report[r] > 0
  /\ decision[r] = "NONE"
  /\ repair[r] = "COMPLETION_REPORTED"
  /\ decision' = [decision EXCEPT ![r] = d]
  /\ repair' = [repair EXCEPT ![r] = IF d = "APPROVED" THEN "COMPLETED" ELSE "IN_PROGRESS"]
  /\ UNCHANGED <<balance, ledger, report, lastMode, entry, cost, attempts, receipts,
                 announced, policy, openOrder>>

(* The manager's approval also enqueues the event that asks the credit     *)
(* component to evaluate the request: see EvaluateAfterCompletion.         *)
DecideCompletion(r, d) ==
  /\ Payer[r] = "MANAGER"
  /\ status[r] = "WAITING_COMPLETION"
  /\ linked[r] = report[r]
  /\ Decide(r, d)
  /\ UNCHANGED <<linked, status>>

(* The tenant's approval creates the tenant's payment request. *)
DecideTenantCompletion(r, d) ==
  /\ Payer[r] = "TENANT"
  /\ status[r] = "NONE"
  /\ Decide(r, d)
  /\ IF d = "APPROVED"
       THEN /\ linked' = [linked EXCEPT ![r] = report[r]]
            /\ status' = [status EXCEPT ![r] = "PENDING_APPROVAL"]
       ELSE UNCHANGED <<linked, status>>

(***************************************************************************)
(* Settlement.                                                             *)
(***************************************************************************)
(* Faulty: a report counts as approved before anyone decided on it. *)
SettleableUndecided(r) ==
  Payer[r] = "MANAGER" /\ report[r] > 0 /\ linked[r] = report[r]

Settleable(r) ==
  /\ Payer[r] = "MANAGER"
  /\ report[r] > 0
  /\ linked[r] = report[r]
  /\ decision[r] = "APPROVED"

(* Faulty: a settlement does not look for an open card order. *)
IgnoreTossOrder(r) == r \in Repairs

NoActiveTossOrder(r) == openOrder[r] = NoOrder

Attempt(key, r, mode, outcome) ==
  [key |-> key, request |-> r, mode |-> mode, outcome |-> outcome]

RecordAttempt(key, r, mode, outcome) ==
  attempts' = attempts \union {Attempt(key, r, mode, outcome)}

(* The audit row and, when it is new, the event with the same key. *)
Announce(r, code) == announced' = announced \union {<<r, code>>}

PaidStatus(mode) ==
  CASE mode = "AUTO_CREDIT" -> "AUTO_PAID"
    [] mode = "MANUAL_CREDIT" -> "MANUAL_CREDIT_PAID"
    [] mode = "DIRECT" -> "DIRECT_PAID"

(* The three outcomes of settling a request whose row is locked: paid from *)
(* the account, not enough on the account, or paid outside of it.          *)
SettleFromAccount(r, mode, key) ==
  /\ Debit(IF mode = "AUTO_CREDIT" THEN "AUTO_DEBIT" ELSE "MANUAL_DEBIT",
           Amount[r], Ref(r), <<"payment", key>>)
  /\ entry' = [entry EXCEPT ![r] = Len(ledger) + 1]

SettleOutside(r) == UNCHANGED <<balance, ledger, entry>>

MarkSettled(r, mode, key) ==
  /\ cost' = [cost EXCEPT ![r] = "CONFIRMED"]
  /\ RecordAttempt(key, r, mode, "SUCCEEDED")
  /\ status' = [status EXCEPT ![r] = PaidStatus(mode)]
  /\ lastMode' = [lastMode EXCEPT ![r] = mode]
  /\ Announce(r, PaidStatus(mode))

MarkInsufficient(r, mode, key) ==
  /\ balance < Amount[r]
  /\ RecordAttempt(key, r, mode, "INSUFFICIENT_CREDIT")
  /\ status' = [status EXCEPT ![r] = "INSUFFICIENT_CREDIT"]
  /\ lastMode' = [lastMode EXCEPT ![r] = mode]
  /\ Announce(r, "INSUFFICIENT_CREDIT")
  /\ UNCHANGED <<balance, ledger, entry, cost>>

SettleLocked(r, mode, key) ==
  /\ \/ mode # "DIRECT" /\ SettleFromAccount(r, mode, key) /\ MarkSettled(r, mode, key)
     \/ mode = "DIRECT" /\ SettleOutside(r) /\ MarkSettled(r, mode, key)
     \/ mode # "DIRECT" /\ MarkInsufficient(r, mode, key)
  /\ UNCHANGED <<workVars, linked, receipts, policy, openOrder>>

(* Faulty: a repeated evaluation does not notice that the first happened. *)
EvaluateAgain(r) ==
  /\ Settleable(r) /\ WithinPolicy(Amount[r]) /\ NoActiveTossOrder(r)
  /\ SettleLocked(r, "AUTO_CREDIT", AutoKey(r))

(* The credit evaluation of an approved completion. The approval's event   *)
(* is delivered at least once, so this may run again at any later time.    *)
EvaluateAfterCompletion(r) ==
  /\ Settleable(r)
  /\ status[r] = "WAITING_COMPLETION"
  /\ IF WithinPolicy(Amount[r])
       THEN NoActiveTossOrder(r) /\ SettleLocked(r, "AUTO_CREDIT", AutoKey(r))
       ELSE /\ status' = [status EXCEPT ![r] = "PENDING_APPROVAL"]
            /\ lastMode' = [lastMode EXCEPT ![r] = "NONE"]
            /\ Announce(r, "PENDING_APPROVAL")
            /\ UNCHANGED <<balance, ledger, workVars, linked, entry, cost, attempts,
                           receipts, policy, openOrder>>

(* The manager settles a request from the account or records a transfer    *)
(* made outside. A key that already has an attempt is a replay.            *)
SettlePaymentRequest(r, mode, k) ==
  /\ Settleable(r)
  /\ ClientKey(k) \notin AttemptKeys
  /\ status[r] \in Payable
  /\ NoActiveTossOrder(r)
  /\ SettleLocked(r, mode, ClientKey(k))

SaveAutoPayPolicy(limit) ==
  /\ SavePolicy(limit)
  /\ UNCHANGED <<balance, ledger, workVars, requestVars, attempts, receipts,
                 announced, openOrder>>

(***************************************************************************)
(* A tenant who declares a direct transfer; the vendor confirms it.        *)
(***************************************************************************)
TenantDirectPending(r) ==
  /\ Payer[r] = "TENANT"
  /\ status[r] = "PENDING_APPROVAL"
  /\ lastMode[r] = "DIRECT"

RequestTenantDirectPayment(r, k) ==
  /\ Payer[r] = "TENANT"
  /\ ~ TenantDirectPending(r)
  /\ status[r] = "PENDING_APPROVAL"
  /\ cost[r] = "NONE" /\ entry[r] = 0
  /\ NoActiveTossOrder(r)
  /\ ClientKey(k) \notin AttemptKeys
  /\ RecordAttempt(ClientKey(k), r, "DIRECT", "STARTED")
  /\ lastMode' = [lastMode EXCEPT ![r] = "DIRECT"]
  /\ UNCHANGED <<balance, ledger, workVars, linked, status, entry, cost, receipts,
                 announced, policy, openOrder>>

(* Faulty: the vendor's confirmation finds the attempt but not its request. *)
ConfirmStaleTransfer(r) ==
  /\ \E a \in attempts :
       /\ a.request = r /\ a.mode = "DIRECT" /\ a.outcome = "STARTED"
       /\ attempts' = (attempts \ {a}) \union {[a EXCEPT !.outcome = "SUCCEEDED"]}
  /\ status' = [status EXCEPT ![r] = "DIRECT_PAID"]
  /\ Announce(r, "TENANT_DIRECT_PAID")
  /\ UNCHANGED <<balance, ledger, workVars, linked, lastMode, entry, cost, receipts,
                 policy, openOrder>>

ConfirmVendorDirectPayment(r) ==
  /\ TenantDirectPending(r)
  /\ cost[r] = "NONE" /\ entry[r] = 0
  /\ \E a \in attempts :
       /\ a.request = r /\ a.mode = "DIRECT" /\ a.outcome = "STARTED"
       /\ attempts' = (attempts \ {a}) \union {[a EXCEPT !.outcome = "SUCCEEDED"]}
  /\ status' = [status EXCEPT ![r] = "DIRECT_PAID"]
  /\ Announce(r, "TENANT_DIRECT_PAID")
  /\ UNCHANGED <<balance, ledger, workVars, linked, lastMode, entry, cost, receipts,
                 policy, openOrder>>

(***************************************************************************)
(* Corrections, each guarded by a receipt for its idempotency key.         *)
(***************************************************************************)
Correct(r, command, k, newStatus) ==
  /\ k \notin ReceiptKeys
  /\ status' = [status EXCEPT ![r] = newStatus]
  /\ receipts' = receipts \union {[key |-> k, request |-> r, command |-> command]}
  /\ Announce(r, newStatus)
  /\ UNCHANGED <<workVars, linked, lastMode, entry, attempts, policy, openOrder>>

VoidAuthoritativeCost(r) ==
  /\ cost[r] = "CONFIRMED"
  /\ cost' = [cost EXCEPT ![r] = "VOID"]

ReverseCreditPayment(r, k) ==
  /\ status[r] \in CreditPaid
  /\ entry[r] \in DOMAIN ledger
  /\ LET debit == ledger[entry[r]] IN
       /\ debit.type \in Debits
       /\ debit.ref = Ref(r) /\ debit.amount = -Amount[r]
       /\ Credit("REVERSAL", -debit.amount, Ref(r), <<"credit-reversal", ClientKey(k)>>, entry[r])
  /\ VoidAuthoritativeCost(r)
  /\ Correct(r, "CREDIT_REVERSAL", k, "REVERSED")

VoidDirectPayment(r, k) ==
  /\ status[r] = "DIRECT_PAID"
  /\ entry[r] = 0
  /\ VoidAuthoritativeCost(r)
  /\ Correct(r, "DIRECT_VOID", k, "DIRECT_PAYMENT_VOIDED")
  /\ UNCHANGED ledgerVars

(* Faulty: a request is cancelled whatever became of it. *)
CancelUnchecked(r, k) ==
  /\ NoActiveTossOrder(r)
  /\ Correct(r, "PAYMENT_CANCEL", k, "CANCELLED")
  /\ UNCHANGED <<balance, ledger, cost>>

CancelPaymentRequest(r, k) ==
  /\ NoActiveTossOrder(r)
  /\ status[r] \in Payable
  /\ cost[r] = "NONE" /\ entry[r] = 0
  /\ Correct(r, "PAYMENT_CANCEL", k, "CANCELLED")
  /\ UNCHANGED <<balance, ledger, cost>>

(***************************************************************************)
(* The component.                                                          *)
(***************************************************************************)
VendorPaymentInit ==
  /\ LedgerInit
  /\ repair = [r \in Repairs |-> "IN_PROGRESS"]
  /\ report = [r \in Repairs |-> 0]
  /\ decision = [r \in Repairs |-> "NONE"]
  /\ linked = [r \in Repairs |-> 0]
  /\ status = [r \in Repairs |-> "NONE"]
  /\ lastMode = [r \in Repairs |-> "NONE"]
  /\ entry = [r \in Repairs |-> 0]
  /\ cost = [r \in Repairs |-> "NONE"]
  /\ attempts = {} /\ receipts = {} /\ announced = {}
  /\ openOrder = [r \in Repairs |-> NoOrder]

WorkStep(r) ==
  \/ SubmitCompletion(r)
  \/ \E d \in {"APPROVED", "REJECTED"} : DecideCompletion(r, d)
  \/ \E d \in {"APPROVED", "REJECTED"} : DecideTenantCompletion(r, d)

PaymentStep(r) ==
  \/ EvaluateAfterCompletion(r)
  \/ \E k \in Keys, m \in {"MANUAL_CREDIT", "DIRECT"} : SettlePaymentRequest(r, m, k)
  \/ \E k \in Keys : RequestTenantDirectPayment(r, k)
  \/ ConfirmVendorDirectPayment(r)

CorrectionStep(r) ==
  \/ \E k \in Keys : ReverseCreditPayment(r, k)
  \/ \E k \in Keys : VoidDirectPayment(r, k)
  \/ \E k \in Keys : CancelPaymentRequest(r, k)

VendorPaymentNext ==
  \/ \E r \in Repairs : WorkStep(r) \/ PaymentStep(r) \/ CorrectionStep(r)
  \/ \E limit \in Limits \union {0} : SaveAutoPayPolicy(limit)

VendorPaymentSpec == VendorPaymentInit /\ [][VendorPaymentNext]_vendorPaymentVars

(***************************************************************************)
(* Properties.                                                             *)
(***************************************************************************)
(* Every variable holds a value the database columns allow. *)
AttemptKeyValues == ({"auto"} \X Repairs) \union ({"client"} \X Keys)
LedgerRows ==
  [type : {"TOPUP", "REVERSAL"} \union Debits, amount : Int, after : Int,
   ref : {<<"CREDIT_TOPUP_ORDER", "opening">>} \union ({"VENDOR_PAYMENT_REQUEST"} \X Repairs),
   key : {<<"topup", "opening">>} \union ({"payment", "credit-reversal"} \X AttemptKeyValues),
   reverses : Nat]

VendorPaymentTypeOK ==
  /\ balance \in 0..MaxBalance
  /\ ledger \in Seq(LedgerRows)
  /\ repair \in [Repairs -> {"IN_PROGRESS", "COMPLETION_REPORTED", "COMPLETED"}]
  /\ report \in [Repairs -> 0..MaxReports]
  /\ decision \in [Repairs -> {"NONE", "APPROVED", "REJECTED"}]
  /\ linked \in [Repairs -> 0..MaxReports]
  /\ status \in [Repairs -> Statuses]
  /\ lastMode \in [Repairs -> Modes \union {"NONE"}]
  /\ entry \in [Repairs -> Nat]
  /\ cost \in [Repairs -> {"NONE", "CONFIRMED", "VOID"}]
  /\ attempts \subseteq [key : AttemptKeyValues, request : Repairs, mode : Modes,
                         outcome : {"STARTED", "SUCCEEDED", "INSUFFICIENT_CREDIT"}]
  /\ receipts \subseteq [key : Keys, request : Repairs,
                         command : {"CREDIT_REVERSAL", "DIRECT_VOID", "PAYMENT_CANCEL"}]
  /\ announced \subseteq Repairs \X (Statuses \union {"TENANT_DIRECT_PAID"})
  /\ policy \in Limits \union {0}

DebitRows(r) ==
  {i \in DOMAIN ledger : ledger[i].type \in Debits /\ ledger[i].ref = Ref(r)}
ReversalRows(r) ==
  {i \in DOMAIN ledger : ledger[i].type = "REVERSAL" /\ ledger[i].ref = Ref(r)}
Successes(r) == {a \in attempts : a.request = r /\ a.outcome = "SUCCEEDED"}

(* A request's status tells the truth about the ledger: it is paid by      *)
(* credit exactly when one debit row, the one it points to, stands         *)
(* unreversed, reversed exactly when that row has its one reversal, and in *)
(* every other status no row of the ledger is its own.                     *)
StatusMatchesLedger ==
  \A r \in Repairs :
    /\ status[r] \in CreditPaid => DebitRows(r) = {entry[r]} /\ ReversalRows(r) = {}
    /\ status[r] = "REVERSED" =>
         /\ DebitRows(r) = {entry[r]}
         /\ \E i \in DOMAIN ledger : ReversalRows(r) = {i} /\ ledger[i].reverses = entry[r]
    /\ status[r] \notin CreditPaid \union {"REVERSED"} =>
         entry[r] = 0 /\ DebitRows(r) = {} /\ ReversalRows(r) = {}

(* The manager's books agree with the payment: the repair's cost is        *)
(* confirmed while a payment the manager bears stands and void once it was *)
(* taken back, and exactly one attempt is recorded as having paid it.      *)
BooksMatchPayment ==
  \A r \in Repairs :
    /\ (cost[r] = "CONFIRMED") <=> (Payer[r] = "MANAGER" /\ status[r] \in Paid)
    /\ (cost[r] = "VOID") <=> (status[r] \in {"REVERSED", "DIRECT_PAYMENT_VOIDED"})
    /\ Cardinality(Successes(r)) =
         IF status[r] \in (Paid \ {"TOSS_PAID"}) \union {"REVERSED", "DIRECT_PAYMENT_VOIDED"}
           THEN 1 ELSE 0

(* No payment request becomes payable, and none is paid, for work whose    *)
(* latest completion report is not the approved one; and once it is, no    *)
(* newer report can slip in under the payment.                             *)
OnlyApprovedWorkIsPaid ==
  \A r \in Repairs :
    status[r] \in Payable \union Final =>
      /\ decision[r] = "APPROVED" /\ repair[r] = "COMPLETED"
      /\ report[r] > 0 /\ linked[r] = report[r]

(* The vendor hears of a payment once, and only of one that was made: the  *)
(* paid states announced are exactly the one the request went through.     *)
PaidCodes == Paid \union {"TENANT_DIRECT_PAID"}
PaymentAnnouncedOnce ==
  \A r \in Repairs :
    Cardinality({c \in PaidCodes : <<r, c>> \in announced}) =
      IF status[r] \in Paid \union {"REVERSED", "DIRECT_PAYMENT_VOIDED"} THEN 1 ELSE 0

(* The sum of f over S. *)
Total(f, S) == MapThenSumSet(LAMBDA x : f[x], S)

PaidByCredit == {r \in Repairs : status[r] \in CreditPaid}

(* No money appears or vanishes: the account holds its opening balance     *)
(* less the requests that stand paid by credit, whatever was reversed,     *)
(* refused for lack of credit or retried in between.                       *)
BalanceMatchesPayments == balance = OpeningBalance - Total(Amount, PaidByCredit)

(* The account keeps the promise of its ledger; see AppendOnlyLedger.      *)
LedgerPromise == Promise!Spec

(* The money that left for a repair, told by the ledger or, for a transfer *)
(* outside of it, by the record that it was made.                          *)
CreditOutflow(r) ==
  Total([i \in DOMAIN ledger |-> -ledger[i].amount], DebitRows(r) \union ReversalRows(r))
DueOf(r) ==
  CASE status[r] \in Paid -> "settled"
    [] status[r] \in Corrected -> "closed"
    [] status[r] \in Payable -> "open"
    [] OTHER -> IF Settleable(r) THEN "open" ELSE "unapproved"

Obligation == INSTANCE PaymentObligation WITH
  due <- [r \in Repairs |-> DueOf(r)],
  outflow <- [r \in Repairs |->
               IF status[r] = "DIRECT_PAID" THEN Amount[r] ELSE CreditOutflow(r)]

(* Each repair's payment, whatever mix of automatic, manual and direct     *)
(* settlement, cancellation and reversal is tried, is a PaymentObligation. *)
PaidAtMostOnce == Obligation!Spec
===========================================================================
