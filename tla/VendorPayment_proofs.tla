----------------------- MODULE VendorPayment_proofs -----------------------
(***************************************************************************)
(* What VendorPayment promises for any set of repairs, any amounts, any    *)
(* payers and any number of idempotency keys and completion reports; and,  *)
(* in the second part, what RepairPaymentOrder promises when a payment     *)
(* request may also be paid by card, for any number of orders and of       *)
(* service calls running at the same time.                                 *)
(***************************************************************************)
EXTENDS RepairPaymentOrder, CreditLedger_proofs, FiniteSetTheorems

(***************************************************************************)
(* The inductive invariant. StatusMatchesLedger does not say why a debit's *)
(* idempotency key is new, nor why a debit found unreversed by its request *)
(* is unreversed by any row: the first needs the attempts and receipts to  *)
(* remember every key the ledger used, the second that a reversal refers   *)
(* to the request its debit refers to.                                     *)
(***************************************************************************)
KeysRecorded ==
  \A i \in 1..Len(ledger) :
    /\ \A x \in AttemptKeyValues : ledger[i].key = <<"payment", x>> => x \in AttemptKeys
    /\ \A r \in Repairs :
         ledger[i].key = <<"payment", AutoKey(r)>> => i \in DebitRows(r)
    /\ \A k \in Keys :
         ledger[i].key = <<"credit-reversal", ClientKey(k)>> => k \in ReceiptKeys

ReversalsKeepRef ==
  \A i \in 1..Len(ledger) :
    ledger[i].type = "REVERSAL" =>
      ledger[i].reverses \in 1..Len(ledger) /\ ledger[ledger[i].reverses].ref = ledger[i].ref

ApprovalCompletes ==
  \A r \in Repairs : decision[r] = "APPROVED" => repair[r] = "COMPLETED"

(***************************************************************************)
(* Types.                                                                  *)
(***************************************************************************)
(* The status a settlement leaves names its mode: only a payment from the  *)
(* account counts as paid by credit.                                       *)
LEMMA PaidStatusType ==
  ASSUME NEW mode \in {"AUTO_CREDIT", "MANUAL_CREDIT", "DIRECT"}
  PROVE  /\ PaidStatus(mode) \in Paid
         /\ mode # "DIRECT" => PaidStatus(mode) \in CreditPaid
         /\ mode = "DIRECT" => PaidStatus(mode) = "DIRECT_PAID"
  BY DEF PaidStatus, Paid, CreditPaid

(* A completion report, and the decision on one. *)
LEMMA WorkStepType ==
  ASSUME VendorPaymentTypeOK, NEW r \in Repairs, WorkStep(r)
  PROVE  VendorPaymentTypeOK'
<1>1. CASE SubmitCompletion(r)
  <2>1. report[r] + 1 \in 0..MaxReports
    BY <1>1, MaxReportsAssumption DEF SubmitCompletion, VendorPaymentTypeOK
  <2> QED
    BY <1>1, <2>1 DEF SubmitCompletion, VendorPaymentTypeOK, Statuses
<1>2. ASSUME NEW d \in {"APPROVED", "REJECTED"}, DecideCompletion(r, d)
      PROVE  VendorPaymentTypeOK'
  BY <1>2 DEF DecideCompletion, Decide, VendorPaymentTypeOK
<1>3. ASSUME NEW d \in {"APPROVED", "REJECTED"}, DecideTenantCompletion(r, d)
      PROVE  VendorPaymentTypeOK'
  <2>1. CASE d = "APPROVED"
    <3>1. "PENDING_APPROVAL" \in Statuses
      BY DEF Statuses, Payable
    <3>2. /\ linked' = [linked EXCEPT ![r] = report[r]]
          /\ status' = [status EXCEPT ![r] = "PENDING_APPROVAL"]
          /\ repair' = [repair EXCEPT ![r] = "COMPLETED"]
          /\ decision' = [decision EXCEPT ![r] = "APPROVED"]
      BY <1>3, <2>1 DEF DecideTenantCompletion, Decide
    <3>3. UNCHANGED <<balance, ledger, report, lastMode, entry, cost, attempts, receipts,
                      announced, policy>>
      BY <1>3 DEF DecideTenantCompletion, Decide
    <3> QED
      BY <3>1, <3>2, <3>3 DEF VendorPaymentTypeOK
  <2>2. CASE d = "REJECTED"
    BY <1>3, <2>2 DEF DecideTenantCompletion, Decide, VendorPaymentTypeOK
  <2> QED
    BY <2>1, <2>2
<1> QED
  BY <1>1, <1>2, <1>3 DEF WorkStep

(* The three outcomes of a settlement. *)
LEMMA SettleLockedType ==
  ASSUME VendorPaymentTypeOK, NEW r \in Repairs,
         NEW mode \in {"AUTO_CREDIT", "MANUAL_CREDIT", "DIRECT"}, NEW key \in AttemptKeyValues,
         SettleLocked(r, mode, key)
  PROVE  VendorPaymentTypeOK'
<1>1. /\ Amount[r] \in Nat \ {0} /\ Ref(r) \in {"VENDOR_PAYMENT_REQUEST"} \X Repairs
      /\ <<"payment", key>> \in {"payment", "credit-reversal"} \X AttemptKeyValues
      /\ PaidStatus(mode) \in Statuses
  BY AmountAssumption, PaidStatusType DEF Ref, Statuses, Final
<1>2. /\ repair' = repair /\ report' = report /\ decision' = decision /\ linked' = linked
      /\ receipts' = receipts /\ policy' = policy
  BY DEF SettleLocked, workVars
<1>3. ASSUME MarkSettled(r, mode, key)
      PROVE  /\ status' \in [Repairs -> Statuses] /\ lastMode' \in [Repairs -> Modes \union {"NONE"}]
             /\ cost' \in [Repairs -> {"NONE", "CONFIRMED", "VOID"}]
             /\ attempts' \subseteq [key : AttemptKeyValues, request : Repairs, mode : Modes,
                                     outcome : {"STARTED", "SUCCEEDED", "INSUFFICIENT_CREDIT"}]
             /\ announced' \subseteq Repairs \X (Statuses \union {"TENANT_DIRECT_PAID"})
  BY <1>1, <1>3
     DEF MarkSettled, VendorPaymentTypeOK, RecordAttempt, Attempt, Announce, Modes
<1>4. CASE SettleFromAccount(r, mode, key) /\ MarkSettled(r, mode, key)
  <2> DEFINE type == IF mode = "AUTO_CREDIT" THEN "AUTO_DEBIT" ELSE "MANUAL_DEBIT"
             row == Row(type, -Amount[r], balance - Amount[r], Ref(r), <<"payment", key>>, 0)
  <2>1. row \in LedgerRows
    BY <1>1, MaxBalanceAssumption DEF Row, LedgerRows, Debits, VendorPaymentTypeOK
  <2>2. /\ ledger' = Append(ledger, row) /\ balance' = balance - Amount[r]
        /\ balance >= Amount[r] /\ entry' = [entry EXCEPT ![r] = Len(ledger) + 1]
    BY <1>4 DEF SettleFromAccount, Debit
  <2> HIDE DEF row
  <2>3. ledger' \in Seq(LedgerRows) /\ Len(ledger) \in Nat
    BY <2>1, <2>2, AppendedRow DEF VendorPaymentTypeOK
  <2>4. balance' \in 0..MaxBalance /\ entry' \in [Repairs -> Nat]
    <3>1. balance \in 0..MaxBalance /\ entry \in [Repairs -> Nat]
      BY DEF VendorPaymentTypeOK
    <3>2. balance' \in 0..MaxBalance
      BY <1>1, <2>2, <3>1, MaxBalanceAssumption
    <3>3. Len(ledger) + 1 \in Nat
      BY <2>3
    <3> QED
      BY <2>2, <3>1, <3>2, <3>3
  <2>5. /\ status' \in [Repairs -> Statuses] /\ lastMode' \in [Repairs -> Modes \union {"NONE"}]
        /\ cost' \in [Repairs -> {"NONE", "CONFIRMED", "VOID"}]
        /\ attempts' \subseteq [key : AttemptKeyValues, request : Repairs, mode : Modes,
                                outcome : {"STARTED", "SUCCEEDED", "INSUFFICIENT_CREDIT"}]
        /\ announced' \subseteq Repairs \X (Statuses \union {"TENANT_DIRECT_PAID"})
    BY <1>3, <1>4
  <2> QED
    BY <1>2, <2>3, <2>4, <2>5 DEF VendorPaymentTypeOK
<1>5. CASE SettleOutside(r) /\ MarkSettled(r, mode, key)
  BY <1>2, <1>3, <1>5 DEF SettleOutside, VendorPaymentTypeOK
<1>6. CASE MarkInsufficient(r, mode, key)
  <2>1. /\ "INSUFFICIENT_CREDIT" \in Statuses /\ mode \in Modes
    BY DEF Statuses, Payable, Modes
  <2> QED
    BY <1>2, <1>6, <2>1
       DEF MarkInsufficient, VendorPaymentTypeOK, RecordAttempt, Attempt, Announce
<1> QED
  BY <1>4, <1>5, <1>6 DEF SettleLocked

(* Evaluation, settlement and the tenant's direct transfer. *)
LEMMA PaymentStepType ==
  ASSUME VendorPaymentTypeOK, NEW r \in Repairs, PaymentStep(r)
  PROVE  VendorPaymentTypeOK'
<1>1. AutoKey(r) \in AttemptKeyValues /\ \A k \in Keys : ClientKey(k) \in AttemptKeyValues
  BY DEF AutoKey, ClientKey, AttemptKeyValues
<1>2. "PENDING_APPROVAL" \in Statuses /\ "DIRECT_PAID" \in Statuses /\ "DIRECT" \in Modes
  BY DEF Statuses, Payable, Final, Paid, Modes
<1>3. CASE EvaluateAfterCompletion(r)
  <2>1. CASE WithinPolicy(Amount[r])
    BY <1>1, <1>3, <2>1, SettleLockedType DEF EvaluateAfterCompletion
  <2>2. CASE ~ WithinPolicy(Amount[r])
    <3>1. /\ status' \in [Repairs -> Statuses]
          /\ lastMode' \in [Repairs -> Modes \union {"NONE"}]
      BY <1>2, <1>3, <2>2 DEF EvaluateAfterCompletion, VendorPaymentTypeOK
    <3>2. announced' \subseteq Repairs \X (Statuses \union {"TENANT_DIRECT_PAID"})
      BY <1>2, <1>3, <2>2 DEF EvaluateAfterCompletion, VendorPaymentTypeOK, Announce
    <3> QED
      BY <1>3, <2>2, <3>1, <3>2 DEF EvaluateAfterCompletion, VendorPaymentTypeOK, workVars
  <2> QED
    BY <2>1, <2>2
<1>4. ASSUME NEW k \in Keys, NEW m \in {"MANUAL_CREDIT", "DIRECT"}, SettlePaymentRequest(r, m, k)
      PROVE  VendorPaymentTypeOK'
  BY <1>1, <1>4, SettleLockedType DEF SettlePaymentRequest
<1>5. ASSUME NEW k \in Keys, RequestTenantDirectPayment(r, k)
      PROVE  VendorPaymentTypeOK'
  BY <1>1, <1>2, <1>5
     DEF RequestTenantDirectPayment, VendorPaymentTypeOK, RecordAttempt, Attempt, workVars
<1>6. CASE ConfirmVendorDirectPayment(r)
  <2>1. status' \in [Repairs -> Statuses]
    BY <1>2, <1>6 DEF ConfirmVendorDirectPayment, VendorPaymentTypeOK
  <2>2. announced' \subseteq Repairs \X (Statuses \union {"TENANT_DIRECT_PAID"})
    BY <1>6 DEF ConfirmVendorDirectPayment, VendorPaymentTypeOK, Announce
  <2>3. attempts' \subseteq [key : AttemptKeyValues, request : Repairs, mode : Modes,
                            outcome : {"STARTED", "SUCCEEDED", "INSUFFICIENT_CREDIT"}]
    BY <1>6 DEF ConfirmVendorDirectPayment, VendorPaymentTypeOK
  <2>4. UNCHANGED <<balance, ledger, repair, report, decision, linked, lastMode, entry, cost,
                    receipts, policy>>
    BY <1>6 DEF ConfirmVendorDirectPayment, workVars
  <2> QED
    BY <2>1, <2>2, <2>3, <2>4 DEF VendorPaymentTypeOK
<1> QED
  BY <1>3, <1>4, <1>5, <1>6 DEF PaymentStep

(* The row a reversal appends and what the correction records with it. *)
LEMMA ReversalRow ==
  ASSUME VendorPaymentTypeOK, NEW r \in Repairs, NEW k \in Keys, ReverseCreditPayment(r, k)
  PROVE  /\ entry[r] \in 1..Len(ledger)
         /\ ledger[entry[r]].type \in Debits
         /\ ledger[entry[r]].amount = -Amount[r]
         /\ ledger[entry[r]].ref = Ref(r)
         /\ Credit("REVERSAL", Amount[r], Ref(r), <<"credit-reversal", ClientKey(k)>>, entry[r])
         /\ Row("REVERSAL", Amount[r], balance + Amount[r], Ref(r),
                <<"credit-reversal", ClientKey(k)>>, entry[r]) \in LedgerRows
<1>1. /\ Amount[r] \in Nat /\ -(-Amount[r]) = Amount[r]
      /\ Ref(r) \in {"VENDOR_PAYMENT_REQUEST"} \X Repairs
      /\ <<"credit-reversal", ClientKey(k)>> \in {"payment", "credit-reversal"} \X AttemptKeyValues
      /\ entry[r] \in Nat
  BY AmountAssumption DEF Ref, ClientKey, AttemptKeyValues, VendorPaymentTypeOK
<1>2. DOMAIN ledger = 1..Len(ledger)
  BY DEF VendorPaymentTypeOK
<1>3. Row("REVERSAL", Amount[r], balance + Amount[r], Ref(r),
          <<"credit-reversal", ClientKey(k)>>, entry[r]) \in LedgerRows
  BY <1>1, MaxBalanceAssumption DEF Row, LedgerRows, VendorPaymentTypeOK
<1> QED
  BY <1>1, <1>2, <1>3 DEF ReverseCreditPayment

(* Reversal, void and cancellation. *)
LEMMA CorrectionStepType ==
  ASSUME VendorPaymentTypeOK, NEW r \in Repairs, CorrectionStep(r)
  PROVE  VendorPaymentTypeOK'
<1>1. ASSUME NEW k \in Keys, NEW s \in Corrected, balance' \in 0..MaxBalance,
             NEW command \in {"CREDIT_REVERSAL", "DIRECT_VOID", "PAYMENT_CANCEL"},
             ledger' \in Seq(LedgerRows), cost' \in [Repairs -> {"NONE", "CONFIRMED", "VOID"}],
             Correct(r, command, k, s)
      PROVE  VendorPaymentTypeOK'
  <2>1. s \in Statuses
    BY DEF Statuses, Final
  <2>2. status' \in [Repairs -> Statuses]
    BY <1>1, <2>1 DEF Correct, VendorPaymentTypeOK
  <2>3. receipts' \subseteq [key : Keys, request : Repairs,
                            command : {"CREDIT_REVERSAL", "DIRECT_VOID", "PAYMENT_CANCEL"}]
    BY <1>1 DEF Correct, VendorPaymentTypeOK
  <2>4. announced' \subseteq Repairs \X (Statuses \union {"TENANT_DIRECT_PAID"})
    BY <1>1, <2>1 DEF Correct, VendorPaymentTypeOK, Announce
  <2>5. UNCHANGED <<repair, report, decision, linked, lastMode, entry, attempts, policy>>
    BY <1>1 DEF Correct, workVars
  <2> QED
    BY <1>1, <2>2, <2>3, <2>4, <2>5 DEF VendorPaymentTypeOK
<1>2. "REVERSED" \in Corrected /\ "DIRECT_PAYMENT_VOIDED" \in Corrected /\ "CANCELLED" \in Corrected
  BY DEF Corrected
<1>3. ASSUME VoidAuthoritativeCost(r) PROVE cost' \in [Repairs -> {"NONE", "CONFIRMED", "VOID"}]
  BY <1>3 DEF VoidAuthoritativeCost, VendorPaymentTypeOK
<1>4. ASSUME NEW k \in Keys, ReverseCreditPayment(r, k)
      PROVE  VendorPaymentTypeOK'
  <2> DEFINE row == Row("REVERSAL", Amount[r], balance + Amount[r], Ref(r),
                       <<"credit-reversal", ClientKey(k)>>, entry[r])
  <2>0. row \in LedgerRows /\ ledger' = Append(ledger, row)
    BY <1>4, ReversalRow DEF Credit
  <2> HIDE DEF row
  <2>1. ledger' \in Seq(LedgerRows)
    BY <2>0, AppendedRow DEF VendorPaymentTypeOK
  <2>2. Amount[r] \in Nat /\ Credit("REVERSAL", Amount[r], Ref(r),
                                  <<"credit-reversal", ClientKey(k)>>, entry[r])
    BY <1>4, ReversalRow, AmountAssumption
  <2>3. balance' \in 0..MaxBalance
    BY <2>2, MaxBalanceAssumption DEF Credit, VendorPaymentTypeOK
  <2>4. VoidAuthoritativeCost(r) /\ Correct(r, "CREDIT_REVERSAL", k, "REVERSED")
    BY <1>4 DEF ReverseCreditPayment
  <2> QED
    BY <1>1, <1>2, <1>3, <2>1, <2>3, <2>4
<1>5. ASSUME NEW k \in Keys, VoidDirectPayment(r, k)
      PROVE  VendorPaymentTypeOK'
  BY <1>1, <1>2, <1>3, <1>5 DEF VoidDirectPayment, ledgerVars, VendorPaymentTypeOK
<1>6. ASSUME NEW k \in Keys, CancelPaymentRequest(r, k)
      PROVE  VendorPaymentTypeOK'
  BY <1>1, <1>2, <1>6 DEF CancelPaymentRequest, VendorPaymentTypeOK
<1> QED
  BY <1>4, <1>5, <1>6 DEF CorrectionStep

(* Every step, whole. *)
LEMMA NextType ==
  VendorPaymentTypeOK /\ [VendorPaymentNext]_vendorPaymentVars => VendorPaymentTypeOK'
<1> SUFFICES ASSUME VendorPaymentTypeOK, [VendorPaymentNext]_vendorPaymentVars
             PROVE  VendorPaymentTypeOK'
  OBVIOUS
<1>1. ASSUME NEW r \in Repairs, WorkStep(r) \/ PaymentStep(r) \/ CorrectionStep(r)
      PROVE  VendorPaymentTypeOK'
  BY <1>1, WorkStepType, PaymentStepType, CorrectionStepType
<1>2. ASSUME NEW limit \in Limits \union {0}, SaveAutoPayPolicy(limit)
      PROVE  VendorPaymentTypeOK'
  BY <1>2 DEF SaveAutoPayPolicy, SavePolicy, VendorPaymentTypeOK, workVars, requestVars
<1>3. CASE UNCHANGED vendorPaymentVars
  BY <1>3 DEF vendorPaymentVars, VendorPaymentTypeOK
<1> QED
  BY <1>1, <1>2, <1>3 DEF VendorPaymentNext

(* Before any work was reported every table holds allowed values. *)
LEMMA InitType ==
  VendorPaymentInit => VendorPaymentTypeOK
<1> SUFFICES ASSUME VendorPaymentInit PROVE VendorPaymentTypeOK
  OBVIOUS
<1> DEFINE row == Row("TOPUP", OpeningBalance, OpeningBalance,
                      <<"CREDIT_TOPUP_ORDER", "opening">>, <<"topup", "opening">>, 0)
<1>1. row \in LedgerRows
  BY OpeningBalanceAssumption, MaxBalanceAssumption DEF Row, LedgerRows
<1>2. ledger = << >> \/ ledger = <<row>>
  BY DEF VendorPaymentInit, LedgerInit
<1> HIDE DEF row
<1>3. ledger \in Seq(LedgerRows)
  <2>1. << >> \in Seq(LedgerRows)
    OBVIOUS
  <2>2. <<row>> \in Seq(LedgerRows)
    BY <1>1, SingletonSeq
  <2> QED
    BY <1>2, <2>1, <2>2
<1>4. balance \in 0..MaxBalance /\ policy = 0
  BY OpeningBalanceAssumption DEF VendorPaymentInit, LedgerInit
<1>5. 0 \in 0..MaxReports
  BY MaxReportsAssumption
<1> QED
  BY <1>3, <1>4, <1>5 DEF VendorPaymentInit, VendorPaymentTypeOK, Statuses

(***************************************************************************)
(* The ledger and the requests it pays for.                                *)
(***************************************************************************)
LedgerInv ==
  Promise!WellFormed /\ StatusMatchesLedger /\ KeysRecorded /\ ReversalsKeepRef

OnCredit == CreditPaid \union {"REVERSED"}

(* What appending a row does to the rows of a repair. *)
LEMMA RowsAfterAppend ==
  ASSUME ledger \in Seq(LedgerRows), NEW row \in LedgerRows, ledger' = Append(ledger, row),
         NEW s \in Repairs
  PROVE  /\ row.type \in Debits /\ row.ref = Ref(s) =>
              DebitRows(s)' = DebitRows(s) \union {Len(ledger) + 1}
         /\ ~ (row.type \in Debits /\ row.ref = Ref(s)) => DebitRows(s)' = DebitRows(s)
         /\ row.type = "REVERSAL" /\ row.ref = Ref(s) =>
              ReversalRows(s)' = ReversalRows(s) \union {Len(ledger) + 1}
         /\ ~ (row.type = "REVERSAL" /\ row.ref = Ref(s)) => ReversalRows(s)' = ReversalRows(s)
<1>1. PICK n \in Nat : n = Len(ledger)
  BY AppendedRow
<1>2. /\ DOMAIN ledger = 1..n /\ DOMAIN ledger' = 1..(n + 1)
      /\ ledger'[n + 1] = row /\ \A i \in 1..n : ledger'[i] = ledger[i]
  BY <1>1, AppendedRow
<1>3. Ref(s)' = Ref(s) /\ Debits' = Debits
  BY DEF Ref, Debits
<1>4. \A i : i \in 1..(n + 1) <=> i \in 1..n \/ i = n + 1
  OBVIOUS
<1>5. \A i : i \in DebitRows(s)' <=>
             i \in DebitRows(s) \/ (i = n + 1 /\ row.type \in Debits /\ row.ref = Ref(s))
  BY <1>2, <1>3, <1>4 DEF DebitRows
<1>6. \A i : i \in ReversalRows(s)' <=>
             i \in ReversalRows(s) \/ (i = n + 1 /\ row.type = "REVERSAL" /\ row.ref = Ref(s))
  BY <1>2, <1>3, <1>4 DEF ReversalRows
<1>7. row.type \in Debits /\ row.ref = Ref(s) => DebitRows(s)' = DebitRows(s) \union {n + 1}
  BY <1>5
<1>8. ~ (row.type \in Debits /\ row.ref = Ref(s)) => DebitRows(s)' = DebitRows(s)
  BY <1>5
<1>9. row.type = "REVERSAL" /\ row.ref = Ref(s) => ReversalRows(s)' = ReversalRows(s) \union {n + 1}
  BY <1>6
<1>10. ~ (row.type = "REVERSAL" /\ row.ref = Ref(s)) => ReversalRows(s)' = ReversalRows(s)
  BY <1>6
<1> QED
  BY <1>1, <1>7, <1>8, <1>9, <1>10

(* A step that posts nothing keeps it, as long as it moves no request into *)
(* or out of a status that credit paid for and forgets no key.             *)
LEMMA NothingPosted ==
  ASSUME VendorPaymentTypeOK, LedgerInv, UNCHANGED <<balance, ledger, entry>>,
         \A r \in Repairs : \/ status'[r] = status[r]
                            \/ status[r] \notin OnCredit /\ status'[r] \notin OnCredit,
         AttemptKeys \subseteq AttemptKeys', ReceiptKeys \subseteq ReceiptKeys'
  PROVE  LedgerInv'
<1>1. \A r \in Repairs : DebitRows(r)' = DebitRows(r) /\ ReversalRows(r)' = ReversalRows(r)
  BY DEF DebitRows, ReversalRows, Ref, Debits
<1>2. Promise!WellFormed'
  BY DEF LedgerInv, Promise!WellFormed, Promise!RowOK, Promise!Chained, Promise!BalanceBefore,
         Promise!SignMatchesType, Promise!FreshKey, Promise!ReversesOpenDebit, Promise!FirstDebit,
         Promise!Debits
<1>3. StatusMatchesLedger'
  BY <1>1 DEF LedgerInv, StatusMatchesLedger, OnCredit, CreditPaid
<1>4. KeysRecorded'
  BY <1>1 DEF LedgerInv, KeysRecorded, AttemptKeyValues, AutoKey, ClientKey
<1>5. ReversalsKeepRef'
  BY DEF LedgerInv, ReversalsKeepRef
<1> QED
  BY <1>2, <1>3, <1>4, <1>5 DEF LedgerInv

(* The keys of automatic and of client settlements never coincide, and     *)
(* neither do those of two repairs or of two clients.                      *)
LEMMA AttemptKeyForms ==
  /\ \A r, s \in Repairs : AutoKey(r) = AutoKey(s) => r = s
  /\ \A r, s \in Repairs : Ref(r) = Ref(s) => r = s
  /\ \A r \in Repairs, k \in Keys : AutoKey(r) # ClientKey(k)
  /\ \A k, l \in Keys : ClientKey(k) = ClientKey(l) => k = l
  BY DEF AutoKey, ClientKey, Ref

(* Recording an attempt adds its key to the keys used, and no other. *)
LEMMA NewAttemptKey ==
  ASSUME NEW key, NEW r, NEW mode, NEW outcome, RecordAttempt(key, r, mode, outcome)
  PROVE  AttemptKeys' = AttemptKeys \union {key}
<1> DEFINE a == Attempt(key, r, mode, outcome)
<1>1. attempts' = attempts \union {a} /\ a.key = key
  BY DEF RecordAttempt, Attempt
<1> HIDE DEF a
<1> QED
  BY <1>1 DEF AttemptKeys

(* Recording a receipt adds its key to the keys used, and no other. *)
LEMMA NewReceiptKey ==
  ASSUME NEW k, NEW r, NEW command,
         receipts' = receipts \union {[key |-> k, request |-> r, command |-> command]}
  PROVE  ReceiptKeys' = ReceiptKeys \union {k}
<1> DEFINE c == [key |-> k, request |-> r, command |-> command]
<1>1. receipts' = receipts \union {c} /\ c.key = k
  OBVIOUS
<1> HIDE DEF c
<1> QED
  BY <1>1 DEF ReceiptKeys

(* Paying a request from the account posts its one debit. *)
LEMMA SettlementPosts ==
  ASSUME VendorPaymentTypeOK, LedgerInv, NEW r \in Repairs,
         NEW mode \in {"AUTO_CREDIT", "MANUAL_CREDIT"}, NEW key \in AttemptKeyValues,
         status[r] \notin OnCredit,
         key \notin AttemptKeys \/ key = AutoKey(r),
         \A s \in Repairs : key = AutoKey(s) => s = r,
         SettleFromAccount(r, mode, key), MarkSettled(r, mode, key), UNCHANGED receipts
  PROVE  LedgerInv' /\ Promise!Post
<1> DEFINE type == IF mode = "AUTO_CREDIT" THEN "AUTO_DEBIT" ELSE "MANUAL_DEBIT"
           row == Row(type, -Amount[r], balance - Amount[r], Ref(r), <<"payment", key>>, 0)
<1>1. PICK n \in Nat : n = Len(ledger)
  BY AppendedRow DEF VendorPaymentTypeOK
<1>2. Amount[r] \in Nat \ {0} /\ type \in Debits
  BY AmountAssumption DEF Debits
<1>3. row \in LedgerRows
  <2>1. /\ Ref(r) \in {"VENDOR_PAYMENT_REQUEST"} \X Repairs
        /\ <<"payment", key>> \in {"payment", "credit-reversal"} \X AttemptKeyValues
    BY DEF Ref
  <2> QED
    BY <1>2, <2>1, MaxBalanceAssumption DEF Row, LedgerRows, VendorPaymentTypeOK
<1>4. /\ row.type = type /\ row.ref = Ref(r) /\ row.key = <<"payment", key>>
  BY DEF Row
<1>5. /\ Debit(type, Amount[r], Ref(r), <<"payment", key>>)
      /\ ledger' = Append(ledger, row) /\ entry' = [entry EXCEPT ![r] = n + 1]
  BY <1>1 DEF SettleFromAccount, Debit
<1>6. DebitRows(r) = {} /\ ReversalRows(r) = {} /\ entry[r] = 0
  BY DEF LedgerInv, StatusMatchesLedger, OnCredit
<1>7. DOMAIN ledger = 1..n /\ ledger \in Seq(LedgerRows)
  BY <1>1, AppendedRow DEF VendorPaymentTypeOK
<1>8. \A j \in 1..n : ledger[j].key # <<"payment", key>>
  BY <1>1, <1>6 DEF LedgerInv, KeysRecorded
<1>9. \A j \in 1..n : ~ (ledger[j].type \in Debits /\ ledger[j].ref = Ref(r))
  BY <1>6, <1>7 DEF DebitRows
<1>10. Promise!Post
  BY <1>1, <1>2, <1>3, <1>5, <1>7, <1>8, <1>9, DebitPosts DEF LedgerInv, VendorPaymentTypeOK
<1> HIDE DEF type, row
<1>11. /\ Len(ledger') = n + 1 /\ DOMAIN ledger' = 1..(n + 1) /\ ledger'[n + 1] = row
       /\ \A i \in 1..n : ledger'[i] = ledger[i]
  BY <1>1, <1>3, <1>5, <1>7, AppendedRow
<1>12. /\ status' = [status EXCEPT ![r] = PaidStatus(mode)] /\ PaidStatus(mode) \in CreditPaid
       /\ AttemptKeys' = AttemptKeys \union {key}
  BY PaidStatusType, NewAttemptKey DEF MarkSettled
<1>13. row.type # "REVERSAL"
  BY <1>2, <1>4 DEF Debits
<1>14. /\ DebitRows(r)' = {n + 1} /\ ReversalRows(r)' = {}
       /\ \A s \in Repairs \ {r} : DebitRows(s)' = DebitRows(s) /\ ReversalRows(s)' = ReversalRows(s)
  <2>1. DebitRows(r)' = DebitRows(r) \union {n + 1} /\ ReversalRows(r)' = ReversalRows(r)
    BY <1>1, <1>2, <1>3, <1>4, <1>5, <1>7, <1>13, RowsAfterAppend
  <2>2. ASSUME NEW s \in Repairs \ {r}
        PROVE  DebitRows(s)' = DebitRows(s) /\ ReversalRows(s)' = ReversalRows(s)
    <3>1. row.ref # Ref(s)
      BY <1>4, AttemptKeyForms
    <3> QED
      BY <1>3, <1>5, <1>7, <3>1, RowsAfterAppend
  <2> QED
    BY <1>6, <2>1, <2>2
<1>15. StatusMatchesLedger'
  <2>1. ASSUME NEW s \in Repairs
        PROVE  /\ status'[s] \in CreditPaid => DebitRows(s)' = {entry'[s]} /\ ReversalRows(s)' = {}
               /\ status'[s] = "REVERSED" =>
                    /\ DebitRows(s)' = {entry'[s]}
                    /\ \E i \in DOMAIN ledger' :
                         ReversalRows(s)' = {i} /\ ledger'[i].reverses = entry'[s]
               /\ status'[s] \notin CreditPaid \union {"REVERSED"} =>
                    entry'[s] = 0 /\ DebitRows(s)' = {} /\ ReversalRows(s)' = {}
    <3>1. CASE s = r
      BY <1>5, <1>12, <1>14, <3>1 DEF VendorPaymentTypeOK, CreditPaid
    <3>2. CASE s # r
      <4>1. status'[s] = status[s] /\ entry'[s] = entry[s]
        BY <1>5, <1>12, <3>2 DEF VendorPaymentTypeOK
      <4>2. \A i \in 1..n : i \in 1..(n + 1)
        OBVIOUS
      <4> QED
        BY <1>7, <1>11, <1>14, <3>2, <4>1, <4>2 DEF LedgerInv, StatusMatchesLedger
    <3> QED
      BY <3>1, <3>2
  <2> QED
    BY <2>1 DEF StatusMatchesLedger, CreditPaid
<1>16. KeysRecorded'
  <2>1. ASSUME NEW i \in 1..n, NEW s \in Repairs, ledger[i].key = <<"payment", AutoKey(s)>>
        PROVE  i \in DebitRows(s)'
    BY <1>1, <1>6, <1>14, <2>1 DEF LedgerInv, KeysRecorded
  <2>2. ASSUME NEW s \in Repairs, row.key = <<"payment", AutoKey(s)>>
        PROVE  n + 1 \in DebitRows(s)'
    BY <1>4, <1>14, <2>2
  <2>3. \A k \in Keys : row.key # <<"credit-reversal", ClientKey(k)>>
    BY <1>4
  <2>4. \A x \in AttemptKeyValues : row.key = <<"payment", x>> => x = key
    BY <1>4
  <2>5. \A i \in 1..(n + 1) : i \in 1..n \/ i = n + 1
    OBVIOUS
  <2>6. ReceiptKeys' = ReceiptKeys /\ AttemptKeyValues' = AttemptKeyValues
    BY DEF ReceiptKeys, AttemptKeyValues
  <2> QED
    BY <1>1, <1>11, <1>12, <2>1, <2>2, <2>3, <2>4, <2>5, <2>6
       DEF LedgerInv, KeysRecorded, AutoKey, ClientKey
<1>17. ReversalsKeepRef'
  BY <1>1, <1>11, <1>13 DEF LedgerInv, ReversalsKeepRef
<1> QED
  BY <1>10, <1>15, <1>16, <1>17 DEF LedgerInv, Promise!Post

(* Reversing a request's debit posts its one reversal. *)
LEMMA ReversalIsPosted ==
  ASSUME VendorPaymentTypeOK, LedgerInv, NEW r \in Repairs, NEW k \in Keys,
         ReverseCreditPayment(r, k)
  PROVE  LedgerInv' /\ Promise!Post
<1> DEFINE key == <<"credit-reversal", ClientKey(k)>>
           row == Row("REVERSAL", Amount[r], balance + Amount[r], Ref(r), key, entry[r])
<1>1. PICK n \in Nat : n = Len(ledger)
  BY AppendedRow DEF VendorPaymentTypeOK
<1>2. /\ entry[r] \in 1..n /\ Amount[r] \in Nat \ {0}
      /\ ledger[entry[r]].type \in Debits /\ ledger[entry[r]].amount = -Amount[r]
      /\ ledger[entry[r]].ref = Ref(r)
      /\ Credit("REVERSAL", Amount[r], Ref(r), key, entry[r])
      /\ row \in LedgerRows
  BY <1>1, ReversalRow, AmountAssumption
<1>3. /\ row.type = "REVERSAL" /\ row.ref = Ref(r) /\ row.key = key /\ row.reverses = entry[r]
  BY DEF Row
<1>4. ledger' = Append(ledger, row)
  BY <1>2 DEF Credit
<1>5. /\ status[r] \in CreditPaid /\ k \notin ReceiptKeys
      /\ status' = [status EXCEPT ![r] = "REVERSED"] /\ entry' = entry /\ attempts' = attempts
      /\ receipts' = receipts \union {[key |-> k, request |-> r, command |-> "CREDIT_REVERSAL"]}
  BY DEF ReverseCreditPayment, Correct
<1>6. DebitRows(r) = {entry[r]} /\ ReversalRows(r) = {}
  BY <1>5 DEF LedgerInv, StatusMatchesLedger
<1>7. DOMAIN ledger = 1..n /\ ledger \in Seq(LedgerRows)
  BY <1>1, AppendedRow DEF VendorPaymentTypeOK
<1>8. \A j \in 1..n : ledger[j].key # key
  BY <1>1, <1>5 DEF LedgerInv, KeysRecorded
<1>9. ASSUME NEW j \in 1..n PROVE ledger[j].reverses # entry[r]
  <2>1. CASE ledger[j].type = "REVERSAL"
    <3>1. ledger[j].ref = ledger[ledger[j].reverses].ref /\ j \notin ReversalRows(r)
      BY <1>1, <1>6, <2>1 DEF LedgerInv, ReversalsKeepRef
    <3> QED
      BY <1>2, <1>7, <2>1, <3>1 DEF ReversalRows
  <2>2. CASE ledger[j].type # "REVERSAL"
    <3>1. ledger[j].reverses = 0
      BY <1>1, <2>2
         DEF LedgerInv, Promise!WellFormed, Promise!RowOK, Promise!ReversesOpenDebit
    <3> QED
      BY <1>2, <3>1
  <2> QED
    BY <2>1, <2>2
<1>10. Promise!Post
  BY <1>1, <1>2, <1>7, <1>8, <1>9, ReversalPosts DEF LedgerInv, VendorPaymentTypeOK
<1> HIDE DEF key, row
<1>11. /\ Len(ledger') = n + 1 /\ DOMAIN ledger' = 1..(n + 1) /\ ledger'[n + 1] = row
       /\ \A i \in 1..n : ledger'[i] = ledger[i]
  BY <1>1, <1>2, <1>4, <1>7, AppendedRow
<1>12. "REVERSAL" \notin Debits /\ "REVERSED" \notin CreditPaid
  BY DEF Debits, CreditPaid
<1>13. /\ DebitRows(r)' = {entry[r]} /\ ReversalRows(r)' = {n + 1}
       /\ \A s \in Repairs \ {r} : DebitRows(s)' = DebitRows(s) /\ ReversalRows(s)' = ReversalRows(s)
  <2>1. DebitRows(r)' = DebitRows(r) /\ ReversalRows(r)' = ReversalRows(r) \union {n + 1}
    BY <1>1, <1>2, <1>3, <1>4, <1>7, <1>12, RowsAfterAppend
  <2>2. ASSUME NEW s \in Repairs \ {r}
        PROVE  DebitRows(s)' = DebitRows(s) /\ ReversalRows(s)' = ReversalRows(s)
    <3>1. row.ref # Ref(s)
      BY <1>3, AttemptKeyForms
    <3> QED
      BY <1>2, <1>4, <1>7, <3>1, RowsAfterAppend
  <2> QED
    BY <1>6, <2>1, <2>2
<1>14. \A i \in 1..n : i \in 1..(n + 1)
  OBVIOUS
<1>15. StatusMatchesLedger'
  <2>1. ASSUME NEW s \in Repairs
        PROVE  /\ status'[s] \in CreditPaid => DebitRows(s)' = {entry'[s]} /\ ReversalRows(s)' = {}
               /\ status'[s] = "REVERSED" =>
                    /\ DebitRows(s)' = {entry'[s]}
                    /\ \E i \in DOMAIN ledger' :
                         ReversalRows(s)' = {i} /\ ledger'[i].reverses = entry'[s]
               /\ status'[s] \notin CreditPaid \union {"REVERSED"} =>
                    entry'[s] = 0 /\ DebitRows(s)' = {} /\ ReversalRows(s)' = {}
    <3>1. CASE s = r
      <4>1. status'[s] = "REVERSED"
        BY <1>5, <3>1 DEF VendorPaymentTypeOK
      <4>2. n + 1 \in DOMAIN ledger' /\ ledger'[n + 1].reverses = entry'[s]
        BY <1>3, <1>5, <1>11, <3>1
      <4> QED
        BY <1>5, <1>12, <1>13, <3>1, <4>1, <4>2
    <3>2. CASE s # r
      <4>1. status'[s] = status[s] /\ entry'[s] = entry[s]
        BY <1>5, <3>2 DEF VendorPaymentTypeOK
      <4> QED
        BY <1>7, <1>11, <1>13, <1>14, <3>2, <4>1 DEF LedgerInv, StatusMatchesLedger
    <3> QED
      BY <3>1, <3>2
  <2> QED
    BY <2>1 DEF StatusMatchesLedger, CreditPaid
<1>16. KeysRecorded'
  <2>1. ASSUME NEW i \in 1..n, NEW s \in Repairs, ledger[i].key = <<"payment", AutoKey(s)>>
        PROVE  i \in DebitRows(s)'
    BY <1>1, <1>6, <1>13, <2>1 DEF LedgerInv, KeysRecorded
  <2>2. \A x : row.key # <<"payment", x>>
    BY <1>3 DEF key
  <2>3. \A l \in Keys : row.key = <<"credit-reversal", ClientKey(l)>> => l = k
    BY <1>3, AttemptKeyForms DEF key
  <2>4. \A i \in 1..(n + 1) : i \in 1..n \/ i = n + 1
    OBVIOUS
  <2>5. /\ AttemptKeys' = AttemptKeys /\ AttemptKeyValues' = AttemptKeyValues
        /\ ReceiptKeys' = ReceiptKeys \union {k}
    BY <1>5, NewReceiptKey DEF AttemptKeys, AttemptKeyValues
  <2> QED
    BY <1>1, <1>11, <2>1, <2>2, <2>3, <2>4, <2>5 DEF LedgerInv, KeysRecorded, AutoKey, ClientKey
<1>17. ReversalsKeepRef'
  <2>1. \A i \in 1..(n + 1) : i \in 1..n \/ i = n + 1
    OBVIOUS
  <2>2. ASSUME NEW i \in 1..n, ledger[i].type = "REVERSAL"
        PROVE  ledger'[i].reverses \in 1..(n + 1) /\ ledger'[ledger'[i].reverses].ref = ledger'[i].ref
    BY <1>1, <1>11, <1>14, <2>2 DEF LedgerInv, ReversalsKeepRef
  <2>3. /\ ledger'[n + 1].reverses \in 1..(n + 1)
        /\ ledger'[ledger'[n + 1].reverses].ref = ledger'[n + 1].ref
    <3>1. ledger'[n + 1].reverses = entry[r] /\ ledger'[n + 1].ref = Ref(r)
      BY <1>3, <1>11
    <3>2. ledger'[entry[r]] = ledger[entry[r]] /\ entry[r] \in 1..(n + 1)
      BY <1>2, <1>11, <1>14
    <3> QED
      BY <1>2, <3>1, <3>2
  <2> QED
    BY <1>11, <2>1, <2>2, <2>3 DEF ReversalsKeepRef
<1> QED
  BY <1>10, <1>15, <1>16, <1>17 DEF LedgerInv, Promise!Post

(* A settlement, whatever its outcome, keeps the ledger's invariant, and   *)
(* posts what the abstract ledger allows or leaves the account alone.      *)
LEMMA SettleLockedPosts ==
  ASSUME VendorPaymentTypeOK, LedgerInv, NEW r \in Repairs,
         NEW mode \in {"AUTO_CREDIT", "MANUAL_CREDIT", "DIRECT"}, NEW key \in AttemptKeyValues,
         status[r] \notin OnCredit,
         key \notin AttemptKeys \/ key = AutoKey(r),
         \A s \in Repairs : key = AutoKey(s) => s = r,
         SettleLocked(r, mode, key)
  PROVE  LedgerInv' /\ (Promise!Post \/ UNCHANGED <<balance, ledger>>)
<1>1. receipts' = receipts /\ ReceiptKeys' = ReceiptKeys
  BY DEF SettleLocked, ReceiptKeys
<1>2. "DIRECT_PAID" \notin OnCredit /\ "INSUFFICIENT_CREDIT" \notin OnCredit
  BY DEF OnCredit, CreditPaid
<1>3. CASE mode # "DIRECT" /\ SettleFromAccount(r, mode, key) /\ MarkSettled(r, mode, key)
  BY <1>1, <1>3, SettlementPosts
<1>4. CASE mode = "DIRECT" /\ SettleOutside(r) /\ MarkSettled(r, mode, key)
  <2>1. status' = [status EXCEPT ![r] = "DIRECT_PAID"] /\ AttemptKeys' = AttemptKeys \union {key}
    BY <1>4, PaidStatusType, NewAttemptKey DEF MarkSettled
  <2>2. UNCHANGED <<balance, ledger, entry>>
    BY <1>4 DEF SettleOutside
  <2>3. \A s \in Repairs : status'[s] = status[s] \/ (s = r /\ status'[s] = "DIRECT_PAID")
    BY <2>1 DEF VendorPaymentTypeOK
  <2>4. \A s \in Repairs : \/ status'[s] = status[s]
                           \/ status[s] \notin OnCredit /\ status'[s] \notin OnCredit
    BY <1>2, <2>3
  <2>5. AttemptKeys \subseteq AttemptKeys' /\ ReceiptKeys \subseteq ReceiptKeys'
    BY <1>1, <2>1
  <2>6. LedgerInv'
    BY <2>2, <2>4, <2>5, NothingPosted
  <2> QED
    BY <2>2, <2>6
<1>5. CASE mode # "DIRECT" /\ MarkInsufficient(r, mode, key)
  <2>1. /\ status' = [status EXCEPT ![r] = "INSUFFICIENT_CREDIT"]
        /\ AttemptKeys' = AttemptKeys \union {key}
        /\ UNCHANGED <<balance, ledger, entry>>
    BY <1>5, NewAttemptKey DEF MarkInsufficient
  <2>3. \A s \in Repairs : status'[s] = status[s] \/ (s = r /\ status'[s] = "INSUFFICIENT_CREDIT")
    BY <2>1 DEF VendorPaymentTypeOK
  <2>4. \A s \in Repairs : \/ status'[s] = status[s]
                           \/ status[s] \notin OnCredit /\ status'[s] \notin OnCredit
    BY <1>2, <2>3
  <2>5. AttemptKeys \subseteq AttemptKeys' /\ ReceiptKeys \subseteq ReceiptKeys'
    BY <1>1, <2>1
  <2>6. LedgerInv'
    BY <2>1, <2>4, <2>5, NothingPosted
  <2> QED
    BY <2>1, <2>6
<1> QED
  BY <1>3, <1>4, <1>5 DEF SettleLocked

(* Every step of the component keeps the invariant, and posts one row or   *)
(* leaves the account alone.                                               *)
LEMMA NextLedger ==
  ASSUME VendorPaymentTypeOK, LedgerInv, [VendorPaymentNext]_vendorPaymentVars
  PROVE  LedgerInv' /\ (Promise!Post \/ UNCHANGED <<balance, ledger>>)
<1>1. /\ "NONE" \notin OnCredit /\ "WAITING_COMPLETION" \notin OnCredit
      /\ "DIRECT_PAID" \notin OnCredit /\ "DIRECT_PAYMENT_VOIDED" \notin OnCredit
      /\ "CANCELLED" \notin OnCredit /\ \A p \in Payable : p \notin OnCredit
  BY DEF OnCredit, CreditPaid, Payable
<1>2. ASSUME UNCHANGED <<balance, ledger, entry>>, NEW r \in Repairs, NEW p,
             status' = status \/ (status' = [status EXCEPT ![r] = p]
                                  /\ status[r] \notin OnCredit /\ p \notin OnCredit),
             AttemptKeys \subseteq AttemptKeys', ReceiptKeys \subseteq ReceiptKeys'
      PROVE  LedgerInv' /\ UNCHANGED <<balance, ledger>>
  <2>1. ASSUME NEW s \in Repairs
        PROVE  \/ status'[s] = status[s]
               \/ status[s] \notin OnCredit /\ status'[s] \notin OnCredit
    BY <1>2 DEF VendorPaymentTypeOK
  <2> QED
    BY <1>2, <2>1, NothingPosted
<1>3. ASSUME NEW r \in Repairs, WorkStep(r)
      PROVE  LedgerInv' /\ UNCHANGED <<balance, ledger>>
  <2>1. UNCHANGED <<balance, ledger, entry>> /\ AttemptKeys' = AttemptKeys /\ ReceiptKeys' = ReceiptKeys
    BY <1>3
       DEF WorkStep, SubmitCompletion, DecideCompletion, DecideTenantCompletion, Decide,
           AttemptKeys, ReceiptKeys
  <2>2. \/ status' = status
        \/ /\ status[r] \in {"NONE", "WAITING_COMPLETION"}
           /\ \E p \in {"WAITING_COMPLETION", "PENDING_APPROVAL"} : status' = [status EXCEPT ![r] = p]
    BY <1>3 DEF WorkStep, SubmitCompletion, DecideCompletion, DecideTenantCompletion, Decide
  <2>3. "PENDING_APPROVAL" \in Payable
    BY DEF Payable
  <2> QED
    BY <1>1, <1>2, <2>1, <2>2, <2>3
<1>4. ASSUME NEW r \in Repairs, PaymentStep(r)
      PROVE  LedgerInv' /\ (Promise!Post \/ UNCHANGED <<balance, ledger>>)
  <2>1. CASE EvaluateAfterCompletion(r)
    <3>1. status[r] \notin OnCredit
      BY <1>1, <2>1 DEF EvaluateAfterCompletion
    <3>2. CASE WithinPolicy(Amount[r])
      <4>1. AutoKey(r) \in AttemptKeyValues
        BY DEF AutoKey, AttemptKeyValues
      <4> QED
        BY <2>1, <3>1, <3>2, <4>1, SettleLockedPosts, AttemptKeyForms DEF EvaluateAfterCompletion
    <3>3. CASE ~ WithinPolicy(Amount[r])
      <4>1. /\ UNCHANGED <<balance, ledger, entry>>
            /\ AttemptKeys' = AttemptKeys /\ ReceiptKeys' = ReceiptKeys
            /\ status' = [status EXCEPT ![r] = "PENDING_APPROVAL"]
        BY <2>1, <3>3 DEF EvaluateAfterCompletion, AttemptKeys, ReceiptKeys
      <4>2. "PENDING_APPROVAL" \in Payable
        BY DEF Payable
      <4> QED
        BY <1>1, <1>2, <3>1, <4>1, <4>2
    <3> QED
      BY <3>2, <3>3
  <2>2. ASSUME NEW k \in Keys, NEW m \in {"MANUAL_CREDIT", "DIRECT"}, SettlePaymentRequest(r, m, k)
        PROVE  LedgerInv' /\ (Promise!Post \/ UNCHANGED <<balance, ledger>>)
    <3>1. /\ status[r] \notin OnCredit /\ ClientKey(k) \notin AttemptKeys
          /\ SettleLocked(r, m, ClientKey(k)) /\ ClientKey(k) \in AttemptKeyValues
      BY <1>1, <2>2 DEF SettlePaymentRequest, ClientKey, AttemptKeyValues
    <3>2. \A s \in Repairs : ClientKey(k) # AutoKey(s)
      BY AttemptKeyForms
    <3> QED
      BY <3>1, <3>2, SettleLockedPosts
  <2>3. ASSUME NEW k \in Keys, RequestTenantDirectPayment(r, k)
        PROVE  LedgerInv' /\ UNCHANGED <<balance, ledger>>
    <3>1. /\ UNCHANGED <<balance, ledger, entry, status>>
          /\ AttemptKeys' = AttemptKeys \union {ClientKey(k)} /\ ReceiptKeys' = ReceiptKeys
      BY <2>3, NewAttemptKey DEF RequestTenantDirectPayment, ReceiptKeys
    <3> QED
      BY <1>2, <3>1
  <2>4. CASE ConfirmVendorDirectPayment(r)
    <3>1. PICK a \in attempts : attempts' = (attempts \ {a}) \union {[a EXCEPT !.outcome = "SUCCEEDED"]}
      BY <2>4 DEF ConfirmVendorDirectPayment
    <3>2. [a EXCEPT !.outcome = "SUCCEEDED"].key = a.key
      BY DEF VendorPaymentTypeOK
    <3>3. AttemptKeys \subseteq AttemptKeys'
      BY <3>1, <3>2 DEF AttemptKeys
    <3>4. /\ UNCHANGED <<balance, ledger, entry>> /\ ReceiptKeys' = ReceiptKeys
          /\ status' = [status EXCEPT ![r] = "DIRECT_PAID"] /\ status[r] = "PENDING_APPROVAL"
      BY <2>4 DEF ConfirmVendorDirectPayment, TenantDirectPending, ReceiptKeys
    <3>5. "PENDING_APPROVAL" \in Payable
      BY DEF Payable
    <3> QED
      BY <1>1, <1>2, <3>3, <3>4, <3>5
  <2> QED
    BY <1>4, <2>1, <2>2, <2>3, <2>4 DEF PaymentStep
<1>5. ASSUME NEW r \in Repairs, CorrectionStep(r)
      PROVE  LedgerInv' /\ (Promise!Post \/ UNCHANGED <<balance, ledger>>)
  <2>1. ASSUME NEW k \in Keys, NEW command, NEW p, Correct(r, command, k, p),
               status[r] \notin OnCredit, p \notin OnCredit, UNCHANGED <<balance, ledger>>
        PROVE  LedgerInv' /\ UNCHANGED <<balance, ledger>>
    <3>1. ReceiptKeys' = ReceiptKeys \union {k}
      BY <2>1, NewReceiptKey DEF Correct
    <3>2. entry' = entry /\ AttemptKeys' = AttemptKeys /\ status' = [status EXCEPT ![r] = p]
      BY <2>1 DEF Correct, AttemptKeys
    <3> QED
      BY <1>2, <2>1, <3>1, <3>2
  <2>2. ASSUME NEW k \in Keys, VoidDirectPayment(r, k)
        PROVE  LedgerInv' /\ UNCHANGED <<balance, ledger>>
    BY <1>1, <2>1, <2>2 DEF VoidDirectPayment, ledgerVars
  <2>3. ASSUME NEW k \in Keys, CancelPaymentRequest(r, k)
        PROVE  LedgerInv' /\ UNCHANGED <<balance, ledger>>
    BY <1>1, <2>1, <2>3 DEF CancelPaymentRequest
  <2> QED
    BY <1>5, <2>2, <2>3, ReversalIsPosted DEF CorrectionStep
<1>6. ASSUME UNCHANGED <<balance, ledger, entry, status, attempts, receipts>>
      PROVE  LedgerInv' /\ UNCHANGED <<balance, ledger>>
  BY <1>6, NothingPosted DEF AttemptKeys, ReceiptKeys
<1>7. ASSUME NEW limit \in Limits \union {0}, SaveAutoPayPolicy(limit)
      PROVE  LedgerInv' /\ UNCHANGED <<balance, ledger>>
  BY <1>6, <1>7 DEF SaveAutoPayPolicy, requestVars
<1>8. CASE UNCHANGED vendorPaymentVars
  BY <1>6, <1>8 DEF vendorPaymentVars
<1> QED
  BY <1>3, <1>4, <1>5, <1>7, <1>8 DEF VendorPaymentNext

(* The opening ledger belongs to no request, so the invariant starts true. *)
LEMMA InitLedger ==
  VendorPaymentInit => LedgerInv
<1> SUFFICES ASSUME VendorPaymentInit PROVE LedgerInv
  OBVIOUS
<1>1. LedgerInit
  BY DEF VendorPaymentInit
<1>2. \A i \in DOMAIN ledger : /\ ledger[i].type = "TOPUP" /\ ledger[i].key = <<"topup", "opening">>
  BY <1>1 DEF LedgerInit, Row
<1>3. \A i \in 1..Len(ledger) : i \in DOMAIN ledger
  BY InitType DEF VendorPaymentTypeOK
<1>4. "TOPUP" \notin Debits
  BY DEF Debits
<1>5. \A r \in Repairs : DebitRows(r) = {} /\ ReversalRows(r) = {}
  BY <1>2, <1>4 DEF DebitRows, ReversalRows
<1>6. StatusMatchesLedger
  BY <1>5 DEF StatusMatchesLedger, VendorPaymentInit, CreditPaid
<1>7. KeysRecorded /\ ReversalsKeepRef
  BY <1>2, <1>3 DEF KeysRecorded, ReversalsKeepRef
<1> QED
  BY <1>1, <1>6, <1>7, LedgerInitWellFormed DEF LedgerInv

(***************************************************************************)
(* The work and its payment.                                               *)
(***************************************************************************)
WorkInv == ApprovalCompletes /\ OnlyApprovedWorkIsPaid

(* Nothing but the work itself moves the work, and a request only becomes  *)
(* payable or is paid where it already was, or where its approval stands.  *)
LEMMA WorkUntouched ==
  ASSUME VendorPaymentTypeOK, WorkInv, UNCHANGED <<repair, report, decision, linked>>,
         NEW r \in Repairs, NEW p, status' = [status EXCEPT ![r] = p],
         status[r] \in Payable \union Final \/ (Settleable(r) /\ status[r] = "WAITING_COMPLETION")
  PROVE  WorkInv'
<1>1. decision[r] = "APPROVED" /\ repair[r] = "COMPLETED" /\ report[r] > 0 /\ linked[r] = report[r]
  BY DEF WorkInv, ApprovalCompletes, OnlyApprovedWorkIsPaid, Settleable
<1>2. \A s \in Repairs : status'[s] = status[s] \/ s = r
  BY DEF VendorPaymentTypeOK
<1> QED
  BY <1>1, <1>2
     DEF WorkInv, ApprovalCompletes, OnlyApprovedWorkIsPaid, Payable, Final, Paid, CreditPaid,
         Corrected

(* A step that touches neither the work nor a status keeps the invariant. *)
LEMMA WorkUnrelated ==
  ASSUME WorkInv, UNCHANGED <<repair, report, decision, linked, status>>
  PROVE  WorkInv'
  BY DEF WorkInv, ApprovalCompletes, OnlyApprovedWorkIsPaid, Payable, Final, Paid, CreditPaid,
         Corrected

(* Every step keeps the approval under what it made payable. *)
LEMMA NextWork ==
  ASSUME VendorPaymentTypeOK, WorkInv, [VendorPaymentNext]_vendorPaymentVars
  PROVE  WorkInv'
<1>1. /\ "NONE" \notin Payable \union Final /\ "WAITING_COMPLETION" \notin Payable \union Final
      /\ "PENDING_APPROVAL" \in Payable /\ "DIRECT_PAID" \in Final /\ CreditPaid \subseteq Final
  BY DEF Payable, Final, Paid, CreditPaid, Corrected
<1>2. Payable' = Payable /\ Final' = Final
  BY DEF Payable, Final, Paid, CreditPaid, Corrected
<1>3. ASSUME NEW r \in Repairs, SubmitCompletion(r)
      PROVE  WorkInv'
  <2>1. /\ repair' = [repair EXCEPT ![r] = "COMPLETION_REPORTED"]
        /\ report' = [report EXCEPT ![r] = @ + 1]
        /\ decision' = [decision EXCEPT ![r] = "NONE"]
        /\ status' = status \/ status' = [status EXCEPT ![r] = "WAITING_COMPLETION"]
        /\ linked' = linked \/ linked' = [linked EXCEPT ![r] = report[r] + 1]
        /\ status[r] \in {"NONE", "WAITING_COMPLETION"}
    BY <1>3 DEF SubmitCompletion
  <2>2. status'[r] \in {"NONE", "WAITING_COMPLETION"} /\ decision'[r] = "NONE"
    BY <2>1 DEF VendorPaymentTypeOK
  <2>3. ASSUME NEW s \in Repairs \ {r}
        PROVE  /\ repair'[s] = repair[s] /\ report'[s] = report[s] /\ decision'[s] = decision[s]
               /\ status'[s] = status[s] /\ linked'[s] = linked[s]
    BY <2>1 DEF VendorPaymentTypeOK
  <2> QED
    BY <1>1, <1>2, <2>2, <2>3 DEF WorkInv, ApprovalCompletes, OnlyApprovedWorkIsPaid
<1>4. ASSUME NEW r \in Repairs, NEW d \in {"APPROVED", "REJECTED"},
             DecideCompletion(r, d) \/ DecideTenantCompletion(r, d)
      PROVE  WorkInv'
  <2>1. /\ report' = report /\ report[r] > 0
        /\ decision' = [decision EXCEPT ![r] = d]
        /\ repair' = [repair EXCEPT ![r] = IF d = "APPROVED" THEN "COMPLETED" ELSE "IN_PROGRESS"]
        /\ status[r] \in {"NONE", "WAITING_COMPLETION"}
    BY <1>4 DEF DecideCompletion, DecideTenantCompletion, Decide
  <2>2. \/ status' = status /\ linked' = linked
        \/ /\ d = "APPROVED" /\ status' = [status EXCEPT ![r] = "PENDING_APPROVAL"]
           /\ linked' = [linked EXCEPT ![r] = report[r]]
    BY <1>4 DEF DecideCompletion, DecideTenantCompletion
  <2>3. ASSUME NEW s \in Repairs \ {r}
        PROVE  /\ repair'[s] = repair[s] /\ report'[s] = report[s] /\ decision'[s] = decision[s]
               /\ status'[s] = status[s] /\ linked'[s] = linked[s]
    BY <2>1, <2>2 DEF VendorPaymentTypeOK
  <2>4. decision'[r] = "APPROVED" => repair'[r] = "COMPLETED"
    BY <2>1 DEF VendorPaymentTypeOK
  <2>5. status'[r] \in Payable \union Final =>
          decision'[r] = "APPROVED" /\ report'[r] > 0 /\ linked'[r] = report'[r]
    BY <1>1, <2>1, <2>2 DEF VendorPaymentTypeOK
  <2> QED
    BY <1>2, <2>3, <2>4, <2>5 DEF WorkInv, ApprovalCompletes, OnlyApprovedWorkIsPaid
<1>5. ASSUME NEW r \in Repairs, PaymentStep(r)
      PROVE  WorkInv'
  <2>1. ASSUME NEW mode, NEW key, SettleLocked(r, mode, key),
               status[r] \in Payable \/ (Settleable(r) /\ status[r] = "WAITING_COMPLETION")
        PROVE  WorkInv'
    <3>1. UNCHANGED <<repair, report, decision, linked>>
      BY <2>1 DEF SettleLocked, workVars
    <3>2. \E p : status' = [status EXCEPT ![r] = p]
      BY <2>1 DEF SettleLocked, MarkSettled, MarkInsufficient
    <3> QED
      BY <2>1, <3>1, <3>2, WorkUntouched
  <2>2. CASE EvaluateAfterCompletion(r)
    <3>1. CASE WithinPolicy(Amount[r])
      BY <2>1, <2>2, <3>1 DEF EvaluateAfterCompletion
    <3>2. CASE ~ WithinPolicy(Amount[r])
      <4>1. /\ UNCHANGED <<repair, report, decision, linked>>
            /\ status' = [status EXCEPT ![r] = "PENDING_APPROVAL"]
            /\ Settleable(r) /\ status[r] = "WAITING_COMPLETION"
        BY <2>2, <3>2 DEF EvaluateAfterCompletion, workVars
      <4> QED
        BY <4>1, WorkUntouched
    <3> QED
      BY <3>1, <3>2
  <2>3. ASSUME NEW k \in Keys, NEW m \in {"MANUAL_CREDIT", "DIRECT"}, SettlePaymentRequest(r, m, k)
        PROVE  WorkInv'
    BY <2>1, <2>3 DEF SettlePaymentRequest
  <2>4. ASSUME NEW k \in Keys, RequestTenantDirectPayment(r, k)
        PROVE  WorkInv'
    BY <2>4, WorkUnrelated DEF RequestTenantDirectPayment, workVars
  <2>5. CASE ConfirmVendorDirectPayment(r)
    <3>1. /\ UNCHANGED <<repair, report, decision, linked>>
          /\ status' = [status EXCEPT ![r] = "DIRECT_PAID"] /\ status[r] = "PENDING_APPROVAL"
      BY <2>5 DEF ConfirmVendorDirectPayment, TenantDirectPending, workVars
    <3> QED
      BY <1>1, <3>1, WorkUntouched
  <2> QED
    BY <1>5, <2>2, <2>3, <2>4, <2>5 DEF PaymentStep
<1>6. ASSUME NEW r \in Repairs, CorrectionStep(r)
      PROVE  WorkInv'
  <2>1. ASSUME NEW k, NEW command, NEW p, Correct(r, command, k, p), status[r] \in Payable \union Final
        PROVE  WorkInv'
    BY <2>1, WorkUntouched DEF Correct, workVars
  <2>2. ASSUME NEW k \in Keys, ReverseCreditPayment(r, k)
        PROVE  WorkInv'
    BY <1>1, <2>1, <2>2 DEF ReverseCreditPayment
  <2>3. ASSUME NEW k \in Keys, VoidDirectPayment(r, k)
        PROVE  WorkInv'
    BY <1>1, <2>1, <2>3 DEF VoidDirectPayment
  <2>4. ASSUME NEW k \in Keys, CancelPaymentRequest(r, k)
        PROVE  WorkInv'
    BY <2>1, <2>4 DEF CancelPaymentRequest
  <2> QED
    BY <1>6, <2>2, <2>3, <2>4 DEF CorrectionStep
<1>7. ASSUME NEW limit \in Limits \union {0}, SaveAutoPayPolicy(limit)
      PROVE  WorkInv'
  BY <1>7, WorkUnrelated DEF SaveAutoPayPolicy, workVars, requestVars
<1>8. CASE UNCHANGED vendorPaymentVars
  BY <1>8, WorkUnrelated DEF vendorPaymentVars
<1> QED
  BY <1>3, <1>4, <1>5, <1>6, <1>7, <1>8 DEF VendorPaymentNext, WorkStep

(***************************************************************************)
(* Sums. Total is a fold over a finite set; what follows shows, without    *)
(* any assumption on the order in which the fold picks the elements, that  *)
(* taking one element out takes its summand out. Induction on the size of  *)
(* the set is by its least counterexample, the order on finite sets being  *)
(* well founded.                                                           *)
(***************************************************************************)
(* A set of naturals that is not empty has a least element. *)
LEMMA LeastNatural ==
  ASSUME NEW T, T \subseteq Nat, T # {}
  PROVE  \E n \in T : \A m \in T : n <= m
<1> DEFINE W == {1..n : n \in T}
<1>1. W \subseteq FiniteSubsetsOf(Nat) /\ W # {}
  <2>1. \A n \in T : 1..n \subseteq Nat /\ 1 \in Int /\ n \in Int
    OBVIOUS
  <2>2. \A n \in T : IsFiniteSet(1..n)
    BY <2>1, FS_Interval
  <2> QED
    BY <2>1, <2>2 DEF FiniteSubsetsOf
<1>2. \E w \in W : \A v \in W : <<v, w>> \notin StrictSubsetOrdering(Nat)
  BY <1>1, FS_StrictSubsetOrderingWellFounded, WFMin
<1>3. PICK n \in T : \A m \in T : <<1..m, 1..n>> \notin StrictSubsetOrdering(Nat)
  BY <1>2
<1>4. ASSUME NEW m \in T, m < n PROVE FALSE
  <2>1. 1..m \subseteq 1..n /\ n \in 1..n /\ n \notin 1..m /\ 1..n \subseteq Nat
    BY <1>4
  <2>2. <<1..m, 1..n>> \in (SUBSET Nat) \X (SUBSET Nat) /\ 1..m # 1..n
    BY <2>1
  <2>3. <<1..m, 1..n>> \in StrictSubsetOrdering(Nat)
    BY <2>1, <2>2 DEF StrictSubsetOrdering
  <2> QED
    BY <1>3, <2>3
<1> QED
  BY <1>4

Picked(s) == CHOOSE x \in s : TRUE
AddPicked(f, g, s) == IF s = {} THEN 0 ELSE f[Picked(s)] + g[s \ {Picked(s)}]

(* Total is the fold that picks an element, any one, and adds the rest. *)
LEMMA TotalUnfolded ==
  ASSUME NEW f, NEW S
  PROVE  Total(f, S) = (CHOOSE g : g = [s \in SUBSET S |-> AddPicked(f, g, s)])[S]
  BY DEF Total, MapThenSumSet, MapThenFoldSet, AddPicked, Picked

(* The subsets of S of at most n elements, and a table g of their sums. *)
UpTo(S, n) == {s \in SUBSET S : Cardinality(s) <= n}
Adds(f, S, n, g) == 
  /\ g \in [UpTo(S, n) -> Int]
  /\ \A s \in UpTo(S, n) : g[s] = AddPicked(f, g, s)

(* A picked element is one of the set, and leaves a smaller set behind. *)
LEMMA PickedProps ==
  ASSUME NEW S, IsFiniteSet(S), NEW s \in SUBSET S, s # {}
  PROVE  /\ Picked(s) \in s /\ s \ {Picked(s)} \in SUBSET S
         /\ Cardinality(s) \in Nat /\ Cardinality(s \ {Picked(s)}) = Cardinality(s) - 1
<1>1. Picked(s) \in s
  BY DEF Picked
<1>2. IsFiniteSet(s)
  BY FS_Subset
<1> QED
  BY <1>1, <1>2, FS_RemoveElement, FS_CardinalityType

(* There is a table of the sums over all subsets of S up to a size. *)
LEMMA AddsExists ==
  ASSUME NEW D, NEW f \in [D -> Int], NEW S \in SUBSET D, IsFiniteSet(S)
  PROVE  \A n \in Nat : \E g : Adds(f, S, n, g)
<1> DEFINE T == {n \in Nat : ~ \E g : Adds(f, S, n, g)}
<1>1. SUFFICES ASSUME T # {} PROVE FALSE
  OBVIOUS
<1>2. PICK n \in T : \A m \in T : n <= m
  BY <1>1, LeastNatural
<1>3. n \in Nat /\ ~ \E g : Adds(f, S, n, g)
  BY <1>2
<1>4. CASE n = 0
  <2> DEFINE g == [s \in UpTo(S, n) |-> 0]
  <2>1. \A s \in UpTo(S, n) : s = {}
    <3> SUFFICES ASSUME NEW s \in UpTo(S, n) PROVE s = {}
      OBVIOUS
    <3>1. IsFiniteSet(s) /\ Cardinality(s) <= 0
      BY <1>4, FS_Subset DEF UpTo
    <3> QED
      BY <3>1, FS_EmptySet, FS_CardinalityType
  <2>2. Adds(f, S, n, g)
    BY <2>1 DEF Adds, AddPicked
  <2> QED
    BY <1>3, <2>2
<1>5. CASE n > 0
  <2>1. n - 1 \in Nat /\ n - 1 \notin T
    BY <1>2, <1>3, <1>5
  <2>2. PICK g : Adds(f, S, n - 1, g)
    BY <2>1
  <2> DEFINE h == [s \in UpTo(S, n) |-> AddPicked(f, g, s)]
  <2>3. ASSUME NEW s \in UpTo(S, n), s # {}
        PROVE  s \ {Picked(s)} \in UpTo(S, n - 1) /\ f[Picked(s)] \in Int
    BY <1>3, <2>3, PickedProps DEF UpTo
  <2>4. ASSUME NEW s \in UpTo(S, n - 1)
        PROVE  s \in UpTo(S, n) /\ h[s] = g[s]
    <3>1. s \in UpTo(S, n)
      BY <1>3, <2>4, FS_CardinalityType, FS_Subset DEF UpTo
    <3> QED
      BY <2>2, <3>1 DEF Adds
  <2>5. ASSUME NEW s \in UpTo(S, n)
        PROVE  AddPicked(f, g, s) \in Int /\ AddPicked(f, g, s) = AddPicked(f, h, s)
    <3> HIDE DEF h
    <3> QED
      BY <2>2, <2>3, <2>4 DEF Adds, AddPicked
  <2>6. Adds(f, S, n, h)
    BY <2>5 DEF Adds
  <2> QED
    BY <1>3, <2>6
<1> QED
  BY <1>3, <1>4, <1>5

(* The table of the sums over all subsets of S. *)
Sums(f, S, g) ==
  g \in [SUBSET S -> Int] /\ \A s \in SUBSET S : g[s] = AddPicked(f, g, s)

(* There is such a table, and Total is its last entry. *)
LEMMA TotalIsSum ==
  ASSUME NEW D, NEW f \in [D -> Int], NEW S \in SUBSET D, IsFiniteSet(S)
  PROVE  \E g : Sums(f, S, g) /\ Total(f, S) = g[S]
<1>1. Cardinality(S) \in Nat
  BY FS_CardinalityType
<1>2. UpTo(S, Cardinality(S)) = SUBSET S
  BY FS_Subset DEF UpTo
<1>3. PICK g : Adds(f, S, Cardinality(S), g)
  BY <1>1, AddsExists
<1>4. g = [s \in SUBSET S |-> AddPicked(f, g, s)]
  BY <1>2, <1>3 DEF Adds
<1> DEFINE G == CHOOSE h : h = [s \in SUBSET S |-> AddPicked(f, h, s)]
<1>5. G = [s \in SUBSET S |-> AddPicked(f, G, s)]
  BY <1>4
<1>6. Total(f, S) = G[S]
  BY TotalUnfolded
<1> HIDE DEF G
<1>7. \A s \in SUBSET S : G[s] = AddPicked(f, G, s)
  BY <1>5
<1>8. G \in [SUBSET S -> Int]
  <2> DEFINE T == {Cardinality(s) : s \in {t \in SUBSET S : G[t] \notin Int}}
  <2>1. SUFFICES T = {}
    <3>1. ASSUME T = {}, NEW t \in SUBSET S, G[t] \notin Int PROVE FALSE
      <4>1. Cardinality(t) \in T
        BY <3>1
      <4> QED
        BY <3>1, <4>1
    <3> QED
      BY <1>5, <3>1
  <2>2. T \subseteq Nat
     BY FS_Subset, FS_CardinalityType
  <2>9. SUFFICES ASSUME T # {} PROVE FALSE
    OBVIOUS
  <2>3. PICK n \in T : \A m \in T : n <= m
     BY <2>9, <2>2, LeastNatural
  <2>4. PICK s \in SUBSET S : Cardinality(s) = n /\ G[s] \notin Int
     BY <2>3
  <2>5. s # {}
     BY <1>7, <2>4 DEF AddPicked
  <2>6. Cardinality(s \ {Picked(s)}) = n - 1 /\ s \ {Picked(s)} \in SUBSET S /\ Picked(s) \in D /\ n \in Nat
     BY <2>4, <2>5, PickedProps
  <2>7. G[s \ {Picked(s)}] \in Int
     BY <2>3, <2>6
  <2> QED
     BY <1>7, <2>4, <2>5, <2>6, <2>7 DEF AddPicked
<1> QED
  BY <1>6, <1>7, <1>8 DEF Sums

(* A table for S and one for a part of S agree where both are defined. *)
LEMMA SumsAgree ==
  ASSUME NEW f, NEW S, IsFiniteSet(S), NEW R \in SUBSET S, NEW g, Sums(f, S, g), NEW h, Sums(f, R, h)
  PROVE  \A s \in SUBSET R : g[s] = h[s]
<1> DEFINE T == {Cardinality(s) : s \in {t \in SUBSET R : g[t] # h[t]}}
<1>1. SUFFICES T = {}
  <2>1. ASSUME T = {}, NEW t \in SUBSET R, g[t] # h[t] PROVE FALSE
    <3>1. Cardinality(t) \in T
      BY <2>1
    <3> QED
      BY <2>1, <3>1
  <2> QED
    BY <2>1
<1>2. SUFFICES ASSUME T # {} PROVE FALSE
  OBVIOUS
<1>3. T \subseteq Nat
  BY FS_Subset, FS_CardinalityType
<1>4. PICK n \in T : \A m \in T : n <= m
  BY <1>2, <1>3, LeastNatural
<1>5. PICK s \in SUBSET R : Cardinality(s) = n /\ g[s] # h[s]
  BY <1>4
<1>6. s # {}
  BY <1>5 DEF Sums, AddPicked
<1>7. s \in SUBSET S /\ IsFiniteSet(R)
  BY FS_Subset
<1>8. Cardinality(s \ {Picked(s)}) = n - 1 /\ s \ {Picked(s)} \in SUBSET R /\ n \in Nat
  BY <1>5, <1>6, <1>7, PickedProps
<1>9. g[s \ {Picked(s)}] = h[s \ {Picked(s)}]
  BY <1>4, <1>8
<1> QED
  BY <1>5, <1>6, <1>7, <1>9 DEF Sums, AddPicked

(* In such a table any element, not only the picked one, may be split off. *)
LEMMA SumsAnyOrder ==
  ASSUME NEW D, NEW f \in [D -> Int], NEW S \in SUBSET D, IsFiniteSet(S), NEW g, Sums(f, S, g)
  PROVE  \A s \in SUBSET S : \A x \in s : g[s] = f[x] + g[s \ {x}]
<1> DEFINE B == {s \in SUBSET S : \E x \in s : g[s] # f[x] + g[s \ {x}]}
           T == {Cardinality(s) : s \in B}
<1>1. SUFFICES B = {}
  OBVIOUS
<1>2. SUFFICES ASSUME B # {} PROVE FALSE
  OBVIOUS
<1>3. T \subseteq Nat /\ T # {}
  BY <1>2, FS_Subset, FS_CardinalityType
<1>4. PICK n \in T : \A m \in T : n <= m
  BY <1>3, LeastNatural
<1>5. PICK s \in B : Cardinality(s) = n
  BY <1>4
<1>6. PICK x \in s : g[s] # f[x] + g[s \ {x}]
  BY <1>5
<1> DEFINE c == Picked(s)
<1>7. /\ s \in SUBSET S /\ c \in s /\ n \in Nat
      /\ Cardinality(s \ {c}) = n - 1 /\ Cardinality(s \ {x}) = n - 1
  <2>1. s \in SUBSET S /\ s # {} /\ IsFiniteSet(s)
    BY <1>5, <1>6, FS_Subset
  <2> QED
    BY <1>5, <1>6, <2>1, PickedProps, FS_RemoveElement
<1>8. g[s] = f[c] + g[s \ {c}]
  BY <1>7 DEF Sums, AddPicked
<1> HIDE DEF c
<1>9. c # x
  BY <1>6, <1>8
<1>10. s \ {c} \notin B /\ s \ {x} \notin B
  <2>1. ASSUME NEW r \in B PROVE n <= Cardinality(r)
    BY <1>4
  <2>2. ~ (n <= n - 1)
    BY <1>7
  <2> HIDE DEF B
  <2> QED
    BY <1>7, <2>1, <2>2
<1>11. g[s \ {c}] = f[x] + g[(s \ {c}) \ {x}]
  BY <1>6, <1>7, <1>9, <1>10
<1>12. g[s \ {x}] = f[c] + g[(s \ {x}) \ {c}]
  BY <1>6, <1>7, <1>9, <1>10
<1>13. (s \ {c}) \ {x} = (s \ {x}) \ {c} /\ (s \ {x}) \ {c} \in SUBSET S
  BY <1>7
<1>14. f[c] \in Int /\ f[x] \in Int /\ g[(s \ {x}) \ {c}] \in Int
  BY <1>6, <1>7, <1>13 DEF Sums
<1>15. ASSUME NEW a \in Int, NEW b \in Int, NEW d \in Int PROVE a + (b + d) = b + (a + d)
  OBVIOUS
<1>16. f[c] + (f[x] + g[(s \ {x}) \ {c}]) = f[x] + (f[c] + g[(s \ {x}) \ {c}])
  BY <1>14, <1>15
<1> QED
  BY <1>6, <1>8, <1>11, <1>12, <1>13, <1>16

(* The sum over no element is zero. *)
LEMMA TotalOfNone ==
  ASSUME NEW D, NEW f \in [D -> Int]
  PROVE  Total(f, {}) = 0
<1>1. IsFiniteSet({}) /\ {} \in SUBSET D
  BY FS_EmptySet
<1>2. PICK g : Sums(f, {}, g) /\ Total(f, {}) = g[{}]
  BY <1>1, TotalIsSum
<1>3. {} \in SUBSET {}
  OBVIOUS
<1>4. g[{}] = AddPicked(f, g, {})
  BY <1>2, <1>3 DEF Sums
<1> QED
  BY <1>2, <1>4 DEF AddPicked

(* Taking one element out of a finite set takes its summand out of the sum. *)
LEMMA TotalWithout ==
  ASSUME NEW D, NEW f \in [D -> Int], NEW S \in SUBSET D, IsFiniteSet(S), NEW x \in S
  PROVE  Total(f, S) = f[x] + Total(f, S \ {x}) /\ Total(f, S) \in Int /\ Total(f, S \ {x}) \in Int
<1>1. PICK g : Sums(f, S, g) /\ Total(f, S) = g[S]
  BY TotalIsSum
<1>2. IsFiniteSet(S \ {x}) /\ S \ {x} \in SUBSET D
  BY FS_RemoveElement
<1>3. PICK h : Sums(f, S \ {x}, h) /\ Total(f, S \ {x}) = h[S \ {x}]
  BY <1>2, TotalIsSum
<1>4. g[S \ {x}] = h[S \ {x}]
  BY <1>1, <1>3, SumsAgree
<1>5. g[S] = f[x] + g[S \ {x}]
  BY <1>1, SumsAnyOrder
<1> QED
  BY <1>1, <1>3, <1>4, <1>5 DEF Sums

(* The sum over one element. *)
LEMMA TotalOfOne ==
  ASSUME NEW D, NEW f \in [D -> Int], NEW x \in D
  PROVE  Total(f, {x}) = f[x]
<1>1. IsFiniteSet({x}) /\ {x} \in SUBSET D /\ {x} \ {x} = {} /\ f[x] \in Int
  BY FS_Singleton
<1> QED
  BY <1>1, TotalWithout, TotalOfNone

(* Adding an element to a finite set adds its summand. *)
LEMMA TotalWith ==
  ASSUME NEW D, NEW f \in [D -> Int], NEW S \in SUBSET D, IsFiniteSet(S), NEW x \in D, x \notin S
  PROVE  Total(f, S \union {x}) = f[x] + Total(f, S) /\ Total(f, S) \in Int
<1>1. IsFiniteSet(S \union {x}) /\ S \union {x} \in SUBSET D /\ (S \union {x}) \ {x} = S
  BY FS_AddElement
<1> QED
  BY <1>1, TotalWithout

(* The sum over two elements. *)
LEMMA TotalOfTwo ==
  ASSUME NEW D, NEW f \in [D -> Int], NEW x \in D, NEW y \in D, x # y
  PROVE  Total(f, {x} \union {y}) = f[x] + f[y]
<1>1. IsFiniteSet({x}) /\ {x} \in SUBSET D /\ y \notin {x} /\ f[x] \in Int /\ f[y] \in Int
  BY FS_Singleton
<1>2. Total(f, {x} \union {y}) = f[y] + Total(f, {x})
  BY <1>1, TotalWith
<1> QED
  BY <1>1, <1>2, TotalOfOne

(***************************************************************************)
(* The books of the manager and the announcements to the vendor.           *)
(***************************************************************************)
Voided == {"REVERSED", "DIRECT_PAYMENT_VOIDED"}
Standing == Paid \union Voided
Told(r) == {c \in PaidCodes : <<r, c>> \in announced}
IsOne(S) == \E x \in S : S = {x}

(* BooksMatchPayment and PaymentAnnouncedOnce of one repair, with sets of  *)
(* one element in place of the cardinalities.                              *)
BooksOK(r) ==
  /\ (cost[r] = "CONFIRMED") <=> (Payer[r] = "MANAGER" /\ status[r] \in Paid)
  /\ (cost[r] = "VOID") <=> (status[r] \in Voided)
  /\ status[r] \in Standing \ {"TOSS_PAID"} => IsOne(Successes(r))
  /\ status[r] \notin Standing \ {"TOSS_PAID"} => Successes(r) = {}
  /\ status[r] \in Standing => IsOne(Told(r))
  /\ status[r] \notin Standing => Told(r) = {}

BooksInv == \A r \in Repairs : BooksOK(r)

(* A recorded attempt is the request's success if it says so, and touches  *)
(* no other request.                                                       *)
LEMMA AfterAttempt ==
  ASSUME NEW key, NEW r, NEW mode, NEW outcome, RecordAttempt(key, r, mode, outcome), NEW s
  PROVE  /\ s = r /\ outcome = "SUCCEEDED" =>
              Successes(s)' = Successes(s) \union {Attempt(key, r, mode, outcome)}
         /\ ~ (s = r /\ outcome = "SUCCEEDED") => Successes(s)' = Successes(s)
<1> DEFINE a == Attempt(key, r, mode, outcome)
<1>1. attempts' = attempts \union {a} /\ a.request = r /\ a.outcome = outcome
  BY DEF RecordAttempt, Attempt
<1> HIDE DEF a
<1>2. \A x : x \in Successes(s)' <=> x \in Successes(s) \/ (x = a /\ r = s /\ outcome = "SUCCEEDED")
  BY <1>1 DEF Successes
<1> QED
  BY <1>2 DEF a

(* An announcement tells of a payment if its code is one, and touches no   *)
(* other request.                                                          *)
LEMMA AfterAnnouncement ==
  ASSUME NEW r, NEW code, Announce(r, code), NEW s
  PROVE  /\ s = r /\ code \in PaidCodes => Told(s)' = Told(s) \union {code}
         /\ ~ (s = r /\ code \in PaidCodes) => Told(s)' = Told(s)
<1>1. PaidCodes' = PaidCodes
  BY DEF PaidCodes, Paid, CreditPaid
<1>2. \A c : <<s, c>> \in announced' <=> <<s, c>> \in announced \/ (s = r /\ c = code)
  BY DEF Announce
<1>3. \A c : c \in Told(s)' <=> c \in Told(s) \/ (c = code /\ s = r /\ c \in PaidCodes)
  BY <1>1, <1>2 DEF Told
<1> QED
  BY <1>3

(* A repair whose books a step leaves alone, and which it does not move    *)
(* into or out of payment.                                                 *)
LEMMA BooksUntouched ==
  ASSUME NEW r \in Repairs, BooksOK(r), cost'[r] = cost[r],
         Successes(r)' = Successes(r), Told(r)' = Told(r),
         status'[r] = status[r] \/ (status[r] \notin Standing /\ status'[r] \notin Standing)
  PROVE  BooksOK(r)'
<1>1. Paid' = Paid /\ Voided' = Voided /\ Standing' = Standing
  BY DEF Paid, CreditPaid, Voided, Standing
<1>2. \A p : p \notin Standing => p \notin Paid /\ p \notin Voided
  BY DEF Standing
<1> QED
  BY <1>1, <1>2 DEF BooksOK, IsOne

(* A payment enters the books once: as the cost of a manager who bears it, *)
(* as a success unless it was made by card, and as an announcement.        *)
LEMMA BooksPaid ==
  ASSUME NEW r \in Repairs, BooksOK(r), status[r] \notin Standing, status'[r] \in Paid,
         cost'[r] = IF Payer[r] = "MANAGER" THEN "CONFIRMED" ELSE cost[r],
         IF status'[r] = "TOSS_PAID" THEN Successes(r)' = Successes(r)
           ELSE \E a : Successes(r)' = Successes(r) \union {a},
         \E c : Told(r)' = Told(r) \union {c}
  PROVE  BooksOK(r)'
<1>1. Paid' = Paid /\ Voided' = Voided /\ Standing' = Standing
  BY DEF Paid, CreditPaid, Voided, Standing
<1>2. /\ status[r] \notin Paid /\ status[r] \notin Voided
      /\ status'[r] \in Standing /\ status'[r] \notin Voided
  BY DEF Standing, Voided, Paid, CreditPaid
<1> QED
  BY <1>1, <1>2 DEF BooksOK, IsOne

(* A payment taken back voids the cost and erases no record of it. *)
LEMMA BooksTakenBack ==
  ASSUME NEW r \in Repairs, BooksOK(r), status[r] \in Paid \ {"TOSS_PAID"}, status'[r] \in Voided,
         cost'[r] = "VOID", Successes(r)' = Successes(r), Told(r)' = Told(r)
  PROVE  BooksOK(r)'
<1>1. Paid' = Paid /\ Voided' = Voided /\ Standing' = Standing
  BY DEF Paid, CreditPaid, Voided, Standing
<1>2. status[r] \in Standing /\ status'[r] \in Standing \ {"TOSS_PAID"} /\ status'[r] \notin Paid
  BY DEF Standing, Voided, Paid, CreditPaid
<1> QED
  BY <1>1, <1>2 DEF BooksOK, IsOne

(* A step that moves one request keeps the books if it keeps that one's.   *)
LEMMA BooksOfOne ==
  ASSUME VendorPaymentTypeOK, BooksInv, NEW r \in Repairs, BooksOK(r)',
         \A s \in Repairs \ {r} : /\ cost'[s] = cost[s] /\ status'[s] = status[s]
                                  /\ Successes(s)' = Successes(s) /\ Told(s)' = Told(s)
  PROVE  BooksInv'
  BY BooksUntouched DEF BooksInv

(* A settlement of an unpaid request, whatever its outcome. *)
LEMMA SettleLockedBooks ==
  ASSUME VendorPaymentTypeOK, BooksInv, NEW r \in Repairs,
         NEW mode \in {"AUTO_CREDIT", "MANUAL_CREDIT", "DIRECT"}, NEW key,
         Payer[r] = "MANAGER", status[r] \notin Standing, SettleLocked(r, mode, key)
  PROVE  BooksInv'
<1>1. CASE MarkSettled(r, mode, key)
  <2>1. /\ PaidStatus(mode) \in Paid /\ PaidStatus(mode) # "TOSS_PAID"
        /\ PaidStatus(mode) \in PaidCodes
    BY PaidStatusType DEF PaidCodes, Paid, CreditPaid
  <2>2. /\ cost' = [cost EXCEPT ![r] = "CONFIRMED"]
        /\ status' = [status EXCEPT ![r] = PaidStatus(mode)]
        /\ RecordAttempt(key, r, mode, "SUCCEEDED") /\ Announce(r, PaidStatus(mode))
    BY <1>1 DEF MarkSettled
  <2>3. cost'[r] = "CONFIRMED" /\ status'[r] = PaidStatus(mode)
    BY <2>2 DEF VendorPaymentTypeOK
  <2>4. /\ Successes(r)' = Successes(r) \union {Attempt(key, r, mode, "SUCCEEDED")}
        /\ Told(r)' = Told(r) \union {PaidStatus(mode)}
    BY <2>1, <2>2, AfterAttempt, AfterAnnouncement
  <2>5. BooksOK(r)'
    BY <2>1, <2>3, <2>4, BooksPaid DEF BooksInv
  <2>6. \A s \in Repairs \ {r} : cost'[s] = cost[s] /\ status'[s] = status[s]
    BY <2>2 DEF VendorPaymentTypeOK
  <2>7. \A s \in Repairs \ {r} : Successes(s)' = Successes(s) /\ Told(s)' = Told(s)
    BY <2>2, AfterAttempt, AfterAnnouncement
  <2> QED
    BY <2>5, <2>6, <2>7, BooksOfOne
<1>2. CASE MarkInsufficient(r, mode, key)
  <2>1. /\ cost' = cost /\ status' = [status EXCEPT ![r] = "INSUFFICIENT_CREDIT"]
        /\ RecordAttempt(key, r, mode, "INSUFFICIENT_CREDIT")
        /\ Announce(r, "INSUFFICIENT_CREDIT")
    BY <1>2 DEF MarkInsufficient
  <2>2. "INSUFFICIENT_CREDIT" \notin PaidCodes /\ "INSUFFICIENT_CREDIT" \notin Standing
    BY DEF PaidCodes, Standing, Paid, CreditPaid, Voided
  <2>3. \A s \in Repairs : Successes(s)' = Successes(s) /\ Told(s)' = Told(s)
    BY <2>1, <2>2, AfterAttempt, AfterAnnouncement
  <2>4. \A s \in Repairs : status'[s] = status[s] \/ (s = r /\ status'[s] = "INSUFFICIENT_CREDIT")
    BY <2>1 DEF VendorPaymentTypeOK
  <2> QED
    BY <2>1, <2>2, <2>3, <2>4, BooksUntouched DEF BooksInv
<1> QED
  BY <1>1, <1>2 DEF SettleLocked

(* Every step keeps the books. *)
LEMMA NextBooks ==
  ASSUME VendorPaymentTypeOK, BooksInv, [VendorPaymentNext]_vendorPaymentVars
  PROVE  BooksInv'
<1>1. /\ \A p \in Payable \union {"NONE", "WAITING_COMPLETION", "CANCELLED"} :
           p \notin Standing /\ p \notin PaidCodes
      /\ "PENDING_APPROVAL" \in Payable
      /\ \A p \in Voided : p \notin PaidCodes
      /\ "TENANT_DIRECT_PAID" \in PaidCodes
      /\ CreditPaid \subseteq Paid \ {"TOSS_PAID"} /\ "DIRECT_PAID" \in Paid \ {"TOSS_PAID"}
      /\ "REVERSED" \in Voided /\ "DIRECT_PAYMENT_VOIDED" \in Voided
  BY DEF Payable, Standing, PaidCodes, Paid, CreditPaid, Voided
<1>2. ASSUME UNCHANGED attempts, NEW s PROVE Successes(s)' = Successes(s)
  BY <1>2 DEF Successes
<1>3. ASSUME UNCHANGED announced, NEW s PROVE Told(s)' = Told(s)
  BY <1>3 DEF Told, PaidCodes, Paid, CreditPaid
<1>4. ASSUME cost' = cost, NEW r \in Repairs, NEW p,
             status' = status \/ (status' = [status EXCEPT ![r] = p]
                                  /\ status[r] \notin Standing /\ p \notin Standing),
             \A s \in Repairs : Successes(s)' = Successes(s) /\ Told(s)' = Told(s)
      PROVE  BooksInv'
  <2>1. \A s \in Repairs : \/ status'[s] = status[s]
                           \/ status[s] \notin Standing /\ status'[s] \notin Standing
    BY <1>4 DEF VendorPaymentTypeOK
  <2> QED
    BY <1>4, <2>1, BooksUntouched DEF BooksInv
<1>5. ASSUME NEW r \in Repairs, WorkStep(r)
      PROVE  BooksInv'
  <2>1. UNCHANGED <<cost, attempts, announced>>
    BY <1>5 DEF WorkStep, SubmitCompletion, DecideCompletion, DecideTenantCompletion, Decide
  <2>2. \/ status' = status
        \/ /\ status[r] \in {"NONE", "WAITING_COMPLETION"}
           /\ \E p \in {"WAITING_COMPLETION", "PENDING_APPROVAL"} : status' = [status EXCEPT ![r] = p]
    BY <1>5 DEF WorkStep, SubmitCompletion, DecideCompletion, DecideTenantCompletion, Decide
  <2> QED
    BY <1>1, <1>2, <1>3, <1>4, <2>1, <2>2
<1>6. ASSUME NEW r \in Repairs, PaymentStep(r)
      PROVE  BooksInv'
  <2>1. CASE EvaluateAfterCompletion(r)
    <3>1. Payer[r] = "MANAGER" /\ status[r] \notin Standing
      BY <1>1, <2>1 DEF EvaluateAfterCompletion, Settleable
    <3>2. CASE WithinPolicy(Amount[r])
      BY <2>1, <3>1, <3>2, SettleLockedBooks DEF EvaluateAfterCompletion
    <3>3. CASE ~ WithinPolicy(Amount[r])
      <4>1. /\ cost' = cost /\ attempts' = attempts /\ Announce(r, "PENDING_APPROVAL")
            /\ status' = [status EXCEPT ![r] = "PENDING_APPROVAL"]
        BY <2>1, <3>3 DEF EvaluateAfterCompletion
      <4>2. \A s \in Repairs : Successes(s)' = Successes(s) /\ Told(s)' = Told(s)
        BY <1>1, <1>2, <4>1, AfterAnnouncement
      <4> QED
        BY <1>1, <1>4, <3>1, <4>1, <4>2
    <3> QED
      BY <3>2, <3>3
  <2>2. ASSUME NEW k \in Keys, NEW m \in {"MANUAL_CREDIT", "DIRECT"}, SettlePaymentRequest(r, m, k)
        PROVE  BooksInv'
    BY <1>1, <2>2, SettleLockedBooks DEF SettlePaymentRequest, Settleable
  <2>3. ASSUME NEW k \in Keys, RequestTenantDirectPayment(r, k)
        PROVE  BooksInv'
    <3>1. /\ cost' = cost /\ status' = status /\ announced' = announced
          /\ RecordAttempt(ClientKey(k), r, "DIRECT", "STARTED")
      BY <2>3 DEF RequestTenantDirectPayment
    <3>2. \A s \in Repairs : Successes(s)' = Successes(s) /\ Told(s)' = Told(s)
      BY <1>3, <3>1, AfterAttempt
    <3> QED
      BY <1>4, <3>1, <3>2
  <2>4. CASE ConfirmVendorDirectPayment(r)
    <3>1. PICK a \in attempts :
            /\ a.request = r /\ a.outcome = "STARTED"
            /\ attempts' = (attempts \ {a}) \union {[a EXCEPT !.outcome = "SUCCEEDED"]}
      BY <2>4 DEF ConfirmVendorDirectPayment
    <3> DEFINE b == [a EXCEPT !.outcome = "SUCCEEDED"]
    <3>2. b.request = r /\ b.outcome = "SUCCEEDED"
      BY <3>1 DEF VendorPaymentTypeOK
    <3>3. attempts' = (attempts \ {a}) \union {b}
      BY <3>1
    <3> HIDE DEF b
    <3>4. \A s : \A x : x \in Successes(s)' <=> x \in Successes(s) \/ (x = b /\ s = r)
      BY <3>1, <3>2, <3>3 DEF Successes
    <3>5. /\ cost' = cost /\ cost[r] = "NONE" /\ Payer[r] = "TENANT"
          /\ status' = [status EXCEPT ![r] = "DIRECT_PAID"] /\ status[r] = "PENDING_APPROVAL"
          /\ Announce(r, "TENANT_DIRECT_PAID")
      BY <2>4 DEF ConfirmVendorDirectPayment, TenantDirectPending
    <3>6. Successes(r)' = Successes(r) \union {b} /\ Told(r)' = Told(r) \union {"TENANT_DIRECT_PAID"}
      BY <1>1, <3>4, <3>5, AfterAnnouncement
    <3>7. status'[r] = "DIRECT_PAID"
      BY <3>5 DEF VendorPaymentTypeOK
    <3>8. BooksOK(r)'
      BY <1>1, <3>5, <3>6, <3>7, BooksPaid DEF BooksInv
    <3>9. \A s \in Repairs \ {r} : cost'[s] = cost[s] /\ status'[s] = status[s]
      BY <3>5 DEF VendorPaymentTypeOK
    <3>10. \A s \in Repairs \ {r} : Successes(s)' = Successes(s)
      BY <3>4
    <3>11. \A s \in Repairs \ {r} : Told(s)' = Told(s)
      BY <3>5, AfterAnnouncement
    <3> QED
      BY <3>8, <3>9, <3>10, <3>11, BooksOfOne
  <2> QED
    BY <1>6, <2>1, <2>2, <2>3, <2>4 DEF PaymentStep
<1>7. ASSUME NEW r \in Repairs, CorrectionStep(r)
      PROVE  BooksInv'
  <2>1. ASSUME NEW k, NEW command, NEW p, p \notin PaidCodes, Correct(r, command, k, p)
        PROVE  /\ status' = [status EXCEPT ![r] = p]
               /\ \A s \in Repairs : Successes(s)' = Successes(s) /\ Told(s)' = Told(s)
    BY <1>2, <2>1, AfterAnnouncement DEF Correct
  <2>2. ASSUME NEW k, NEW command, NEW p \in Voided, Correct(r, command, k, p),
               VoidAuthoritativeCost(r), status[r] \in Paid \ {"TOSS_PAID"}
        PROVE  BooksInv'
    <3>1. /\ status' = [status EXCEPT ![r] = p]
          /\ \A s \in Repairs : Successes(s)' = Successes(s) /\ Told(s)' = Told(s)
      BY <1>1, <2>1, <2>2
    <3>2. cost' = [cost EXCEPT ![r] = "VOID"]
      BY <2>2 DEF VoidAuthoritativeCost
    <3>3. status'[r] = p /\ cost'[r] = "VOID"
      BY <3>1, <3>2 DEF VendorPaymentTypeOK
    <3>4. BooksOK(r)'
      BY <2>2, <3>1, <3>3, BooksTakenBack DEF BooksInv
    <3>5. \A s \in Repairs \ {r} : cost'[s] = cost[s] /\ status'[s] = status[s]
      BY <3>1, <3>2 DEF VendorPaymentTypeOK
    <3> QED
      BY <3>1, <3>4, <3>5, BooksOfOne
  <2>3. ASSUME NEW k \in Keys, ReverseCreditPayment(r, k)
        PROVE  BooksInv'
    BY <1>1, <2>2, <2>3 DEF ReverseCreditPayment
  <2>4. ASSUME NEW k \in Keys, VoidDirectPayment(r, k)
        PROVE  BooksInv'
    BY <1>1, <2>2, <2>4 DEF VoidDirectPayment
  <2>5. ASSUME NEW k \in Keys, CancelPaymentRequest(r, k)
        PROVE  BooksInv'
    <3>1. Correct(r, "PAYMENT_CANCEL", k, "CANCELLED") /\ cost' = cost /\ status[r] \in Payable
      BY <2>5 DEF CancelPaymentRequest
    <3> QED
      BY <1>1, <1>4, <2>1, <3>1
  <2> QED
    BY <1>7, <2>3, <2>4, <2>5 DEF CorrectionStep
<1>8. ASSUME UNCHANGED <<cost, status, attempts, announced>>
      PROVE  BooksInv'
  BY <1>2, <1>3, <1>8, BooksUntouched DEF BooksInv
<1>9. ASSUME NEW limit \in Limits \union {0}, SaveAutoPayPolicy(limit)
      PROVE  BooksInv'
  BY <1>8, <1>9 DEF SaveAutoPayPolicy, requestVars
<1>10. CASE UNCHANGED vendorPaymentVars
  BY <1>8, <1>10 DEF vendorPaymentVars
<1> QED
  BY <1>5, <1>6, <1>7, <1>9, <1>10 DEF VendorPaymentNext

(* Before anything is paid the books are empty. *)
LEMMA InitBooks ==
  VendorPaymentInit => BooksInv
<1> SUFFICES ASSUME VendorPaymentInit, NEW r \in Repairs PROVE BooksOK(r)
  BY DEF BooksInv
<1>1. cost[r] = "NONE" /\ status[r] = "NONE" /\ attempts = {} /\ announced = {}
  BY DEF VendorPaymentInit
<1>2. Successes(r) = {} /\ Told(r) = {}
  BY <1>1 DEF Successes, Told
<1> QED
  BY <1>1, <1>2 DEF BooksOK, Standing, Paid, CreditPaid, Voided

(* The books as the runs state them, with cardinalities. *)
LEMMA BooksCount ==
  ASSUME BooksInv
  PROVE  BooksMatchPayment /\ PaymentAnnouncedOnce
<1>1. ASSUME NEW S PROVE (S = {} => Cardinality(S) = 0) /\ (IsOne(S) => Cardinality(S) = 1)
  BY FS_EmptySet, FS_Singleton DEF IsOne
<1>2. Standing \ {"TOSS_PAID"} = (Paid \ {"TOSS_PAID"}) \union {"REVERSED", "DIRECT_PAYMENT_VOIDED"}
  BY DEF Standing, Voided
<1>3. BooksMatchPayment
  BY <1>1, <1>2 DEF BooksInv, BooksOK, BooksMatchPayment, Voided
<1>4. PaymentAnnouncedOnce
  BY <1>1 DEF BooksInv, BooksOK, PaymentAnnouncedOnce, Standing, Voided, Told
<1> QED
  BY <1>3, <1>4

(***************************************************************************)
(* The money: what the account holds, and what has left for each repair.   *)
(***************************************************************************)
(* What the payment of r is to those who owe and are owed it: a step moves *)
(* one repair at most, along one of these ways. A payment and a            *)
(* cancellation need a request without an open card order, or one whose    *)
(* payer declared a transfer outside.                                      *)
Free(r) == NoActiveTossOrder(r) \/ TenantDirectPending(r)

Moves(r) ==
  \/ /\ balance' = balance /\ DueOf(r)' = DueOf(r)
     /\ status'[r] = status[r] \/ (status[r] \notin Paid /\ status'[r] \notin Paid)
  \/ /\ balance' = balance /\ DueOf(r) = "unapproved" /\ DueOf(r)' = "open"
     /\ status[r] \notin Paid /\ status'[r] \notin Paid
  \/ /\ balance' = balance - Amount[r] /\ DueOf(r) = "open" /\ Free(r)
     /\ status'[r] \in CreditPaid
  \/ /\ balance' = balance /\ DueOf(r) = "open" /\ Free(r) /\ status'[r] = "DIRECT_PAID"
  \/ /\ balance' = balance /\ DueOf(r) = "open" /\ Free(r) /\ status'[r] = "CANCELLED"
  \/ /\ balance' = balance + Amount[r]
     /\ status[r] \in CreditPaid /\ status'[r] = "REVERSED"
  \/ /\ balance' = balance
     /\ status[r] = "DIRECT_PAID" /\ status'[r] = "DIRECT_PAYMENT_VOIDED"

Stays(r) == status'[r] = status[r] /\ DueOf(r)' = DueOf(r)

(* What a status says of the obligation. *)
LEMMA DueByStatus ==
  ASSUME NEW r
  PROVE  /\ status[r] \in Paid => DueOf(r) = "settled"
         /\ status[r] \in Corrected => DueOf(r) = "closed"
         /\ status[r] \in Payable => DueOf(r) = "open"
         /\ status[r] \in {"NONE", "WAITING_COMPLETION"} =>
              DueOf(r) = IF Settleable(r) THEN "open" ELSE "unapproved"
         /\ status[r] \notin Paid /\ DueOf(r) = "settled" => FALSE
         /\ DueOf(r) = "open" => status[r] \notin Paid
  BY DEF DueOf, Paid, CreditPaid, Corrected, Payable

(* The same of the next state, in which the sets of statuses are the same. *)
LEMMA DueByStatusNext ==
  ASSUME NEW r
  PROVE  /\ status'[r] \in Paid => DueOf(r)' = "settled"
         /\ status'[r] \in Corrected => DueOf(r)' = "closed"
         /\ status'[r] \in Payable => DueOf(r)' = "open"
         /\ status'[r] \in {"NONE", "WAITING_COMPLETION"} =>
              DueOf(r)' = IF Settleable(r)' THEN "open" ELSE "unapproved"
  BY DEF DueOf, Paid, CreditPaid, Corrected, Payable

(* A repair a step does not touch stays what it was. *)
LEMMA StaysIfUntouched ==
  ASSUME NEW r, status'[r] = status[r], report'[r] = report[r], decision'[r] = decision[r],
         linked'[r] = linked[r]
  PROVE  Stays(r)
  BY DEF Stays, DueOf, Settleable, Paid, CreditPaid, Corrected, Payable

(* A settlement of a request that is open. *)
LEMMA SettleLockedMoves ==
  ASSUME VendorPaymentTypeOK, NEW r \in Repairs,
         NEW mode \in {"AUTO_CREDIT", "MANUAL_CREDIT", "DIRECT"}, NEW key,
         DueOf(r) = "open", NoActiveTossOrder(r), SettleLocked(r, mode, key)
  PROVE  Moves(r) /\ \A s \in Repairs \ {r} : Stays(s)
<1>1. /\ UNCHANGED <<report, decision, linked>>
      /\ \E p : status' = [status EXCEPT ![r] = p]
  BY DEF SettleLocked, workVars, MarkSettled, MarkInsufficient
<1>2. \A s \in Repairs \ {r} : status'[s] = status[s]
  BY <1>1 DEF VendorPaymentTypeOK
<1>3. \A s \in Repairs \ {r} : Stays(s)
  BY <1>1, <1>2, StaysIfUntouched
<1>4. Free(r)
  BY DEF Free
<1>5. CASE mode # "DIRECT" /\ SettleFromAccount(r, mode, key) /\ MarkSettled(r, mode, key)
  <2>1. status'[r] \in CreditPaid
    BY <1>5, PaidStatusType DEF MarkSettled, VendorPaymentTypeOK
  <2>2. balance' = balance - Amount[r]
    BY <1>5 DEF SettleFromAccount, Debit
  <2> QED
    BY <1>3, <1>4, <2>1, <2>2 DEF Moves
<1>6. CASE mode = "DIRECT" /\ SettleOutside(r) /\ MarkSettled(r, mode, key)
  <2>1. status'[r] = "DIRECT_PAID"
    BY <1>6, PaidStatusType DEF MarkSettled, VendorPaymentTypeOK
  <2>2. balance' = balance
    BY <1>6 DEF SettleOutside
  <2> QED
    BY <1>3, <1>4, <2>1, <2>2 DEF Moves
<1>7. CASE mode # "DIRECT" /\ MarkInsufficient(r, mode, key)
  <2>1. status'[r] = "INSUFFICIENT_CREDIT" /\ balance' = balance
    BY <1>7 DEF MarkInsufficient, VendorPaymentTypeOK
  <2>2. DueOf(r)' = "open" /\ status[r] \notin Paid /\ status'[r] \notin Paid
    BY <2>1, DueByStatus, DueByStatusNext DEF Payable, Paid, CreditPaid
  <2> QED
    BY <1>3, <2>1, <2>2 DEF Moves
<1> QED
  BY <1>5, <1>6, <1>7 DEF SettleLocked

(* Every step moves one repair at most, and the account with it. *)
LEMMA NextMoves ==
  ASSUME VendorPaymentTypeOK, [VendorPaymentNext]_vendorPaymentVars
  PROVE  \/ \E r \in Repairs : Moves(r) /\ \A s \in Repairs \ {r} : Stays(s)
         \/ balance' = balance /\ \A s \in Repairs : Stays(s)
<1>1. /\ \A p \in Payable \union {"NONE", "WAITING_COMPLETION"} : p \notin Paid
      /\ "PENDING_APPROVAL" \in Payable
  BY DEF Payable, Paid, CreditPaid
<1>2. ASSUME NEW r \in Repairs, UNCHANGED <<report, decision, linked>>,
             NEW p, status' = [status EXCEPT ![r] = p]
      PROVE  status'[r] = p /\ \A s \in Repairs \ {r} : Stays(s)
  <2>1. status'[r] = p /\ \A s \in Repairs \ {r} : status'[s] = status[s]
    BY <1>2 DEF VendorPaymentTypeOK
  <2> QED
    BY <1>2, <2>1, StaysIfUntouched
<1>3. ASSUME NEW r \in Repairs, WorkStep(r)
      PROVE  Moves(r) /\ \A s \in Repairs \ {r} : Stays(s)
  <2>1. CASE SubmitCompletion(r)
    <3>1. /\ report' = [report EXCEPT ![r] = report[r] + 1] /\ balance' = balance
          /\ decision' = [decision EXCEPT ![r] = "NONE"]
          /\ status' = status \/ status' = [status EXCEPT ![r] = "WAITING_COMPLETION"]
          /\ linked' = linked \/ linked' = [linked EXCEPT ![r] = report[r] + 1]
          /\ status[r] \in {"NONE", "WAITING_COMPLETION"}
          /\ report[r] > 0 => decision[r] = "REJECTED"
      BY <2>1 DEF SubmitCompletion
    <3>2. /\ status'[r] \in {"NONE", "WAITING_COMPLETION"} /\ decision'[r] = "NONE"
      BY <3>1 DEF VendorPaymentTypeOK
    <3>3. ~ Settleable(r) /\ ~ Settleable(r)'
      BY <3>1, <3>2 DEF Settleable
    <3>4. DueOf(r)' = DueOf(r)
      BY <3>1, <3>2, <3>3, DueByStatus, DueByStatusNext
    <3>5. ASSUME NEW s \in Repairs \ {r}
          PROVE  /\ report'[s] = report[s] /\ decision'[s] = decision[s]
                 /\ status'[s] = status[s] /\ linked'[s] = linked[s]
      BY <3>1 DEF VendorPaymentTypeOK
    <3> QED
      BY <1>1, <3>1, <3>2, <3>4, <3>5, StaysIfUntouched DEF Moves
  <2>2. ASSUME NEW d \in {"APPROVED", "REJECTED"},
               DecideCompletion(r, d) \/ DecideTenantCompletion(r, d)
        PROVE  Moves(r) /\ \A s \in Repairs \ {r} : Stays(s)
    <3>1. /\ report' = report /\ balance' = balance
          /\ decision' = [decision EXCEPT ![r] = d] /\ decision[r] = "NONE"
          /\ status[r] \in {"NONE", "WAITING_COMPLETION"}
      BY <2>2 DEF DecideCompletion, DecideTenantCompletion, Decide
    <3>2. \/ status' = status /\ linked' = linked
          \/ /\ status' = [status EXCEPT ![r] = "PENDING_APPROVAL"]
             /\ linked' = [linked EXCEPT ![r] = report[r]]
      BY <2>2 DEF DecideCompletion, DecideTenantCompletion
    <3>3. ASSUME NEW s \in Repairs \ {r}
          PROVE  /\ report'[s] = report[s] /\ decision'[s] = decision[s]
                 /\ status'[s] = status[s] /\ linked'[s] = linked[s]
      BY <3>1, <3>2 DEF VendorPaymentTypeOK
    <3>4. DueOf(r) = "unapproved"
      BY <3>1, DueByStatus DEF Settleable
    <3>5. status'[r] \in Payable \/ status'[r] = status[r]
      BY <1>1, <3>2 DEF VendorPaymentTypeOK
    <3>6. DueOf(r)' \in {"unapproved", "open"}
      BY <3>1, <3>5, DueByStatusNext
    <3> QED
      BY <1>1, <3>1, <3>3, <3>4, <3>5, <3>6, StaysIfUntouched DEF Moves
  <2> QED
    BY <1>3, <2>1, <2>2 DEF WorkStep
<1>4. ASSUME NEW r \in Repairs, PaymentStep(r)
      PROVE  Moves(r) /\ \A s \in Repairs \ {r} : Stays(s)
  <2>1. CASE EvaluateAfterCompletion(r)
    <3>1. DueOf(r) = "open" /\ status[r] = "WAITING_COMPLETION"
      BY <2>1, DueByStatus DEF EvaluateAfterCompletion
    <3>2. CASE WithinPolicy(Amount[r])
      BY <2>1, <3>1, <3>2, SettleLockedMoves DEF EvaluateAfterCompletion
    <3>3. CASE ~ WithinPolicy(Amount[r])
      <4>1. /\ UNCHANGED <<report, decision, linked, balance>>
            /\ status' = [status EXCEPT ![r] = "PENDING_APPROVAL"]
        BY <2>1, <3>3 DEF EvaluateAfterCompletion, workVars
      <4>2. status'[r] = "PENDING_APPROVAL" /\ \A s \in Repairs \ {r} : Stays(s)
        BY <1>2, <4>1
      <4>3. DueOf(r)' = "open"
        BY <1>1, <4>2, DueByStatusNext
      <4> QED
        BY <1>1, <3>1, <4>1, <4>2, <4>3 DEF Moves
    <3> QED
      BY <3>2, <3>3
  <2>2. ASSUME NEW k \in Keys, NEW m \in {"MANUAL_CREDIT", "DIRECT"}, SettlePaymentRequest(r, m, k)
        PROVE  Moves(r) /\ \A s \in Repairs \ {r} : Stays(s)
    BY <2>2, DueByStatus, SettleLockedMoves DEF SettlePaymentRequest
  <2>3. ASSUME NEW k \in Keys, RequestTenantDirectPayment(r, k)
        PROVE  Moves(r) /\ \A s \in Repairs \ {r} : Stays(s)
    <3>1. UNCHANGED <<report, decision, linked, status, balance>>
      BY <2>3 DEF RequestTenantDirectPayment, workVars
    <3> QED
      BY <3>1, StaysIfUntouched DEF Moves, Stays
  <2>4. CASE ConfirmVendorDirectPayment(r)
    <3>1. /\ UNCHANGED <<report, decision, linked, balance>>
          /\ status' = [status EXCEPT ![r] = "DIRECT_PAID"]
          /\ TenantDirectPending(r) /\ status[r] = "PENDING_APPROVAL"
      BY <2>4 DEF ConfirmVendorDirectPayment, TenantDirectPending, workVars
    <3>2. DueOf(r) = "open" /\ Free(r)
      BY <1>1, <3>1, DueByStatus DEF Free
    <3> QED
      BY <1>2, <3>1, <3>2 DEF Moves
  <2> QED
    BY <1>4, <2>1, <2>2, <2>3, <2>4 DEF PaymentStep
<1>5. ASSUME NEW r \in Repairs, CorrectionStep(r)
      PROVE  Moves(r) /\ \A s \in Repairs \ {r} : Stays(s)
  <2>1. ASSUME NEW k, NEW command, NEW p, Correct(r, command, k, p)
        PROVE  status'[r] = p /\ \A s \in Repairs \ {r} : Stays(s)
    BY <1>2, <2>1 DEF Correct, workVars
  <2>2. ASSUME NEW k \in Keys, ReverseCreditPayment(r, k)
        PROVE  Moves(r) /\ \A s \in Repairs \ {r} : Stays(s)
    <3>1. balance' = balance + Amount[r]
      BY <2>2, ReversalRow DEF Credit
    <3> QED
      BY <2>1, <2>2, <3>1 DEF ReverseCreditPayment, Moves
  <2>3. ASSUME NEW k \in Keys, VoidDirectPayment(r, k)
        PROVE  Moves(r) /\ \A s \in Repairs \ {r} : Stays(s)
    BY <2>1, <2>3 DEF VoidDirectPayment, ledgerVars, Moves
  <2>4. ASSUME NEW k \in Keys, CancelPaymentRequest(r, k)
        PROVE  Moves(r) /\ \A s \in Repairs \ {r} : Stays(s)
    <3>1. DueOf(r) = "open" /\ Free(r) /\ balance' = balance
      BY <2>4, DueByStatus DEF CancelPaymentRequest, Free
    <3> QED
      BY <2>1, <2>4, <3>1 DEF CancelPaymentRequest, Moves
  <2> QED
    BY <1>5, <2>2, <2>3, <2>4 DEF CorrectionStep
<1>6. ASSUME UNCHANGED <<report, decision, linked, status, balance>>
      PROVE  balance' = balance /\ \A s \in Repairs : Stays(s)
  BY <1>6, StaysIfUntouched
<1>7. ASSUME NEW limit \in Limits \union {0}, SaveAutoPayPolicy(limit)
      PROVE  balance' = balance /\ \A s \in Repairs : Stays(s)
  BY <1>6, <1>7 DEF SaveAutoPayPolicy, requestVars, workVars
<1>8. CASE UNCHANGED vendorPaymentVars
  BY <1>6, <1>8 DEF vendorPaymentVars
<1> QED
  BY <1>3, <1>4, <1>5, <1>7, <1>8 DEF VendorPaymentNext

(* The account, whose balance is a sum over finitely many payments. *)
BalanceInv == IsFiniteSet(PaidByCredit) /\ BalanceMatchesPayments

LEMMA NextBalance ==
  ASSUME VendorPaymentTypeOK, BalanceInv,
         \/ \E r \in Repairs : Moves(r) /\ \A s \in Repairs \ {r} : Stays(s)
         \/ balance' = balance /\ \A s \in Repairs : Stays(s)
  PROVE  BalanceInv'
<1>1. /\ Amount \in [Repairs -> Int] /\ PaidByCredit \in SUBSET Repairs
      /\ OpeningBalance \in Int /\ balance \in Int
  BY AmountAssumption, OpeningBalanceAssumption, MaxBalanceAssumption
     DEF PaidByCredit, VendorPaymentTypeOK
<1>2. CreditPaid' = CreditPaid /\ CreditPaid \subseteq Paid
  BY DEF CreditPaid, Paid
<1>3. ASSUME balance' = balance, PaidByCredit' = PaidByCredit
      PROVE  BalanceInv'
  BY <1>3 DEF BalanceInv, BalanceMatchesPayments
<1>4. CASE balance' = balance /\ \A s \in Repairs : Stays(s)
  <2>1. PaidByCredit' = PaidByCredit
    BY <1>2, <1>4 DEF PaidByCredit, Stays
  <2> QED
    BY <1>3, <1>4, <2>1
<1>5. ASSUME NEW r \in Repairs, Moves(r), \A s \in Repairs \ {r} : Stays(s)
      PROVE  BalanceInv'
  <2>1. \A s \in Repairs \ {r} : s \in PaidByCredit' <=> s \in PaidByCredit
    BY <1>2, <1>5 DEF PaidByCredit, Stays
  <2>2. CASE balance' = balance /\ (status'[r] \in CreditPaid <=> status[r] \in CreditPaid)
    <3>1. PaidByCredit' = PaidByCredit
      BY <1>2, <2>1, <2>2 DEF PaidByCredit
    <3> QED
      BY <1>3, <2>2, <3>1
  <2>3. CASE /\ balance' = balance - Amount[r]
             /\ status[r] \notin CreditPaid /\ status'[r] \in CreditPaid
    <3>1. PaidByCredit' = PaidByCredit \union {r} /\ r \notin PaidByCredit
      BY <1>2, <2>1, <2>3 DEF PaidByCredit
    <3>2. /\ Total(Amount, PaidByCredit \union {r}) = Amount[r] + Total(Amount, PaidByCredit)
          /\ Total(Amount, PaidByCredit) \in Int
      BY <1>1, <3>1, TotalWith DEF BalanceInv
    <3>3. IsFiniteSet(PaidByCredit \union {r})
      BY FS_AddElement DEF BalanceInv
    <3>4. balance' = OpeningBalance - Total(Amount, PaidByCredit \union {r})
      BY <1>1, <2>3, <3>2 DEF BalanceInv, BalanceMatchesPayments
    <3> QED
      BY <3>1, <3>3, <3>4 DEF BalanceInv, BalanceMatchesPayments
  <2>4. CASE /\ balance' = balance + Amount[r]
             /\ status[r] \in CreditPaid /\ status'[r] \notin CreditPaid
    <3>1. PaidByCredit' = PaidByCredit \ {r} /\ r \in PaidByCredit
      BY <1>2, <2>1, <2>4 DEF PaidByCredit
    <3>2. /\ Total(Amount, PaidByCredit) = Amount[r] + Total(Amount, PaidByCredit \ {r})
          /\ Total(Amount, PaidByCredit \ {r}) \in Int
      BY <1>1, <3>1, TotalWithout DEF BalanceInv
    <3>3. IsFiniteSet(PaidByCredit \ {r})
      BY FS_RemoveElement DEF BalanceInv
    <3>4. balance' = OpeningBalance - Total(Amount, PaidByCredit \ {r})
      BY <1>1, <2>4, <3>2 DEF BalanceInv, BalanceMatchesPayments
    <3> QED
      BY <3>1, <3>3, <3>4 DEF BalanceInv, BalanceMatchesPayments
  <2>5. /\ DueOf(r) = "open" => status[r] \notin CreditPaid
        /\ "DIRECT_PAID" \notin CreditPaid /\ "CANCELLED" \notin CreditPaid
        /\ "REVERSED" \notin CreditPaid /\ "DIRECT_PAYMENT_VOIDED" \notin CreditPaid
    BY <1>2, DueByStatus DEF CreditPaid
  <2> QED
    BY <1>2, <1>5, <2>2, <2>3, <2>4, <2>5 DEF Moves
<1> QED
  BY <1>4, <1>5

(* At the start nothing is paid. *)
LEMMA InitBalance ==
  VendorPaymentInit => BalanceInv
<1> SUFFICES ASSUME VendorPaymentInit PROVE BalanceInv
  OBVIOUS
<1>1. PaidByCredit = {}
  BY DEF VendorPaymentInit, PaidByCredit, CreditPaid
<1>2. Amount \in [Repairs -> Int] /\ OpeningBalance \in Int
  BY AmountAssumption, OpeningBalanceAssumption, MaxBalanceAssumption
<1>3. Total(Amount, {}) = 0
  BY <1>2, TotalOfNone
<1>4. balance = OpeningBalance
  BY DEF VendorPaymentInit, LedgerInit
<1> QED
  BY <1>1, <1>2, <1>3, <1>4, FS_EmptySet DEF BalanceInv, BalanceMatchesPayments

(***************************************************************************)
(* The obligation.                                                         *)
(***************************************************************************)
(* StatusMatchesLedger names the rows of a payment but not their amounts.  *)
DebitsInFull == \A r \in Repairs : \A i \in DebitRows(r) : ledger[i].amount = -Amount[r]

(* An appended row keeps it if it is no debit of a repair, or one in full. *)
LEMMA FullAfterAppend ==
  ASSUME ledger \in Seq(LedgerRows), DebitsInFull, NEW row \in LedgerRows,
         ledger' = Append(ledger, row),
         \A s \in Repairs :
           row.type \in Debits /\ row.ref = Ref(s) => row.amount = -Amount[s]
  PROVE  DebitsInFull'
<1>1. PICK n \in Nat : n = Len(ledger)
  BY AppendedRow
<1>2. /\ DOMAIN ledger = 1..n /\ ledger'[n + 1] = row /\ \A i \in 1..n : ledger'[i] = ledger[i]
  BY <1>1, AppendedRow
<1>3. ASSUME NEW s \in Repairs, NEW i \in DebitRows(s)'
      PROVE  ledger'[i].amount = -Amount[s]
  <2>1. CASE i \in DebitRows(s)
    BY <1>2, <2>1 DEF DebitsInFull, DebitRows
  <2>2. CASE i \notin DebitRows(s)
    <3>1. row.type \in Debits /\ row.ref = Ref(s) /\ i = n + 1
      BY <1>1, <1>3, <2>2, RowsAfterAppend
    <3> QED
      BY <1>2, <3>1
  <2> QED
    BY <2>1, <2>2
<1> QED
  BY <1>3 DEF DebitsInFull

(* A step that posts nothing keeps it. *)
LEMMA FullIfNothingPosted ==
  ASSUME DebitsInFull, ledger' = ledger
  PROVE  DebitsInFull'
  BY DEF DebitsInFull, DebitRows, Debits, Ref

(* Every debit of a repair's payment is for the approved amount. *)
LEMMA NextFull ==
  ASSUME VendorPaymentTypeOK, DebitsInFull, [VendorPaymentNext]_vendorPaymentVars
  PROVE  DebitsInFull'
<1>1. ASSUME NEW r \in Repairs, NEW mode, NEW key \in AttemptKeyValues, SettleLocked(r, mode, key)
      PROVE  DebitsInFull'
  <2>1. CASE SettleFromAccount(r, mode, key)
    <3> DEFINE type == IF mode = "AUTO_CREDIT" THEN "AUTO_DEBIT" ELSE "MANUAL_DEBIT"
               row == Row(type, -Amount[r], balance - Amount[r], Ref(r), <<"payment", key>>, 0)
    <3>1. ledger' = Append(ledger, row) /\ row.ref = Ref(r) /\ row.amount = -Amount[r]
      BY <2>1 DEF SettleFromAccount, Debit, Row
    <3>2. row \in LedgerRows
      <4>1. /\ Ref(r) \in {"VENDOR_PAYMENT_REQUEST"} \X Repairs
            /\ <<"payment", key>> \in {"payment", "credit-reversal"} \X AttemptKeyValues
        BY DEF Ref
      <4> QED
        BY <4>1, AmountAssumption, MaxBalanceAssumption
           DEF Row, LedgerRows, Debits, VendorPaymentTypeOK
    <3> HIDE DEF row
    <3> QED
      BY <3>1, <3>2, AttemptKeyForms, FullAfterAppend DEF VendorPaymentTypeOK
  <2>2. CASE ledger' = ledger
    BY <2>2, FullIfNothingPosted
  <2> QED
    BY <1>1, <2>1, <2>2 DEF SettleLocked, SettleOutside, MarkInsufficient
<1>2. ASSUME NEW r \in Repairs, PaymentStep(r)
      PROVE  DebitsInFull'
  <2>1. \A k \in Keys : ClientKey(k) \in AttemptKeyValues /\ AutoKey(r) \in AttemptKeyValues
    BY DEF ClientKey, AutoKey, AttemptKeyValues
  <2>2. CASE EvaluateAfterCompletion(r)
    <3>1. AutoKey(r) \in AttemptKeyValues
      BY DEF AutoKey, AttemptKeyValues
    <3> QED
      BY <1>1, <2>2, <3>1, FullIfNothingPosted DEF EvaluateAfterCompletion
  <2>3. ASSUME NEW k \in Keys, NEW m \in {"MANUAL_CREDIT", "DIRECT"}, SettlePaymentRequest(r, m, k)
        PROVE  DebitsInFull'
    BY <1>1, <2>1, <2>3 DEF SettlePaymentRequest
  <2>4. ASSUME NEW k \in Keys, RequestTenantDirectPayment(r, k)
        PROVE  DebitsInFull'
    BY <2>4, FullIfNothingPosted DEF RequestTenantDirectPayment
  <2>5. CASE ConfirmVendorDirectPayment(r)
    BY <2>5, FullIfNothingPosted DEF ConfirmVendorDirectPayment
  <2> QED
    BY <1>2, <2>2, <2>3, <2>4, <2>5 DEF PaymentStep
<1>3. ASSUME NEW r \in Repairs, CorrectionStep(r)
      PROVE  DebitsInFull'
  <2>1. ASSUME NEW k \in Keys, ReverseCreditPayment(r, k)
        PROVE  DebitsInFull'
    <3> DEFINE row == Row("REVERSAL", Amount[r], balance + Amount[r], Ref(r),
                          <<"credit-reversal", ClientKey(k)>>, entry[r])
    <3>1. row \in LedgerRows /\ ledger' = Append(ledger, row) /\ row.type = "REVERSAL"
      BY <2>1, ReversalRow DEF Credit, Row
    <3> HIDE DEF row
    <3> QED
      BY <3>1, FullAfterAppend DEF VendorPaymentTypeOK, Debits
  <2>2. ASSUME NEW k \in Keys, VoidDirectPayment(r, k) \/ CancelPaymentRequest(r, k)
        PROVE  DebitsInFull'
    BY <2>2, FullIfNothingPosted DEF VoidDirectPayment, CancelPaymentRequest, ledgerVars
  <2> QED
    BY <1>3, <2>1, <2>2 DEF CorrectionStep
<1>4. ASSUME NEW r \in Repairs, WorkStep(r)
      PROVE  DebitsInFull'
  BY <1>4, FullIfNothingPosted
     DEF WorkStep, SubmitCompletion, DecideCompletion, DecideTenantCompletion, Decide
<1>5. ASSUME NEW limit \in Limits \union {0}, SaveAutoPayPolicy(limit)
      PROVE  DebitsInFull'
  BY <1>5, FullIfNothingPosted DEF SaveAutoPayPolicy
<1>6. CASE UNCHANGED vendorPaymentVars
  BY <1>6, FullIfNothingPosted DEF vendorPaymentVars
<1> QED
  BY <1>2, <1>3, <1>4, <1>5, <1>6 DEF VendorPaymentNext

(* The ledger of a new account holds no debit. *)
LEMMA InitFull ==
  VendorPaymentInit => DebitsInFull
<1> SUFFICES ASSUME VendorPaymentInit PROVE DebitsInFull
  OBVIOUS
<1>1. \A i \in DOMAIN ledger : ledger[i].type = "TOPUP"
  BY DEF VendorPaymentInit, LedgerInit, Row
<1> QED
  BY <1>1 DEF DebitsInFull, DebitRows, Debits

(* What has left for a repair is its amount while it stands paid from the  *)
(* account or by transfer, and nothing otherwise: a reversal's row takes   *)
(* back exactly what the debit's row took.                                 *)
Gone(r) == IF status[r] \in CreditPaid \union {"DIRECT_PAID"} THEN Amount[r] ELSE 0
Outflow(r) == IF status[r] = "DIRECT_PAID" THEN Amount[r] ELSE CreditOutflow(r)

LEMMA OutflowByStatus ==
  VendorPaymentTypeOK /\ LedgerInv /\ DebitsInFull => \A r \in Repairs : Outflow(r) = Gone(r)
<1> SUFFICES ASSUME VendorPaymentTypeOK, LedgerInv, DebitsInFull, NEW r \in Repairs
             PROVE  Outflow(r) = Gone(r)
  OBVIOUS
<1> DEFINE f == [i \in DOMAIN ledger |-> -ledger[i].amount]
           D == DOMAIN ledger
<1>1. D = 1..Len(ledger) /\ ledger \in [D -> LedgerRows] /\ Len(ledger) \in Nat
  BY DEF VendorPaymentTypeOK
<1>2. f \in [D -> Int]
  BY <1>1 DEF LedgerRows
<1>3. Amount[r] \in Int
  BY AmountAssumption
<1>4. \A i \in DebitRows(r) : i \in D /\ ledger[i].amount = -Amount[r] /\ ledger[i].type \in Debits
  BY DEF DebitsInFull, DebitRows
<1>5. \A i \in ReversalRows(r) : i \in D /\ ledger[i].type = "REVERSAL"
  BY DEF ReversalRows
<1>6. CreditOutflow(r) = Total(f, DebitRows(r) \union ReversalRows(r))
  BY DEF CreditOutflow
<1>7. \A i \in D : f[i] = -ledger[i].amount
  OBVIOUS
<1> HIDE DEF f, D
<1>8. CASE status[r] \in CreditPaid
  <2>1. DebitRows(r) \union ReversalRows(r) = {entry[r]} /\ entry[r] \in DebitRows(r)
    BY <1>8 DEF LedgerInv, StatusMatchesLedger
  <2>2. CreditOutflow(r) = Amount[r]
    BY <1>2, <1>3, <1>4, <1>6, <1>7, <2>1, TotalOfOne
  <2> QED
    BY <1>8, <2>2 DEF Outflow, Gone, CreditPaid
<1>9. CASE status[r] = "REVERSED"
  <2>1. DebitRows(r) = {entry[r]}
    BY <1>9 DEF LedgerInv, StatusMatchesLedger
  <2>2. PICK i \in D : ReversalRows(r) = {i} /\ ledger[i].reverses = entry[r]
    BY <1>9 DEF LedgerInv, StatusMatchesLedger, D
  <2>3. ledger[i].type = "REVERSAL" /\ ledger[entry[r]].type \in Debits /\ entry[r] \in D
    BY <1>4, <1>5, <2>1, <2>2
  <2>4. ledger[entry[r]].amount = -ledger[i].amount
    BY <1>1, <2>2, <2>3
       DEF LedgerInv, Promise!WellFormed, Promise!RowOK, Promise!ReversesOpenDebit
  <2>5. ledger[i].amount \in Int /\ i # entry[r]
    BY <1>1, <2>3 DEF LedgerRows, Debits
  <2>6. Total(f, {entry[r]} \union {i}) = f[entry[r]] + f[i]
    BY <1>2, <2>3, <2>5, TotalOfTwo
  <2>7. f[entry[r]] = ledger[i].amount /\ f[i] = -ledger[i].amount
    BY <1>7, <2>3, <2>4, <2>5
  <2>8. CreditOutflow(r) = f[entry[r]] + f[i]
    BY <1>6, <2>1, <2>2, <2>6
  <2>9. CreditOutflow(r) = 0
    BY <2>5, <2>7, <2>8
  <2> QED
    BY <1>9, <2>9 DEF Outflow, Gone, CreditPaid
<1>10. CASE status[r] \notin CreditPaid \union {"REVERSED"}
  <2>1. DebitRows(r) \union ReversalRows(r) = {}
    BY <1>10 DEF LedgerInv, StatusMatchesLedger
  <2>2. CreditOutflow(r) = 0
    BY <1>2, <1>6, <2>1, TotalOfNone
  <2> QED
    BY <1>10, <2>2 DEF Outflow, Gone
<1> QED
  BY <1>8, <1>9, <1>10

(* A repair that stays what it was keeps what has left for it, and one     *)
(* that moves does so as the obligation allows.                            *)
LEMMA MovesObligation ==
  ASSUME NEW r \in Repairs, Moves(r) \/ Stays(r)
  PROVE  \/ DueOf(r)' = DueOf(r) /\ Gone(r)' = Gone(r)
         \/ DueOf(r) = "unapproved" /\ DueOf(r)' = "open" /\ Gone(r)' = 0
         \/ DueOf(r) = "open" /\ DueOf(r)' = "settled" /\ Gone(r)' = Amount[r]
         \/ DueOf(r) = "open" /\ DueOf(r)' = "closed" /\ Gone(r)' = 0
         \/ DueOf(r) = "settled" /\ DueOf(r)' = "closed" /\ Gone(r)' = 0
<1>1. /\ CreditPaid \union {"DIRECT_PAID"} \subseteq Paid /\ "REVERSED" \in Corrected
      /\ "DIRECT_PAYMENT_VOIDED" \in Corrected /\ "CANCELLED" \in Corrected
      /\ \A p \in Corrected : p \notin Paid /\ p \notin CreditPaid \union {"DIRECT_PAID"}
  BY DEF Paid, CreditPaid, Corrected
<1>2. Gone(r)' = IF status'[r] \in CreditPaid \union {"DIRECT_PAID"} THEN Amount[r] ELSE 0
  BY DEF Gone, CreditPaid
<1> QED
  BY <1>1, <1>2, DueByStatus, DueByStatusNext DEF Moves, Stays, Gone

(* A step of the payment requests is one of the obligation, or none. *)
LEMMA NextObligation ==
  ASSUME \A r \in Repairs : Outflow(r) = Gone(r),
         (\A r \in Repairs : Outflow(r) = Gone(r))',
         \/ \E r \in Repairs : Moves(r) /\ \A s \in Repairs \ {r} : Stays(s)
         \/ balance' = balance /\ \A s \in Repairs : Stays(s)
  PROVE  [Obligation!Next]_(Obligation!obligationVars)
<1> DEFINE Due == [r \in Repairs |-> DueOf(r)]
           Out == [r \in Repairs |-> Outflow(r)]
<1>1. /\ Out = [r \in Repairs |-> Gone(r)] /\ Out' = [r \in Repairs |-> Gone(r)']
      /\ Due = [r \in Repairs |-> DueOf(r)] /\ Due' = [r \in Repairs |-> DueOf(r)']
  OBVIOUS
<1>2. [Obligation!Next]_(Obligation!obligationVars) <=>
        \/ \E r \in Repairs :
             \E d, o :
               /\ Due' = [Due EXCEPT ![r] = d] /\ Out' = [Out EXCEPT ![r] = o]
               /\ \/ Due[r] = "unapproved" /\ d = "open" /\ o = 0
                  \/ Due[r] = "open" /\ d = "settled" /\ o = Amount[r]
                  \/ Due[r] = "open" /\ d = "closed" /\ o = 0
                  \/ Due[r] = "settled" /\ d = "closed" /\ o = 0
        \/ Due' = Due /\ Out' = Out
  BY DEF Obligation!Next, Obligation!obligationVars, Obligation!Approve, Obligation!Settle,
         Obligation!Cancel, Obligation!TakeBack, Obligation!Become, Outflow
<1> HIDE DEF Due, Out
<1>3. ASSUME NEW r \in Repairs, Moves(r), \A s \in Repairs \ {r} : Stays(s)
      PROVE  \/ Due' = Due /\ Out' = Out
             \/ \E d, o :
                  /\ Due' = [Due EXCEPT ![r] = d] /\ Out' = [Out EXCEPT ![r] = o]
                  /\ \/ Due[r] = "unapproved" /\ d = "open" /\ o = 0
                     \/ Due[r] = "open" /\ d = "settled" /\ o = Amount[r]
                     \/ Due[r] = "open" /\ d = "closed" /\ o = 0
                     \/ Due[r] = "settled" /\ d = "closed" /\ o = 0
  <2>1. \A s \in Repairs \ {r} : DueOf(s)' = DueOf(s) /\ Gone(s)' = Gone(s)
    BY <1>3 DEF Stays, Gone, CreditPaid
  <2>2. /\ DueOf(r)' = DueOf(r) /\ Gone(r)' = Gone(r) => Due' = Due /\ Out' = Out
        /\ Due' = [Due EXCEPT ![r] = DueOf(r)'] /\ Out' = [Out EXCEPT ![r] = Gone(r)']
        /\ Due[r] = DueOf(r)
    BY <1>1, <2>1
  <2> QED
    BY <1>3, <2>2, MovesObligation
<1>4. CASE balance' = balance /\ \A s \in Repairs : Stays(s)
  <2>1. \A s \in Repairs : DueOf(s)' = DueOf(s) /\ Gone(s)' = Gone(s)
    BY <1>4 DEF Stays, Gone, CreditPaid
  <2>2. Due' = Due /\ Out' = Out
    BY <1>1, <2>1
  <2> QED
    BY <1>2, <2>2
<1> QED
  BY <1>2, <1>3, <1>4

(* At the start nothing is approved and nothing has left. *)
LEMMA InitObligation ==
  VendorPaymentInit /\ (\A r \in Repairs : Outflow(r) = Gone(r)) => Obligation!Init
<1> SUFFICES ASSUME VendorPaymentInit, \A r \in Repairs : Outflow(r) = Gone(r)
             PROVE  Obligation!Init
  OBVIOUS
<1>1. ASSUME NEW r \in Repairs PROVE DueOf(r) = "unapproved" /\ Outflow(r) = 0
  <2>1. status[r] = "NONE" /\ report[r] = 0
    BY DEF VendorPaymentInit
  <2>2. ~ Settleable(r)
    BY <2>1 DEF Settleable
  <2>3. Gone(r) = 0
    BY <2>1 DEF Gone, CreditPaid
  <2> QED
    BY <2>1, <2>2, <2>3, DueByStatus
<1> QED
  BY <1>1 DEF Obligation!Init, Outflow

(***************************************************************************)
(* The theorems.                                                           *)
(***************************************************************************)
MoneyInv == BooksInv /\ BalanceInv /\ DebitsInFull

VendorPaymentInv == VendorPaymentTypeOK /\ LedgerInv /\ WorkInv /\ MoneyInv

(* The initial state satisfies the inductive invariant. *)
LEMMA InitInv ==
  VendorPaymentInit => VendorPaymentInv
<1> SUFFICES ASSUME VendorPaymentInit PROVE VendorPaymentInv
  OBVIOUS
<1>1. WorkInv
  BY DEF VendorPaymentInit, WorkInv, ApprovalCompletes, OnlyApprovedWorkIsPaid, Payable, Final,
         Paid, CreditPaid, Corrected
<1> QED
  BY <1>1, InitType, InitLedger, InitBooks, InitBalance, InitFull DEF VendorPaymentInv, MoneyInv

(* Every step preserves the inductive invariant. *)
LEMMA NextInv ==
  VendorPaymentInv /\ [VendorPaymentNext]_vendorPaymentVars => VendorPaymentInv'
  BY NextType, NextLedger, NextWork, NextBooks, NextMoves, NextBalance, NextFull
     DEF VendorPaymentInv, MoneyInv

(* The inductive invariant holds of every behaviour of the payment         *)
(* requests: types, the ledger with the keys that protect it, the approval *)
(* under every payment, the books and the balance.                         *)
THEOREM InvHolds ==
  VendorPaymentSpec => []VendorPaymentInv
  BY InitInv, NextInv, PTL DEF VendorPaymentSpec

(* Every row of the payment tables and of the ledger keeps the values its  *)
(* columns allow, for any number of repairs, keys and reports.             *)
THEOREM TypeCorrect ==
  VendorPaymentSpec => []VendorPaymentTypeOK
<1>1. VendorPaymentInv => VendorPaymentTypeOK
  BY DEF VendorPaymentInv
<1> QED
  BY <1>1, InvHolds, PTL

(* The status of a request always tells the truth about the debit and the  *)
(* reversal the account's ledger holds for it.                             *)
THEOREM StatusIsTrue ==
  VendorPaymentSpec => []StatusMatchesLedger
<1>1. VendorPaymentInv => StatusMatchesLedger
  BY DEF VendorPaymentInv, LedgerInv
<1> QED
  BY <1>1, InvHolds, PTL

(* Nothing is payable or paid for work whose latest report is not the      *)
(* approved one.                                                           *)
THEOREM ApprovedWorkOnly ==
  VendorPaymentSpec => []OnlyApprovedWorkIsPaid
<1>1. VendorPaymentInv => OnlyApprovedWorkIsPaid
  BY DEF VendorPaymentInv, WorkInv
<1> QED
  BY <1>1, InvHolds, PTL

(* The credit transactions of a repair's payment implement the append-only *)
(* ledger: without the help of a unique index or a trigger they never      *)
(* reuse a key, debit a request twice, reverse a debit twice or for        *)
(* another amount, or let the balance leave its bounds.                    *)
THEOREM LedgerIsKept ==
  VendorPaymentSpec => LedgerPromise
<1>1. VendorPaymentInit => Promise!WellFormed
  BY InitLedger DEF LedgerInv
<1>2. VendorPaymentInv /\ [VendorPaymentNext]_vendorPaymentVars
        => [Promise!Post]_(Promise!accountVars)
  BY NextLedger DEF VendorPaymentInv, Promise!accountVars
<1> QED
  BY <1>1, <1>2, InvHolds, PTL DEF VendorPaymentSpec, LedgerPromise, Promise!Spec

(* The manager's books agree with the payment: a cost confirmed while it   *)
(* stands, void once it was taken back, and one success recorded for it.   *)
THEOREM BooksAreTrue ==
  VendorPaymentSpec => []BooksMatchPayment
<1>1. VendorPaymentInv => BooksMatchPayment
  BY BooksCount DEF VendorPaymentInv, MoneyInv
<1> QED
  BY <1>1, InvHolds, PTL

(* A vendor hears of a payment once, and only of one that was made.        *)
THEOREM PaymentsAreAnnouncedOnce ==
  VendorPaymentSpec => []PaymentAnnouncedOnce
<1>1. VendorPaymentInv => PaymentAnnouncedOnce
  BY BooksCount DEF VendorPaymentInv, MoneyInv
<1> QED
  BY <1>1, InvHolds, PTL

(* The account always holds its opening balance less the payments that     *)
(* stand, however many repairs there are and whatever was retried, refused *)
(* or reversed.                                                            *)
THEOREM BalanceIsTrue ==
  VendorPaymentSpec => []BalanceMatchesPayments
<1>1. VendorPaymentInv => BalanceMatchesPayments
  BY DEF VendorPaymentInv, MoneyInv, BalanceInv
<1> QED
  BY <1>1, InvHolds, PTL

(* Each repair's payment is a PaymentObligation: paid at most once, in     *)
(* full, after approval, and taken back at most once.                      *)
THEOREM ObligationIsKept ==
  VendorPaymentSpec => PaidAtMostOnce
<1>1. VendorPaymentInv => \A r \in Repairs : Outflow(r) = Gone(r)
  BY OutflowByStatus DEF VendorPaymentInv, MoneyInv
<1>2. VendorPaymentInit => Obligation!Init
  BY <1>1, InitInv, InitObligation
<1>3. VendorPaymentInv /\ VendorPaymentInv' /\ [VendorPaymentNext]_vendorPaymentVars
        => [Obligation!Next]_(Obligation!obligationVars)
  <2> SUFFICES ASSUME VendorPaymentInv, VendorPaymentInv', [VendorPaymentNext]_vendorPaymentVars
               PROVE  [Obligation!Next]_(Obligation!obligationVars)
    OBVIOUS
  <2>1. (\A r \in Repairs : Outflow(r) = Gone(r))'
    BY <1>1, PTL
  <2>2. \/ \E r \in Repairs : Moves(r) /\ \A s \in Repairs \ {r} : Stays(s)
        \/ balance' = balance /\ \A s \in Repairs : Stays(s)
    BY NextMoves DEF VendorPaymentInv
  <2> QED
    BY <1>1, <2>1, <2>2, NextObligation
<1> QED
  BY <1>2, <1>3, InvHolds, PTL DEF VendorPaymentSpec, PaidAtMostOnce, Obligation!Spec

(***************************************************************************)
(* Card payment of a repair (RepairPaymentOrder). The request may be       *)
(* settled, cancelled or corrected next to it, so the inductive invariant  *)
(* of the request comes along; what is added says what an order's status   *)
(* and a handler's place tell of the payment at the provider.              *)
(***************************************************************************)
(* An order whose confirm request may have left for the provider, and one  *)
(* the provider will never capture, whatever is still on the way.          *)
Begun(o) == orderStatus[o] \notin {"NONE", "READY"}
NeverCaptured(o) ==
  /\ payment[o] # "DONE"
  /\ o \in confirming => payment[o] \in {"ABORTED", "EXPIRED"}

OrderRows ==
  /\ orderStatus \in [Orders -> OrderStatuses]
  /\ orderOf \in [Orders -> Repairs \union {NoRepair}]
  /\ openOrder \in [Repairs -> Orders \union {NoOrder}]
  /\ authority \in [Repairs -> BOOLEAN]
  /\ \A o \in Orders : (orderStatus[o] = "NONE") <=> (orderOf[o] = NoRepair)
  /\ \A o \in Orders, r \in Repairs :
       (openOrder[r] = o) <=> (orderOf[o] = r /\ orderStatus[o] \in Active)

ProviderOK(o) ==
  /\ ~ Begun(o) => payment[o] # "DONE" /\ o \notin confirming
  /\ orderStatus[o] = "APPROVED" => payment[o] = "DONE"
  /\ orderStatus[o] \in {"FAILED", "CANCELLED"} => NeverCaptured(o)

ProviderInv ==
  /\ payment \in [Orders -> PaymentStatuses] /\ confirming \subseteq Orders
  /\ \A o \in Orders : ProviderOK(o)

(* What a handler's place says of its order: it finalizes only what was    *)
(* captured and rejects only what never will be.                           *)
PlaceOK(p) ==
  /\ p.at = "IDLE" => p = Idle
  /\ p.at # "IDLE" => p.order \in Orders /\ Begun(p.order)
  /\ p.at = "FINALIZE" => payment[p.order] = "DONE"
  /\ p.at = "REJECT" => NeverCaptured(p.order)

Places == [at : Points, order : Orders \union {NoOrder}]

HandlerInv ==
  handler \in [Handlers -> Places] /\ \A h \in Handlers : PlaceOK(handler[h])

ConfirmablePayable ==
  \A o \in Orders : orderStatus[o] \in Confirmable => CanPrepareTossPayment(orderOf[o])

ApprovedOf(r, o) == orderOf[o] = r /\ orderStatus[o] = "APPROVED"

TossInv ==
  \A r \in Repairs :
    /\ (status[r] = "TOSS_PAID") <=> \E o \in Orders : ApprovedOf(r, o)
    /\ \A o, p \in Orders : ApprovedOf(r, o) /\ ApprovedOf(r, p) => o = p

OrderInv == OrderRows /\ ProviderInv /\ HandlerInv /\ ConfirmablePayable /\ TossInv

RepairPaymentInv == VendorPaymentInv /\ OrderInv

(***************************************************************************)
(* The payment request under a card payment.                               *)
(***************************************************************************)
(* An order taking or giving up the open key leaves the request alone.     *)
LEMMA OpenKeyOnly ==
  ASSUME VendorPaymentInv,
         UNCHANGED <<ledgerVars, workVars, requestVars, attempts, receipts, announced, policy>>
  PROVE  VendorPaymentInv'
<1> USE DEF VendorPaymentInv, MoneyInv, ledgerVars, workVars, requestVars
<1>1. VendorPaymentTypeOK'
  BY DEF VendorPaymentTypeOK
<1>2. LedgerInv'
  BY NothingPosted DEF AttemptKeys, ReceiptKeys
<1>3. WorkInv'
  BY WorkUnrelated
<1>4. \A r \in Repairs : Successes(r)' = Successes(r) /\ Told(r)' = Told(r)
  BY DEF Successes, Told, PaidCodes, Paid, CreditPaid
<1>5. BooksInv'
  BY <1>4, BooksUntouched DEF BooksInv
<1>6. PaidByCredit' = PaidByCredit
  BY DEF PaidByCredit, CreditPaid
<1>7. BalanceInv'
  BY <1>6 DEF BalanceInv, BalanceMatchesPayments
<1>8. DebitsInFull'
  BY FullIfNothingPosted
<1> QED
  BY <1>1, <1>2, <1>3, <1>5, <1>7, <1>8

(* The booking of a captured payment: the one way a request is paid that   *)
(* no action of VendorPayment takes.                                       *)
LEMMA BookedByCard ==
  ASSUME VendorPaymentInv, NEW r \in Repairs, CanPrepareTossPayment(r), entry[r] = 0,
         cost' = [cost EXCEPT ![r] = IF Payer[r] = "MANAGER" THEN "CONFIRMED" ELSE @],
         status' = [status EXCEPT ![r] = "TOSS_PAID"],
         entry' = [entry EXCEPT ![r] = 0],
         lastMode' = [lastMode EXCEPT ![r] = "TOSS"],
         Announce(r, "TOSS_PAID"),
         UNCHANGED <<ledgerVars, workVars, linked, attempts, receipts, policy>>
  PROVE  VendorPaymentInv'
<1> USE DEF VendorPaymentInv, MoneyInv, ledgerVars, workVars, requestVars
<1>1. /\ status[r] \in Payable /\ status'[r] = "TOSS_PAID"
      /\ \A s \in Repairs \ {r} : status'[s] = status[s] /\ cost'[s] = cost[s]
      /\ cost'[r] = IF Payer[r] = "MANAGER" THEN "CONFIRMED" ELSE cost[r]
      /\ entry' = entry
  BY DEF VendorPaymentTypeOK, CanPrepareTossPayment
<1>2. /\ "TOSS_PAID" \in Paid /\ "TOSS_PAID" \notin OnCredit /\ "TOSS_PAID" \in PaidCodes
      /\ \A p \in Payable : p \notin OnCredit /\ p \notin Standing /\ p \notin CreditPaid
      /\ "TOSS_PAID" \notin CreditPaid
  BY DEF Paid, CreditPaid, OnCredit, PaidCodes, Payable, Standing, Voided
<1>3. VendorPaymentTypeOK'
  <2>1. cost' \in [Repairs -> {"NONE", "CONFIRMED", "VOID"}]
    BY DEF VendorPaymentTypeOK
  <2>2. status' \in [Repairs -> Statuses] /\ lastMode' \in [Repairs -> Modes \union {"NONE"}]
    BY DEF VendorPaymentTypeOK, Statuses, Modes, Final, Paid
  <2>3. announced' \subseteq Repairs \X (Statuses \union {"TENANT_DIRECT_PAID"})
    BY DEF VendorPaymentTypeOK, Announce, Statuses, Final, Paid
  <2> QED
    BY <1>1, <2>1, <2>2, <2>3 DEF VendorPaymentTypeOK
<1>4. LedgerInv'
  BY <1>1, <1>2, NothingPosted DEF AttemptKeys, ReceiptKeys
<1>5. WorkInv'
  BY <1>1, WorkUntouched
<1>6. BooksInv'
  <2>1. /\ \A s : Successes(s)' = Successes(s)
        /\ \A s \in Repairs \ {r} : Told(s)' = Told(s)
        /\ Told(r)' = Told(r) \union {"TOSS_PAID"}
    BY <1>2, AfterAnnouncement DEF Successes
  <2>2. BooksOK(r)'
    BY <1>1, <1>2, <2>1, BooksPaid DEF BooksInv
  <2> QED
    BY <1>1, <2>1, <2>2, BooksOfOne
<1>7. PaidByCredit' = PaidByCredit
  <2>1. CreditPaid' = CreditPaid
    BY DEF CreditPaid
  <2>2. \A s \in Repairs : status'[s] \in CreditPaid <=> status[s] \in CreditPaid
    BY <1>1, <1>2
  <2> QED
    BY <2>1, <2>2 DEF PaidByCredit
<1>8. BalanceInv'
  BY <1>7 DEF BalanceInv, BalanceMatchesPayments
<1>9. DebitsInFull'
  BY FullIfNothingPosted
<1> QED
  BY <1>3, <1>4, <1>5, <1>6, <1>8, <1>9

(* A step of the request touches the status and the mode of its own repair *)
(* only, and no order's open key.                                          *)
LEMMA OwnRequestOnly ==
  ASSUME NEW r \in Repairs, WorkStep(r) \/ PaymentStep(r) \/ CorrectionStep(r)
  PROVE  /\ openOrder' = openOrder
         /\ status' = status \/ \E p : status' = [status EXCEPT ![r] = p]
         /\ lastMode' = lastMode \/ \E m : lastMode' = [lastMode EXCEPT ![r] = m]
<1>1. CASE WorkStep(r)
  BY <1>1 DEF WorkStep, SubmitCompletion, DecideCompletion, DecideTenantCompletion, Decide
<1>2. CASE PaymentStep(r)
  BY <1>2 DEF PaymentStep, EvaluateAfterCompletion, SettlePaymentRequest, SettleLocked,
              MarkSettled, MarkInsufficient, RequestTenantDirectPayment,
              ConfirmVendorDirectPayment
<1>3. CASE CorrectionStep(r)
  BY <1>3 DEF CorrectionStep, ReverseCreditPayment, VoidDirectPayment, CancelPaymentRequest,
              Correct
<1> QED
  BY <1>1, <1>2, <1>3

(* While a request can be paid by card and an order holds its open key, no *)
(* step of the request itself is enabled.                                  *)
LEMMA OpenOrderHolds ==
  ASSUME NEW r \in Repairs, CanPrepareTossPayment(r), openOrder[r] # NoOrder
  PROVE  ~ (WorkStep(r) \/ PaymentStep(r) \/ CorrectionStep(r))
<1> USE DEF CanPrepareTossPayment, NoActiveTossOrder, Payable
<1>1. ~ WorkStep(r)
  BY DEF WorkStep, SubmitCompletion, DecideCompletion, DecideTenantCompletion
<1>2. ~ PaymentStep(r)
  BY DEF PaymentStep, EvaluateAfterCompletion, SettlePaymentRequest, RequestTenantDirectPayment,
         ConfirmVendorDirectPayment, TenantDirectPending
<1>3. ~ CorrectionStep(r)
  BY DEF CorrectionStep, ReverseCreditPayment, VoidDirectPayment, CancelPaymentRequest, CreditPaid
<1> QED
  BY <1>1, <1>2, <1>3

LEMMA RequestKept ==
  ASSUME VendorPaymentTypeOK, [VendorPaymentNext]_vendorPaymentVars
  PROVE  /\ openOrder' = openOrder
         /\ \A r \in Repairs :
              /\ openOrder[r] # NoOrder /\ CanPrepareTossPayment(r) => CanPrepareTossPayment(r)'
              /\ (status'[r] = "TOSS_PAID") <=> (status[r] = "TOSS_PAID")
<1>1. openOrder' = openOrder
  BY OwnRequestOnly DEF VendorPaymentNext, SaveAutoPayPolicy, vendorPaymentVars
<1>2. ASSUME NEW r \in Repairs, openOrder[r] # NoOrder, CanPrepareTossPayment(r)
      PROVE  status'[r] = status[r] /\ lastMode'[r] = lastMode[r]
  <2>1. ASSUME NEW s \in Repairs, WorkStep(s) \/ PaymentStep(s) \/ CorrectionStep(s)
        PROVE  status'[r] = status[r] /\ lastMode'[r] = lastMode[r]
    <3>1. s # r
      BY <1>2, <2>1, OpenOrderHolds
    <3> QED
      BY <2>1, <3>1, OwnRequestOnly DEF VendorPaymentTypeOK
  <2> QED
    BY <2>1 DEF VendorPaymentNext, SaveAutoPayPolicy, requestVars, vendorPaymentVars
<1>3. ASSUME NEW r \in Repairs
      PROVE  (status'[r] = "TOSS_PAID") <=> (status[r] = "TOSS_PAID")
  <2>1. Moves(r) \/ Stays(r)
    BY NextMoves
  <2>2. "TOSS_PAID" \in Paid /\ "TOSS_PAID" \notin CreditPaid
    BY DEF Paid, CreditPaid
  <2> QED
    BY <2>1, <2>2, DueByStatus DEF Moves, Stays
<1>4. Payable' = Payable
  BY DEF Payable
<1> QED
  BY <1>1, <1>2, <1>3, <1>4 DEF CanPrepareTossPayment

(***************************************************************************)
(* Orders and their open keys.                                             *)
(***************************************************************************)
LEMMA ActiveStatuses ==
  /\ Confirmable \subseteq Active /\ "READY" \in Active /\ "READY" \notin Confirmable
  /\ "CONFIRMING" \in Confirmable /\ "RECONCILIATION_REQUIRED" \in Confirmable
  /\ "NONE" \notin Active /\ "APPROVED" \notin Active /\ "FAILED" \notin Active
  /\ "CANCELLED" \notin Active /\ Active \subseteq OrderStatuses
  /\ {"APPROVED", "FAILED", "CANCELLED"} \subseteq OrderStatuses
  BY DEF Active, Confirmable, OrderStatuses

(* An existing order changes its status; it becomes active only if it      *)
(* already was.                                                            *)
LEMMA OrderRowsAfterUpdate ==
  ASSUME OrderRows, NEW o \in Orders, NEW new \in OrderStatuses \ {"NONE"},
         orderStatus[o] # "NONE", new \in Active => orderStatus[o] \in Active,
         orderStatus' = [orderStatus EXCEPT ![o] = new],
         openOrder' = [openOrder EXCEPT ![orderOf[o]] =
                         IF new \in Active THEN o ELSE IF @ = o THEN NoOrder ELSE @],
         UNCHANGED <<orderOf, authority>>
  PROVE  OrderRows'
<1>1. orderOf[o] \in Repairs
  BY DEF OrderRows
<1>2. NoOrder \notin Orders /\ Active' = Active
  BY OrdersAssumption DEF Active
<1>3. /\ orderStatus' \in [Orders -> OrderStatuses]
      /\ openOrder' \in [Repairs -> Orders \union {NoOrder}]
  BY <1>1 DEF OrderRows
<1>4. orderStatus'[o] = new /\ \A p \in Orders \ {o} : orderStatus'[p] = orderStatus[p]
  BY DEF OrderRows
<1>5. \A s \in Repairs :
        openOrder'[s] = IF s # orderOf[o] THEN openOrder[s]
                        ELSE IF new \in Active THEN o
                        ELSE IF openOrder[s] = o THEN NoOrder ELSE openOrder[s]
  BY <1>1 DEF OrderRows
<1>6. ASSUME NEW p \in Orders, NEW s \in Repairs
      PROVE  (openOrder'[s] = p) <=> (orderOf[p] = s /\ orderStatus'[p] \in Active)
  BY <1>2, <1>4, <1>5 DEF OrderRows
<1> QED
  BY <1>2, <1>3, <1>4, <1>6 DEF OrderRows, OrderStatuses, NoRepair

(* A new order takes the open key of a request, which is free or belongs   *)
(* to the order it replaces.                                               *)
LEMMA OrderRowsAfterNew ==
  ASSUME OrderRows, NEW o \in Orders, NEW r \in Repairs, NEW others,
         NewOrder(o, r, others),
         \/ others = orderStatus /\ openOrder[r] = NoOrder
         \/ \E old \in Orders : /\ openOrder[r] = old
                                /\ others = [orderStatus EXCEPT ![old] = "CANCELLED"]
  PROVE  /\ OrderRows'
         /\ orderStatus'[o] = "READY" /\ orderOf'[o] = r
         /\ \A p \in Orders \ {o} :
              /\ orderOf'[p] = orderOf[p]
              /\ \/ orderStatus'[p] = orderStatus[p]
                 \/ openOrder[r] = p /\ orderStatus'[p] = "CANCELLED"
<1>1. /\ NoOrder \notin Orders /\ NoRepair \notin Repairs /\ Active' = Active
      /\ orderStatus[o] = "NONE" /\ orderOf[o] = NoRepair
  BY OrdersAssumption DEF Active, NewOrder, OrderRows
<1>2. others \in [Orders -> OrderStatuses] /\ "READY" \in OrderStatuses
  BY DEF OrderRows, OrderStatuses, Active
<1>3. /\ orderStatus'[o] = "READY" /\ orderOf'[o] = r
      /\ \A p \in Orders \ {o} : orderStatus'[p] = others[p] /\ orderOf'[p] = orderOf[p]
  BY <1>2 DEF NewOrder, OrderRows
<1>4. /\ openOrder'[r] = o
      /\ \A s \in Repairs \ {r} : openOrder'[s] = openOrder[s]
  BY DEF NewOrder, OrderRows
<1>5. ASSUME NEW p \in Orders \ {o}
      PROVE  \/ orderStatus'[p] = orderStatus[p] /\ openOrder[r] # p
             \/ openOrder[r] = p /\ orderStatus'[p] = "CANCELLED"
  BY <1>1, <1>3 DEF OrderRows
<1>6. ASSUME NEW p \in Orders, NEW s \in Repairs
      PROVE  (openOrder'[s] = p) <=> (orderOf'[p] = s /\ orderStatus'[p] \in Active)
  <2>1. CASE p = o
    BY <1>1, <1>3, <1>4, <2>1 DEF OrderRows, Active
  <2>2. CASE p # o /\ openOrder[r] = p
    <3>1. orderStatus'[p] \notin Active /\ orderOf[p] = r
      BY <1>5, <2>2, ActiveStatuses DEF OrderRows
    <3>2. openOrder'[s] # p
      BY <1>4, <2>2, <3>1 DEF OrderRows
    <3> QED
      BY <3>1, <3>2
  <2>3. CASE p # o /\ openOrder[r] # p
    BY <1>3, <1>4, <1>5, <2>3 DEF OrderRows
  <2> QED
    BY <2>1, <2>2, <2>3
<1>7. /\ orderStatus' \in [Orders -> OrderStatuses]
      /\ orderOf' \in [Orders -> Repairs \union {NoRepair}]
      /\ openOrder' \in [Repairs -> Orders \union {NoOrder}]
      /\ authority' \in [Repairs -> BOOLEAN]
  BY <1>2 DEF NewOrder, OrderRows
<1>8. \A p \in Orders : (orderStatus'[p] = "NONE") <=> (orderOf'[p] = NoRepair)
  BY <1>1, <1>3, <1>5, ActiveStatuses DEF OrderRows
<1>9. OrderRows'
  BY <1>1, <1>6, <1>7, <1>8 DEF OrderRows, OrderStatuses, NoRepair
<1> QED
  BY <1>3, <1>5, <1>9

(***************************************************************************)
(* Handlers.                                                               *)
(***************************************************************************)
(* What a handler knows of its order stays true: an order begun stays so,  *)
(* and both a capture and its impossibility are final.                     *)
Persists(o) ==
  /\ Begun(o) => Begun(o)'
  /\ payment[o] = "DONE" => payment'[o] = "DONE"
  /\ Begun(o) /\ NeverCaptured(o) => NeverCaptured(o)'

LEMMA HandlersKept ==
  ASSUME HandlerInv, \A o \in Orders : Persists(o), handler' = handler
  PROVE  HandlerInv'
<1>1. \A h \in Handlers : PlaceOK(handler[h])'
  BY DEF HandlerInv, PlaceOK, Places, Persists, Idle
<1> QED
  BY <1>1 DEF HandlerInv, Places, Points

(* One of them moves on. *)
LEMMA HandlerMoves ==
  ASSUME HandlerInv, \A o \in Orders : Persists(o), NEW h \in Handlers, NEW place \in Places,
         handler' = [handler EXCEPT ![h] = place], PlaceOK(place)'
  PROVE  HandlerInv'
<1>1. ASSUME NEW g \in Handlers PROVE PlaceOK(handler[g])'
  <2>1. CASE g = h
    <3>1. handler'[g] = place
      BY <2>1 DEF HandlerInv
    <3> QED
      BY <3>1 DEF PlaceOK, Begun, NeverCaptured, Idle
  <2>2. CASE g # h
    <3>1. handler'[g] = handler[g]
      BY <2>2 DEF HandlerInv
    <3> QED
      BY <3>1 DEF HandlerInv, PlaceOK, Places, Persists, Idle
  <2> QED
    BY <2>1, <2>2
<1>2. handler' \in [Handlers -> Places]
  BY DEF HandlerInv
<1> QED
  BY <1>1, <1>2 DEF HandlerInv, Places, Points

(* A handler that is done, and one that turns to its order. *)
LEMMA HandlerFinishes ==
  ASSUME HandlerInv, \A o \in Orders : Persists(o), NEW h \in Handlers, Finish(h)
  PROVE  HandlerInv'
<1>1. Idle \in Places /\ Idle' = Idle
  BY DEF Places, Points, Idle
<1>2. PlaceOK(Idle)'
  BY DEF PlaceOK, Idle
<1> QED
  BY <1>1, <1>2, HandlerMoves DEF Finish

LEMMA HandlerGoes ==
  ASSUME HandlerInv, \A o \in Orders : Persists(o), NEW h \in Handlers, NEW o \in Orders,
         NEW point \in Points \ {"IDLE"}, Goto(h, point, o), Begun(o)',
         point = "FINALIZE" => payment'[o] = "DONE",
         point = "REJECT" => NeverCaptured(o)'
  PROVE  HandlerInv'
<1> DEFINE place == [at |-> point, order |-> o]
<1>1. place \in Places
  BY DEF Places
<1>2. PlaceOK(place)'
  BY DEF PlaceOK, Begun, NeverCaptured
<1> QED
  BY <1>1, <1>2, HandlerMoves DEF Goto

(***************************************************************************)
(* The steps.                                                              *)
(***************************************************************************)
(* The order rows, the provider and the request agree, and nothing a       *)
(* handler knows is lost: what a step has to show besides its own handler. *)
RowsInv == VendorPaymentInv /\ OrderRows /\ ProviderInv /\ ConfirmablePayable /\ TossInv
RowsAdvance == RowsInv' /\ \A o \in Orders : Persists(o)

(* An update of one order that books nothing. *)
LEMMA OrderUpdated ==
  ASSUME RepairPaymentInv, NEW o \in Orders,
         NEW new \in {"CONFIRMING", "RECONCILIATION_REQUIRED", "FAILED", "CANCELLED"},
         UpdateOrder(o, new), orderStatus[o] \notin {"NONE", "APPROVED"},
         new \in Confirmable =>
           orderStatus[o] \in Active /\ CanPrepareTossPayment(orderOf[o]),
         payment' = payment,
         confirming' = confirming \/ (confirming' = confirming \union {o} /\ ~ Begun(o)),
         new \in {"FAILED", "CANCELLED"} => NeverCaptured(o) /\ confirming' = confirming
  PROVE  RowsAdvance /\ Begun(o)'
<1>1. /\ new \in OrderStatuses \ {"NONE", "READY", "APPROVED"}
      /\ new \in Active <=> new \in Confirmable
  BY DEF OrderStatuses, Active, Confirmable
<1>2. OrderRows'
  BY <1>1, OrderRowsAfterUpdate DEF RepairPaymentInv, OrderInv, UpdateOrder
<1>3. VendorPaymentInv'
  BY OpenKeyOnly DEF RepairPaymentInv, UpdateOrder, requestVars, ledgerVars, workVars
<1>4. orderStatus'[o] = new /\ \A p \in Orders \ {o} : orderStatus'[p] = orderStatus[p]
  BY DEF UpdateOrder, RepairPaymentInv, OrderInv, OrderRows
<1>5. UNCHANGED <<orderOf, status, lastMode>>
  BY DEF UpdateOrder, requestVars
<1>6. ASSUME NEW p \in Orders PROVE Persists(p)
  BY <1>1, <1>4 DEF Persists, Begun, NeverCaptured
<1>7. ASSUME NEW p \in Orders PROVE ProviderOK(p)'
  <2>1. CASE p = o
    BY <1>1, <1>4, <2>1 DEF ProviderOK, Begun, NeverCaptured
  <2>2. CASE p # o
    BY <1>4, <2>2 DEF RepairPaymentInv, OrderInv, ProviderInv, ProviderOK, Begun, NeverCaptured
  <2> QED
    BY <2>1, <2>2
<1>8. ProviderInv'
  BY <1>7 DEF RepairPaymentInv, OrderInv, ProviderInv, PaymentStatuses
<1>9. ConfirmablePayable'
  <2>1. \A r : CanPrepareTossPayment(r)' <=> CanPrepareTossPayment(r)
    BY <1>5 DEF CanPrepareTossPayment, Payable
  <2>2. Confirmable' = Confirmable
    BY DEF Confirmable
  <2> QED
    BY <1>4, <1>5, <2>1, <2>2 DEF RepairPaymentInv, OrderInv, ConfirmablePayable
<1>10. \A r \in Repairs, p \in Orders : ApprovedOf(r, p)' <=> ApprovedOf(r, p)
  BY <1>1, <1>4, <1>5 DEF ApprovedOf
<1>11. TossInv'
  BY <1>5, <1>10 DEF RepairPaymentInv, OrderInv, TossInv
<1> QED
  BY <1>1, <1>2, <1>3, <1>4, <1>6, <1>8, <1>9, <1>11 DEF RowsAdvance, RowsInv, Begun

(* A new order, next to which the order it replaces is cancelled if it     *)
(* never left the shop.                                                    *)
LEMMA OrderAdded ==
  ASSUME RepairPaymentInv, NEW o \in Orders, NEW r \in Repairs, NEW others,
         NewOrder(o, r, others),
         \/ others = orderStatus /\ openOrder[r] = NoOrder
         \/ \E old \in Orders : /\ openOrder[r] = old /\ orderStatus[old] = "READY"
                                /\ others = [orderStatus EXCEPT ![old] = "CANCELLED"]
  PROVE  RowsAdvance /\ handler' = handler
<1>1. /\ OrderRows'
      /\ orderStatus'[o] = "READY" /\ orderOf'[o] = r
      /\ \A p \in Orders \ {o} :
           /\ orderOf'[p] = orderOf[p]
           /\ \/ orderStatus'[p] = orderStatus[p]
              \/ openOrder[r] = p /\ orderStatus'[p] = "CANCELLED"
  BY OrderRowsAfterNew DEF RepairPaymentInv, OrderInv
<1>2. \A p \in Orders : openOrder[r] = p => orderStatus[p] = "READY"
  BY OrdersAssumption DEF NewOrder
<1>3. VendorPaymentInv'
  BY OpenKeyOnly DEF RepairPaymentInv, NewOrder
<1>4. orderStatus[o] = "NONE" /\ UNCHANGED <<payment, confirming, status, lastMode>>
  BY DEF NewOrder, requestVars, tossVars
<1>5. ASSUME NEW p \in Orders PROVE Persists(p)
  <2>1. CASE p = o
    BY <1>4, <2>1 DEF Persists, Begun
  <2>2. CASE p # o
    BY <1>1, <1>2, <1>4, <2>2 DEF Persists, Begun, NeverCaptured
  <2> QED
    BY <2>1, <2>2
<1>6. ASSUME NEW p \in Orders PROVE ProviderOK(p)'
  <2>1. CASE p = o
    BY <1>1, <1>4, <2>1
       DEF RepairPaymentInv, OrderInv, ProviderInv, ProviderOK, Begun, NeverCaptured
  <2>2. CASE p # o /\ orderStatus'[p] = orderStatus[p]
    BY <1>4, <2>2 DEF RepairPaymentInv, OrderInv, ProviderInv, ProviderOK, Begun, NeverCaptured
  <2>3. CASE p # o /\ orderStatus[p] = "READY" /\ orderStatus'[p] = "CANCELLED"
    BY <1>4, <2>3 DEF RepairPaymentInv, OrderInv, ProviderInv, ProviderOK, Begun, NeverCaptured
  <2> QED
    BY <1>1, <1>2, <2>1, <2>2, <2>3
<1>7. ProviderInv'
  BY <1>4, <1>6 DEF RepairPaymentInv, OrderInv, ProviderInv, PaymentStatuses
<1>8. \A p \in Orders : orderStatus'[p] \in Confirmable \union {"APPROVED"} =>
        orderStatus[p] = orderStatus'[p] /\ orderOf'[p] = orderOf[p]
  BY <1>1 DEF Confirmable
<1>9. \A p \in Orders : orderStatus[p] = "APPROVED" =>
        orderStatus[p] = orderStatus'[p] /\ orderOf'[p] = orderOf[p]
  BY <1>1, <1>2, <1>4
<1>10. ConfirmablePayable'
  <2>1. \A s : CanPrepareTossPayment(s)' <=> CanPrepareTossPayment(s)
    BY <1>4 DEF CanPrepareTossPayment, Payable
  <2>2. Confirmable' = Confirmable
    BY DEF Confirmable
  <2> QED
    BY <1>8, <2>1, <2>2 DEF RepairPaymentInv, OrderInv, ConfirmablePayable
<1>11. \A s \in Repairs, p \in Orders : ApprovedOf(s, p)' <=> ApprovedOf(s, p)
  BY <1>8, <1>9 DEF ApprovedOf
<1>12. TossInv'
  BY <1>4, <1>11 DEF RepairPaymentInv, OrderInv, TossInv
<1>13. handler' = handler
  BY DEF NewOrder
<1> QED
  BY <1>1, <1>3, <1>5, <1>7, <1>10, <1>12, <1>13 DEF RowsAdvance, RowsInv

(* A step that changes neither an order nor the request, and at most moves *)
(* the provider's payments on.                                             *)
LEMMA OnlyProviderMoves ==
  ASSUME RepairPaymentInv, UNCHANGED <<vendorPaymentVars, orderStatus, orderOf, authority>>,
         payment' \in [Orders -> PaymentStatuses], confirming' \subseteq Orders,
         \A o \in Orders :
           \/ payment'[o] = payment[o] /\ (o \in confirming' => o \in confirming)
           \/ /\ payment[o] = "IN_PROGRESS"
              /\ payment'[o] \in {"ABORTED", "EXPIRED"} \/ (o \in confirming /\ payment'[o] = "DONE")
              /\ o \in confirming' => o \in confirming
  PROVE  RowsAdvance
<1>1. VendorPaymentInv'
  BY OpenKeyOnly
     DEF RepairPaymentInv, vendorPaymentVars, ledgerVars, workVars, requestVars
<1>2. OrderRows'
  BY DEF RepairPaymentInv, OrderInv, OrderRows, OrderStatuses, Active, NoRepair, NoOrder,
         vendorPaymentVars
<1>3. ASSUME NEW o \in Orders PROVE Persists(o) /\ ProviderOK(o)'
  BY DEF RepairPaymentInv, OrderInv, ProviderInv, ProviderOK, Persists, Begun, NeverCaptured
<1>4. ProviderInv'
  BY <1>3 DEF ProviderInv, PaymentStatuses
<1>5. ConfirmablePayable'
  BY DEF RepairPaymentInv, OrderInv, ConfirmablePayable, CanPrepareTossPayment, Payable,
         Confirmable, vendorPaymentVars
<1>6. TossInv'
  BY DEF RepairPaymentInv, OrderInv, TossInv, ApprovedOf, vendorPaymentVars
<1> QED
  BY <1>1, <1>2, <1>3, <1>4, <1>5, <1>6 DEF RowsAdvance, RowsInv

(* In particular a step that changes only handlers. *)
LEMMA OnlyHandlersMove ==
  ASSUME RepairPaymentInv, UNCHANGED <<vendorPaymentVars, tossVars, orderStatus, orderOf, authority>>
  PROVE  RowsAdvance
<1>1. payment' = payment /\ confirming' = confirming
  BY DEF tossVars
<1>2. payment \in [Orders -> PaymentStatuses] /\ confirming \subseteq Orders
  BY DEF RepairPaymentInv, OrderInv, ProviderInv
<1> QED
  BY <1>1, <1>2, OnlyProviderMoves DEF PaymentStatuses

(* The provider captures, refuses or expires a payment. *)
LEMMA ProviderStep ==
  ASSUME RepairPaymentInv, TossNext, UNCHANGED <<vendorPaymentVars, orderVars>>
  PROVE  RepairPaymentInv'
<1>1. payment \in [Orders -> PaymentStatuses] /\ confirming \subseteq Orders
  BY DEF RepairPaymentInv, OrderInv, ProviderInv
<1>2. PICK o \in Orders : Capture(o) \/ Refuse(o) \/ Expire(o)
  BY DEF TossNext
<1>3. RowsAdvance
  <2>1. confirming' \subseteq confirming
    BY <1>2 DEF Capture, Refuse, Expire, Process
  <2>2. \A p \in Orders \ {o} : payment'[p] = payment[p]
    BY <1>1, <1>2 DEF Capture, Refuse, Expire, Process
  <2>3. \/ payment'[o] = payment[o]
        \/ /\ payment[o] = "IN_PROGRESS"
           /\ payment'[o] \in {"ABORTED", "EXPIRED"} \/ (o \in confirming /\ payment'[o] = "DONE")
    BY <1>1, <1>2 DEF Capture, Refuse, Expire, Process
  <2>4. payment' \in [Orders -> PaymentStatuses]
    BY <1>1, <1>2 DEF Capture, Refuse, Expire, Process, PaymentStatuses
  <2> QED
    BY <1>1, <2>1, <2>2, <2>3, <2>4, OnlyProviderMoves DEF orderVars
<1> QED
  BY <1>3, HandlersKept DEF RowsAdvance, RowsInv, RepairPaymentInv, OrderInv, orderVars

(* A step of the request itself: while an order holds the open key it      *)
(* stays payable by card, and no such step pays by card.                   *)
LEMMA RequestStep ==
  ASSUME RepairPaymentInv, [VendorPaymentNext]_vendorPaymentVars,
         UNCHANGED <<tossVars, orderVars>>
  PROVE  RepairPaymentInv'
<1>1. VendorPaymentInv'
  BY NextInv DEF RepairPaymentInv
<1>2. UNCHANGED <<payment, confirming, orderStatus, orderOf, authority, handler>>
  BY DEF tossVars, orderVars
<1>3. /\ openOrder' = openOrder
      /\ \A r \in Repairs :
           /\ openOrder[r] # NoOrder /\ CanPrepareTossPayment(r) => CanPrepareTossPayment(r)'
           /\ (status'[r] = "TOSS_PAID") <=> (status[r] = "TOSS_PAID")
  BY RequestKept DEF RepairPaymentInv, VendorPaymentInv
<1>4. OrderRows'
  BY <1>2, <1>3 DEF RepairPaymentInv, OrderInv, OrderRows, OrderStatuses, Active, NoRepair, NoOrder
<1>5. ProviderInv'
  BY <1>2
     DEF RepairPaymentInv, OrderInv, ProviderInv, ProviderOK, Begun, NeverCaptured, PaymentStatuses
<1>6. HandlerInv'
  BY <1>2 DEF RepairPaymentInv, OrderInv, HandlerInv, PlaceOK, Places, Points, Idle, Begun,
              NeverCaptured, NoOrder
<1>7. ConfirmablePayable'
  <2>1. ASSUME NEW o \in Orders, orderStatus[o] \in Confirmable
        PROVE  CanPrepareTossPayment(orderOf[o])'
    <3>1. PICK r \in Repairs : r = orderOf[o]
      BY <2>1, ActiveStatuses DEF RepairPaymentInv, OrderInv, OrderRows
    <3>2. openOrder[r] = o /\ CanPrepareTossPayment(r)
      BY <2>1, <3>1, ActiveStatuses
         DEF RepairPaymentInv, OrderInv, OrderRows, ConfirmablePayable
    <3>3. CanPrepareTossPayment(r)'
      BY <1>3, <3>2, OrdersAssumption
    <3> QED
      BY <1>2, <3>1, <3>3 DEF CanPrepareTossPayment
  <2> QED
    BY <1>2, <2>1 DEF ConfirmablePayable, Confirmable
<1>8. TossInv'
  BY <1>2, <1>3 DEF RepairPaymentInv, OrderInv, TossInv, ApprovedOf
<1> QED
  BY <1>1, <1>4, <1>5, <1>6, <1>7, <1>8 DEF RepairPaymentInv, OrderInv

(* Booking a captured payment. The order held the open key, so no other    *)
(* order of the request can be confirmable or approved.                    *)
LEMMA OrderFinalized ==
  ASSUME RepairPaymentInv, NEW h \in Handlers, FinalizeOrder(h)
  PROVE  RepairPaymentInv'
<1> USE DEF RepairPaymentInv, OrderInv
<1>o. PICK o \in Orders : o = handler[h].order /\ payment[o] = "DONE"
  BY DEF FinalizeOrder, At, HandlerInv, PlaceOK
<1>r. PICK r : r = orderOf[o]
  OBVIOUS
<1>1. orderStatus[o] \in Confirmable /\ CanPrepareTossPayment(r) /\ entry[r] = 0
  BY <1>o, <1>r DEF FinalizeOrder, MayFinalize
<1>2. r \in Repairs /\ openOrder[r] = o
  BY <1>1, <1>r, ActiveStatuses DEF OrderRows
<1>3. /\ cost' = [cost EXCEPT ![r] = IF Payer[r] = "MANAGER" THEN "CONFIRMED" ELSE @]
      /\ status' = [status EXCEPT ![r] = "TOSS_PAID"]
      /\ entry' = [entry EXCEPT ![r] = 0]
      /\ lastMode' = [lastMode EXCEPT ![r] = "TOSS"]
      /\ orderStatus' = [orderStatus EXCEPT ![o] = "APPROVED"]
      /\ openOrder' = [openOrder EXCEPT ![r] = NoOrder]
      /\ Announce(r, "TOSS_PAID") /\ Finish(h)
      /\ UNCHANGED <<ledgerVars, workVars, linked, attempts, receipts, policy>>
      /\ UNCHANGED <<payment, confirming, orderOf, authority>>
  BY <1>o, <1>r DEF FinalizeOrder, tossVars
<1>4. VendorPaymentInv'
  BY <1>1, <1>2, <1>3, BookedByCard
<1>5. OrderRows'
  <2>1. openOrder' = [openOrder EXCEPT ![orderOf[o]] =
                        IF "APPROVED" \in Active THEN o ELSE IF @ = o THEN NoOrder ELSE @]
    BY <1>2, <1>3, <1>r, ActiveStatuses
  <2>2. orderStatus[o] # "NONE" /\ "APPROVED" \in OrderStatuses \ {"NONE"}
    BY <1>1 DEF Confirmable, OrderStatuses
  <2> QED
    BY <1>1, <1>3, <2>1, <2>2, ActiveStatuses, OrderRowsAfterUpdate
<1>6. /\ orderStatus'[o] = "APPROVED" /\ status'[r] = "TOSS_PAID"
      /\ \A p \in Orders \ {o} : orderStatus'[p] = orderStatus[p]
      /\ \A s \in Repairs \ {r} : status'[s] = status[s] /\ lastMode'[s] = lastMode[s]
  BY <1>1, <1>2, <1>3 DEF OrderRows, VendorPaymentInv, VendorPaymentTypeOK
<1>7. ASSUME NEW p \in Orders PROVE Persists(p) /\ ProviderOK(p)'
  BY <1>o, <1>1, <1>3, <1>6 DEF ProviderInv, ProviderOK, Persists, Begun, NeverCaptured
<1>8. ProviderInv'
  BY <1>3, <1>7 DEF ProviderInv, PaymentStatuses
<1>9. HandlerInv'
  BY <1>3, <1>7, HandlerFinishes
<1>10. Confirmable' = Confirmable /\ Payable' = Payable /\ "APPROVED" \notin Confirmable
  BY DEF Confirmable, Payable
<1>11. ConfirmablePayable'
  <2>1. ASSUME NEW p \in Orders, orderStatus'[p] \in Confirmable
        PROVE  CanPrepareTossPayment(orderOf[p])'
    <3>1. p # o /\ orderStatus[p] \in Confirmable
      BY <1>6, <1>10, <2>1
    <3>2. PICK s \in Repairs : s = orderOf[p] /\ openOrder[s] = p
      BY <3>1, ActiveStatuses DEF OrderRows
    <3>3. s # r /\ CanPrepareTossPayment(s)
      BY <1>2, <3>1, <3>2 DEF ConfirmablePayable
    <3> QED
      BY <1>3, <1>6, <1>10, <3>2, <3>3 DEF CanPrepareTossPayment
  <2> QED
    BY <1>3, <1>10, <2>1 DEF ConfirmablePayable
<1>12. TossInv'
  <2>1. status[r] # "TOSS_PAID" /\ \A p \in Orders : ~ ApprovedOf(r, p)
    BY <1>1, <1>2 DEF TossInv, CanPrepareTossPayment, Payable
  <2>2. \A p \in Orders : ApprovedOf(r, p)' <=> p = o
    BY <1>3, <1>6, <1>r, <2>1 DEF ApprovedOf
  <2>3. \A s \in Repairs \ {r}, p \in Orders : ApprovedOf(s, p)' <=> ApprovedOf(s, p)
    BY <1>3, <1>6, <1>r DEF ApprovedOf
  <2> QED
    BY <1>1, <1>6, <2>2, <2>3 DEF TossInv
<1> QED
  BY <1>4, <1>5, <1>8, <1>9, <1>11, <1>12

(* Orders made, replaced and cancelled; an account that comes and goes.    *)
LEMMA OrderStepKept ==
  ASSUME RepairPaymentInv, OrderStep
  PROVE  RepairPaymentInv'
<1> USE DEF RepairPaymentInv, OrderInv
<1>1. ASSUME NEW o \in Orders, NEW r \in Repairs, CreateOrder(o, r)
      PROVE  RowsAdvance /\ handler' = handler
  BY <1>1, OrderAdded DEF CreateOrder
<1>2. ASSUME NEW old \in Orders, NEW o \in Orders, RetryOrder(old, o)
      PROVE  RowsAdvance /\ handler' = handler
  <2>1. PICK r \in Repairs : r = orderOf[old]
    BY <1>2 DEF RetryOrder, LockOrderAndAuthority, OrderRows
  <2>2. CASE orderStatus[old] = "READY"
    <3>1. openOrder[r] = old
      BY <2>1, <2>2, ActiveStatuses DEF OrderRows
    <3>2. NewOrder(o, r, [orderStatus EXCEPT ![old] = "CANCELLED"])
      BY <1>2, <2>1, <2>2 DEF RetryOrder
    <3> QED
      BY <2>2, <3>1, <3>2, OrderAdded
  <2>3. CASE orderStatus[old] = "FAILED"
    <3>1. openOrder[r] = NoOrder /\ NewOrder(o, r, orderStatus)
      BY <1>2, <2>1, <2>3 DEF RetryOrder
    <3> QED
      BY <3>1, OrderAdded
  <2> QED
    BY <1>2, <2>2, <2>3 DEF RetryOrder
<1>3. ASSUME NEW o \in Orders, CancelOrder(o)
      PROVE  RowsAdvance /\ handler' = handler
  <2>1. /\ orderStatus[o] \in {"READY", "FAILED"} /\ UpdateOrder(o, "CANCELLED")
        /\ UNCHANGED <<payment, confirming, handler>>
    BY <1>3 DEF CancelOrder, tossVars
  <2>2. NeverCaptured(o)
    BY <2>1 DEF ProviderInv, ProviderOK, Begun, NeverCaptured
  <2> QED
    BY <2>1, <2>2, OrderUpdated DEF Confirmable
<1>4. ASSUME RowsAdvance, handler' = handler
      PROVE  RepairPaymentInv'
  BY <1>4, HandlersKept DEF RowsAdvance, RowsInv
<1>5. ASSUME NEW r \in Repairs, ChangeAuthority(r)
      PROVE  RepairPaymentInv'
  <2>1. UNCHANGED <<vendorPaymentVars, payment, confirming, orderStatus, orderOf, handler>>
    BY <1>5 DEF ChangeAuthority, tossVars
  <2>2. authority' \in [Repairs -> BOOLEAN]
    BY <1>5 DEF ChangeAuthority, OrderRows
  <2>3. VendorPaymentInv'
    BY <2>1, OpenKeyOnly DEF vendorPaymentVars, ledgerVars, workVars, requestVars
  <2>4. OrderRows'
    BY <2>1, <2>2 DEF OrderRows, OrderStatuses, Active, NoRepair, NoOrder, vendorPaymentVars
  <2>5. \A o \in Orders : Persists(o) /\ ProviderOK(o)'
    BY <2>1 DEF Persists, ProviderInv, ProviderOK, Begun, NeverCaptured
  <2>6. ProviderInv' /\ HandlerInv'
    BY <2>1, <2>5, HandlersKept DEF ProviderInv, PaymentStatuses
  <2>7. ConfirmablePayable'
    BY <2>1 DEF ConfirmablePayable, CanPrepareTossPayment, Payable, Confirmable, vendorPaymentVars
  <2>8. TossInv'
    BY <2>1 DEF TossInv, ApprovedOf, vendorPaymentVars
  <2> QED
    BY <2>3, <2>4, <2>6, <2>7, <2>8
<1> QED
  BY <1>1, <1>2, <1>3, <1>4, <1>5 DEF OrderStep

(* The transactions of a handler, the answers it receives and its end.     *)
LEMMA HandlerStepKept ==
  ASSUME RepairPaymentInv, NEW h \in Handlers, HandlerStep(h)
  PROVE  RepairPaymentInv'
<1> USE DEF RepairPaymentInv, OrderInv
<1>o. PICK o : o = handler[h].order
  OBVIOUS
<1>1. ASSUME RowsAdvance, HandlerInv' PROVE RepairPaymentInv'
  BY <1>1 DEF RowsAdvance, RowsInv
<1>2. ASSUME handler[h].at # "IDLE"
      PROVE  /\ o \in Orders /\ Begun(o)
             /\ At(h, "FINALIZE") => payment[o] = "DONE"
             /\ At(h, "REJECT") => NeverCaptured(o)
  BY <1>o, <1>2 DEF HandlerInv, PlaceOK, At
<1>3. ASSUME UNCHANGED <<vendorPaymentVars, tossVars, orderStatus, orderOf, authority>>
      PROVE  /\ RowsAdvance
             /\ \A p : /\ Begun(p)' <=> Begun(p)
                       /\ NeverCaptured(p)' <=> NeverCaptured(p)
                       /\ payment'[p] = payment[p]
  BY <1>3, OnlyHandlersMove DEF Begun, NeverCaptured, tossVars
<1>4. ASSUME NEW p \in Orders, ConfirmOrder(h, p)
      PROVE  RepairPaymentInv'
  <2>1. /\ orderStatus[p] = "READY" /\ CanPrepareTossPayment(orderOf[p])
        /\ UpdateOrder(p, "CONFIRMING") /\ Goto(h, "CONFIRM", p)
        /\ payment' = payment /\ confirming' = confirming \union {p}
    BY <1>4 DEF ConfirmOrder, SendConfirm
  <2>2. RowsAdvance /\ Begun(p)'
    BY <2>1, OrderUpdated, ActiveStatuses DEF Begun
  <2> QED
    BY <1>1, <2>1, <2>2, HandlerGoes DEF RowsAdvance, Points
<1>5. ASSUME NEW p \in Orders, ReconcileOrder(h, p)
      PROVE  RepairPaymentInv'
  <2>1. RowsAdvance /\ Begun(p)' /\ Goto(h, "LOOKUP", p)
    BY <1>3, <1>5 DEF ReconcileOrder, Confirmable, Begun
  <2> QED
    BY <1>1, <2>1, HandlerGoes DEF RowsAdvance, Points
<1>6. CASE ReceiveAnswer(h)
  <2>1. RowsAdvance /\ o \in Orders /\ Begun(o)'
    BY <1>2, <1>3, <1>6 DEF ReceiveAnswer, At
  <2>2. PICK point \in Points \ {"IDLE"} :
          /\ Goto(h, point, o)
          /\ point = "FINALIZE" => payment[o] = "DONE"
          /\ point = "REJECT" => NeverCaptured(o)
    <3>1. CASE \E a \in ConfirmAnswers(o) : Goto(h, AfterConfirm(a), o)
      BY <3>1 DEF ConfirmAnswers, AfterConfirm, Points, NeverCaptured
    <3>2. CASE \E a \in LookupAnswers(o) : Goto(h, AfterLookup(a), o)
      BY <3>2 DEF LookupAnswers, AfterLookup, Points, NeverCaptured
    <3> QED
      BY <1>o, <1>6, <3>1, <3>2 DEF ReceiveAnswer
  <2>3. (point = "FINALIZE" => payment'[o] = "DONE") /\ (point = "REJECT" => NeverCaptured(o)')
    BY <1>3, <1>6, <2>2 DEF ReceiveAnswer
  <2> QED
    BY <1>1, <2>1, <2>2, <2>3, HandlerGoes DEF RowsAdvance
<1>7. CASE FailToFinalize(h)
  <2>1. RowsAdvance /\ o \in Orders /\ Begun(o)'
    BY <1>2, <1>3, <1>7 DEF FailToFinalize, At
  <2>2. Finish(h) \/ Goto(h, "UNCERTAIN", o)
    BY <1>o, <1>7 DEF FailToFinalize
  <2> QED
    BY <1>1, <2>1, <2>2, HandlerFinishes, HandlerGoes DEF RowsAdvance, Points
<1>8. ASSUME NEW new \in {"FAILED", "RECONCILIATION_REQUIRED"}, Mark(h, new),
             handler[h].at # "IDLE", new = "FAILED" => NeverCaptured(o)
      PROVE  RepairPaymentInv'
  <2>1. o \in Orders /\ Finish(h) /\ payment' = payment /\ confirming' = confirming
    BY <1>2, <1>8 DEF Mark, tossVars
  <2>2. RowsAdvance
    <3>1. CASE LockOrderAndAuthority(o) /\ orderStatus[o] \in Confirmable
      <4>1. UpdateOrder(o, new) /\ orderStatus[o] \in Active
        BY <1>o, <1>8, <3>1, ActiveStatuses DEF Mark
      <4>2. CanPrepareTossPayment(orderOf[o]) /\ orderStatus[o] \notin {"NONE", "APPROVED"}
        BY <2>1, <3>1 DEF ConfirmablePayable, Confirmable
      <4> QED
        BY <1>8, <2>1, <4>1, <4>2, OrderUpdated
    <3>2. CASE ~ (LockOrderAndAuthority(o) /\ orderStatus[o] \in Confirmable)
      BY <1>o, <1>3, <1>8, <2>1, <3>2 DEF Mark
    <3> QED
      BY <3>1, <3>2
  <2> QED
    BY <1>1, <2>1, <2>2, HandlerFinishes DEF RowsAdvance
<1>9. CASE MarkRejected(h) \/ MarkUncertain(h)
  BY <1>2, <1>8, <1>9 DEF MarkRejected, MarkUncertain, At
<1>10. CASE CutOff(h)
  BY <1>1, <1>3, <1>10, HandlerFinishes DEF CutOff, RowsAdvance
<1> QED
  BY <1>4, <1>5, <1>6, <1>7, <1>9, <1>10, OrderFinalized DEF HandlerStep

LEMMA RepairPaymentNextInv ==
  RepairPaymentInv /\ [RepairPaymentNext]_repairPaymentVars => RepairPaymentInv'
<1> SUFFICES ASSUME RepairPaymentInv, [RepairPaymentNext]_repairPaymentVars
             PROVE  RepairPaymentInv'
  OBVIOUS
<1>1. CASE UNCHANGED repairPaymentVars
  BY <1>1, RequestStep DEF repairPaymentVars
<1> QED
  BY <1>1, RequestStep, ProviderStep, OrderStepKept, HandlerStepKept DEF RepairPaymentNext

LEMMA RepairPaymentInitInv ==
  RepairPaymentInit => RepairPaymentInv
<1> SUFFICES ASSUME RepairPaymentInit PROVE RepairPaymentInv
  OBVIOUS
<1> USE DEF RepairPaymentInit
<1>1. VendorPaymentInv
  BY InitInv
<1>2. \A r \in Repairs : openOrder[r] = NoOrder /\ status[r] = "NONE"
  BY DEF VendorPaymentInit
<1>3. openOrder \in [Repairs -> Orders \union {NoOrder}]
  BY DEF VendorPaymentInit
<1>4. OrderRows
  BY <1>2, <1>3, OrdersAssumption, ActiveStatuses DEF OrderRows, OrderStatuses
<1>5. ProviderInv
  BY DEF TossInit, ProviderInv, ProviderOK, PaymentStatuses, Begun, NeverCaptured
<1>6. HandlerInv
  BY DEF HandlerInv, PlaceOK, Places, Points, Idle
<1>7. ConfirmablePayable /\ TossInv
  BY <1>2 DEF ConfirmablePayable, Confirmable, TossInv, ApprovedOf
<1> QED
  BY <1>1, <1>4, <1>5, <1>6, <1>7 DEF RepairPaymentInv, OrderInv

(***************************************************************************)
(* What the invariant says of captured money.                              *)
(***************************************************************************)
(* A captured order is approved and its request paid by card, or it can    *)
(* still be reconciled and its request is payable.                         *)
LEMMA CapturedOrder ==
  RepairPaymentInv =>
    \A o \in Orders : payment[o] = "DONE" =>
      /\ orderOf[o] \in Repairs
      /\ \/ orderStatus[o] = "APPROVED" /\ status[orderOf[o]] = "TOSS_PAID"
         \/ /\ orderStatus[o] \in Confirmable /\ openOrder[orderOf[o]] = o
            /\ CanPrepareTossPayment(orderOf[o])
<1> SUFFICES ASSUME RepairPaymentInv, NEW o \in Orders, payment[o] = "DONE"
             PROVE  /\ orderOf[o] \in Repairs
                    /\ \/ orderStatus[o] = "APPROVED" /\ status[orderOf[o]] = "TOSS_PAID"
                       \/ /\ orderStatus[o] \in Confirmable /\ openOrder[orderOf[o]] = o
                          /\ CanPrepareTossPayment(orderOf[o])
  OBVIOUS
<1> USE DEF RepairPaymentInv, OrderInv
<1>1. orderStatus[o] \in Confirmable \union {"APPROVED"}
  BY DEF OrderRows, OrderStatuses, Active, Confirmable, ProviderInv, ProviderOK, Begun,
         NeverCaptured
<1>2. orderOf[o] \in Repairs
  BY <1>1 DEF OrderRows, Confirmable
<1>3. CASE orderStatus[o] = "APPROVED"
  BY <1>2, <1>3 DEF TossInv, ApprovedOf
<1>4. CASE orderStatus[o] \in Confirmable
  BY <1>2, <1>4, ActiveStatuses DEF OrderRows, ConfirmablePayable
<1> QED
  BY <1>1, <1>2, <1>3, <1>4

(* A request has at most one captured order.                               *)
LEMMA CapturedOnce ==
  RepairPaymentInv =>
    \A r \in Repairs :
      /\ Captured(r) # {} =>
           /\ \E o \in Captured(r) : Captured(r) = {o}
           /\ status[r] \in Payable \union {"TOSS_PAID"}
      /\ status[r] = "TOSS_PAID" =>
           \E o \in Captured(r) :
             /\ Captured(r) = {o}
             /\ {p \in Orders : orderOf[p] = r /\ orderStatus[p] = "APPROVED"} = {o}
<1> SUFFICES ASSUME RepairPaymentInv, NEW r \in Repairs
             PROVE  /\ Captured(r) # {} =>
                         /\ \E o \in Captured(r) : Captured(r) = {o}
                         /\ status[r] \in Payable \union {"TOSS_PAID"}
                    /\ status[r] = "TOSS_PAID" =>
                         \E o \in Captured(r) :
                           /\ Captured(r) = {o}
                           /\ {p \in Orders : orderOf[p] = r /\ orderStatus[p] = "APPROVED"} = {o}
  OBVIOUS
<1>1. \A o \in Captured(r) :
        /\ o \in Orders /\ orderOf[o] = r
        /\ \/ orderStatus[o] = "APPROVED" /\ status[r] = "TOSS_PAID"
           \/ openOrder[r] = o /\ status[r] \in Payable
  BY CapturedOrder DEF Captured, CanPrepareTossPayment
<1>2. /\ "TOSS_PAID" \notin Payable
      /\ \A o, p \in Orders : ApprovedOf(r, o) /\ ApprovedOf(r, p) => o = p
  BY DEF Payable, RepairPaymentInv, OrderInv, TossInv
<1>3. \A o, p \in Captured(r) : o = p
  BY <1>1, <1>2 DEF ApprovedOf
<1>4. ASSUME status[r] = "TOSS_PAID"
      PROVE  \E o \in Captured(r) :
               {p \in Orders : orderOf[p] = r /\ orderStatus[p] = "APPROVED"} = {o}
  <2>1. PICK o \in Orders : ApprovedOf(r, o)
    BY <1>4 DEF RepairPaymentInv, OrderInv, TossInv
  <2>2. o \in Captured(r)
    BY <2>1 DEF RepairPaymentInv, OrderInv, ProviderInv, ProviderOK, ApprovedOf, Captured
  <2> QED
    BY <1>2, <2>1, <2>2 DEF ApprovedOf
<1> QED
  BY <1>1, <1>3, <1>4

(* The properties the runs check, from the inductive invariant.            *)
LEMMA OrderProperties ==
  RepairPaymentInv => /\ RepairPaymentTypeOK
                      /\ CapturedMoneyCanBeBooked
                      /\ TossPaidMatchesCapture
                      /\ GivenUpOrdersStayUnpaid
<1> SUFFICES ASSUME RepairPaymentInv
             PROVE  /\ RepairPaymentTypeOK
                    /\ CapturedMoneyCanBeBooked
                    /\ TossPaidMatchesCapture
                    /\ GivenUpOrdersStayUnpaid
  OBVIOUS
<1> USE DEF RepairPaymentInv, OrderInv
<1>1. RepairPaymentTypeOK
  <2>1. ASSUME NEW h \in Handlers
        PROVE  \/ handler[h] = Idle
               \/ /\ handler[h].at \in Points \ {"IDLE"}
                  /\ handler[h].order \in Orders /\ orderStatus[handler[h].order] # "NONE"
    BY DEF HandlerInv, PlaceOK, Places, Begun
  <2> QED
    BY <2>1 DEF RepairPaymentTypeOK, VendorPaymentInv, OrderRows, ProviderInv
<1>2. CapturedMoneyCanBeBooked
  <2>1. ASSUME NEW o \in Orders, payment[o] = "DONE", orderStatus[o] # "APPROVED", NEW r,
               r = orderOf[o]
        PROVE  /\ orderStatus[o] \in Confirmable /\ CanPrepareTossPayment(r)
               /\ cost[r] = "NONE" /\ entry[r] = 0 /\ <<r, "TOSS_PAID">> \notin announced
    <3>1. r \in Repairs /\ orderStatus[o] \in Confirmable /\ CanPrepareTossPayment(r)
      BY <2>1, CapturedOrder
    <3>2. /\ status[r] \notin Standing /\ status[r] \notin Paid /\ status[r] \notin Voided
          /\ status[r] \notin OnCredit
      BY <3>1 DEF CanPrepareTossPayment, Payable, Standing, Paid, CreditPaid, Voided, OnCredit
    <3>3. cost[r] = "NONE" /\ Told(r) = {}
      BY <3>1, <3>2 DEF VendorPaymentInv, VendorPaymentTypeOK, MoneyInv, BooksInv, BooksOK
    <3>4. entry[r] = 0
      BY <3>1, <3>2 DEF VendorPaymentInv, LedgerInv, StatusMatchesLedger, OnCredit
    <3>5. <<r, "TOSS_PAID">> \notin announced
      BY <3>3 DEF Told, PaidCodes, Paid
    <3> QED
      BY <3>1, <3>3, <3>4, <3>5
  <2> QED
    BY <2>1 DEF CapturedMoneyCanBeBooked
<1>3. TossPaidMatchesCapture
  <2>1. ASSUME NEW r \in Repairs, status[r] = "TOSS_PAID"
        PROVE  LET approved == {o \in Orders : orderOf[o] = r /\ orderStatus[o] = "APPROVED"}
               IN  approved # {} /\ approved = Captured(r) /\ Cardinality(approved) = 1
    <3>1. PICK o \in Captured(r) :
            /\ Captured(r) = {o}
            /\ {p \in Orders : orderOf[p] = r /\ orderStatus[p] = "APPROVED"} = {o}
      BY <2>1, CapturedOnce
    <3>2. Cardinality({o}) = 1
      BY FS_Singleton
    <3> QED
      BY <3>1, <3>2
  <2>2. ASSUME NEW r \in Repairs, status[r] # "TOSS_PAID"
        PROVE  {o \in Orders : orderOf[o] = r /\ orderStatus[o] = "APPROVED"} = {}
    BY <2>2 DEF TossInv, ApprovedOf
  <2> QED
    BY <2>1, <2>2 DEF TossPaidMatchesCapture
<1>4. GivenUpOrdersStayUnpaid
  BY DEF GivenUpOrdersStayUnpaid, ProviderInv, ProviderOK, NeverCaptured
<1> QED
  BY <1>1, <1>2, <1>3, <1>4

(***************************************************************************)
(* The refinement: with a capture counted when the provider makes it, the  *)
(* payment still is the obligation.                                        *)
(***************************************************************************)
CardDue(r) == IF Captured(r) # {} /\ status[r] \in Payable THEN "settled" ELSE DueOf(r)
CardOutflow(r) == Outflow(r) + Amount[r] * Cardinality(Captured(r))
CardGone(r) == IF Captured(r) # {} THEN Amount[r] ELSE Gone(r)

CaptureCounts(r) ==
  /\ CardOutflow(r) = CardGone(r)
  /\ CardDue(r) = IF Captured(r) # {} THEN "settled" ELSE DueOf(r)
  /\ Captured(r) # {} => status[r] \in Payable \union {"TOSS_PAID"}
  /\ Captured(r) = {} => status[r] # "TOSS_PAID"
CapturesCount == \A r \in Repairs : CaptureCounts(r)

LEMMA CardByCapture ==
  RepairPaymentInv => CapturesCount
<1> SUFFICES ASSUME RepairPaymentInv, NEW r \in Repairs PROVE CaptureCounts(r)
  BY DEF CapturesCount
<1> USE DEF CaptureCounts
<1>1. Outflow(r) = Gone(r)
  BY OutflowByStatus DEF RepairPaymentInv, VendorPaymentInv, MoneyInv
<1>2. Amount[r] \in Nat /\ Gone(r) \in Nat
  BY AmountAssumption DEF Gone
<1>3. CASE Captured(r) = {}
  <2>1. Cardinality(Captured(r)) = 0 /\ status[r] # "TOSS_PAID"
    BY <1>3, FS_EmptySet, CapturedOnce
  <2>2. CardOutflow(r) = Gone(r)
    BY <1>1, <1>2, <2>1 DEF CardOutflow
  <2> QED
    BY <1>3, <2>1, <2>2 DEF CardGone, CardDue
<1>4. CASE Captured(r) # {}
  <2>1. /\ \E o \in Captured(r) : Captured(r) = {o}
        /\ status[r] \in Payable \union {"TOSS_PAID"}
    BY <1>4, CapturedOnce
  <2>2. Cardinality(Captured(r)) = 1
    BY <2>1, FS_Singleton
  <2>3. Gone(r) = 0
    BY <2>1 DEF Gone, Payable, CreditPaid
  <2>4. CardOutflow(r) = Amount[r]
    BY <1>1, <1>2, <2>2, <2>3 DEF CardOutflow
  <2>5. CardDue(r) = "settled"
    BY <1>4, <2>1, DueByStatus DEF CardDue, Paid
  <2> QED
    BY <1>4, <2>1, <2>4, <2>5 DEF CardGone
<1> QED
  BY <1>3, <1>4

(* What a step does to a repair: nothing, what its request does, a capture *)
(* while the request stays as it is, or anything after a capture that      *)
(* leaves it captured.                                                     *)
Same(r) == status'[r] = status[r] /\ DueOf(r)' = DueOf(r) /\ Captured(r)' = Captured(r)
CardMoves(r) ==
  \/ Captured(r)' = Captured(r) /\ Moves(r)
  \/ status'[r] = status[r] /\ Captured(r)' # {}
  \/ Captured(r) # {} /\ Captured(r)' # {}

OneRepairMoves ==
  \/ \A s \in Repairs : Same(s)
  \/ \E r \in Repairs : CardMoves(r) /\ \A s \in Repairs \ {r} : Same(s)

(* A step that leaves a request and its captures alone.                    *)
LEMMA SameIfUntouched ==
  ASSUME NEW s, status'[s] = status[s], UNCHANGED <<report, decision, linked>>,
         \A o \in Orders : (orderOf'[o] = s /\ payment'[o] = "DONE")
                             <=> (orderOf[o] = s /\ payment[o] = "DONE")
  PROVE  Same(s)
<1>1. Stays(s)
  BY StaysIfUntouched
<1> QED
  BY <1>1 DEF Stays, Same, Captured

LEMMA OneMoves ==
  ASSUME RepairPaymentInv, [RepairPaymentNext]_repairPaymentVars
  PROVE  OneRepairMoves
<1> USE DEF RepairPaymentInv, OrderInv
<1>1. ASSUME [VendorPaymentNext]_vendorPaymentVars, UNCHANGED <<tossVars, orderVars>>
      PROVE  OneRepairMoves
  <2>1. \A s \in Repairs : Captured(s)' = Captured(s)
    BY <1>1 DEF Captured, tossVars, orderVars
  <2>2. \/ \E r \in Repairs : Moves(r) /\ \A s \in Repairs \ {r} : Stays(s)
        \/ \A s \in Repairs : Stays(s)
    BY <1>1, NextMoves DEF VendorPaymentInv
  <2> QED
    BY <2>1, <2>2 DEF OneRepairMoves, CardMoves, Same, Stays
<1>2. ASSUME NEW o \in Orders, Capture(o), UNCHANGED <<vendorPaymentVars, orderVars>>
      PROVE  OneRepairMoves
  <2>1. PICK r : r = orderOf[o]
    OBVIOUS
  <2>2. r \in Repairs
    BY <1>2, <2>1
       DEF Capture, Process, ProviderInv, ProviderOK, Begun, OrderRows
  <2>3. /\ payment'[o] = "DONE" /\ \A p \in Orders \ {o} : payment'[p] = payment[p]
        /\ UNCHANGED <<status, report, decision, linked, orderOf>>
    BY <1>2 DEF Capture, Process, ProviderInv, vendorPaymentVars, orderVars
  <2>4. o \in Captured(r)'
    BY <2>1, <2>3 DEF Captured
  <2>5. \A s \in Repairs \ {r} : Same(s)
    BY <2>1, <2>3, SameIfUntouched
  <2> QED
    BY <2>2, <2>3, <2>4, <2>5 DEF OneRepairMoves, CardMoves
<1>3. ASSUME NEW o \in Orders, Refuse(o) \/ Expire(o), UNCHANGED <<vendorPaymentVars, orderVars>>
      PROVE  OneRepairMoves
  <2>1. /\ \A p \in Orders : (payment'[p] = "DONE") <=> (payment[p] = "DONE")
        /\ UNCHANGED <<status, report, decision, linked, orderOf>>
    BY <1>3 DEF Refuse, Expire, Process, ProviderInv, vendorPaymentVars, orderVars
  <2> QED
    BY <2>1, SameIfUntouched DEF OneRepairMoves
<1>4. ASSUME NEW h \in Handlers, FinalizeOrder(h)
      PROVE  OneRepairMoves
  <2>1. PICK o \in Orders : o = handler[h].order /\ payment[o] = "DONE"
    BY <1>4 DEF FinalizeOrder, At, HandlerInv, PlaceOK
  <2>2. PICK r \in Repairs : r = orderOf[o]
    BY <1>4, <2>1 DEF FinalizeOrder, MayFinalize, LockOrderAndAuthority, OrderRows
  <2>3. /\ status' = [status EXCEPT ![r] = "TOSS_PAID"]
        /\ UNCHANGED <<report, decision, linked, orderOf, payment>>
    BY <1>4, <2>1, <2>2 DEF FinalizeOrder, workVars, tossVars
  <2>4. \A s \in Repairs \ {r} : Same(s)
    BY <2>3, SameIfUntouched DEF VendorPaymentInv, VendorPaymentTypeOK
  <2>5. o \in Captured(r) /\ o \in Captured(r)'
    BY <2>1, <2>2, <2>3 DEF Captured
  <2> QED
    BY <2>4, <2>5 DEF OneRepairMoves, CardMoves
<1>5. ASSUME UNCHANGED <<requestVars, workVars, payment>>,
             \A p \in Orders : orderOf'[p] = orderOf[p] \/ payment[p] # "DONE"
      PROVE  OneRepairMoves
  BY <1>5, SameIfUntouched DEF OneRepairMoves, requestVars, workVars
<1>6. ASSUME NEW o \in Orders, NEW r \in Repairs, NEW others, NewOrder(o, r, others)
      PROVE  OneRepairMoves
  <2>1. /\ UNCHANGED <<requestVars, workVars, payment>>
        /\ \A p \in Orders \ {o} : orderOf'[p] = orderOf[p]
        /\ orderStatus[o] = "NONE"
    BY <1>6 DEF NewOrder, tossVars, OrderRows
  <2>2. payment[o] # "DONE"
    BY <2>1 DEF ProviderInv, ProviderOK, Begun
  <2> QED
    BY <1>5, <2>1, <2>2
<1>7. CASE OrderStep
  <2>1. ASSUME NEW old \in Orders, NEW o \in Orders, RetryOrder(old, o)
        PROVE  OneRepairMoves
    <3>1. orderOf[old] \in Repairs
      BY <2>1 DEF RetryOrder, LockOrderAndAuthority, OrderRows
    <3> QED
      BY <1>6, <2>1, <3>1 DEF RetryOrder
  <2>2. ASSUME NEW o \in Orders, CancelOrder(o)
        PROVE  OneRepairMoves
    BY <1>5, <2>2 DEF CancelOrder, UpdateOrder, tossVars
  <2>3. ASSUME NEW r \in Repairs, ChangeAuthority(r)
        PROVE  OneRepairMoves
    BY <1>5, <2>3 DEF ChangeAuthority, vendorPaymentVars, requestVars, workVars, tossVars
  <2> QED
    BY <1>6, <1>7, <2>1, <2>2, <2>3 DEF OrderStep, CreateOrder
<1>8. ASSUME NEW h \in Handlers, HandlerStep(h)
      PROVE  OneRepairMoves
  <2>1. CASE UNCHANGED <<vendorPaymentVars, tossVars, orderStatus, orderOf, authority>>
    BY <1>5, <2>1 DEF vendorPaymentVars, requestVars, workVars, tossVars
  <2>2. ASSUME NEW o, NEW new, UpdateOrder(o, new), payment' = payment
        PROVE  OneRepairMoves
    BY <1>5, <2>2 DEF UpdateOrder
  <2>3. ASSUME NEW o \in Orders, ConfirmOrder(h, o) \/ ReconcileOrder(h, o)
        PROVE  OneRepairMoves
    BY <2>1, <2>2, <2>3 DEF ConfirmOrder, ReconcileOrder, SendConfirm
  <2>4. CASE MarkRejected(h) \/ MarkUncertain(h)
    BY <2>1, <2>2, <2>4 DEF MarkRejected, MarkUncertain, Mark, tossVars
  <2>5. CASE ReceiveAnswer(h) \/ FailToFinalize(h) \/ CutOff(h)
    BY <2>1, <2>5 DEF ReceiveAnswer, FailToFinalize, CutOff
  <2> QED
    BY <1>4, <1>8, <2>3, <2>4, <2>5 DEF HandlerStep
<1>9. CASE UNCHANGED repairPaymentVars
  BY <1>1, <1>9 DEF repairPaymentVars
<1> QED
  BY <1>1, <1>2, <1>3, <1>7, <1>8, <1>9 DEF RepairPaymentNext, TossNext

(* Such a step is one of the obligation.                                   *)
LEMMA CardMovesObligation ==
  ASSUME RepairPaymentInv, RepairPaymentInv', NEW r \in Repairs, CardMoves(r)
  PROVE  \/ CardDue(r)' = CardDue(r) /\ CardGone(r)' = CardGone(r)
         \/ CardDue(r) = "unapproved" /\ CardDue(r)' = "open" /\ CardGone(r)' = 0
         \/ CardDue(r) = "open" /\ CardDue(r)' = "settled" /\ CardGone(r)' = Amount[r]
         \/ CardDue(r) = "open" /\ CardDue(r)' = "closed" /\ CardGone(r)' = 0
         \/ CardDue(r) = "settled" /\ CardDue(r)' = "closed" /\ CardGone(r)' = 0
<1>1. /\ CardDue(r) = IF Captured(r) # {} THEN "settled" ELSE DueOf(r)
      /\ Captured(r) = {} => status[r] # "TOSS_PAID"
  BY CardByCapture DEF CapturesCount, CaptureCounts
<1>2. /\ CardDue(r)' = IF Captured(r)' # {} THEN "settled" ELSE DueOf(r)'
      /\ Captured(r)' # {} => status'[r] \in Payable \union {"TOSS_PAID"}
  <2>1. CapturesCount'
    BY CardByCapture, PTL
  <2>2. Payable' = Payable
    BY DEF Payable
  <2> QED
    BY <2>1, <2>2 DEF CapturesCount, CaptureCounts
<1>3. CardGone(r)' = IF Captured(r)' # {} THEN Amount[r] ELSE Gone(r)'
  BY DEF CardGone
<1>4. CASE Captured(r)' # {} /\ Captured(r) # {}
  BY <1>1, <1>2, <1>3, <1>4 DEF CardGone
<1>5. CASE Captured(r)' # {} /\ Captured(r) = {}
  <2>1. status[r] \in Payable
    BY <1>1, <1>2, <1>5 DEF CardMoves
  <2> QED
    BY <1>1, <1>2, <1>3, <1>5, <2>1, DueByStatus
<1>6. CASE Captured(r)' = {} /\ Captured(r) = {}
  BY <1>1, <1>2, <1>3, <1>6, MovesObligation DEF CardMoves, CardGone
<1>7. Captured(r)' = {} => Captured(r) = {}
  BY DEF CardMoves
<1> QED
  BY <1>4, <1>5, <1>6, <1>7

LEMMA SameObligation ==
  ASSUME RepairPaymentInv, RepairPaymentInv', NEW s \in Repairs, Same(s)
  PROVE  CardDue(s)' = CardDue(s) /\ CardGone(s)' = CardGone(s)
  BY DEF Same, CardDue, CardGone, Gone, CreditPaid, Payable

LEMMA CardNextObligation ==
  ASSUME RepairPaymentInv, RepairPaymentInv', OneRepairMoves
  PROVE  [CardObligation!Next]_(CardObligation!obligationVars)
<1> DEFINE Due == [r \in Repairs |-> CardDue(r)]
           Out == [r \in Repairs |-> CardOutflow(r)]
<1>1. CapturesCount /\ CapturesCount'
  BY CardByCapture, PTL
<1>2. /\ Out = [r \in Repairs |-> CardGone(r)] /\ Out' = [r \in Repairs |-> CardGone(r)']
      /\ Due = [r \in Repairs |-> CardDue(r)] /\ Due' = [r \in Repairs |-> CardDue(r)']
  BY <1>1 DEF CapturesCount, CaptureCounts
<1>3. [CardObligation!Next]_(CardObligation!obligationVars) <=>
        \/ \E r \in Repairs :
             \E d, o :
               /\ Due' = [Due EXCEPT ![r] = d] /\ Out' = [Out EXCEPT ![r] = o]
               /\ \/ Due[r] = "unapproved" /\ d = "open" /\ o = 0
                  \/ Due[r] = "open" /\ d = "settled" /\ o = Amount[r]
                  \/ Due[r] = "open" /\ d = "closed" /\ o = 0
                  \/ Due[r] = "settled" /\ d = "closed" /\ o = 0
        \/ Due' = Due /\ Out' = Out
  BY DEF CardObligation!Next, CardObligation!obligationVars, CardObligation!Approve,
         CardObligation!Settle, CardObligation!Cancel, CardObligation!TakeBack,
         CardObligation!Become, CardOutflow, CardDue, Outflow
<1> HIDE DEF Due, Out
<1>4. ASSUME NEW r \in Repairs, CardMoves(r), \A s \in Repairs \ {r} : Same(s)
      PROVE  \/ Due' = Due /\ Out' = Out
             \/ \E d, o :
                  /\ Due' = [Due EXCEPT ![r] = d] /\ Out' = [Out EXCEPT ![r] = o]
                  /\ \/ Due[r] = "unapproved" /\ d = "open" /\ o = 0
                     \/ Due[r] = "open" /\ d = "settled" /\ o = Amount[r]
                     \/ Due[r] = "open" /\ d = "closed" /\ o = 0
                     \/ Due[r] = "settled" /\ d = "closed" /\ o = 0
  <2>1. \A s \in Repairs \ {r} : CardDue(s)' = CardDue(s) /\ CardGone(s)' = CardGone(s)
    BY <1>4, SameObligation
  <2>2. /\ CardDue(r)' = CardDue(r) /\ CardGone(r)' = CardGone(r) => Due' = Due /\ Out' = Out
        /\ Due' = [Due EXCEPT ![r] = CardDue(r)'] /\ Out' = [Out EXCEPT ![r] = CardGone(r)']
        /\ Due[r] = CardDue(r)
    BY <1>2, <2>1
  <2> QED
    BY <1>4, <2>2, CardMovesObligation
<1>5. ASSUME \A s \in Repairs : Same(s)
      PROVE  Due' = Due /\ Out' = Out
  <2>1. \A s \in Repairs : CardDue(s)' = CardDue(s) /\ CardGone(s)' = CardGone(s)
    BY <1>5, SameObligation
  <2> QED
    BY <1>2, <2>1
<1> QED
  BY <1>3, <1>4, <1>5 DEF OneRepairMoves

LEMMA CardInitObligation ==
  RepairPaymentInit /\ RepairPaymentInv => CardObligation!Init
<1> SUFFICES ASSUME RepairPaymentInit, RepairPaymentInv
             PROVE  CardObligation!Init
  OBVIOUS
<1>1. ASSUME NEW r \in Repairs PROVE CardDue(r) = "unapproved" /\ CardOutflow(r) = 0
  <2>1. status[r] = "NONE" /\ report[r] = 0 /\ Captured(r) = {}
    BY DEF RepairPaymentInit, VendorPaymentInit, TossInit, Captured
  <2>2. ~ Settleable(r) /\ Gone(r) = 0
    BY <2>1 DEF Settleable, Gone, CreditPaid
  <2> QED
    BY <2>1, <2>2, DueByStatus, CardByCapture DEF CapturesCount, CaptureCounts, CardGone
<1> QED
  BY <1>1 DEF CardObligation!Init, CardOutflow, CardDue, Outflow

(***************************************************************************)
(* The theorems about card payment.                                        *)
(***************************************************************************)
(* The inductive invariant holds whatever handlers, restarts, answers and  *)
(* other settlements are interleaved.                                      *)
THEOREM RepairPaymentInvHolds ==
  RepairPaymentSpec => []RepairPaymentInv
  BY RepairPaymentInitInv, RepairPaymentNextInv, PTL DEF RepairPaymentSpec

(* Rows, payments and handlers hold the values the code gives them, and a  *)
(* request's open key is held by its one active order.                     *)
THEOREM OrdersTypeCorrect ==
  RepairPaymentSpec => []RepairPaymentTypeOK
  BY OrderProperties, RepairPaymentInvHolds, PTL

(* Money the provider has captured can be booked until it is, whatever     *)
(* else was tried on the request meanwhile.                                *)
THEOREM CaptureIsNeverStranded ==
  RepairPaymentSpec => []CapturedMoneyCanBeBooked
  BY OrderProperties, RepairPaymentInvHolds, PTL

(* A request is paid by card exactly when one of its orders is approved,   *)
(* and that order alone was captured.                                      *)
THEOREM TossPaidIsCaptured ==
  RepairPaymentSpec => []TossPaidMatchesCapture
  BY OrderProperties, RepairPaymentInvHolds, PTL

(* A payer told that an order failed or was cancelled may pay again: that  *)
(* order is never captured afterwards.                                     *)
THEOREM GivenUpIsUnpaid ==
  RepairPaymentSpec => []GivenUpOrdersStayUnpaid
  BY OrderProperties, RepairPaymentInvHolds, PTL

(* By account, by transfer or by card, the money for a repair leaves once, *)
(* counted from the provider's capture and not from its booking.           *)
THEOREM CardObligationIsKept ==
  RepairPaymentSpec => PaidAtMostOnceWithCard
<1>1. RepairPaymentInit => CardObligation!Init
  BY RepairPaymentInitInv, CardInitObligation
<1>2. RepairPaymentInv /\ RepairPaymentInv' /\ [RepairPaymentNext]_repairPaymentVars
        => [CardObligation!Next]_(CardObligation!obligationVars)
  BY OneMoves, CardNextObligation
<1> QED
  BY <1>1, <1>2, RepairPaymentInvHolds, PTL
     DEF RepairPaymentSpec, PaidAtMostOnceWithCard, CardObligation!Spec

(* The account still implements its ledger: a card payment posts nothing.  *)
THEOREM LedgerIsKeptWithCard ==
  RepairPaymentSpec => LedgerPromise
<1>1. RepairPaymentInit => Promise!WellFormed
  BY InitLedger DEF RepairPaymentInit, LedgerInv
<1>2. ASSUME RepairPaymentInv, [RepairPaymentNext]_repairPaymentVars
      PROVE  [Promise!Post]_(Promise!accountVars)
  <2>1. CASE VendorPaymentNext
    BY <1>2, <2>1, NextLedger DEF RepairPaymentInv, VendorPaymentInv, Promise!accountVars
  <2>2. CASE UNCHANGED ledgerVars
    BY <2>2 DEF ledgerVars, Promise!accountVars
  <2>3. CASE OrderStep
    BY <2>2, <2>3 DEF OrderStep, CreateOrder, RetryOrder, NewOrder, CancelOrder, UpdateOrder,
                      ChangeAuthority, vendorPaymentVars, ledgerVars
  <2>4. ASSUME NEW h \in Handlers, HandlerStep(h)  PROVE UNCHANGED ledgerVars
    BY <2>4 DEF HandlerStep, ConfirmOrder, ReconcileOrder, ReceiveAnswer, FinalizeOrder,
                FailToFinalize, MarkRejected, MarkUncertain, Mark, CutOff, UpdateOrder,
                vendorPaymentVars, ledgerVars
  <2>5. CASE (TossNext /\ UNCHANGED vendorPaymentVars) \/ UNCHANGED repairPaymentVars
    BY <2>2, <2>5 DEF repairPaymentVars, vendorPaymentVars, ledgerVars
  <2> QED
    BY <1>2, <2>1, <2>2, <2>3, <2>4, <2>5 DEF RepairPaymentNext
<1> QED
  BY <1>1, <1>2, RepairPaymentInvHolds, PTL DEF RepairPaymentSpec, LedgerPromise, Promise!Spec

(* Everything proved of a request and of the account by themselves holds   *)
(* next to card orders too, those of the request's own payment included.   *)
THEOREM RequestStaysTrueWithCard ==
  RepairPaymentSpec =>
    [](/\ StatusMatchesLedger /\ BooksMatchPayment /\ OnlyApprovedWorkIsPaid
       /\ PaymentAnnouncedOnce /\ BalanceMatchesPayments)
<1>1. RepairPaymentInv => /\ StatusMatchesLedger /\ BooksMatchPayment /\ OnlyApprovedWorkIsPaid
                          /\ PaymentAnnouncedOnce /\ BalanceMatchesPayments
  BY BooksCount DEF RepairPaymentInv, VendorPaymentInv, LedgerInv, WorkInv, MoneyInv, BalanceInv
<1> QED
  BY <1>1, RepairPaymentInvHolds, PTL
===========================================================================
