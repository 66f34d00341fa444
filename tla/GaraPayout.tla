---------------------------- MODULE GaraPayout ----------------------------
(***************************************************************************)
(* Payouts to vendors registered for Gara, debited from the manager's      *)
(* credit: by the manager, by a request anyone may send, which is paid at  *)
(* once when the policy and the balance allow and waits for the manager    *)
(* otherwise, or by a linked top-up (CreditTopup).                         *)
(*                                                                         *)
(* Each action is one Serializable transaction of the credit command       *)
(* repository. A payout is named by its idempotency key; a call that finds *)
(* the key taken is a replay or a conflict and changes nothing.            *)
(***************************************************************************)
EXTENDS CreditLedger, FiniteSets

CONSTANTS
  Registrations,           \* ManagerVendor rows with a settlement account number
  PayoutKeys,              \* idempotency keys of payouts clients ask for
  PayoutOrder,             \* [PayoutKeys -> [to, amount]]: what is asked under each
  SettleKeys,              \* idempotency keys the manager settles a waiting payout with
  TopupKeys                \* top-up orders, whose payouts are named after them

ASSUME PayoutOrderAssumption ==
  PayoutOrder \in [PayoutKeys -> [to : Registrations, amount : Nat \ {0}]]
ASSUME PayoutNamesAssumption == PayoutKeys \intersect TopupKeys = {}

VARIABLES
  registered,              \* ManagerVendor.status is ACTIVE and the vendor is active
  payout,                  \* GaraVendorPayoutRequest.status, "NONE" when there is no row
  payoutEntry              \* GaraVendorPayoutRequest.ledgerEntryId, 0 for null

payoutVars == <<registered, payout, payoutEntry>>

Payouts == PayoutKeys \union TopupKeys

Record(p, newStatus, row) ==
  /\ payout' = [payout EXCEPT ![p] = newStatus]
  /\ payoutEntry' = [payoutEntry EXCEPT ![p] = row]

Ref(p) == <<"GARA_VENDOR_PAYOUT_REQUEST", p>>
LedgerKeys == {ledger[i].key : i \in DOMAIN ledger}

(* The manager pays a registered vendor. *)
CreateGaraVendorPayout(k) ==
  /\ payout[k] = "NONE"
  /\ registered[PayoutOrder[k].to]
  /\ Debit("MANUAL_DEBIT", PayoutOrder[k].amount, Ref(k), <<"gara-payout", k>>)
  /\ Record(k, "CREDIT_DEBITED", Len(ledger) + 1)
  /\ UNCHANGED <<registered, policy>>

CreatePublicGaraVendorPayoutRequest(k) ==
  /\ payout[k] = "NONE"
  /\ registered[PayoutOrder[k].to]
  /\ IF WithinPolicy(PayoutOrder[k].amount) /\ balance >= PayoutOrder[k].amount
       THEN /\ Debit("AUTO_DEBIT", PayoutOrder[k].amount, Ref(k), <<"gara-payout-auto", k>>)
            /\ Record(k, "CREDIT_DEBITED", Len(ledger) + 1)
       ELSE Record(k, "PENDING_APPROVAL", 0) /\ UNCHANGED ledgerVars
  /\ UNCHANGED <<registered, policy>>

(* Faulty: a payout already debited is settled once more. *)
SettlePayoutAgain(p, k) ==
  /\ payout[p] # "NONE"
  /\ <<"gara-payout-settle", k>> \notin LedgerKeys
  /\ Debit("MANUAL_DEBIT", PayoutOrder[p].amount, Ref(p), <<"gara-payout-settle", k>>)
  /\ Record(p, "CREDIT_DEBITED", Len(ledger) + 1)
  /\ UNCHANGED <<registered, policy>>

(* The ledger key is built from the settlement's key alone, so a key used  *)
(* for another payout is refused by the ledger's unique index.             *)
SettleGaraVendorPayout(p, k) ==
  /\ payout[p] = "PENDING_APPROVAL"
  /\ <<"gara-payout-settle", k>> \notin LedgerKeys
  /\ Debit("MANUAL_DEBIT", PayoutOrder[p].amount, Ref(p), <<"gara-payout-settle", k>>)
  /\ Record(p, "CREDIT_DEBITED", Len(ledger) + 1)
  /\ UNCHANGED <<registered, policy>>

(* Nothing in the code restores a registration that has a settlement       *)
(* account: only vendors of the catalog, which have none, are added again. *)
ArchiveRegistration(v) ==
  /\ registered[v]
  /\ registered' = [registered EXCEPT ![v] = FALSE]
  /\ UNCHANGED <<ledgerVars, policy, payout, payoutEntry>>

SaveAutoPayPolicy(limit) ==
  /\ SavePolicy(limit)
  /\ UNCHANGED <<ledgerVars, payoutVars>>

GaraPayoutInit ==
  /\ LedgerInit
  /\ registered = [v \in Registrations |-> TRUE]
  /\ payout = [p \in Payouts |-> "NONE"]
  /\ payoutEntry = [p \in Payouts |-> 0]

GaraPayoutNext ==
  \/ \E k \in PayoutKeys :
       \/ CreateGaraVendorPayout(k)
       \/ CreatePublicGaraVendorPayoutRequest(k)
       \/ \E s \in SettleKeys : SettleGaraVendorPayout(k, s)
  \/ \E v \in Registrations : ArchiveRegistration(v)
  \/ \E limit \in Limits \union {0} : SaveAutoPayPolicy(limit)

(***************************************************************************)
(* Properties (the specification they are checked of is CreditTopup).      *)
(***************************************************************************)
GaraPayoutTypeOK ==
  /\ balance \in 0..MaxBalance
  /\ policy \in Limits \union {0}
  /\ registered \in [Registrations -> BOOLEAN]
  /\ payout \in [Payouts -> {"NONE", "PENDING_APPROVAL", "CREDIT_DEBITED"}]
  /\ payoutEntry \in [Payouts -> Nat]

DebitsOf(p) == {i \in DOMAIN ledger : ledger[i].type \in Debits /\ ledger[i].ref = Ref(p)}

(* A vendor is paid out exactly once for each payout recorded as debited,  *)
(* by the row the payout points to and for the amount asked, and a payout  *)
(* that waits has cost nothing yet, whoever settles it under which key.    *)
PayoutsMatchLedger ==
  \A p \in Payouts :
    /\ payout[p] = "CREDIT_DEBITED" => DebitsOf(p) = {payoutEntry[p]}
    /\ payout[p] # "CREDIT_DEBITED" => DebitsOf(p) = {} /\ payoutEntry[p] = 0
    /\ p \in PayoutKeys => \A i \in DebitsOf(p) : ledger[i].amount = -PayoutOrder[p].amount
===========================================================================
