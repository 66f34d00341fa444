------------------------- MODULE AppendOnlyLedger -------------------------
(***************************************************************************)
(* What a manager's credit account promises to everyone who reads it: the  *)
(* ledger only grows, every row states the balance it left behind, the     *)
(* balance stays between zero and the safe maximum, no idempotency key is  *)
(* posted twice, a debit is reversed at most once and for exactly its own  *)
(* amount, and whatever a debit pays for is debited at most once.          *)
(*                                                                         *)
(* The database also states most of this as unique indexes, CHECKs and     *)
(* triggers. The components do not model those, save where a transaction   *)
(* has nothing else to rely on (GaraPayout's settlement key): that they    *)
(* implement this module shows that they keep the promise on their own.    *)
(***************************************************************************)
EXTENDS Integers, Sequences

CONSTANT MaxBalance        \* the largest balance an account may hold

VARIABLES
  balance,                 \* CreditAccount.balance
  ledger                   \* CreditLedgerEntry rows of the account, in commit order

accountVars == <<balance, ledger>>

Debits == {"AUTO_DEBIT", "MANUAL_DEBIT"}

BalanceBefore(i) == IF i = 1 THEN 0 ELSE ledger[i - 1].after

(* The row continues the balance of the rows before it. *)
Chained(i) ==
  /\ ledger[i].after = BalanceBefore(i) + ledger[i].amount
  /\ ledger[i].after \in 0..MaxBalance

(* The sign CHECK of the ledger table. *)
SignMatchesType(i) ==
  \/ ledger[i].type \in {"TOPUP", "REVERSAL"} /\ ledger[i].amount > 0
  \/ ledger[i].type \in Debits /\ ledger[i].amount < 0

(* The unique index on idempotencyKey. *)
FreshKey(i) == \A j \in 1..(i - 1) : ledger[j].key # ledger[i].key

(* The reversal trigger and the unique index on reversesLedgerEntryId. *)
ReversesOpenDebit(i) ==
  IF ledger[i].type = "REVERSAL"
    THEN /\ ledger[i].reverses \in 1..(i - 1)
         /\ ledger[ledger[i].reverses].type \in Debits
         /\ ledger[ledger[i].reverses].amount = -ledger[i].amount
         /\ \A j \in 1..(i - 1) : ledger[j].reverses # ledger[i].reverses
    ELSE ledger[i].reverses = 0

(* The partial unique index on the payment request a debit refers to. *)
FirstDebit(i) ==
  ledger[i].type \in Debits =>
    \A j \in 1..(i - 1) : ~ (ledger[j].type \in Debits /\ ledger[j].ref = ledger[i].ref)

RowOK(i) ==
  Chained(i) /\ SignMatchesType(i) /\ FreshKey(i) /\ ReversesOpenDebit(i) /\ FirstDebit(i)

WellFormed ==
  /\ \A i \in 1..Len(ledger) : RowOK(i)
  /\ balance = BalanceBefore(Len(ledger) + 1)

Post ==
  /\ Len(ledger') > Len(ledger)
  /\ \A i \in 1..Len(ledger) : ledger'[i] = ledger[i]
  /\ WellFormed'

Spec == WellFormed /\ [][Post]_accountVars
===========================================================================
