--------------------------- MODULE CreditLedger ---------------------------
(***************************************************************************)
(* One manager's prepaid credit account, the ledger rows behind it and the *)
(* policy for paying from it automatically, as the transactions of the     *)
(* credit repository change them. Accounts of different managers share no  *)
(* row, so one account stands for all.                                     *)
(*                                                                         *)
(* Every posting runs inside a Serializable transaction that the           *)
(* repository retries, so the conditional UPDATE of the balance and the    *)
(* INSERT of the row happen in one step.                                   *)
(***************************************************************************)
EXTENDS Integers, Sequences

CONSTANTS
  MaxBalance,              \* MAX_SAFE_CREDIT_BALANCE
  OpeningBalance,          \* what approved top-ups have left on the account at the start
  Limits                   \* limits a manager may set for automatic payment

ASSUME MaxBalanceAssumption == MaxBalance \in Nat
ASSUME OpeningBalanceAssumption == OpeningBalance \in 0..MaxBalance
ASSUME LimitsAssumption == Limits \subseteq Nat \ {0}

VARIABLES
  balance,                 \* CreditAccount.balance
  ledger,                  \* CreditLedgerEntry rows in commit order
  policy                   \* AutoPayPolicy: 0 always asks, n pays up to n automatically

ledgerVars == <<balance, ledger>>

Debits == {"AUTO_DEBIT", "MANUAL_DEBIT"}

(* A row: the signed amount, the balance it leaves, the type and id of     *)
(* what it refers to, its idempotency key and, for a reversal, the         *)
(* position of the row reversed.                                           *)
Row(type, amount, after, ref, key, reverses) ==
  [type |-> type, amount |-> amount, after |-> after,
   ref |-> ref, key |-> key, reverses |-> reverses]

(* balance + amount, refused when it would pass the safe maximum. *)
Credit(type, amount, ref, key, reverses) ==
  /\ balance <= MaxBalance - amount
  /\ balance' = balance + amount
  /\ ledger' = Append(ledger, Row(type, amount, balance + amount, ref, key, reverses))

(* Faulty: the UPDATE forgets to ask for a sufficient balance. *)
DebitUnguarded(type, amount, ref, key) ==
  /\ balance' = balance - amount
  /\ ledger' = Append(ledger, Row(type, -amount, balance - amount, ref, key, 0))

(* balance - amount, refused when the account does not hold it. *)
Debit(type, amount, ref, key) ==
  /\ balance >= amount
  /\ balance' = balance - amount
  /\ ledger' = Append(ledger, Row(type, -amount, balance - amount, ref, key, 0))

SavePolicy(limit) == policy' = limit

WithinPolicy(amount) == policy > 0 /\ amount <= policy

(* A new account, or one after its first approved top-up; a new account    *)
(* always asks.                                                            *)
LedgerInit ==
  /\ balance = OpeningBalance
  /\ ledger = IF OpeningBalance = 0 THEN << >>
              ELSE << Row("TOPUP", OpeningBalance, OpeningBalance,
                          <<"CREDIT_TOPUP_ORDER", "opening">>, <<"topup", "opening">>, 0) >>
  /\ policy = 0

Promise == INSTANCE AppendOnlyLedger
===========================================================================
