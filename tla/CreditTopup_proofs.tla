------------------------ MODULE CreditTopup_proofs ------------------------
(***************************************************************************)
(* What CreditTopup promises for any orders, payouts, registrations and    *)
(* idempotency keys, and for any number of service calls running at the    *)
(* same time: that the account is credited once for what was captured,     *)
(* that the payouts agree with the ledger, and that the ledger keeps the   *)
(* promise of AppendOnlyLedger. Last, that captured money is lost in one   *)
(* way only.                                                               *)
(***************************************************************************)
EXTENDS CreditTopup, CreditLedger_proofs, SequenceTheorems, FiniteSetTheorems

(***************************************************************************)
(* The inductive invariant. What the runs check does not say why a row's   *)
(* idempotency key is new: it needs every key the ledger has used to be    *)
(* known from the order or the payout it was made for. Nor does it say why *)
(* what a handler is about to book was captured: the handler remembers an  *)
(* answer, and a capture is final at the provider.                         *)
(***************************************************************************)
TopupRows ==
  [type : {"TOPUP"} \union Debits, amount : Int, after : Int,
   ref : {"CREDIT_TOPUP_ORDER", "GARA_VENDOR_PAYOUT_REQUEST"} \X (Orders \union Payouts \union {"opening"}),
   key : {"topup", "gara-topup-payout", "gara-payout", "gara-payout-auto", "gara-payout-settle"}
           \X (Orders \union PayoutKeys \union SettleKeys \union {"opening"}),
   reverses : {0}]

Places == [at : Points, order : Orders \union {NotLinked}]

CreditTopupTypeOK ==
  /\ GaraPayoutTypeOK
  /\ ledger \in Seq(TopupRows)
  /\ topup \in [Orders -> TopupStatuses]
  /\ events \subseteq Orders \X {"approved", "failed"}
  /\ handler \in [Handlers -> Places]
  /\ payment \in [Orders -> PaymentStatuses] /\ confirming \subseteq Orders

KeysRecorded ==
  \A i \in 1..Len(ledger) :
    /\ \A o \in Orders :
         ledger[i].key \in {<<"topup", o>>, <<"gara-topup-payout", o>>} => topup[o] = "APPROVED"
    /\ \A k \in PayoutKeys :
         ledger[i].key \in {<<"gara-payout", k>>, <<"gara-payout-auto", k>>} => payout[k] # "NONE"

CreditsInv ==
  \A o \in Orders :
    IF topup[o] = "APPROVED" THEN \E i \in Nat : CreditsOf(o) = {i} ELSE CreditsOf(o) = {}

ApprovedInv ==
  \A o \in Orders :
    /\ topup[o] = "APPROVED" =>
         payment[o] = "DONE" /\ (LinkedTo[o] # NotLinked => payout[o] = "CREDIT_DEBITED")
    /\ payout[o] # "NONE" => topup[o] = "APPROVED"

PlaceOK(p) ==
  /\ p.at # "IDLE" => p.order \in Orders
  /\ p.at = "FINALIZE" => payment[p.order] = "DONE"

HandlersInv == \A h \in Handlers : PlaceOK(handler[h])

PayoutsInv ==
  \A p \in Payouts :
    /\ payout[p] = "CREDIT_DEBITED" => DebitsOf(p) = {payoutEntry[p]}
    /\ payout[p] # "CREDIT_DEBITED" => DebitsOf(p) = {} /\ payoutEntry[p] = 0

(* Every row that refers to an order or a payout is of its amount.         *)
InFull(row) ==
  /\ \A p \in PayoutKeys :
       row.type \in Debits /\ row.ref = Ref(p) => row.amount = -PayoutOrder[p].amount
  /\ \A o \in Orders :
       /\ row.ref = OrderRef(o) => row.amount = TopupAmount[o]
       /\ row.type \in Debits /\ row.ref = Ref(o) => row.amount = -TopupAmount[o]

AmountsInv == \A i \in 1..Len(ledger) : InFull(ledger[i])

AccountInv == Promise!WellFormed /\ KeysRecorded /\ CreditsInv /\ PayoutsInv /\ AmountsInv

CreditTopupInv ==
  CreditTopupTypeOK /\ AccountInv /\ ApprovedInv /\ OneOutcomeTold /\ HandlersInv

(***************************************************************************)
(* What the ledger's rows say of orders and payouts.                       *)
(***************************************************************************)
(* Rows appended to the ledger count for what they refer to.               *)
LEMMA RowsAdded ==
  ASSUME NEW S, ledger \in Seq(S), ledger' \in Seq(S), Len(ledger) <= Len(ledger'),
         \A i \in 1..Len(ledger) : ledger'[i] = ledger[i]
  PROVE  /\ \A p \in Payouts : \A i : i \in DebitsOf(p)' <=>
              \/ i \in DebitsOf(p)
              \/ /\ i \in (Len(ledger) + 1)..Len(ledger')
                 /\ ledger'[i].type \in Debits /\ ledger'[i].ref = Ref(p)
         /\ \A o \in Orders : \A i : i \in CreditsOf(o)' <=>
              \/ i \in CreditsOf(o)
              \/ i \in (Len(ledger) + 1)..Len(ledger') /\ ledger'[i].ref = OrderRef(o)
<1>1. PICK n \in Nat, m \in Nat : n = Len(ledger) /\ m = Len(ledger')
  BY LenProperties
<1>2. /\ DOMAIN ledger = 1..n /\ DOMAIN ledger' = 1..m /\ n <= m
      /\ \A i \in 1..n : ledger'[i] = ledger[i]
  BY <1>1, LenProperties
<1>3. \A i : i \in 1..m <=> i \in 1..n \/ i \in (n + 1)..m
  BY <1>2
<1>4. ASSUME NEW p \in Payouts
      PROVE  \A i : i \in DebitsOf(p)' <=> \/ i \in DebitsOf(p)
                                           \/ /\ i \in (n + 1)..m
                                              /\ ledger'[i].type \in Debits /\ ledger'[i].ref = Ref(p)
  BY <1>2, <1>3 DEF DebitsOf, Ref, Debits
<1>5. ASSUME NEW o \in Orders
      PROVE  \A i : i \in CreditsOf(o)' <=> \/ i \in CreditsOf(o)
                                            \/ i \in (n + 1)..m /\ ledger'[i].ref = OrderRef(o)
  BY <1>2, <1>3 DEF CreditsOf, OrderRef
<1> QED
  BY <1>1, <1>4, <1>5

(* What a payout and an order refer to is told apart, and is a reference a *)
(* row may hold.                                                           *)
LEMMA References ==
  /\ \A p, q : Ref(p) = Ref(q) => p = q
  /\ \A o, q : OrderRef(o) = OrderRef(q) => o = q
  /\ \A o, p : OrderRef(o) # Ref(p)
  /\ \A p \in Payouts :
       Ref(p) \in {"CREDIT_TOPUP_ORDER", "GARA_VENDOR_PAYOUT_REQUEST"} \X (Orders \union Payouts \union {"opening"})
  /\ \A o \in Orders \union {"opening"} :
       OrderRef(o) \in {"CREDIT_TOPUP_ORDER", "GARA_VENDOR_PAYOUT_REQUEST"} \X (Orders \union Payouts \union {"opening"})
  BY DEF Ref, OrderRef

(* A step that posts nothing keeps it, as long as it approves no order and *)
(* at most lets a new payout wait.                                         *)
LEMMA NothingPosted ==
  ASSUME CreditTopupTypeOK, AccountInv, UNCHANGED ledgerVars,
         \A o \in Orders : topup'[o] = "APPROVED" <=> topup[o] = "APPROVED",
         \A p \in Payouts :
           /\ payoutEntry'[p] = payoutEntry[p]
           /\ payout'[p] = payout[p] \/ (payout[p] = "NONE" /\ payout'[p] = "PENDING_APPROVAL")
  PROVE  AccountInv'
<1>1. UNCHANGED <<balance, ledger>>
  BY DEF ledgerVars
<1>2. /\ \A p \in Payouts : DebitsOf(p)' = DebitsOf(p)
      /\ \A o \in Orders : CreditsOf(o)' = CreditsOf(o)
  BY <1>1 DEF DebitsOf, Ref, Debits, CreditsOf, OrderRef
<1>3. Promise!WellFormed'
  BY <1>1 DEF AccountInv, Promise!WellFormed, Promise!RowOK, Promise!Chained, Promise!BalanceBefore,
         Promise!SignMatchesType, Promise!FreshKey, Promise!ReversesOpenDebit, Promise!FirstDebit,
         Promise!Debits
<1>4. PayoutKeys \subseteq Payouts
  BY DEF Payouts
<1>5. KeysRecorded'
  BY <1>1, <1>4 DEF AccountInv, KeysRecorded
<1>6. CreditsInv'
  BY <1>2 DEF AccountInv, CreditsInv
<1>7. PayoutsInv'
  BY <1>2 DEF AccountInv, PayoutsInv, Payouts
<1>8. AmountsInv'
  BY <1>1 DEF AccountInv, AmountsInv, InFull, Ref, OrderRef, Debits
<1> QED
  BY <1>3, <1>5, <1>6, <1>7, <1>8 DEF AccountInv

(* One row is posted, of which only the payout or the order it refers to   *)
(* gets to know.                                                           *)
RowAdded(row) ==
  /\ ledger' \in Seq(TopupRows)
  /\ \A i \in 1..Len(ledger') : i \in 1..Len(ledger) \/ i = Len(ledger) + 1
  /\ \A i \in 1..Len(ledger) : ledger'[i] = ledger[i]
  /\ ledger'[Len(ledger) + 1] = row
  /\ \A p \in Payouts : DebitsOf(p)' =
       IF row.type \in Debits /\ row.ref = Ref(p) THEN DebitsOf(p) \union {Len(ledger) + 1} ELSE DebitsOf(p)
  /\ \A o \in Orders : CreditsOf(o)' =
       IF row.ref = OrderRef(o) THEN CreditsOf(o) \union {Len(ledger) + 1} ELSE CreditsOf(o)

LEMMA OneRowAdded ==
  ASSUME ledger \in Seq(TopupRows), NEW row \in TopupRows, ledger' = Append(ledger, row)
  PROVE  RowAdded(row)
<1>1. /\ ledger' \in Seq(TopupRows) /\ Len(ledger) \in Nat /\ Len(ledger') = Len(ledger) + 1
      /\ ledger'[Len(ledger) + 1] = row /\ \A i \in 1..Len(ledger) : ledger'[i] = ledger[i]
  BY AppendedRow
<1>2. (Len(ledger) + 1)..Len(ledger') = {Len(ledger) + 1} /\ Len(ledger) <= Len(ledger')
  BY <1>1
<1>3. /\ \A p \in Payouts : \A i : i \in DebitsOf(p)' <=>
           \/ i \in DebitsOf(p)
           \/ i = Len(ledger) + 1 /\ row.type \in Debits /\ row.ref = Ref(p)
      /\ \A o \in Orders : \A i : i \in CreditsOf(o)' <=>
           i \in CreditsOf(o) \/ (i = Len(ledger) + 1 /\ row.ref = OrderRef(o))
  BY <1>1, <1>2, RowsAdded
<1>4. /\ \A p \in Payouts : DebitsOf(p)' =
           IF row.type \in Debits /\ row.ref = Ref(p) THEN DebitsOf(p) \union {Len(ledger) + 1} ELSE DebitsOf(p)
      /\ \A o \in Orders : CreditsOf(o)' =
           IF row.ref = OrderRef(o) THEN CreditsOf(o) \union {Len(ledger) + 1} ELSE CreditsOf(o)
  BY <1>3
<1>5. \A i \in 1..Len(ledger') : i \in 1..Len(ledger) \/ i = Len(ledger) + 1
  BY <1>1
<1> QED
  BY <1>1, <1>4, <1>5 DEF RowAdded

(***************************************************************************)
(* The transactions that post.                                             *)
(***************************************************************************)
PayoutKeyNames == {"gara-payout", "gara-payout-auto", "gara-payout-settle"}

(* A payout not debited yet is debited, under a key the ledger has not     *)
(* seen.                                                                   *)
LEMMA PayoutDebited ==
  ASSUME CreditTopupInv, NEW p \in PayoutKeys, payout[p] # "CREDIT_DEBITED",
         NEW type \in Debits, NEW name \in PayoutKeyNames, NEW k \in PayoutKeys \union SettleKeys,
         name # "gara-payout-settle" => k = p,
         \A j \in 1..Len(ledger) : ledger[j].key # <<name, k>>,
         Debit(type, PayoutOrder[p].amount, Ref(p), <<name, k>>),
         Record(p, "CREDIT_DEBITED", Len(ledger) + 1),
         UNCHANGED <<registered, policy, tossVars, topupVars>>
  PROVE  CreditTopupInv' /\ Promise!Post
<1> DEFINE key == <<name, k>>
           amount == PayoutOrder[p].amount
           row == Row(type, -amount, balance - amount, Ref(p), key, 0)
           n == Len(ledger)
<1>1. /\ amount \in Nat \ {0} /\ p \in Payouts /\ \A o \in Orders : o # p /\ o \in Payouts
      /\ balance \in 0..MaxBalance /\ ledger \in Seq(TopupRows) /\ n \in Nat
      /\ payout \in [Payouts -> {"NONE", "PENDING_APPROVAL", "CREDIT_DEBITED"}]
      /\ payoutEntry \in [Payouts -> Nat]
  BY PayoutOrderAssumption, PayoutNamesAssumption, TopupKeysAssumption, LenProperties
     DEF Payouts, CreditTopupInv, CreditTopupTypeOK, GaraPayoutTypeOK
<1>2. row \in TopupRows /\ row.type = type /\ row.key = key /\ row.ref = Ref(p) /\ row.amount = -amount
  <2>1. Ref(p) \in {"CREDIT_TOPUP_ORDER", "GARA_VENDOR_PAYOUT_REQUEST"} \X (Orders \union Payouts \union {"opening"})
    BY <1>1, References
  <2>2. key \in {"topup", "gara-topup-payout", "gara-payout", "gara-payout-auto", "gara-payout-settle"}
           \X (Orders \union PayoutKeys \union SettleKeys \union {"opening"})
    BY DEF PayoutKeyNames
  <2>3. -amount \in Int /\ balance - amount \in Int
    BY <1>1, MaxBalanceAssumption
  <2> HIDE DEF key, amount
  <2> QED
    BY <2>1, <2>2, <2>3 DEF Row, TopupRows
<1>3. ledger' = Append(ledger, row) /\ balance' = balance - amount /\ balance >= amount
  BY DEF Debit
<1>4. \A j \in 1..n : ~ (ledger[j].type \in Debits /\ ledger[j].ref = Ref(p))
  <2>1. DebitsOf(p) = {}
    BY <1>1 DEF CreditTopupInv, AccountInv, PayoutsInv
  <2>2. DOMAIN ledger = 1..n
    BY <1>1, LenProperties
  <2> QED
    BY <2>1, <2>2 DEF DebitsOf
<1>5. Promise!Post
  BY <1>1, <1>2, <1>4, DebitPosts DEF CreditTopupInv, AccountInv
<1>6. InFull(row)
  <2>1. /\ \A q \in PayoutKeys : Ref(q) = Ref(p) => q = p
        /\ \A o \in Orders : OrderRef(o) # Ref(p) /\ Ref(o) # Ref(p)
    BY <1>1, References
  <2>2. row.type = type /\ row.ref = Ref(p) /\ row.amount = -PayoutOrder[p].amount
    BY <1>2
  <2> HIDE DEF row
  <2> QED
    BY <2>1, <2>2 DEF InFull
<1> HIDE DEF row, key, amount
<1>7. RowAdded(row)
  BY <1>1, <1>2, <1>3, OneRowAdded
<1>8. /\ payout' = [payout EXCEPT ![p] = "CREDIT_DEBITED"] /\ payout'[p] = "CREDIT_DEBITED"
      /\ payoutEntry' = [payoutEntry EXCEPT ![p] = n + 1] /\ payoutEntry'[p] = n + 1
      /\ \A q \in Payouts \ {p} : payout'[q] = payout[q] /\ payoutEntry'[q] = payoutEntry[q]
      /\ payout' \in [Payouts -> {"NONE", "PENDING_APPROVAL", "CREDIT_DEBITED"}]
      /\ payoutEntry' \in [Payouts -> Nat]
  BY <1>1 DEF Record
<1>9. UNCHANGED <<registered, policy, payment, confirming, topup, events, handler>>
  BY DEF tossVars, topupVars
<1>10. CreditTopupTypeOK'
  <2>1. balance' \in 0..MaxBalance
    BY <1>1, <1>3, MaxBalanceAssumption
  <2>2. GaraPayoutTypeOK'
    BY <1>8, <1>9, <2>1 DEF CreditTopupInv, CreditTopupTypeOK, GaraPayoutTypeOK, Payouts
  <2> QED
    BY <1>7, <1>9, <2>2 DEF CreditTopupInv, CreditTopupTypeOK, RowAdded, Places, TopupRows, Payouts, Debits,
       TopupStatuses, Confirmable, Points, PaymentStatuses
<1>11. KeysRecorded'
  <2>1. ASSUME NEW i \in 1..Len(ledger'), NEW o \in Orders,
               ledger'[i].key \in {<<"topup", o>>, <<"gara-topup-payout", o>>}
        PROVE  topup'[o] = "APPROVED"
    <3>1. i # n + 1
      BY <1>2, <1>7, <2>1 DEF RowAdded, key, PayoutKeyNames
    <3>2. i \in 1..n /\ ledger'[i] = ledger[i]
      BY <1>7, <3>1 DEF RowAdded
    <3> QED
      BY <1>9, <2>1, <3>2 DEF CreditTopupInv, AccountInv, KeysRecorded
  <2>2. ASSUME NEW i \in 1..Len(ledger'), NEW q \in PayoutKeys,
               ledger'[i].key \in {<<"gara-payout", q>>, <<"gara-payout-auto", q>>}
        PROVE  payout'[q] # "NONE"
    <3>1. q \in Payouts
      BY DEF Payouts
    <3>2. CASE i = n + 1
      <4>1. q = p
        BY <1>2, <1>7, <2>2, <3>2 DEF RowAdded, key, PayoutKeyNames
      <4> QED
        BY <1>8, <4>1
    <3>3. CASE i # n + 1
      <4>1. i \in 1..n /\ ledger'[i] = ledger[i]
        BY <1>7, <3>3 DEF RowAdded
      <4>2. payout[q] # "NONE"
        BY <2>2, <4>1 DEF CreditTopupInv, AccountInv, KeysRecorded
      <4> QED
        BY <1>8, <3>1, <4>2
    <3> QED
      BY <3>2, <3>3
  <2> QED
    BY <2>1, <2>2 DEF KeysRecorded
<1>12. CreditsInv'
  <2>1. \A o \in Orders : CreditsOf(o)' = CreditsOf(o)
    BY <1>2, <1>7, References DEF RowAdded
  <2> QED
    BY <1>9, <2>1 DEF CreditTopupInv, AccountInv, CreditsInv
<1>13. PayoutsInv'
  <2>1. DebitsOf(p) = {}
    BY <1>1 DEF CreditTopupInv, AccountInv, PayoutsInv
  <2>2. DebitsOf(p)' = {n + 1} /\ \A q \in Payouts \ {p} : DebitsOf(q)' = DebitsOf(q)
    BY <1>1, <1>2, <1>7, <2>1, References DEF RowAdded
  <2>3. \A q \in Payouts \ {p} :
          /\ payout[q] = "CREDIT_DEBITED" => DebitsOf(q) = {payoutEntry[q]}
          /\ payout[q] # "CREDIT_DEBITED" => DebitsOf(q) = {} /\ payoutEntry[q] = 0
    BY DEF CreditTopupInv, AccountInv, PayoutsInv
  <2>4. ASSUME NEW q \in Payouts
        PROVE  /\ payout'[q] = "CREDIT_DEBITED" => DebitsOf(q)' = {payoutEntry'[q]}
               /\ payout'[q] # "CREDIT_DEBITED" => DebitsOf(q)' = {} /\ payoutEntry'[q] = 0
    BY <1>8, <2>2, <2>3
  <2>5. Payouts' = Payouts
    BY DEF Payouts
  <2> QED
    BY <2>4, <2>5 DEF PayoutsInv
<1>14. Promise!WellFormed'
  BY <1>5 DEF Promise!Post
<1>15. ApprovedInv'
  BY <1>1, <1>8, <1>9 DEF CreditTopupInv, ApprovedInv
<1>16. OneOutcomeTold' /\ HandlersInv'
  BY <1>9 DEF CreditTopupInv, OneOutcomeTold, HandlersInv, PlaceOK
<1>17. AmountsInv'
  <2>1. \A i \in 1..n : InFull(ledger[i])
    BY DEF CreditTopupInv, AccountInv, AmountsInv
  <2>2. \A i \in 1..Len(ledger') : InFull(ledger'[i])
    BY <1>6, <1>7, <2>1 DEF RowAdded
  <2> QED
    BY <2>2 DEF AmountsInv, InFull, Ref, OrderRef, Debits
<1> QED
  BY <1>5, <1>17, <1>10, <1>11, <1>12, <1>13, <1>14, <1>15, <1>16 DEF CreditTopupInv, AccountInv

(* An order's money is booked: one credit for it, for a linked order a     *)
(* debited payout as well, and nothing for any other.                      *)
Booked(o) ==
  /\ Promise!Post
  /\ ledger' \in Seq(TopupRows) /\ balance' \in 0..MaxBalance
  /\ payout' \in [Payouts -> {"NONE", "PENDING_APPROVAL", "CREDIT_DEBITED"}]
  /\ payoutEntry' \in [Payouts -> Nat]
  /\ \A i \in 1..Len(ledger') :
       \/ i \in 1..Len(ledger) /\ ledger'[i] = ledger[i]
       \/ ledger'[i].key \in {<<"topup", o>>, <<"gara-topup-payout", o>>}
  /\ \E i \in Nat : CreditsOf(o)' = {i}
  /\ \A q \in Orders \ {o} : CreditsOf(q)' = CreditsOf(q)
  /\ \A p \in Payouts \ {o} : payout'[p] = payout[p]
  /\ LinkedTo[o] # NotLinked => payout'[o] = "CREDIT_DEBITED"
  /\ PayoutsInv' /\ AmountsInv'

(* Before that the ledger has nothing of an order.                         *)
LEMMA NothingBooked ==
  ASSUME CreditTopupInv, NEW o \in Orders, topup[o] # "APPROVED"
  PROVE  /\ CreditsOf(o) = {} /\ payout[o] = "NONE" /\ DebitsOf(o) = {} /\ o \in Payouts
         /\ \A j \in 1..Len(ledger) :
              ledger[j].key # <<"topup", o>> /\ ledger[j].key # <<"gara-topup-payout", o>>
<1>1. CreditsOf(o) = {} /\ payout[o] = "NONE" /\ o \in Payouts
  BY TopupKeysAssumption DEF CreditTopupInv, AccountInv, CreditsInv, ApprovedInv, Payouts
<1>2. DebitsOf(o) = {}
  BY <1>1 DEF CreditTopupInv, AccountInv, PayoutsInv
<1>3. \A j \in 1..Len(ledger) :
        ledger[j].key # <<"topup", o>> /\ ledger[j].key # <<"gara-topup-payout", o>>
  BY DEF CreditTopupInv, AccountInv, KeysRecorded
<1> QED
  BY <1>1, <1>2, <1>3

(* The two rows of an order are among those an account may hold.           *)
LEMMA TopupRow ==
  ASSUME NEW o \in Orders, NEW amount \in Int, NEW after \in Int
  PROVE  LET row == Row("TOPUP", amount, after, OrderRef(o), <<"topup", o>>, 0) IN
         /\ row \in TopupRows /\ row.type = "TOPUP" /\ row.amount = amount /\ row.after = after
         /\ row.ref = OrderRef(o) /\ row.key = <<"topup", o>> /\ row.reverses = 0
  BY DEF Row, TopupRows, OrderRef

LEMMA PayoutRow ==
  ASSUME NEW o \in Orders, NEW amount \in Int, NEW after \in Int
  PROVE  LET row == Row("MANUAL_DEBIT", amount, after, Ref(o), <<"gara-topup-payout", o>>, 0) IN
         /\ row \in TopupRows /\ row.type = "MANUAL_DEBIT" /\ row.amount = amount /\ row.after = after
         /\ row.ref = Ref(o) /\ row.key = <<"gara-topup-payout", o>> /\ row.reverses = 0
  BY DEF Row, TopupRows, Ref, Debits

(* They are of the order's amount.                                         *)
LEMMA TopupRowInFull ==
  ASSUME NEW o \in Orders, NEW row, row.ref = OrderRef(o), row.type = "TOPUP", row.amount = TopupAmount[o]
  PROVE  InFull(row)
<1>1. row.type \notin Debits
  BY DEF Debits
<1> QED
  BY <1>1, References DEF InFull

LEMMA PayoutRowInFull ==
  ASSUME NEW o \in Orders, NEW row, row.ref = Ref(o), row.amount = -TopupAmount[o]
  PROVE  InFull(row)
<1>1. /\ \A q \in PayoutKeys : Ref(q) # Ref(o)
      /\ \A q \in Orders : OrderRef(q) # Ref(o) /\ (Ref(q) = Ref(o) => q = o)
  BY References, PayoutNamesAssumption, TopupKeysAssumption
<1> QED
  BY <1>1 DEF InFull

(* Rows in full stay so when rows in full are added.                       *)
LEMMA AmountsKept ==
  ASSUME CreditTopupInv,
         \A i \in 1..Len(ledger') :
           (i \in 1..Len(ledger) /\ ledger'[i] = ledger[i]) \/ InFull(ledger'[i])
  PROVE  AmountsInv'
<1>1. \A i \in 1..Len(ledger') : InFull(ledger'[i])
  BY DEF CreditTopupInv, AccountInv, AmountsInv
<1> QED
  BY <1>1 DEF AmountsInv, InFull, Ref, OrderRef, Debits

LEMMA PlainBooked ==
  ASSUME CreditTopupInv, NEW o \in Orders, topup[o] # "APPROVED", LinkedTo[o] = NotLinked,
         Credit("TOPUP", TopupAmount[o], OrderRef(o), <<"topup", o>>, 0),
         UNCHANGED <<payout, payoutEntry>>
  PROVE  Booked(o)
<1> DEFINE n == Len(ledger)
<1>1. /\ TopupAmount[o] \in Nat \ {0} /\ balance \in 0..MaxBalance
      /\ ledger \in Seq(TopupRows) /\ n \in Nat /\ MaxBalance \in Nat
  BY TopupAmountAssumption, MaxBalanceAssumption, LenProperties
     DEF CreditTopupInv, CreditTopupTypeOK, GaraPayoutTypeOK
<1>2. PICK amount \in Nat \ {0} : amount = TopupAmount[o]
  BY <1>1
<1> DEFINE row == Row("TOPUP", amount, balance + amount, OrderRef(o), <<"topup", o>>, 0)
<1>3. row \in TopupRows /\ row.type = "TOPUP" /\ row.key = <<"topup", o>> /\ row.ref = OrderRef(o)
      /\ row.amount = TopupAmount[o]
  <2>1. balance + amount \in Int /\ amount \in Int
    BY <1>1
  <2> QED
    BY <1>2, <2>1, TopupRow
<1>4. ledger' = Append(ledger, row) /\ balance' = balance + amount /\ balance <= MaxBalance - amount
  BY <1>2 DEF Credit
<1>5. Promise!Post
  <2>1. Promise!WellFormed
    BY DEF CreditTopupInv, AccountInv
  <2>2. \A j \in 1..Len(ledger) : ledger[j].key # <<"topup", o>>
    BY NothingBooked
  <2>3. Credit("TOPUP", amount, OrderRef(o), <<"topup", o>>, 0)
    BY <1>2
  <2> QED
    BY <1>1, <1>3, <2>1, <2>2, <2>3, TopupPosts
<1> HIDE DEF row
<1>6. RowAdded(row)
  BY <1>1, <1>3, <1>4, OneRowAdded
<1>7. balance' \in 0..MaxBalance
  BY <1>1, <1>4
<1>8. \A i \in 1..Len(ledger') :
        (i \in 1..n /\ ledger'[i] = ledger[i]) \/ ledger'[i].key = <<"topup", o>>
  BY <1>3, <1>6 DEF RowAdded
<1>9. CreditsOf(o)' = {n + 1} /\ \A q \in Orders \ {o} : CreditsOf(q)' = CreditsOf(q)
  BY <1>3, <1>6, NothingBooked, References DEF RowAdded
<1>10. PayoutsInv'
  <2>1. \A p \in Payouts : DebitsOf(p)' = DebitsOf(p)
    BY <1>3, <1>6, References DEF RowAdded
  <2>2. Payouts' = Payouts
    BY DEF Payouts
  <2> QED
    BY <2>1, <2>2 DEF CreditTopupInv, AccountInv, PayoutsInv
<1>11. /\ payout' \in [Payouts -> {"NONE", "PENDING_APPROVAL", "CREDIT_DEBITED"}]
       /\ payoutEntry' \in [Payouts -> Nat]
  BY DEF CreditTopupInv, CreditTopupTypeOK, GaraPayoutTypeOK
<1>12. ledger' \in Seq(TopupRows) /\ n + 1 \in Nat
  BY <1>1, <1>6 DEF RowAdded
<1>13. AmountsInv'
  BY <1>3, <1>6, TopupRowInFull, AmountsKept DEF RowAdded
<1> QED
  BY <1>5, <1>7, <1>8, <1>9, <1>10, <1>11, <1>12, <1>13 DEF Booked

LEMMA LinkedBooked ==
  ASSUME CreditTopupInv, NEW o \in Orders, topup[o] # "APPROVED",
         balance <= MaxBalance - TopupAmount[o], CreditForPayout(o)
  PROVE  Booked(o)
<1> DEFINE n == Len(ledger)
<1>1. /\ TopupAmount[o] \in Nat \ {0} /\ balance \in 0..MaxBalance
      /\ ledger \in Seq(TopupRows) /\ n \in Nat /\ MaxBalance \in Nat
      /\ payout \in [Payouts -> {"NONE", "PENDING_APPROVAL", "CREDIT_DEBITED"}]
      /\ payoutEntry \in [Payouts -> Nat]
  BY TopupAmountAssumption, MaxBalanceAssumption, LenProperties
     DEF CreditTopupInv, CreditTopupTypeOK, GaraPayoutTypeOK
<1>2. PICK amount \in Nat \ {0} : amount = TopupAmount[o]
  BY <1>1
<1> DEFINE up == Row("TOPUP", amount, balance + amount, OrderRef(o), <<"topup", o>>, 0)
           down == Row("MANUAL_DEBIT", -amount, (balance + amount) - amount, Ref(o),
                       <<"gara-topup-payout", o>>, 0)
<1>3. /\ balance + amount \in 0..MaxBalance /\ (balance + amount) - amount = balance
      /\ (balance + amount) + (-amount) = balance /\ balance \in Int /\ amount \in Int /\ -amount \in Int
      /\ balance + amount \in Int
  BY <1>1, <1>2
<1>4. /\ up \in TopupRows /\ up.type = "TOPUP" /\ up.amount = amount /\ up.after = balance + amount
      /\ up.key = <<"topup", o>> /\ up.ref = OrderRef(o) /\ up.reverses = 0
  BY <1>3, TopupRow
<1>5. /\ down \in TopupRows /\ down.type = "MANUAL_DEBIT" /\ down.amount = -amount
      /\ down.after = balance /\ down.key = <<"gara-topup-payout", o>> /\ down.ref = Ref(o)
      /\ down.reverses = 0
  BY <1>3, PayoutRow
<1>6. /\ balance' = balance /\ ledger' = ledger \o <<up, down>>
      /\ payout' = [payout EXCEPT ![o] = "CREDIT_DEBITED"]
      /\ payoutEntry' = [payoutEntry EXCEPT ![o] = n + 2]
  BY <1>2 DEF CreditForPayout, Record
<1> HIDE DEF up, down
<1>7. DOMAIN ledger = 1..n /\ DebitsOf(o) = {} /\ o \in Payouts
  BY <1>1, NothingBooked, LenProperties
<1>8. MayFollow(up) /\ MayFollow(down)
  <2>1. \A j \in 1..n : ~ (ledger[j].type \in Debits /\ ledger[j].ref = Ref(o))
    BY <1>7 DEF DebitsOf
  <2>2. \A j \in 1..n : ledger[j].key # up.key /\ ledger[j].key # down.key
    BY <1>4, <1>5, NothingBooked
  <2>3. -amount < 0 /\ amount > 0
    OBVIOUS
  <2> QED
    BY <1>4, <1>5, <2>1, <2>2, <2>3 DEF MayFollow, Debits
<1>9. Promise!Post
  <2>1. up.key # down.key /\ down.type \in Debits
    BY <1>4, <1>5 DEF Debits
  <2>2. up.after \in 0..MaxBalance /\ down.after \in 0..MaxBalance
    BY <1>1, <1>3, <1>4, <1>5
  <2>3. up.after = balance + up.amount /\ down.after = up.after + down.amount /\ balance' = down.after
    BY <1>3, <1>4, <1>5, <1>6
  <2> QED
    BY <1>1, <1>4, <1>5, <1>6, <1>8, <2>1, <2>2, <2>3, PairPosts DEF CreditTopupInv, AccountInv
<1>10. /\ ledger' \in Seq(TopupRows) /\ Len(ledger') = n + 2
       /\ ledger'[n + 1] = up /\ ledger'[n + 2] = down /\ \A i \in 1..n : ledger'[i] = ledger[i]
  BY <1>1, <1>4, <1>5, <1>6, AppendedPair
<1>11. \A i \in 1..Len(ledger') : i \in 1..n \/ i = n + 1 \/ i = n + 2
  BY <1>1, <1>10
<1>12. /\ \A p \in Payouts : \A i : i \in DebitsOf(p)' <=>
            \/ i \in DebitsOf(p)
            \/ i \in {n + 1, n + 2} /\ ledger'[i].type \in Debits /\ ledger'[i].ref = Ref(p)
       /\ \A q \in Orders : \A i : i \in CreditsOf(q)' <=>
            i \in CreditsOf(q) \/ (i \in {n + 1, n + 2} /\ ledger'[i].ref = OrderRef(q))
  <2>1. n <= n + 2 /\ (n + 1)..(n + 2) = {n + 1, n + 2}
    BY <1>1
  <2> QED
    BY <1>1, <1>10, <2>1, RowsAdded
<1>13. n + 1 # n + 2
  BY <1>1
<1>14. DebitsOf(o)' = {n + 2} /\ \A p \in Payouts \ {o} : DebitsOf(p)' = DebitsOf(p)
  <2>1. \A i : i \in DebitsOf(o)' <=> i = n + 2
    BY <1>4, <1>5, <1>7, <1>10, <1>12, <1>13 DEF Debits
  <2>2. \A p \in Payouts \ {o} : \A i : i \in DebitsOf(p)' <=> i \in DebitsOf(p)
    BY <1>4, <1>5, <1>10, <1>12, References DEF Debits
  <2>3. DebitsOf(o)' = {n + 2}
    BY <2>1
  <2> QED
    BY <2>2, <2>3
<1>15. CreditsOf(o)' = {n + 1} /\ \A q \in Orders \ {o} : CreditsOf(q)' = CreditsOf(q)
  <2>1. \A i : i \in CreditsOf(o)' <=> i = n + 1
    BY <1>4, <1>5, <1>10, <1>12, <1>13, References, NothingBooked
  <2>2. \A q \in Orders \ {o} : \A i : i \in CreditsOf(q)' <=> i \in CreditsOf(q)
    BY <1>4, <1>5, <1>10, <1>12, References
  <2>3. CreditsOf(o)' = {n + 1}
    BY <2>1
  <2> QED
    BY <2>2, <2>3
<1>16. /\ payout'[o] = "CREDIT_DEBITED" /\ payoutEntry'[o] = n + 2
       /\ \A p \in Payouts \ {o} : payout'[p] = payout[p] /\ payoutEntry'[p] = payoutEntry[p]
       /\ payout' \in [Payouts -> {"NONE", "PENDING_APPROVAL", "CREDIT_DEBITED"}]
       /\ payoutEntry' \in [Payouts -> Nat]
  BY <1>1, <1>6, <1>7
<1>17. PayoutsInv'
  <2>1. \A p \in Payouts \ {o} :
          /\ payout[p] = "CREDIT_DEBITED" => DebitsOf(p) = {payoutEntry[p]}
          /\ payout[p] # "CREDIT_DEBITED" => DebitsOf(p) = {} /\ payoutEntry[p] = 0
    BY DEF CreditTopupInv, AccountInv, PayoutsInv
  <2>2. ASSUME NEW p \in Payouts
        PROVE  /\ payout'[p] = "CREDIT_DEBITED" => DebitsOf(p)' = {payoutEntry'[p]}
               /\ payout'[p] # "CREDIT_DEBITED" => DebitsOf(p)' = {} /\ payoutEntry'[p] = 0
    BY <1>14, <1>16, <2>1
  <2>3. Payouts' = Payouts
    BY DEF Payouts
  <2> QED
    BY <2>2, <2>3 DEF PayoutsInv
<1>18. \A i \in 1..Len(ledger') :
         \/ i \in 1..n /\ ledger'[i] = ledger[i]
         \/ ledger'[i].key \in {<<"topup", o>>, <<"gara-topup-payout", o>>}
  BY <1>4, <1>5, <1>10, <1>11
<1>19. n + 1 \in Nat
  BY <1>1
<1>20. AmountsInv'
  <2>1. InFull(up) /\ InFull(down)
    BY <1>2, <1>4, <1>5, TopupRowInFull, PayoutRowInFull
  <2> QED
    BY <1>10, <1>11, <2>1, AmountsKept
<1> QED
  BY <1>1, <1>6, <1>9, <1>10, <1>15, <1>16, <1>17, <1>18, <1>19, <1>20 DEF Booked

(***************************************************************************)
(* Every step.                                                             *)
(***************************************************************************)
Kept == CreditTopupInv' /\ (Promise!Post \/ UNCHANGED ledgerVars)

(* A handler moves on with an order, or is done with it.                   *)
LEMMA HandlerMoves ==
  ASSUME CreditTopupTypeOK, HandlersInv, NEW h \in Handlers, NEW p \in Places,
         handler' = [handler EXCEPT ![h] = p], PlaceOK(p)',
         \A o \in Orders : payment[o] = "DONE" => payment'[o] = "DONE"
  PROVE  handler' \in [Handlers -> Places] /\ HandlersInv'
<1>1. handler' \in [Handlers -> Places]
  BY DEF CreditTopupTypeOK
<1>2. ASSUME NEW g \in Handlers  PROVE PlaceOK(handler[g])'
  <2>1. CASE g = h
    <3>1. handler'[g] = p
      BY <2>1 DEF CreditTopupTypeOK
    <3> QED
      BY <3>1 DEF PlaceOK
  <2>2. CASE g # h
    <3>1. handler'[g] = handler[g] /\ PlaceOK(handler[g])
      BY <2>2 DEF CreditTopupTypeOK, HandlersInv
    <3> QED
      BY <3>1 DEF PlaceOK
  <2> QED
    BY <2>1, <2>2
<1> QED
  BY <1>1, <1>2 DEF HandlersInv

LEMMA IdlePlace == Idle \in Places /\ PlaceOK(Idle) /\ PlaceOK(Idle)'
  BY DEF Idle, Places, PlaceOK, Points

LEMMA HandlersStand ==
  ASSUME CreditTopupTypeOK, HandlersInv, UNCHANGED handler,
         \A o \in Orders : payment[o] = "DONE" => payment'[o] = "DONE"
  PROVE  HandlersInv'
  BY DEF HandlersInv, PlaceOK

(* A step that posts nothing, moves no payout and approves no order.       *)
LEMMA StatusMoves ==
  ASSUME CreditTopupInv, UNCHANGED <<ledgerVars, policy, payoutVars>>,
         topup' \in [Orders -> TopupStatuses], events' \subseteq Orders \X {"approved", "failed"},
         payment' \in [Orders -> PaymentStatuses], confirming' \subseteq Orders,
         handler' \in [Handlers -> Places], HandlersInv', OneOutcomeTold',
         \A o \in Orders : topup'[o] = "APPROVED" <=> topup[o] = "APPROVED",
         \A o \in Orders : payment[o] = "DONE" => payment'[o] = "DONE"
  PROVE  Kept
<1>1. UNCHANGED <<balance, ledger, policy, registered, payout, payoutEntry>>
  BY DEF ledgerVars, payoutVars
<1>2. AccountInv'
  BY <1>1, NothingPosted DEF CreditTopupInv
<1>3. ApprovedInv'
  BY <1>1 DEF CreditTopupInv, ApprovedInv
<1>4. CreditTopupTypeOK'
  BY <1>1 DEF CreditTopupInv, CreditTopupTypeOK, GaraPayoutTypeOK, Payouts, TopupRows, Debits, Places, Points,
     TopupStatuses, Confirmable, PaymentStatuses
<1> QED
  BY <1>2, <1>3, <1>4 DEF CreditTopupInv, Kept

LEMMA OutcomesStand ==
  ASSUME OneOutcomeTold, UNCHANGED <<topup, events>>
  PROVE  OneOutcomeTold'
  BY DEF OneOutcomeTold

(* An order moves between statuses nobody is told of.                      *)
LEMMA SilentMove ==
  ASSUME CreditTopupInv, NEW o \in Orders, topup[o] \notin {"APPROVED", "FAILED"},
         NEW s \in TopupStatuses \ {"APPROVED", "FAILED"}, SetStatus(o, s), UNCHANGED events
  PROVE  /\ topup' \in [Orders -> TopupStatuses]
         /\ \A q \in Orders : topup'[q] = "APPROVED" <=> topup[q] = "APPROVED"
         /\ OneOutcomeTold'
<1>1. topup' = [topup EXCEPT ![o] = s] /\ topup \in [Orders -> TopupStatuses]
  BY DEF SetStatus, CreditTopupInv, CreditTopupTypeOK
<1>2. topup'[o] = s /\ \A q \in Orders \ {o} : topup'[q] = topup[q]
  BY <1>1
<1>3. OneOutcomeTold'
  BY <1>2 DEF CreditTopupInv, OneOutcomeTold
<1> QED
  BY <1>1, <1>2, <1>3

(* Orders are created and cancelled.                                       *)
LEMMA TopupStepKept ==
  ASSUME CreditTopupInv, TopupStep
  PROVE  Kept
<1>1. PICK o \in Orders : CreateTopupOrder(o) \/ CreateGaraTopupOrder(o) \/ CancelReadyTopup(o)
  BY DEF TopupStep
<1>2. PICK s \in {"READY", "CANCELLED"} : topup[o] \in {"NONE", "READY"} /\ SetStatus(o, s)
  BY <1>1 DEF CreateTopupOrder, CreateGaraTopupOrder, CreateOrder, CancelReadyTopup
<1>3. UNCHANGED <<ledgerVars, policy, payoutVars, tossVars, events, handler>>
  BY <1>1 DEF CreateTopupOrder, CreateGaraTopupOrder, CreateOrder, CancelReadyTopup
<1>4. s \in TopupStatuses \ {"APPROVED", "FAILED"}
  BY DEF TopupStatuses
<1>5. /\ topup' \in [Orders -> TopupStatuses] /\ OneOutcomeTold'
      /\ \A q \in Orders : topup'[q] = "APPROVED" <=> topup[q] = "APPROVED"
  BY <1>2, <1>3, <1>4, SilentMove
<1>6. UNCHANGED <<payment, confirming>>
  BY <1>3 DEF tossVars
<1>7. HandlersInv'
  BY <1>3, <1>6, HandlersStand DEF CreditTopupInv
<1> QED
  BY <1>3, <1>5, <1>6, <1>7, StatusMoves DEF CreditTopupInv, CreditTopupTypeOK

(* The provider: a capture is final.                                       *)
LEMMA ProviderKept ==
  ASSUME CreditTopupInv, TossNext, UNCHANGED <<ledgerVars, policy, payoutVars, topupVars>>
  PROVE  Kept
<1>1. PICK o \in Orders : Capture(o) \/ Refuse(o) \/ Expire(o)
  BY DEF TossNext
<1>2. payment \in [Orders -> PaymentStatuses] /\ confirming \subseteq Orders
  BY DEF CreditTopupInv, CreditTopupTypeOK
<1>3. \/ payment[o] # "DONE" /\ \E s \in PaymentStatuses : payment' = [payment EXCEPT ![o] = s]
      \/ payment' = payment
  BY <1>1, <1>2 DEF Capture, Refuse, Expire, Process, PaymentStatuses
<1>4. /\ payment' \in [Orders -> PaymentStatuses] /\ confirming' \subseteq Orders
      /\ \A q \in Orders : payment[q] = "DONE" => payment'[q] = "DONE"
  BY <1>1, <1>2, <1>3 DEF Capture, Refuse, Expire, Process
<1>5. UNCHANGED <<topup, events, handler>>
  BY DEF topupVars
<1>6. HandlersInv' /\ OneOutcomeTold'
  BY <1>4, <1>5, HandlersStand, OutcomesStand DEF CreditTopupInv
<1> QED
  BY <1>4, <1>5, <1>6, StatusMoves DEF CreditTopupInv, CreditTopupTypeOK

(* A handler starts, waits, or is cut off.                                 *)
LEMMA HandlerKept ==
  ASSUME CreditTopupInv, NEW h \in Handlers, NEW p \in Places,
         handler' = [handler EXCEPT ![h] = p], PlaceOK(p)',
         UNCHANGED <<ledgerVars, policy, payoutVars, payment>>, confirming' \subseteq Orders,
         topup' \in [Orders -> TopupStatuses], events' \subseteq Orders \X {"approved", "failed"},
         OneOutcomeTold', \A o \in Orders : topup'[o] = "APPROVED" <=> topup[o] = "APPROVED"
  PROVE  Kept
<1>1. handler' \in [Handlers -> Places] /\ HandlersInv'
  BY HandlerMoves DEF CreditTopupInv
<1> QED
  BY <1>1, StatusMoves DEF CreditTopupInv, CreditTopupTypeOK

LEMMA HandlerStarts ==
  ASSUME CreditTopupInv, NEW h \in Handlers, NEW o \in Orders, ConfirmTopup(h, o) \/ ReconcileTopup(h, o)
  PROVE  Kept
<1>1. CASE ConfirmTopup(h, o)
  <2> DEFINE p == [at |-> "CONFIRM", order |-> o]
  <2>1. /\ topup[o] = "READY" /\ SetStatus(o, "CONFIRMING") /\ confirming' = confirming \union {o}
        /\ handler' = [handler EXCEPT ![h] = p]
        /\ UNCHANGED <<ledgerVars, policy, payoutVars, payment, events>>
    BY <1>1 DEF ConfirmTopup, SendConfirm, Goto
  <2>2. p \in Places /\ PlaceOK(p)'
    BY DEF Places, Points, PlaceOK
  <2>3. "CONFIRMING" \in TopupStatuses \ {"APPROVED", "FAILED"}
    BY DEF TopupStatuses, Confirmable
  <2>4. /\ topup' \in [Orders -> TopupStatuses] /\ OneOutcomeTold'
        /\ \A q \in Orders : topup'[q] = "APPROVED" <=> topup[q] = "APPROVED"
    BY <2>1, <2>3, SilentMove
  <2>5. confirming' \subseteq Orders /\ events' \subseteq Orders \X {"approved", "failed"}
    BY <2>1 DEF CreditTopupInv, CreditTopupTypeOK
  <2> HIDE DEF p
  <2> QED
    BY <2>1, <2>2, <2>4, <2>5, HandlerKept
<1>2. CASE ReconcileTopup(h, o)
  <2> DEFINE p == [at |-> "LOOKUP", order |-> o]
  <2>1. /\ handler' = [handler EXCEPT ![h] = p]
        /\ UNCHANGED <<ledgerVars, policy, payoutVars, payment, confirming, topup, events>>
    BY <1>2 DEF ReconcileTopup, Goto, tossVars
  <2>2. p \in Places /\ PlaceOK(p)'
    BY DEF Places, Points, PlaceOK
  <2> HIDE DEF p
  <2> QED
    BY <2>1, <2>2, OutcomesStand, HandlerKept DEF CreditTopupInv, CreditTopupTypeOK
<1> QED
  BY <1>1, <1>2

(* What the answer says of a capture was true when it was given, and still *)
(* is.                                                                     *)
LEMMA AnswerKept ==
  ASSUME CreditTopupInv, NEW h \in Handlers, ReceiveAnswer(h)
  PROVE  Kept
<1>1. PICK o : o = handler[h].order
  OBVIOUS
<1>2. o \in Orders
  BY <1>1 DEF ReceiveAnswer, At, CreditTopupInv, HandlersInv, PlaceOK
<1>3. PICK point \in {"FINALIZE", "REJECT", "UNCERTAIN"} :
        /\ handler' = [handler EXCEPT ![h] = [at |-> point, order |-> o]]
        /\ point = "FINALIZE" => payment[o] = "DONE"
  <2>1. CASE \E a \in ConfirmAnswers(o) : Goto(h, AfterConfirm(a), o)
    <3>1. PICK a \in ConfirmAnswers(o) : Goto(h, AfterConfirm(a), o)
      BY <2>1
    <3>2. /\ AfterConfirm(a) \in {"FINALIZE", "REJECT", "UNCERTAIN"}
          /\ AfterConfirm(a) = "FINALIZE" => a = "DONE"
      BY DEF AfterConfirm
    <3>3. a = "DONE" => payment[o] = "DONE"
      BY DEF ConfirmAnswers
    <3> QED
      BY <3>1, <3>2, <3>3 DEF Goto
  <2>2. CASE \E a \in LookupAnswers(o) : Goto(h, AfterLookup(a), o)
    <3>1. PICK a \in LookupAnswers(o) : Goto(h, AfterLookup(a), o)
      BY <2>2
    <3>2. /\ AfterLookup(a) \in {"FINALIZE", "REJECT", "UNCERTAIN"}
          /\ AfterLookup(a) = "FINALIZE" => a = "DONE"
      BY DEF AfterLookup
    <3>3. a = "DONE" => payment[o] = "DONE"
      BY DEF LookupAnswers
    <3> QED
      BY <3>1, <3>2, <3>3 DEF Goto
  <2> QED
    BY <1>1, <2>1, <2>2 DEF ReceiveAnswer
<1>4. UNCHANGED <<ledgerVars, policy, payoutVars, payment, confirming, topup, events>>
  BY DEF ReceiveAnswer, tossVars
<1> DEFINE p == [at |-> point, order |-> o]
<1>5. p \in Places /\ PlaceOK(p)'
  BY <1>2, <1>3, <1>4 DEF Places, Points, PlaceOK
<1>6. handler' = [handler EXCEPT ![h] = p]
  BY <1>3
<1> HIDE DEF p
<1> QED
  BY <1>4, <1>5, <1>6, OutcomesStand, HandlerKept DEF CreditTopupInv, CreditTopupTypeOK

(* A handler ends without an outcome: it cannot book, marks the order as   *)
(* unclear, or is cut off.                                                 *)
LEMMA HandlerEndsKept ==
  ASSUME CreditTopupInv, NEW h \in Handlers, FailToFinalize(h) \/ MarkTopupUncertain(h) \/ Crash(h)
  PROVE  Kept
<1>1. PICK o : o = handler[h].order
  OBVIOUS
<1>2. o \in Orders
  BY <1>1 DEF FailToFinalize, MarkTopupUncertain, Crash, At, CreditTopupInv, HandlersInv, PlaceOK
<1>3. UNCHANGED <<ledgerVars, policy, payoutVars, payment, confirming, events>>
  BY DEF FailToFinalize, MarkTopupUncertain, Crash, tossVars
<1>4. PICK p \in Places : handler' = [handler EXCEPT ![h] = p] /\ PlaceOK(p)'
  <2> DEFINE unclear == [at |-> "UNCERTAIN", order |-> o]
  <2>1. unclear \in Places /\ PlaceOK(unclear)'
    BY <1>2 DEF Places, Points, PlaceOK
  <2>2. handler' = [handler EXCEPT ![h] = Idle] \/ handler' = [handler EXCEPT ![h] = unclear]
    BY <1>1 DEF FailToFinalize, MarkTopupUncertain, Crash, Finish, Goto
  <2> HIDE DEF unclear
  <2> QED
    BY <2>1, <2>2, IdlePlace
<1>5. /\ topup' \in [Orders -> TopupStatuses] /\ OneOutcomeTold'
      /\ \A q \in Orders : topup'[q] = "APPROVED" <=> topup[q] = "APPROVED"
  <2>1. CASE UNCHANGED topup
    BY <1>3, <2>1, OutcomesStand DEF CreditTopupInv, CreditTopupTypeOK
  <2>2. CASE topup[o] = "CONFIRMING" /\ SetStatus(o, "RECONCILIATION_REQUIRED")
    <3>1. "RECONCILIATION_REQUIRED" \in TopupStatuses \ {"APPROVED", "FAILED"}
      BY DEF TopupStatuses, Confirmable
    <3> QED
      BY <1>2, <1>3, <2>2, <3>1, SilentMove
  <2> QED
    BY <1>1, <2>1, <2>2 DEF FailToFinalize, MarkTopupUncertain, Crash
<1> QED
  BY <1>3, <1>4, <1>5, HandlerKept DEF CreditTopupInv, CreditTopupTypeOK

(* A refusal ends an order that is still open, and says so.                *)
LEMMA RejectKept ==
  ASSUME CreditTopupInv, NEW h \in Handlers, MarkTopupRejected(h)
  PROVE  Kept
<1>1. PICK o : o = handler[h].order
  OBVIOUS
<1>2. o \in Orders
  BY <1>1 DEF MarkTopupRejected, At, CreditTopupInv, HandlersInv, PlaceOK
<1>3. UNCHANGED <<ledgerVars, policy, payoutVars, payment, confirming>> /\ handler' = [handler EXCEPT ![h] = Idle]
  BY DEF MarkTopupRejected, tossVars, Finish
<1>4. /\ topup' \in [Orders -> TopupStatuses] /\ OneOutcomeTold'
      /\ events' \subseteq Orders \X {"approved", "failed"}
      /\ \A q \in Orders : topup'[q] = "APPROVED" <=> topup[q] = "APPROVED"
  <2>1. CASE UNCHANGED <<topup, events>>
    BY <2>1, OutcomesStand DEF CreditTopupInv, CreditTopupTypeOK
  <2>2. CASE topup[o] \in Confirmable /\ SetStatus(o, "FAILED") /\ Enqueue(o, "failed")
    <3>1. /\ topup' = [topup EXCEPT ![o] = "FAILED"] /\ events' = events \union {<<o, "failed">>}
          /\ topup[o] \notin {"APPROVED", "FAILED"} /\ topup \in [Orders -> TopupStatuses]
      BY <2>2 DEF SetStatus, Enqueue, Confirmable, CreditTopupInv, CreditTopupTypeOK
    <3>2. "FAILED" \in TopupStatuses
      BY DEF TopupStatuses
    <3>3. topup'[o] = "FAILED" /\ \A q \in Orders \ {o} : topup'[q] = topup[q]
      BY <1>2, <3>1
    <3>4. OneOutcomeTold'
      <4>1. ASSUME NEW q \in Orders
            PROVE  {c \in {"approved", "failed"} : <<q, c>> \in events'} =
                      CASE topup'[q] = "APPROVED" -> {"approved"}
                        [] topup'[q] = "FAILED" -> {"failed"}
                        [] OTHER -> {}
        BY <1>2, <3>1, <3>3 DEF CreditTopupInv, OneOutcomeTold
      <4> QED
        BY <4>1 DEF OneOutcomeTold
    <3> QED
      BY <1>2, <3>1, <3>2, <3>3, <3>4 DEF CreditTopupInv, CreditTopupTypeOK
  <2> QED
    BY <1>1, <2>1, <2>2 DEF MarkTopupRejected
<1> QED
  BY <1>3, <1>4, IdlePlace, HandlerKept DEF CreditTopupInv, CreditTopupTypeOK

(* A captured order is booked, approved and told of.                       *)
LEMMA FinalizeKept ==
  ASSUME CreditTopupInv, NEW h \in Handlers, FinalizeTopup(h)
  PROVE  Kept
<1>1. PICK o : o = handler[h].order
  OBVIOUS
<1>2. o \in Orders /\ payment[o] = "DONE"
  BY <1>1 DEF FinalizeTopup, At, CreditTopupInv, HandlersInv, PlaceOK
<1>3. /\ topup[o] \in Confirmable /\ balance <= MaxBalance - TopupAmount[o]
      /\ SetStatus(o, "APPROVED") /\ Enqueue(o, "approved")
      /\ handler' = [handler EXCEPT ![h] = Idle]
      /\ UNCHANGED <<policy, registered, payment, confirming>>
  BY <1>1 DEF FinalizeTopup, MayFinalize, Finish, tossVars
<1>4. topup[o] \notin {"APPROVED", "FAILED"}
  BY <1>3 DEF Confirmable
<1>5. Booked(o)
  BY <1>1, <1>2, <1>3, <1>4, PlainBooked, LinkedBooked DEF FinalizeTopup
<1>6. /\ topup' \in [Orders -> TopupStatuses]
      /\ topup'[o] = "APPROVED" /\ \A q \in Orders \ {o} : topup'[q] = topup[q]
  BY <1>2, <1>3 DEF SetStatus, CreditTopupInv, CreditTopupTypeOK, TopupStatuses
<1>7. events' = events \union {<<o, "approved">>} /\ events' \subseteq Orders \X {"approved", "failed"}
  BY <1>2, <1>3 DEF Enqueue, CreditTopupInv, CreditTopupTypeOK
<1>8. handler' \in [Handlers -> Places] /\ HandlersInv'
  BY <1>3, IdlePlace, HandlerMoves DEF CreditTopupInv
<1>9. CreditTopupTypeOK'
  <2>1. GaraPayoutTypeOK'
    BY <1>3, <1>5 DEF Booked, CreditTopupInv, CreditTopupTypeOK, GaraPayoutTypeOK, Payouts
  <2> QED
    BY <1>3, <1>5, <1>6, <1>7, <1>8, <2>1
       DEF Booked, CreditTopupInv, CreditTopupTypeOK, Payouts, TopupRows, Debits, Places, Points, TopupStatuses,
           Confirmable, PaymentStatuses
<1>10. OneOutcomeTold'
  <2>1. ASSUME NEW q \in Orders
        PROVE  {c \in {"approved", "failed"} : <<q, c>> \in events'} =
                  CASE topup'[q] = "APPROVED" -> {"approved"}
                    [] topup'[q] = "FAILED" -> {"failed"}
                    [] OTHER -> {}
    BY <1>2, <1>4, <1>6, <1>7 DEF CreditTopupInv, OneOutcomeTold
  <2> QED
    BY <2>1 DEF OneOutcomeTold
<1>11. ApprovedInv'
  <2>1. \A q \in Orders : q \in Payouts
    BY TopupKeysAssumption DEF Payouts
  <2> QED
    BY <1>2, <1>3, <1>5, <1>6, <2>1 DEF Booked, CreditTopupInv, ApprovedInv
<1>12. KeysRecorded'
  <2>1. ASSUME NEW i \in 1..Len(ledger'), NEW q \in Orders,
               ledger'[i].key \in {<<"topup", q>>, <<"gara-topup-payout", q>>}
        PROVE  topup'[q] = "APPROVED"
    <3>1. CASE i \in 1..Len(ledger) /\ ledger'[i] = ledger[i]
      BY <1>6, <2>1, <3>1 DEF CreditTopupInv, AccountInv, KeysRecorded
    <3>2. CASE ledger'[i].key \in {<<"topup", o>>, <<"gara-topup-payout", o>>}
      BY <1>6, <2>1, <3>2
    <3> QED
      BY <1>5, <3>1, <3>2 DEF Booked
  <2>2. ASSUME NEW i \in 1..Len(ledger'), NEW k \in PayoutKeys,
               ledger'[i].key \in {<<"gara-payout", k>>, <<"gara-payout-auto", k>>}
        PROVE  payout'[k] # "NONE"
    <3>1. k \in Payouts \ {o}
      BY <1>2, PayoutNamesAssumption, TopupKeysAssumption DEF Payouts
    <3>2. i \in 1..Len(ledger) /\ ledger'[i] = ledger[i]
      BY <1>5, <2>2 DEF Booked
    <3>3. payout[k] # "NONE"
      BY <2>2, <3>2 DEF CreditTopupInv, AccountInv, KeysRecorded
    <3> QED
      BY <1>5, <3>1, <3>3 DEF Booked
  <2> QED
    BY <2>1, <2>2 DEF KeysRecorded
<1>13. CreditsInv'
  BY <1>5, <1>6 DEF Booked, CreditTopupInv, AccountInv, CreditsInv
<1> QED
  BY <1>5, <1>8, <1>9, <1>10, <1>11, <1>12, <1>13
     DEF Booked, Promise!Post, CreditTopupInv, AccountInv, Kept

(* The payouts that are not for a top-up.                                  *)
LEMMA GaraPayoutKept ==
  ASSUME CreditTopupInv, GaraPayoutNext, UNCHANGED <<tossVars, topupVars>>
  PROVE  Kept
<1>1. /\ UNCHANGED <<payment, confirming, topup, events, handler>>
      /\ HandlersInv' /\ OneOutcomeTold'
  <2>1. UNCHANGED <<payment, confirming, topup, events, handler>>
    BY DEF tossVars, topupVars
  <2> QED
    BY <2>1, HandlersStand, OutcomesStand DEF CreditTopupInv
<1>2. ASSUME NEW k \in PayoutKeys, CreateGaraVendorPayout(k)  PROVE Kept
  <2>1. \A j \in 1..Len(ledger) : ledger[j].key # <<"gara-payout", k>>
    BY <1>2 DEF CreateGaraVendorPayout, CreditTopupInv, AccountInv, KeysRecorded
  <2>2. "MANUAL_DEBIT" \in Debits /\ "gara-payout" \in PayoutKeyNames /\ payout[k] # "CREDIT_DEBITED"
    BY <1>2 DEF CreateGaraVendorPayout, Debits, PayoutKeyNames
  <2> QED
    BY <1>2, <2>1, <2>2, PayoutDebited DEF CreateGaraVendorPayout, Kept
<1>3. ASSUME NEW k \in PayoutKeys, CreatePublicGaraVendorPayoutRequest(k)  PROVE Kept
  <2>1. payout[k] = "NONE" /\ UNCHANGED <<registered, policy>>
    BY <1>3 DEF CreatePublicGaraVendorPayoutRequest
  <2>2. CASE /\ Debit("AUTO_DEBIT", PayoutOrder[k].amount, Ref(k), <<"gara-payout-auto", k>>)
             /\ Record(k, "CREDIT_DEBITED", Len(ledger) + 1)
    <3>1. \A j \in 1..Len(ledger) : ledger[j].key # <<"gara-payout-auto", k>>
      BY <2>1 DEF CreditTopupInv, AccountInv, KeysRecorded
    <3>2. "AUTO_DEBIT" \in Debits /\ "gara-payout-auto" \in PayoutKeyNames /\ payout[k] # "CREDIT_DEBITED"
      BY <2>1 DEF Debits, PayoutKeyNames
    <3> QED
      BY <2>1, <2>2, <3>1, <3>2, PayoutDebited DEF Kept
  <2>3. CASE Record(k, "PENDING_APPROVAL", 0) /\ UNCHANGED ledgerVars
    <3>1. /\ k \in Payouts /\ payoutEntry[k] = 0
          /\ payout \in [Payouts -> {"NONE", "PENDING_APPROVAL", "CREDIT_DEBITED"}]
          /\ payoutEntry \in [Payouts -> Nat]
      BY <2>1 DEF Payouts, CreditTopupInv, CreditTopupTypeOK, GaraPayoutTypeOK, AccountInv, PayoutsInv
    <3>2. /\ payout' \in [Payouts -> {"NONE", "PENDING_APPROVAL", "CREDIT_DEBITED"}]
          /\ payoutEntry' \in [Payouts -> Nat]
          /\ payout'[k] = "PENDING_APPROVAL" /\ \A p \in Payouts \ {k} : payout'[p] = payout[p]
          /\ \A p \in Payouts : payoutEntry'[p] = payoutEntry[p]
      BY <2>3, <3>1 DEF Record
    <3>3. \A o \in Orders : o # k /\ o \in Payouts
      BY PayoutNamesAssumption, TopupKeysAssumption DEF Payouts
    <3>4. AccountInv'
      BY <1>1, <2>1, <2>3, <3>2, NothingPosted DEF CreditTopupInv
    <3>5. ApprovedInv'
      BY <1>1, <3>2, <3>3 DEF CreditTopupInv, ApprovedInv
    <3>6. CreditTopupTypeOK'
      BY <1>1, <2>1, <2>3, <3>2
         DEF ledgerVars, CreditTopupInv, CreditTopupTypeOK, GaraPayoutTypeOK, Payouts, TopupRows, Debits, Places, Points,
             TopupStatuses, Confirmable, PaymentStatuses
    <3> QED
      BY <1>1, <2>3, <3>4, <3>5, <3>6 DEF CreditTopupInv, Kept
  <2> QED
    BY <1>3, <2>2, <2>3 DEF CreatePublicGaraVendorPayoutRequest
<1>4. ASSUME NEW p \in PayoutKeys, NEW k \in SettleKeys, SettleGaraVendorPayout(p, k)  PROVE Kept
  <2>1. \A j \in 1..Len(ledger) : ledger[j].key # <<"gara-payout-settle", k>>
    BY <1>4, LenProperties DEF SettleGaraVendorPayout, LedgerKeys, CreditTopupInv, CreditTopupTypeOK
  <2>2. "MANUAL_DEBIT" \in Debits /\ "gara-payout-settle" \in PayoutKeyNames /\ payout[p] # "CREDIT_DEBITED"
    BY <1>4 DEF SettleGaraVendorPayout, Debits, PayoutKeyNames
  <2> QED
    BY <1>4, <2>1, <2>2, PayoutDebited DEF SettleGaraVendorPayout, Kept
<1>5. ASSUME UNCHANGED <<ledgerVars, payout, payoutEntry>>,
             registered' \in [Registrations -> BOOLEAN], policy' \in Limits \union {0}
      PROVE  Kept
  <2>1. AccountInv'
    BY <1>1, <1>5, NothingPosted DEF CreditTopupInv
  <2>2. ApprovedInv'
    BY <1>1, <1>5 DEF CreditTopupInv, ApprovedInv
  <2>3. CreditTopupTypeOK'
    BY <1>1, <1>5
       DEF ledgerVars, CreditTopupInv, CreditTopupTypeOK, GaraPayoutTypeOK, Payouts, TopupRows, Debits, Places, Points,
           TopupStatuses, Confirmable, PaymentStatuses
  <2> QED
    BY <1>1, <1>5, <2>1, <2>2, <2>3 DEF CreditTopupInv, Kept
<1>6. ASSUME NEW v \in Registrations, ArchiveRegistration(v)  PROVE Kept
  BY <1>5, <1>6 DEF ArchiveRegistration, CreditTopupInv, CreditTopupTypeOK, GaraPayoutTypeOK
<1>7. ASSUME NEW limit \in Limits \union {0}, SaveAutoPayPolicy(limit)  PROVE Kept
  BY <1>5, <1>7
     DEF SaveAutoPayPolicy, SavePolicy, payoutVars, CreditTopupInv, CreditTopupTypeOK, GaraPayoutTypeOK
<1> QED
  BY <1>2, <1>3, <1>4, <1>6, <1>7 DEF GaraPayoutNext

LEMMA CreditTopupNextInv ==
  CreditTopupInv /\ [CreditTopupNext]_creditTopupVars => Kept
<1> SUFFICES ASSUME CreditTopupInv, [CreditTopupNext]_creditTopupVars  PROVE Kept
  OBVIOUS
<1>1. CASE GaraPayoutNext /\ UNCHANGED <<tossVars, topupVars>>
  BY <1>1, GaraPayoutKept
<1>2. CASE TossNext /\ UNCHANGED <<ledgerVars, policy, payoutVars, topupVars>>
  BY <1>2, ProviderKept
<1>3. CASE TopupStep
  BY <1>3, TopupStepKept
<1>4. ASSUME NEW h \in Handlers, HandlerStep(h)  PROVE Kept
  BY <1>4, HandlerStarts, AnswerKept, FinalizeKept, RejectKept, HandlerEndsKept DEF HandlerStep
<1>5. CASE UNCHANGED creditTopupVars
  <2>1. UNCHANGED <<ledgerVars, policy, payoutVars, payment, confirming, topup, events, handler>>
    BY <1>5 DEF creditTopupVars, tossVars, topupVars
  <2>2. HandlersInv' /\ OneOutcomeTold'
    BY <2>1, HandlersStand, OutcomesStand DEF CreditTopupInv
  <2> QED
    BY <2>1, <2>2, StatusMoves DEF CreditTopupInv, CreditTopupTypeOK
<1> QED
  BY <1>1, <1>2, <1>3, <1>4, <1>5 DEF CreditTopupNext

(* At the start the ledger is empty or holds an earlier top-up.            *)
LEMMA CreditTopupInitInv == CreditTopupInit => CreditTopupInv
<1> SUFFICES ASSUME CreditTopupInit  PROVE CreditTopupInv
  OBVIOUS
<1> USE DEF CreditTopupInit, GaraPayoutInit
<1>1. Promise!WellFormed
  BY LedgerInitWellFormed
<1>2. balance \in 0..MaxBalance /\ policy \in Limits \union {0}
  BY OpeningBalanceAssumption DEF LedgerInit
<1>3. /\ ledger \in Seq(TopupRows)
      /\ \A i \in 1..Len(ledger) : /\ ledger[i].ref = OrderRef("opening") /\ ledger[i].type = "TOPUP"
                                   /\ ledger[i].key = <<"topup", "opening">>
  <2>1. CASE OpeningBalance = 0
    <3>1. ledger = <<>>
      BY <2>1 DEF LedgerInit
    <3> QED
      BY <3>1, EmptySeq
  <2>2. CASE OpeningBalance # 0
    <3> DEFINE row == Row("TOPUP", OpeningBalance, OpeningBalance, OrderRef("opening"), <<"topup", "opening">>, 0)
    <3>1. OpeningBalance \in Int
      BY OpeningBalanceAssumption
    <3>2. row \in TopupRows /\ row.ref = OrderRef("opening") /\ row.type = "TOPUP" /\ row.key = <<"topup", "opening">>
      BY <3>1 DEF Row, TopupRows, OrderRef
    <3>3. ledger = <<row>>
      BY <2>2 DEF LedgerInit, OrderRef
    <3> HIDE DEF row
    <3>4. Len(ledger) = 1 /\ ledger[1] = row
      BY <3>3
    <3>5. \A i \in 1..Len(ledger) : ledger[i] = row
      BY <3>4
    <3> QED
      BY <3>2, <3>3, <3>5, SingletonSeq
  <2> QED
    BY <2>1, <2>2
<1>4. DOMAIN ledger = 1..Len(ledger)
  BY <1>3, LenProperties
<1>5. CreditTopupTypeOK
  <2>1. Idle \in Places
    BY DEF Idle, Places, Points
  <2>2. \A p \in Points : p # "IDLE" => p \in Points
    OBVIOUS
  <2> QED
    BY <1>2, <1>3, <2>1
       DEF CreditTopupTypeOK, GaraPayoutTypeOK, TopupStatuses, TossInit, PaymentStatuses
<1>6. KeysRecorded
  <2>1. ASSUME NEW i \in 1..Len(ledger), NEW o \in Orders  PROVE ledger[i].key # <<"topup", o>>
    BY <1>3, OpeningOrderAssumption
  <2> QED
    BY <1>3, <2>1 DEF KeysRecorded
<1>7. \A o \in Orders : CreditsOf(o) = {}
  BY <1>3, <1>4, OpeningOrderAssumption, References DEF CreditsOf
<1>8. \A p \in Payouts : DebitsOf(p) = {}
  BY <1>3, <1>4 DEF DebitsOf, Debits
<1>9. CreditsInv /\ ApprovedInv
  BY <1>7, TopupKeysAssumption DEF CreditsInv, ApprovedInv, Payouts
<1>10. PayoutsInv
  BY <1>8 DEF PayoutsInv
<1>11. AmountsInv
  <2>1. /\ \A p : OrderRef("opening") # Ref(p)
        /\ \A o \in Orders : OrderRef("opening") # OrderRef(o)
    BY OpeningOrderAssumption, References
  <2> QED
    BY <1>3, <2>1 DEF AmountsInv, InFull
<1>12. OneOutcomeTold /\ HandlersInv
  BY DEF OneOutcomeTold, HandlersInv, PlaceOK, Idle
<1> QED
  BY <1>1, <1>5, <1>6, <1>9, <1>10, <1>12, <1>11 DEF CreditTopupInv, AccountInv

(* The rows of an order and of a payout are of its amount.                 *)
LEMMA RowsInFull ==
  ASSUME CreditTopupInv
  PROVE  /\ \A p \in PayoutKeys : \A i \in DebitsOf(p) : ledger[i].amount = -PayoutOrder[p].amount
         /\ \A o \in Orders : /\ \A i \in CreditsOf(o) : ledger[i].amount = TopupAmount[o]
                              /\ \A i \in DebitsOf(o) : ledger[i].amount = -TopupAmount[o]
<1>1. DOMAIN ledger = 1..Len(ledger)
  BY LenProperties DEF CreditTopupInv, CreditTopupTypeOK
<1> QED
  BY <1>1 DEF CreditTopupInv, AccountInv, AmountsInv, InFull, CreditsOf, DebitsOf

(***************************************************************************)
(* Theorems.                                                               *)
(***************************************************************************)
(* The invariant holds for any orders, payouts, registrations and keys,    *)
(* and any number of service calls running at the same time.               *)
THEOREM CreditTopupInvHolds == CreditTopupSpec => []CreditTopupInv
<1>1. CreditTopupInv /\ [CreditTopupNext]_creditTopupVars => CreditTopupInv'
  BY CreditTopupNextInv DEF Kept
<1> QED
  BY <1>1, CreditTopupInitInv, PTL DEF CreditTopupSpec

(* Balance, policy, registrations and payouts keep the values of their     *)
(* columns.                                                                *)
THEOREM GaraPayoutTypeCorrect == CreditTopupSpec => []GaraPayoutTypeOK
<1>1. CreditTopupInv => GaraPayoutTypeOK
  BY DEF CreditTopupInv, CreditTopupTypeOK
<1> QED
  BY <1>1, CreditTopupInvHolds, PTL

(* A card payment reaches the account at most once, and only if it was     *)
(* captured, however many confirmations and reconciliations overlap; a     *)
(* linked order leaves its payout behind, and no other order one.          *)
THEOREM CreditedOnce == CreditTopupSpec => []CreditedOnceWhenCaptured
<1>1. CreditTopupInv => CreditedOnceWhenCaptured
  <2> SUFFICES ASSUME CreditTopupInv, NEW o \in Orders
               PROVE  Cardinality(CreditsOf(o)) = IF topup[o] = "APPROVED" THEN 1 ELSE 0
    BY RowsInFull DEF CreditTopupInv, ApprovedInv, CreditedOnceWhenCaptured
  <2>1. CASE topup[o] = "APPROVED"
    <3>1. PICK i \in Nat : CreditsOf(o) = {i}
      BY <2>1 DEF CreditTopupInv, AccountInv, CreditsInv
    <3> QED
      BY <2>1, <3>1, FS_Singleton
  <2>2. CASE topup[o] # "APPROVED"
    <3>1. CreditsOf(o) = {}
      BY <2>2 DEF CreditTopupInv, AccountInv, CreditsInv
    <3> QED
      BY <2>2, <3>1, FS_EmptySet
  <2> QED
    BY <2>1, <2>2
<1> QED
  BY <1>1, CreditTopupInvHolds, PTL

(* The manager is told of the outcome that stands, and of no other.        *)
THEOREM OutcomeIsToldOnce == CreditTopupSpec => []OneOutcomeTold
<1>1. CreditTopupInv => OneOutcomeTold
  BY DEF CreditTopupInv
<1> QED
  BY <1>1, CreditTopupInvHolds, PTL

(* A payout recorded as debited has cost its amount exactly once, by the   *)
(* row it points to, and one that waits has cost nothing.                  *)
THEOREM PayoutsAreTrue == CreditTopupSpec => []PayoutsMatchLedger
<1>1. CreditTopupInv => PayoutsMatchLedger
  BY RowsInFull DEF CreditTopupInv, AccountInv, PayoutsInv, PayoutsMatchLedger
<1> QED
  BY <1>1, CreditTopupInvHolds, PTL

(* Top-ups and payouts implement the append-only ledger, also where a      *)
(* transaction posts two rows at once.                                     *)
THEOREM TopupLedgerIsKept == CreditTopupSpec => LedgerPromise
<1>1. CreditTopupInit => Promise!WellFormed
  BY CreditTopupInitInv DEF CreditTopupInv, AccountInv
<1>2. CreditTopupInv /\ [CreditTopupNext]_creditTopupVars
        => [Promise!Post]_(Promise!accountVars)
  BY CreditTopupNextInv DEF Kept, ledgerVars, Promise!accountVars
<1> QED
  BY <1>1, <1>2, CreditTopupInvHolds, PTL DEF CreditTopupSpec, LedgerPromise, Promise!Spec

(***************************************************************************)
(* Captured money is lost in one way only: a lookup the provider refused   *)
(* is taken for a refusal of the payment. In every other way an order is   *)
(* given up when its payment can no longer be captured, and the order of a *)
(* handler has been claimed, so that nobody asks for its capture again.    *)
(***************************************************************************)
GivenUp(o) ==
  topup[o] = "FAILED" \/ \E h \in Handlers : handler[h].at = "REJECT" /\ handler[h].order = o

RefusalsInv ==
  /\ \A o \in Orders : GivenUp(o) => ~ MayBeCaptured(o)
  /\ \A h \in Handlers : handler[h].at # "IDLE" => topup[handler[h].order] \notin {"NONE", "READY"}

(* The provider does not return to a payment it is done with.              *)
LEMMA ProviderIsFinal ==
  ASSUME TossNext, payment \in [Orders -> PaymentStatuses], NEW o \in Orders, MayBeCaptured(o)'
  PROVE  MayBeCaptured(o)
<1>1. PICK q \in Orders : Capture(q) \/ Refuse(q) \/ Expire(q)
  BY DEF TossNext
<1>2. confirming' \subseteq confirming /\ \A p \in Orders \ {q} : payment'[p] = payment[p]
  BY <1>1 DEF Capture, Refuse, Expire, Process
<1>3. CASE o # q
  BY <1>2, <1>3 DEF MayBeCaptured
<1>4. CASE o = q
  BY <1>1, <1>2, <1>4 DEF MayBeCaptured, Capture, Refuse, Expire, Process
<1> QED
  BY <1>3, <1>4

(* A handler moves on, and no capture is asked for. It turns to rejecting  *)
(* an order, or the order is marked, only when that may be.                *)
LEMMA RefusalsStand ==
  ASSUME CreditTopupInv, RefusalsInv, NEW h \in Handlers, NEW place,
         handler' = [handler EXCEPT ![h] = place], UNCHANGED tossVars,
         place.at = "REJECT" => ~ MayBeCaptured(place.order),
         place.at # "IDLE" =>
           place.order \in Orders /\ topup[place.order] \notin {"NONE", "READY"},
         \A o \in Orders : topup'[o] = "FAILED" => GivenUp(o),
         \A o \in Orders : topup'[o] \in {"NONE", "READY"} => topup[o] \in {"NONE", "READY"}
  PROVE  RefusalsInv'
<1>1. /\ handler'[h] = place /\ \A g \in Handlers \ {h} : handler'[g] = handler[g]
      /\ \A g \in Handlers : handler[g].at # "IDLE" => handler[g].order \in Orders
  BY DEF CreditTopupInv, CreditTopupTypeOK, HandlersInv, PlaceOK
<1>2. \A o : MayBeCaptured(o)' <=> MayBeCaptured(o)
  BY DEF MayBeCaptured, tossVars
<1>3. ASSUME NEW o \in Orders, GivenUp(o)'  PROVE ~ MayBeCaptured(o)'
  BY <1>1, <1>2, <1>3 DEF RefusalsInv, GivenUp
<1>4. ASSUME NEW g \in Handlers, handler'[g].at # "IDLE"
      PROVE  topup'[handler'[g].order] \notin {"NONE", "READY"}
  BY <1>1, <1>4 DEF RefusalsInv
<1> QED
  BY <1>3, <1>4 DEF RefusalsInv

LEMMA HandlerRefusals ==
  ASSUME CreditTopupInv, RefusalsInv, NEW h \in Handlers, HandlerStep(h), ~ MistakesRefusal
  PROVE  RefusalsInv'
<1>1. /\ handler \in [Handlers -> Places] /\ topup \in [Orders -> TopupStatuses]
      /\ handler[h].at # "IDLE" => handler[h].order \in Orders
  BY DEF CreditTopupInv, CreditTopupTypeOK, HandlersInv, PlaceOK
<1>2. ASSUME NEW o \in Orders, ConfirmTopup(h, o)  PROVE RefusalsInv'
  <2>1. /\ topup' = [topup EXCEPT ![o] = "CONFIRMING"] /\ topup[o] = "READY"
        /\ handler' = [handler EXCEPT ![h] = [at |-> "CONFIRM", order |-> o]]
        /\ confirming' = confirming \union {o} /\ payment' = payment
    BY <1>2 DEF ConfirmTopup, SetStatus, SendConfirm, Goto
  <2>2. topup'[o] = "CONFIRMING" /\ \A q \in Orders \ {o} : topup'[q] = topup[q]
    BY <1>1, <2>1
  <2>3. /\ handler'[h] = [at |-> "CONFIRM", order |-> o]
        /\ \A g \in Handlers \ {h} : handler'[g] = handler[g]
    BY <1>1, <2>1
  <2>4. ASSUME NEW g \in Handlers \ {h}, handler[g].at # "IDLE"
        PROVE  handler[g].order \in Orders \ {o}
    BY <2>1, <2>4 DEF RefusalsInv, CreditTopupInv, HandlersInv, PlaceOK
  <2>5. ASSUME NEW q \in Orders, GivenUp(q)'  PROVE ~ MayBeCaptured(q)'
    <3>1. q # o /\ GivenUp(q)
      BY <2>2, <2>3, <2>4, <2>5 DEF GivenUp
    <3>2. ~ MayBeCaptured(q)
      BY <3>1 DEF RefusalsInv
    <3> QED
      BY <2>1, <3>1, <3>2 DEF MayBeCaptured
  <2>6. ASSUME NEW g \in Handlers, handler'[g].at # "IDLE"
        PROVE  topup'[handler'[g].order] \notin {"NONE", "READY"}
    BY <2>2, <2>3, <2>4, <2>6 DEF RefusalsInv
  <2> QED
    BY <2>5, <2>6 DEF RefusalsInv
<1>3. ASSUME NEW o \in Orders, ReconcileTopup(h, o)  PROVE RefusalsInv'
  <2> DEFINE place == [at |-> "LOOKUP", order |-> o]
  <2>1. /\ handler' = [handler EXCEPT ![h] = place] /\ UNCHANGED <<tossVars, topup>>
        /\ place.at = "LOOKUP" /\ place.order \in Orders /\ topup[place.order] \notin {"NONE", "READY"}
    BY <1>3 DEF ReconcileTopup, Goto, Confirmable
  <2> HIDE DEF place
  <2> QED
    BY <1>1, <2>1, RefusalsStand DEF GivenUp
<1>4. CASE ReceiveAnswer(h)
  <2>1. PICK place : /\ handler' = [handler EXCEPT ![h] = place] /\ place.order = handler[h].order
                     /\ place.at = "REJECT" =>
                          \/ At(h, "CONFIRM") /\ "DECLINED" \in ConfirmAnswers(place.order)
                          \/ At(h, "LOOKUP") /\ ~ MayBeCaptured(place.order)
    <3>1. CASE At(h, "CONFIRM")
      <4>1. PICK a \in ConfirmAnswers(handler[h].order) : Goto(h, AfterConfirm(a), handler[h].order)
        BY <1>4, <3>1 DEF ReceiveAnswer, At
      <4>2. AfterConfirm(a) = "REJECT" => a = "DECLINED"
        BY DEF AfterConfirm
      <4> DEFINE place == [at |-> AfterConfirm(a), order |-> handler[h].order]
      <4>3. /\ handler' = [handler EXCEPT ![h] = place] /\ place.order = handler[h].order
            /\ place.at = "REJECT" => "DECLINED" \in ConfirmAnswers(place.order)
        BY <4>1, <4>2 DEF Goto
      <4> HIDE DEF place
      <4> QED
        BY <3>1, <4>3
    <3>2. CASE At(h, "LOOKUP")
      <4>1. PICK a \in LookupAnswers(handler[h].order) : Goto(h, AfterLookup(a), handler[h].order)
        BY <1>4, <3>2 DEF ReceiveAnswer, At
      <4>2. handler'[h].at = AfterLookup(a)
        BY <1>1, <4>1 DEF Goto
      <4>3. AfterLookup(a) = "REJECT" => ~ MayBeCaptured(handler[h].order)
        BY <3>2, <4>2 DEF MistakesRefusal
      <4> DEFINE place == [at |-> AfterLookup(a), order |-> handler[h].order]
      <4>4. /\ handler' = [handler EXCEPT ![h] = place] /\ place.order = handler[h].order
            /\ place.at = "REJECT" => ~ MayBeCaptured(place.order)
        BY <4>1, <4>3 DEF Goto
      <4> HIDE DEF place
      <4> QED
        BY <3>2, <4>4
    <3> QED
      BY <1>4, <3>1, <3>2 DEF ReceiveAnswer
  <2>2. place.at = "REJECT" => ~ MayBeCaptured(place.order)
    BY <2>1 DEF ConfirmAnswers, MayBeCaptured
  <2>3. /\ UNCHANGED <<tossVars, topup>> /\ place.order \in Orders
        /\ topup[place.order] \notin {"NONE", "READY"}
    BY <1>1, <1>4, <2>1 DEF ReceiveAnswer, At, RefusalsInv
  <2> QED
    BY <1>1, <2>1, <2>2, <2>3, RefusalsStand DEF GivenUp
<1>5. CASE \/ FinalizeTopup(h) \/ FailToFinalize(h)
           \/ MarkTopupRejected(h) \/ MarkTopupUncertain(h) \/ Crash(h)
  <2> DEFINE o == handler[h].order
  <2>1. handler[h].at # "IDLE" /\ o \in Orders /\ UNCHANGED tossVars
    BY <1>1, <1>5 DEF FinalizeTopup, FailToFinalize, MarkTopupRejected, MarkTopupUncertain, Crash, At
  <2>2. PICK place \in {Idle, [at |-> "UNCERTAIN", order |-> o]} :
          handler' = [handler EXCEPT ![h] = place]
    BY <1>5 DEF FinalizeTopup, FailToFinalize, MarkTopupRejected, MarkTopupUncertain, Crash, Finish, Goto
  <2>3. place.at # "REJECT" /\ (place.at # "IDLE" => place.order = o)
    BY <2>2 DEF Idle
  <2>4. topup[o] \notin {"NONE", "READY"}
    BY <2>1 DEF RefusalsInv
  <2>5. \/ UNCHANGED topup
        \/ \E s \in {"APPROVED", "RECONCILIATION_REQUIRED"} : topup' = [topup EXCEPT ![o] = s]
        \/ topup' = [topup EXCEPT ![o] = "FAILED"] /\ At(h, "REJECT")
    BY <1>5 DEF FinalizeTopup, FailToFinalize, MarkTopupRejected, MarkTopupUncertain, Crash, SetStatus
  <2>6. \A q \in Orders : topup'[q] = "FAILED" => GivenUp(q)
    BY <1>1, <2>1, <2>5 DEF GivenUp, At
  <2>7. \A q \in Orders : topup'[q] \in {"NONE", "READY"} => topup[q] \in {"NONE", "READY"}
    BY <1>1, <2>1, <2>5
  <2> QED
    BY <1>1, <2>1, <2>2, <2>3, <2>4, <2>6, <2>7, RefusalsStand
<1> QED
  BY <1>2, <1>3, <1>4, <1>5 DEF HandlerStep

LEMMA RefusalsStep ==
  CreditTopupInv /\ RefusalsInv /\ [CreditTopupNext /\ ~ MistakesRefusal]_creditTopupVars
    => RefusalsInv'
<1> SUFFICES ASSUME CreditTopupInv, RefusalsInv,
                    [CreditTopupNext /\ ~ MistakesRefusal]_creditTopupVars
             PROVE  RefusalsInv'
  OBVIOUS
<1>1. CASE UNCHANGED <<tossVars, topup, handler>>
  BY <1>1 DEF RefusalsInv, GivenUp, MayBeCaptured, tossVars
<1>2. CASE TossNext /\ UNCHANGED topupVars
  <2>1. \A o \in Orders : MayBeCaptured(o)' => MayBeCaptured(o)
    BY <1>2, ProviderIsFinal DEF CreditTopupInv, CreditTopupTypeOK
  <2> QED
    BY <1>2, <2>1 DEF RefusalsInv, GivenUp, topupVars
<1>3. CASE TopupStep
  <2>1. PICK o \in Orders, s \in {"READY", "CANCELLED"} :
          /\ topup[o] \in {"NONE", "READY"} /\ topup' = [topup EXCEPT ![o] = s]
          /\ UNCHANGED <<tossVars, handler>>
    BY <1>3 DEF TopupStep, CreateTopupOrder, CreateGaraTopupOrder, CreateOrder, CancelReadyTopup, SetStatus
  <2>2. topup'[o] = s /\ \A q \in Orders \ {o} : topup'[q] = topup[q]
    BY <2>1 DEF CreditTopupInv, CreditTopupTypeOK
  <2>3. \A h \in Handlers : handler[h].at # "IDLE" => handler[h].order \in Orders \ {o}
    BY <2>1 DEF RefusalsInv, CreditTopupInv, HandlersInv, PlaceOK
  <2>4. \A q \in Orders : (GivenUp(q)' => GivenUp(q)) /\ (MayBeCaptured(q)' <=> MayBeCaptured(q))
    BY <2>1, <2>2 DEF GivenUp, MayBeCaptured, tossVars
  <2> QED
    BY <2>1, <2>2, <2>3, <2>4 DEF RefusalsInv
<1>4. ASSUME NEW h \in Handlers, HandlerStep(h), ~ MistakesRefusal  PROVE RefusalsInv'
  BY <1>4, HandlerRefusals
<1> QED
  BY <1>1, <1>2, <1>3, <1>4 DEF CreditTopupNext, creditTopupVars, topupVars

(* A confirmation whose answer was lost, a time-out, a crash, a late or a  *)
(* repeated request never make an order FAILED whose payment was or will   *)
(* be captured: only a lookup that the provider refused, and that the      *)
(* handler takes for the outcome, does.                                    *)
THEOREM OnlyRefusedLookupsLose == CheckedTopupSpec => []CapturedTopupCanBeChecked
<1>1. CreditTopupInit => RefusalsInv
  <2> SUFFICES ASSUME CreditTopupInit  PROVE RefusalsInv
    OBVIOUS
  <2>1. /\ \A h \in Handlers : handler[h].at = "IDLE"
        /\ \A o \in Orders : topup[o] = "NONE"
    BY DEF CreditTopupInit, Idle
  <2> QED
    BY <2>1 DEF RefusalsInv, GivenUp
<1>2. CheckedTopupSpec => CreditTopupSpec
  <2>1. [CreditTopupNext /\ ~ MistakesRefusal]_creditTopupVars => [CreditTopupNext]_creditTopupVars
    OBVIOUS
  <2> QED
    BY <2>1, PTL DEF CheckedTopupSpec, CreditTopupSpec
<1>3. CheckedTopupSpec => []CreditTopupInv
  BY <1>2, CreditTopupInvHolds, PTL
<1>4. RefusalsInv => CapturedTopupCanBeChecked
  BY DEF RefusalsInv, GivenUp, MayBeCaptured, CapturedTopupCanBeChecked
<1> QED
  BY <1>1, <1>3, <1>4, RefusalsStep, PTL DEF CheckedTopupSpec
============================================================================
