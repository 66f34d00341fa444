------------------------ MODULE CreditLedger_proofs ------------------------
(***************************************************************************)
(* What a posting of CreditLedger does to the ledger, and when it keeps    *)
(* the promise of AppendOnlyLedger. Every component that posts to an       *)
(* account rests on these lemmas.                                          *)
(***************************************************************************)
EXTENDS CreditLedger, TLAPS

(* The rows a ledger already has stay where they are when one is appended. *)
LEMMA AppendedRow ==
  ASSUME NEW S, NEW s \in Seq(S), NEW x \in S
  PROVE  /\ Append(s, x) \in Seq(S)
         /\ Len(s) \in Nat
         /\ Len(Append(s, x)) = Len(s) + 1
         /\ DOMAIN s = 1..Len(s)
         /\ DOMAIN Append(s, x) = 1..(Len(s) + 1)
         /\ \A i \in 1..Len(s) : Append(s, x)[i] = s[i]
         /\ Append(s, x)[Len(s) + 1] = x
  OBVIOUS

(* A ledger of one row is a sequence of rows. *)
LEMMA SingletonSeq ==
  ASSUME NEW S, NEW x \in S PROVE <<x>> \in Seq(S)
  OBVIOUS

(* What a row must satisfy, besides carrying the new balance, for the      *)
(* ledger to stay well formed once it is appended.                         *)
MayFollow(row) ==
  /\ \/ row.type \in {"TOPUP", "REVERSAL"} /\ row.amount > 0
     \/ row.type \in Debits /\ row.amount < 0
  /\ \A j \in 1..Len(ledger) : ledger[j].key # row.key
  /\ IF row.type = "REVERSAL"
       THEN /\ row.reverses \in 1..Len(ledger)
            /\ ledger[row.reverses].type \in Debits
            /\ ledger[row.reverses].amount = -row.amount
            /\ \A j \in 1..Len(ledger) : ledger[j].reverses # row.reverses
       ELSE row.reverses = 0
  /\ row.type \in Debits =>
       \A j \in 1..Len(ledger) : ~ (ledger[j].type \in Debits /\ ledger[j].ref = row.ref)

(* The rows that were there stay in order whatever comes after them.       *)
LEMMA EarlierRows ==
  ASSUME NEW n \in Nat, \A i \in 1..n : Promise!RowOK(i), \A i \in 1..n : ledger'[i] = ledger[i]
  PROVE  \A i \in 1..n : Promise!RowOK(i)'
<1> SUFFICES ASSUME NEW i \in 1..n  PROVE Promise!RowOK(i)'
  OBVIOUS
<1>1. Promise!RowOK(i) /\ \A j \in 1..i : ledger'[j] = ledger[j]
  OBVIOUS
<1>2. Promise!Chained(i)'
  BY <1>1 DEF Promise!RowOK, Promise!Chained, Promise!BalanceBefore
<1>3. Promise!SignMatchesType(i)' /\ Promise!FreshKey(i)' /\ Promise!FirstDebit(i)'
  BY <1>1 DEF Promise!RowOK, Promise!SignMatchesType, Promise!FreshKey, Promise!FirstDebit,
              Promise!Debits
<1>4. Promise!ReversesOpenDebit(i)'
  BY <1>1 DEF Promise!RowOK, Promise!ReversesOpenDebit, Promise!Debits
<1> QED
  BY <1>2, <1>3, <1>4 DEF Promise!RowOK

(* Appending such a row is a step the abstract ledger allows. *)
LEMMA AppendIsPost ==
  ASSUME NEW S, ledger \in Seq(S), NEW row \in S,
         Promise!WellFormed, MayFollow(row),
         row.after = balance + row.amount, row.after \in 0..MaxBalance,
         ledger' = Append(ledger, row), balance' = row.after
  PROVE  Promise!Post
<1>0. PICK n \in Nat : n = Len(ledger)
  BY AppendedRow
<1>1. /\ Len(ledger') = n + 1 /\ ledger'[n + 1] = row
      /\ \A i \in 1..n : ledger'[i] = ledger[i]
  BY AppendedRow, <1>0
<1>2. (n + 1) - 1 = n
  BY <1>1
<1>3. /\ \/ row.type \in {"TOPUP", "REVERSAL"} /\ row.amount > 0
         \/ row.type \in Debits /\ row.amount < 0
      /\ \A j \in 1..n : ledger[j].key # row.key
      /\ row.type = "REVERSAL" =>
           /\ row.reverses \in 1..n
           /\ ledger[row.reverses].type \in Debits
           /\ ledger[row.reverses].amount = -row.amount
           /\ \A j \in 1..n : ledger[j].reverses # row.reverses
      /\ row.type # "REVERSAL" => row.reverses = 0
      /\ row.type \in Debits =>
           \A j \in 1..n : ~ (ledger[j].type \in Debits /\ ledger[j].ref = row.ref)
  BY <1>0 DEF MayFollow
<1>4. balance = Promise!BalanceBefore(n + 1)
  BY <1>0 DEF Promise!WellFormed
<1>5. \A i \in 1..n : Promise!RowOK(i)
  BY <1>0 DEF Promise!WellFormed
<1>6. \A i \in 1..n : Promise!RowOK(i)'
  BY <1>0, <1>1, <1>5, EarlierRows
<1>7. Promise!RowOK(n + 1)'
  <2>1. Promise!Chained(n + 1)'
    BY <1>1, <1>4 DEF Promise!Chained, Promise!BalanceBefore
  <2>2. Promise!SignMatchesType(n + 1)'
    BY <1>1, <1>3 DEF Debits, Promise!SignMatchesType, Promise!Debits
  <2>3. Promise!FreshKey(n + 1)'
    BY <1>1, <1>2, <1>3 DEF Promise!FreshKey
  <2>4. Promise!FirstDebit(n + 1)'
    BY <1>1, <1>2, <1>3 DEF Debits, Promise!FirstDebit, Promise!Debits
  <2>5. CASE row.type = "REVERSAL"
    BY <1>1, <1>2, <1>3, <2>1, <2>2, <2>3, <2>4, <2>5
       DEF Debits, Promise!RowOK, Promise!ReversesOpenDebit, Promise!Debits
  <2>6. CASE row.type # "REVERSAL"
    BY <1>1, <1>3, <2>1, <2>2, <2>3, <2>4, <2>6 DEF Promise!RowOK, Promise!ReversesOpenDebit
  <2> QED
    BY <2>5, <2>6
<1>8. ASSUME NEW i \in 1..(n + 1) PROVE Promise!RowOK(i)'
  <2>1. CASE i \in 1..n
    BY <1>6, <2>1
  <2>2. CASE i = n + 1
    BY <1>7, <2>2
  <2> QED
    BY <1>1, <2>1, <2>2
<1>9. Promise!BalanceBefore(Len(ledger) + 1)' = balance'
  BY <1>1 DEF Promise!BalanceBefore
<1> QED
  BY <1>0, <1>1, <1>8, <1>9 DEF Promise!Post, Promise!WellFormed

(* A debit of a payment not debited before, under a key not used before,   *)
(* posts.                                                                  *)
LEMMA DebitPosts ==
  ASSUME NEW S, ledger \in Seq(S), Promise!WellFormed, balance \in 0..MaxBalance,
         NEW type \in Debits, NEW amount \in Nat \ {0}, NEW ref, NEW key,
         Row(type, -amount, balance - amount, ref, key, 0) \in S,
         Debit(type, amount, ref, key),
         \A j \in 1..Len(ledger) : ledger[j].key # key,
         \A j \in 1..Len(ledger) : ~ (ledger[j].type \in Debits /\ ledger[j].ref = ref)
  PROVE  Promise!Post
<1> DEFINE row == Row(type, -amount, balance - amount, ref, key, 0)
<1>1. /\ row.type = type /\ row.amount = -amount /\ row.after = balance - amount
      /\ row.ref = ref /\ row.key = key /\ row.reverses = 0
  BY DEF Row
<1>2. ledger' = Append(ledger, row) /\ balance' = balance - amount /\ balance >= amount
  BY DEF Debit
<1> HIDE DEF row
<1>3. row.after \in 0..MaxBalance /\ row.after = balance + row.amount /\ balance' = row.after
  BY <1>1, <1>2, MaxBalanceAssumption
<1>4. MayFollow(row)
  BY <1>1 DEF MayFollow, Debits
<1>5. row \in S
  BY DEF row
<1> QED
  BY <1>2, <1>3, <1>4, <1>5, AppendIsPost

(* The reversal of a debit not reversed before posts. *)
LEMMA ReversalPosts ==
  ASSUME NEW S, ledger \in Seq(S), Promise!WellFormed, balance \in 0..MaxBalance,
         NEW amount \in Nat \ {0}, NEW ref, NEW key, NEW i \in 1..Len(ledger),
         Row("REVERSAL", amount, balance + amount, ref, key, i) \in S,
         Credit("REVERSAL", amount, ref, key, i),
         ledger[i].type \in Debits, ledger[i].amount = -amount,
         \A j \in 1..Len(ledger) : ledger[j].key # key,
         \A j \in 1..Len(ledger) : ledger[j].reverses # i
  PROVE  Promise!Post
<1> DEFINE row == Row("REVERSAL", amount, balance + amount, ref, key, i)
<1>1. /\ row.type = "REVERSAL" /\ row.amount = amount /\ row.after = balance + amount
      /\ row.ref = ref /\ row.key = key /\ row.reverses = i
  BY DEF Row
<1>2. /\ ledger' = Append(ledger, row) /\ balance' = balance + amount
      /\ balance <= MaxBalance - amount
  BY DEF Credit
<1> HIDE DEF row
<1>3. row.after \in 0..MaxBalance /\ row.after = balance + row.amount /\ balance' = row.after
  BY <1>1, <1>2, MaxBalanceAssumption
<1>4. MayFollow(row)
  BY <1>1 DEF MayFollow, Debits
<1>5. row \in S
  BY DEF row
<1> QED
  BY <1>2, <1>3, <1>4, <1>5, AppendIsPost

(* A credit that reverses nothing, under a key not used before, posts.     *)
LEMMA TopupPosts ==
  ASSUME NEW S, ledger \in Seq(S), Promise!WellFormed, balance \in 0..MaxBalance,
         NEW amount \in Nat \ {0}, NEW ref, NEW key,
         Row("TOPUP", amount, balance + amount, ref, key, 0) \in S,
         Credit("TOPUP", amount, ref, key, 0),
         \A j \in 1..Len(ledger) : ledger[j].key # key
  PROVE  Promise!Post
<1> DEFINE row == Row("TOPUP", amount, balance + amount, ref, key, 0)
<1>1. /\ row.type = "TOPUP" /\ row.amount = amount /\ row.after = balance + amount
      /\ row.key = key /\ row.reverses = 0
  BY DEF Row
<1>2. /\ ledger' = Append(ledger, row) /\ balance' = balance + amount
      /\ balance <= MaxBalance - amount
  BY DEF Credit
<1> HIDE DEF row
<1>3. row.after \in 0..MaxBalance /\ row.after = balance + row.amount /\ balance' = row.after
  BY <1>1, <1>2, MaxBalanceAssumption
<1>4. MayFollow(row)
  BY <1>1 DEF MayFollow, Debits
<1>5. row \in S
  BY DEF row
<1> QED
  BY <1>2, <1>3, <1>4, <1>5, AppendIsPost

(* Two rows appended in one transaction. *)
LEMMA AppendedPair ==
  ASSUME NEW S, NEW s \in Seq(S), NEW x \in S, NEW y \in S
  PROVE  /\ s \o <<x, y>> \in Seq(S)
         /\ Len(s) \in Nat
         /\ Len(s \o <<x, y>>) = Len(s) + 2
         /\ \A i \in 1..Len(s) : (s \o <<x, y>>)[i] = s[i]
         /\ (s \o <<x, y>>)[Len(s) + 1] = x
         /\ (s \o <<x, y>>)[Len(s) + 2] = y
  OBVIOUS

(* A top-up and the debit it was made for, posted together. *)
LEMMA PairPosts ==
  ASSUME NEW S, ledger \in Seq(S), NEW up \in S, NEW down \in S,
         Promise!WellFormed, MayFollow(up), MayFollow(down),
         up.type = "TOPUP", down.type \in Debits, up.key # down.key,
         up.after = balance + up.amount, up.after \in 0..MaxBalance,
         down.after = up.after + down.amount, down.after \in 0..MaxBalance,
         ledger' = ledger \o <<up, down>>, balance' = down.after
  PROVE  Promise!Post
<1>0. PICK n \in Nat : n = Len(ledger)
  BY AppendedPair
<1>1. /\ Len(ledger') = n + 2 /\ ledger'[n + 1] = up /\ ledger'[n + 2] = down
      /\ \A i \in 1..n : ledger'[i] = ledger[i]
  BY AppendedPair, <1>0
<1>2. /\ (n + 1) - 1 = n /\ (n + 2) - 1 = n + 1 /\ n + 2 # 1
      /\ \A j \in 1..(n + 1) : j \in 1..n \/ j = n + 1
      /\ \A j \in 1..(n + 2) : j \in 1..n \/ j = n + 1 \/ j = n + 2
  OBVIOUS
<1>3. /\ up.amount > 0 /\ up.reverses = 0 /\ down.amount < 0 /\ down.reverses = 0
      /\ up.type \notin Debits /\ down.type # "REVERSAL"
      /\ \A j \in 1..n : ledger[j].key # up.key /\ ledger[j].key # down.key
      /\ \A j \in 1..n : ~ (ledger[j].type \in Debits /\ ledger[j].ref = down.ref)
  BY <1>0 DEF MayFollow, Debits
<1>4. balance = Promise!BalanceBefore(n + 1)
  BY <1>0 DEF Promise!WellFormed
<1>5. \A i \in 1..n : Promise!RowOK(i)'
  BY <1>0, <1>1, EarlierRows DEF Promise!WellFormed
<1>6. Promise!RowOK(n + 1)'
  <2>1. Promise!Chained(n + 1)'
    BY <1>1, <1>4 DEF Promise!Chained, Promise!BalanceBefore
  <2>2. Promise!SignMatchesType(n + 1)' /\ Promise!FirstDebit(n + 1)'
    BY <1>1, <1>3 DEF Debits, Promise!SignMatchesType, Promise!FirstDebit, Promise!Debits
  <2>3. Promise!FreshKey(n + 1)'
    BY <1>1, <1>2, <1>3 DEF Promise!FreshKey
  <2>4. Promise!ReversesOpenDebit(n + 1)'
    BY <1>1, <1>3 DEF Promise!ReversesOpenDebit
  <2> QED
    BY <2>1, <2>2, <2>3, <2>4 DEF Promise!RowOK
<1>7. Promise!RowOK(n + 2)'
  <2>1. Promise!Chained(n + 2)'
    BY <1>1, <1>2 DEF Promise!Chained, Promise!BalanceBefore
  <2>2. Promise!SignMatchesType(n + 2)'
    BY <1>1, <1>3 DEF Debits, Promise!SignMatchesType, Promise!Debits
  <2>3. Promise!FreshKey(n + 2)'
    BY <1>1, <1>2, <1>3 DEF Promise!FreshKey
  <2>4. Promise!FirstDebit(n + 2)'
    BY <1>1, <1>2, <1>3 DEF Debits, Promise!FirstDebit, Promise!Debits
  <2>5. Promise!ReversesOpenDebit(n + 2)'
    BY <1>1, <1>3 DEF Promise!ReversesOpenDebit
  <2> QED
    BY <2>1, <2>2, <2>3, <2>4, <2>5 DEF Promise!RowOK
<1>8. \A i \in 1..Len(ledger') : Promise!RowOK(i)'
  <2> SUFFICES ASSUME NEW i \in 1..(n + 2)  PROVE Promise!RowOK(i)'
    BY <1>1
  <2>1. i \in 1..n \/ i = n + 1 \/ i = n + 2
    BY <1>2
  <2> QED
    BY <1>5, <1>6, <1>7, <2>1
<1>9. Promise!BalanceBefore(Len(ledger) + 1)' = balance'
  BY <1>1 DEF Promise!BalanceBefore
<1> QED
  BY <1>0, <1>1, <1>8, <1>9 DEF Promise!Post, Promise!WellFormed

(* A new account, or one just topped up, keeps the promise. *)
LEMMA LedgerInitWellFormed ==
  LedgerInit => Promise!WellFormed
<1> SUFFICES ASSUME LedgerInit PROVE Promise!WellFormed
  OBVIOUS
<1>1. CASE OpeningBalance = 0
  BY <1>1
     DEF LedgerInit, Promise!WellFormed, Promise!BalanceBefore
<1>2. CASE OpeningBalance # 0
  <2> DEFINE row == Row("TOPUP", OpeningBalance, OpeningBalance,
                        <<"CREDIT_TOPUP_ORDER", "opening">>, <<"topup", "opening">>, 0)
  <2>1. row.type = "TOPUP" /\ row.amount = OpeningBalance /\ row.after = OpeningBalance
        /\ row.reverses = 0
    BY DEF Row
  <2>2. ledger = <<row>> /\ balance = OpeningBalance
    BY <1>2 DEF LedgerInit
  <2> HIDE DEF row
  <2>3. Len(ledger) = 1 /\ ledger[1] = row
    BY <2>2
  <2>4. OpeningBalance \in 0..MaxBalance /\ OpeningBalance > 0
    BY <1>2, OpeningBalanceAssumption, MaxBalanceAssumption
  <2>5. Promise!RowOK(1)
    BY <2>1, <2>3, <2>4
       DEF Promise!RowOK, Promise!Chained, Promise!SignMatchesType, Promise!FreshKey,
           Promise!ReversesOpenDebit, Promise!FirstDebit, Promise!BalanceBefore, Promise!Debits
  <2>6. \A i \in 1..Len(ledger) : i = 1
    BY <2>3
  <2>7. balance = Promise!BalanceBefore(Len(ledger) + 1)
    BY <2>1, <2>2, <2>3 DEF Promise!BalanceBefore
  <2> QED
    BY <2>5, <2>6, <2>7 DEF Promise!WellFormed
<1> QED
  BY <1>1, <1>2
============================================================================
