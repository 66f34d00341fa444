--------------------------- MODULE MCCreditTopup ---------------------------
(* Instances of CreditTopup small enough for TLC: one plain top-up and one *)
(* linked to a registration next to two payouts, and a single top-up.      *)
EXTENDS CreditTopup

MCOrders == {"plain", "linked"}
MCOneOrder == {"plain"}
MCAmount == [o \in Orders |-> 2]
MCLinkedTo == [o \in Orders |-> IF o = "linked" THEN "v1" ELSE "none"]
MCPayouts == {"p1", "p2"}
MCOnePayout == {"p1"}
MCPayoutOrder == [k \in PayoutKeys |-> [to |-> "v1", amount |-> 1]]
===========================================================================
