------------------------- MODULE PaymentObligation -------------------------
(***************************************************************************)
(* What the payment of a repair promises to the manager, the tenant and    *)
(* the vendor: nothing is paid before the completed work is approved, what *)
(* is approved is paid at most once and in full by whichever way pays it   *)
(* first, and a payment is taken back at most once, never to be repeated.  *)
(***************************************************************************)
EXTENDS Integers

CONSTANTS
  Repairs,                 \* repairs that may have to be paid
  Amount                   \* [Repairs -> Nat]: what each costs

VARIABLES
  due,                     \* "unapproved", "open", "settled" or "closed"
  outflow                  \* the money that has left for the repair and not come back

obligationVars == <<due, outflow>>

Init ==
  /\ due = [r \in Repairs |-> "unapproved"]
  /\ outflow = [r \in Repairs |-> 0]

Become(r, d, o) ==
  /\ due' = [due EXCEPT ![r] = d]
  /\ outflow' = [outflow EXCEPT ![r] = o]

Approve(r) == due[r] = "unapproved" /\ Become(r, "open", 0)
Settle(r) == due[r] = "open" /\ Become(r, "settled", Amount[r])
Cancel(r) == due[r] = "open" /\ Become(r, "closed", 0)
TakeBack(r) == due[r] = "settled" /\ Become(r, "closed", 0)

Next == \E r \in Repairs : Approve(r) \/ Settle(r) \/ Cancel(r) \/ TakeBack(r)

Spec == Init /\ [][Next]_obligationVars
===========================================================================
