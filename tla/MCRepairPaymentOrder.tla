----------------------- MODULE MCRepairPaymentOrder -----------------------
(* Instances of RepairPaymentOrder small enough for TLC. *)
EXTENDS RepairPaymentOrder, TLC

CONSTANTS k1, k2, o1, o2, h1, h2

(* A repair the manager pays and one the tenant pays. *)
MCRepairs == {"r1", "r2"}
MCAmount == [r \in MCRepairs |-> 2]
MCPayer == [r \in MCRepairs |-> IF r = "r1" THEN "MANAGER" ELSE "TENANT"]

(* Bound: only one of the two gets as far as a completion report. *)
OneRepairReported == Cardinality({r \in Repairs : report[r] > 0}) <= 1

(* Keys, orders and handlers are not told apart. *)
MCSymmetry ==
  Permutations({k1, k2}) \union Permutations({o1, o2}) \union Permutations({h1, h2})
===========================================================================
