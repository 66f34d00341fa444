-------------------------- MODULE MCVendorPayment --------------------------
(* Instances of VendorPayment small enough for TLC. *)
EXTENDS VendorPayment

(* Two repairs the manager pays, each within the balance, both together    *)
(* not, and one the tenant pays.                                           *)
MCRepairs == {"r1", "r2", "r3"}
MCAmount == [r \in MCRepairs |-> 2]
MCPayer == [r \in MCRepairs |-> IF r = "r3" THEN "TENANT" ELSE "MANAGER"]
===========================================================================
