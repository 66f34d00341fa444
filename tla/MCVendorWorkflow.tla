-------------------------- MODULE MCVendorWorkflow --------------------------
(* Instances of DirectHandling small enough for TLC. *)
EXTENDS DirectHandling, TLC

CONSTANTS r1, r2, v1, v2

(* Neither repairs nor vendors are told apart but by what happened to them. *)
MCSymmetry == Permutations({r1, r2}) \union Permutations({v1, v2})
=============================================================================
