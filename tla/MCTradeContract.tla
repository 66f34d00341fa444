--------------------------- MODULE MCTradeContract ---------------------------
(* Instances of TradeContract small enough for TLC. *)
EXTENDS TradeContract, TLC

CONSTANTS l1, l2, t1

(* Two listings that are let, and let again, to one tenant. *)
MCContracts == {l1, l2} \X {t1} \X {1, 2}

(* One contract. *)
MCContract == {<<l1, t1, 1>>}

(* Neither listings nor their contracts are told apart. *)
MCSymmetry == Permutations({l1, l2})
=============================================================================
