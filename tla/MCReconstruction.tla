-------------------------- MODULE MCReconstruction --------------------------
(* Instances of ReconstructionOrchestrator small enough for TLC.           *)
EXTENDS ReconstructionOrchestrator

MCOneAsset == {1}
MCTwoAssets == {1, 2}
MCEveryFault == {"callback", "capacity", "cancel", "lookup", "await", "crash"}
=============================================================================
