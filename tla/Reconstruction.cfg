\* Reconstruction
SPECIFICATION FairReconstructionSpec
CONSTANTS
  Assets <- MCTwoAssets
  MaxRequests = 1
  FaultKinds <- MCEveryFault
  MaxFaults = 1
  MaxAttempts = 2
  KeepWarm = FALSE
INVARIANTS
  OneActiveAsset
  ProcessingIsInHand
PROPERTIES
  ProcessingEnds
CHECK_DEADLOCK FALSE
