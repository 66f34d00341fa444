\* ReconstructionTwice
SPECIFICATION ReconstructionSpec
CONSTANTS
  Assets <- MCOneAsset
  MaxRequests = 0
  FaultKinds = {"crash", "lookup"}
  MaxFaults = 1
  MaxAttempts = 2
  KeepWarm = FALSE
INVARIANTS
  OneCommandAtATime
CHECK_DEADLOCK FALSE
