\* ReconstructionAttended
SPECIFICATION AttendedSpec
CONSTANTS
  Assets <- MCTwoAssets
  MaxRequests = 1
  FaultKinds <- MCEveryFault
  MaxFaults = 2
  MaxAttempts = 2
  KeepWarm = FALSE
INVARIANTS
  OneJobWorks
CHECK_DEADLOCK FALSE
