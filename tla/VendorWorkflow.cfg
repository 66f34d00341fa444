\* VendorWorkflow: one ticket, two repairs of two versions each
SPECIFICATION DirectHandlingSpec
CONSTANTS
  r1 = r1
  r2 = r2
  v1 = v1
  v2 = v2
  Repairs = {r1, r2}
  Vendors = {v1, v2}
  MaxEstimates = 2
SYMMETRY MCSymmetry
INVARIANTS
  OneActiveRepair
  OneEstimateInForce
  WorkRestsOnApproval
  BilledPriceWasApproved
PROPERTIES
  ClosedStaysClosed
CHECK_DEADLOCK FALSE
