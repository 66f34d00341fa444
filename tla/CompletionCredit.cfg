\* CompletionCredit
SPECIFICATION CompletionSpec
CONSTANTS
  MaxBalance = 3
  OpeningBalance = 3
  Limits = {2}
  Repairs <- MCRepairs
  Amount <- MCAmount
  Payer <- MCManagerPays
  Keys = {k1}
  MaxReports = 1
  Deliveries <- MCRepairs
  Workers = {w1, w2}
  MaxFaults = 2
INVARIANTS
  DeliveryStaysValid
  DeliveredWasEvaluated
PROPERTIES
  ApprovalIsEvaluated
  ImplementsVendorPayment
CHECK_DEADLOCK FALSE
