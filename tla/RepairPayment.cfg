\* RepairPayment: a repair paid by the manager or one paid by the tenant
SPECIFICATION RepairPaymentSpec
CONSTANTS
  k1 = k1
  k2 = k2
  o1 = o1
  o2 = o2
  h1 = h1
  h2 = h2
  MaxBalance = 4
  OpeningBalance = 3
  Repairs <- MCRepairs
  Amount <- MCAmount
  Payer <- MCPayer
  Keys = {k1, k2}
  Limits = {2}
  MaxReports = 2
  Orders = {o1, o2}
  Handlers = {h1, h2}
SYMMETRY MCSymmetry
CONSTRAINT OneRepairReported
INVARIANTS
  RepairPaymentTypeOK
  CapturedMoneyCanBeBooked
  TossPaidMatchesCapture
  GivenUpOrdersStayUnpaid
PROPERTIES
  PaidAtMostOnceWithCard
CHECK_DEADLOCK FALSE
