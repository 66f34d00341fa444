\* VendorPayment
SPECIFICATION VendorPaymentSpec
CONSTANTS
  MaxBalance = 4
  OpeningBalance = 3
  Repairs <- MCRepairs
  Amount <- MCAmount
  Payer <- MCPayer
  Keys = {k1, k2}
  Limits = {2}
  MaxReports = 2
INVARIANTS
  VendorPaymentTypeOK
  StatusMatchesLedger
  BooksMatchPayment
  OnlyApprovedWorkIsPaid
  PaymentAnnouncedOnce
  BalanceMatchesPayments
PROPERTIES
  LedgerPromise
  PaidAtMostOnce
CHECK_DEADLOCK FALSE
