\* CreditTopup
SPECIFICATION CreditTopupSpec
CONSTANTS
  MaxBalance = 3
  OpeningBalance = 1
  Limits = {1}
  Registrations = {"v1"}
  PayoutKeys <- MCPayouts
  PayoutOrder <- MCPayoutOrder
  SettleKeys = {s1, s2}
  TopupKeys <- MCOrders
  Orders <- MCOrders
  TopupAmount <- MCAmount
  LinkedTo <- MCLinkedTo
  NotLinked = "none"
  Handlers = {h1, h2}
INVARIANTS
  CreditedOnceWhenCaptured
  OneOutcomeTold
  PayoutsMatchLedger
PROPERTIES
  LedgerPromise
CHECK_DEADLOCK FALSE
