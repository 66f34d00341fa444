\* CreditTopupChecked
SPECIFICATION CheckedTopupSpec
CONSTANTS
  MaxBalance = 3
  OpeningBalance = 1
  Limits = {1}
  Registrations = {"v1"}
  PayoutKeys <- MCOnePayout
  PayoutOrder <- MCPayoutOrder
  SettleKeys = {s1}
  TopupKeys <- MCOrders
  Orders <- MCOrders
  TopupAmount <- MCAmount
  LinkedTo <- MCLinkedTo
  NotLinked = "none"
  Handlers = {h1, h2}
INVARIANTS
  CapturedTopupCanBeChecked
CHECK_DEADLOCK FALSE
