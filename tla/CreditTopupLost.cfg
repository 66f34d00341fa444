\* CreditTopupLost
SPECIFICATION CreditTopupSpec
CONSTANTS
  MaxBalance = 3
  OpeningBalance = 0
  Limits = {1}
  Registrations = {"v1"}
  PayoutKeys <- MCOnePayout
  PayoutOrder <- MCPayoutOrder
  SettleKeys = {s1}
  TopupKeys <- MCOneOrder
  Orders <- MCOneOrder
  TopupAmount <- MCAmount
  LinkedTo <- MCLinkedTo
  NotLinked = "none"
  Handlers = {h1}
INVARIANT CapturedTopupCanBeChecked
CHECK_DEADLOCK FALSE
