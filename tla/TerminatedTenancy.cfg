\* TerminatedTenancy: one contract and a restart
SPECIFICATION TradeSpec
CONSTANTS
  l1 = l1
  l2 = l2
  t1 = t1
  Listings = {l1, l2}
  Tenants = {t1}
  Contracts <- MCContract
  MaxProposals = 1
  MaxGenerations = 0
  MaxDeletions = 0
  MaxFaults = 1
INVARIANTS
  TerminatedIsUnlinked
CHECK_DEADLOCK FALSE
