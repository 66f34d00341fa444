\* OneProcessTenancy: two listings and a tenant, two contracts, one failed write
SPECIFICATION UnbrokenTradeSpec
CONSTANTS
  l1 = l1
  l2 = l2
  t1 = t1
  Listings = {l1, l2}
  Tenants = {t1}
  Contracts <- MCContracts
  MaxProposals = 2
  MaxGenerations = 1
  MaxDeletions = 1
  MaxFaults = 1
SYMMETRY MCSymmetry
INVARIANTS
  TerminatedIsUnlinked
CHECK_DEADLOCK FALSE
