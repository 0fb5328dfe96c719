SPECIFICATION FairSpec
CONSTANTS
  o1 = o1
  o2 = o2
  k = k
  c1 = c1
  c2 = c2
  a1 = a1
  Order = {o1, o2}
  Sku = {k}
  Stock <- OneStock
  Lines <- TwoLines
  Consumer = {c1, c2}
  Admin = {}
  NoHandler = NoHandler
  NoJob = NoJob
  MaxAttempts = 2
  Batch = 2
  Faults = {"catalog", "stripe", "db", "lockTimeout"}
  MaxFaults = 2
INVARIANTS
  NoPaymentVanishes
PROPERTIES
  PaidIsConfirmedOrSurfaced
  DeclineIsCompensated
  CancelledIsReleased
