SPECIFICATION Spec
CONSTANTS
  o1 = o1
  o2 = o2
  k = k
  c1 = c1
  c2 = c2
  a1 = a1
  Order = {o1}
  Sku = {k}
  Stock <- OneStock
  Lines <- OneLines
  Consumer = {c1, c2}
  Admin = {a1}
  NoHandler = NoHandler
  NoJob = NoJob
  MaxAttempts = 2
  Batch = 1
  Faults = {"crash", "catalog", "stripe", "publish", "db", "lockTimeout"}
  MaxFaults = 3
SYMMETRY Handlers
INVARIANTS
  ReservationBacked
  CancelledAfterCheckoutHoldsNothing
  OutboxTellsTheStory
PROPERTIES
  ImplementsLifecycle
