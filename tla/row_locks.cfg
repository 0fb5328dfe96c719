SPECIFICATION LocksSpec
CONSTANTS
  o1 = o1
  o2 = o2
  c1 = c1
  c2 = c2
  c3 = c3
  r1 = r1
  r2 = r2
  Order <- MCOrder
  Sku <- MCSku
  Stock <- MCStock
  Lines <- MCLines
  Call = {c1, c2, c3}
  NoCall = NoCall
  NoOrder = NoOrder
  NoSku = NoSku
  MaxOverlaps <- MCMaxOverlaps
  Event = {1, 2, 3}
  Replica = {r1, r2}
  NoReplica = NoReplica
  Limit = 2
  MaxFaults = 2
INVARIANTS
  NoOversell
  ReservesWaitUphill
  ReservedIsSumOfReservations
  MarkedWasAccepted
  RepeatsCostFailures
PROPERTIES
  ImplementsLedger
  CallsEnd
  CommittedIsPublished
