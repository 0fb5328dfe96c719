SPECIFICATION SearchSpec
CONSTANTS
  s1 = s1
  usd = usd
  vnd = vnd
  q1 = q1
  q2 = q2
  h1 = h1
  h2 = h2
  j1 = j1
  j2 = j2
  Product = {1, 2}
  Sku = {s1}
  Currency = {usd, vnd}
  Default = usd
  Seed <- Seeded
  Request = {q1, q2}
  Calls <- Edits
  MaxCalls = 2
  MaxFaults = 1
  Handler = {h1}
  Job = {j1, j2}
  PageSize = 1
  MaxIndex = 2
SYMMETRY Symmetric
CONSTRAINTS
  Within
  Changed
INVARIANTS
  AliasNamesOneIndex
  IndexFollowsCatalog
PROPERTIES
  AliasNeverVanishes
CHECK_DEADLOCK FALSE
