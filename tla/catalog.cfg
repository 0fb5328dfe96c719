SPECIFICATION AdditionsSpec
CONSTANTS
  p1 = p1
  s1 = s1
  s2 = s2
  usd = usd
  vnd = vnd
  q1 = q1
  q2 = q2
  Product = {p1}
  Sku = {s1, s2}
  Currency = {usd, vnd}
  Default = usd
  Seed <- Empty
  Request = {q1, q2}
  Calls <- Call
  MaxCalls = 3
  MaxFaults = 1
INVARIANTS
  EditsAreKept
PROPERTIES
  StockGoesWithItsProduct
CHECK_DEADLOCK FALSE
