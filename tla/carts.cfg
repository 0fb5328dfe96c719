SPECIFICATION Spec
CONSTANTS
  alice = alice
  guest1 = guest1
  usd = usd
  vnd = vnd
  sku1 = sku1
  q1 = q1
  q2 = q2
  User = {alice}
  Guest = {guest1}
  NoUser = NoUser
  NoGuest = NoGuest
  Sku = {sku1}
  Currency = {usd, vnd}
  NoCurrency = NoCurrency
  Request = {q1, q2}
  MaxN = 2
  MaxCalls = 4
  MaxFaults = 1
SYMMETRY Symmetric
INVARIANTS
  OneCurrency
  UnitsAccountedFor
CHECK_DEADLOCK FALSE
