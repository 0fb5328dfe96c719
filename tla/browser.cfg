SPECIFICATION BrowserSpec
CONSTANTS
  u1 = u1
  u2 = u2
  web = web
  app = app
  w1 = w1
  a1 = a1
  a2 = a2
  i1 = i1
  i2 = i2
  k1 = k1
  k2 = k2
  User = {u1, u2}
  Seeded = {u2}
  Browser = {web}
  Caller = {app}
  Owner <- TheOwner
  Request = {w1, a1, a2}
  Asker <- TheAsker
  AccessTtl = 1
  RefreshTtl = 2
  MaxClock = 3
  MaxPairs = 3
  MaxFaults = 1
  Item = {i1, i2}
  NoItem = NoItem
  Slot = {k1, k2}
  MaxUnits = 2
  MaxClicks = 2
  MaxMishaps = 1
  t1 = t1
  t2 = t2
  usd = usd
  vnd = vnd
  Tab = {t1, t2}
  NoTab = NoTab
  Currency = {usd, vnd}
  NoCurrency = NoCurrency
  Default = usd
  Sku <- TwoVariants
  Price <- TwoPrices
  InStock <- TwoVariants
  Attribute = {"code"}
  Look <- TwoCodes
  MaxMoves = 6
CONSTRAINT Within
SYMMETRY BrowserSymmetry
INVARIANTS
  OnlyOverlapForks
  RevocationHasCause
  CallersKeepTheirSession
  RestingCartIsTrue
  CartFollowsTheChoice
CHECK_DEADLOCK FALSE
