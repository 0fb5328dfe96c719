SPECIFICATION PageSpec
CONSTANTS
  t1 = t1
  t2 = t2
  usd = usd
  vnd = vnd
  Tab = {t1}
  NoTab = NoTab
  Currency = {usd, vnd}
  NoCurrency = NoCurrency
  Default = usd
  Sku <- FourVariants
  Price <- FourPrices
  InStock <- FourVariants
  Attribute = {"size", "colour"}
  Look <- SizeAndColour
  MaxMoves = 3
INVARIANTS
  ChipsAddUp
CHECK_DEADLOCK FALSE
