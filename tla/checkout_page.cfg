SPECIFICATION PageSpec
CONSTANTS
  o1 = o1
  o2 = o2
  o3 = o3
  t1 = t1
  t2 = t2
  Order = {o1, o2, o3}
  Tab = {t1, t2}
  NoOrder = NoOrder
  MaxBaskets = 2
  MaxAccidents = 2
SYMMETRY Symmetric
INVARIANTS
  CartIsPaidOnce
  StrandedCostAccidents
CHECK_DEADLOCK FALSE
