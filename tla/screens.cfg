SPECIFICATION ScreensSpec
CONSTANTS
  o1 = o1
  r1 = r1
  r2 = r2
  p1 = p1
  p2 = p2
  c1 = c1
  c2 = c2
  m1 = m1
  m2 = m2
  s1 = s1
  Order = {o1}
  order = o1
  Patch = {r1, r2}
  MaxFaults = 2
  Product = {p1, p2}
  edited = p1
  Code = {c1, c2}
  Meta = {m1, m2}
  blank = m1
  Save = {s1}
  MaxOthers = 1
  MaxFailures = 1
  MaxId = 5
  PageSize = 2
  MaxChanges = 2
CONSTRAINT Within
INVARIANTS
  GhostsCostOverlap
  DoneMeansDone
  WalkListsAll
PROPERTIES
  SettledNeverGoesBack
  ViewCatchesUp
  TypedEditsSurvive
CHECK_DEADLOCK FALSE
