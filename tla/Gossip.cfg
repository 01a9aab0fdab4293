SPECIFICATION FairSpec
CONSTANTS
  a = a
  b = b
  c = c
  d = d
  x = x
  y = y
  t1 = t1
  t2 = t2
  Node = {a, b, c, d, x, y}
  NoHello = NoHello
  Link <- Triangle
  All = All
  Scenarios <- AllScenarios
  Thread = {t1, t2}
  LogSize = 2
  K = 1
  M = 1
CHECK_DEADLOCK FALSE
INVARIANT SetsAgree
INVARIANT TakenAgainExplained
INVARIANT SilentHeardEnough
PROPERTY UncoveredNeedsThree
PROPERTY Recovers
PROPERTY FloodReaches
