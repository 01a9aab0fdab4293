SPECIFICATION MCSpec
CONSTANTS
  a = a
  b = b
  c = c
  d = d
  SeqSpan = 8
  Threshold = 3
  GapCount = 2
  MaxSent = 13
  MaxDelay = 3
  MaxLost = 3
  Node = {a, b, c, d}
  InRange <- Ring
  Orders <- OldNodes
  Infinite = 6
  MaxFloods = 1
  MaxHellos = 1
  Speaker = {b}
  Router = {a}
CHECK_DEADLOCK FALSE
INVARIANT NewestFollows
INVARIANT TakenOnce
INVARIANT RoutesShortest
