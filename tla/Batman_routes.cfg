SPECIFICATION Spec
CONSTANTS
  a = a
  b = b
  c = c
  d = d
  i1 = i1
  i2 = i2
  SeqMod = 16
  Iface = {i1, i2}
  Hop = {a, b, d}
  NoHop = NoHop
  WindowSize = 2
  Settled = TRUE
  Originator = {d}
  InRange <- LineAD
  UsePrecursor = FALSE
  ResendAlways = FALSE
  ResetCount = 2
  FirstSeq <- BeforeWrap
  MaxOgms = 3
  Budgets <- SmallBudgets
CHECK_DEADLOCK FALSE
INVARIANT RoutesUsable
