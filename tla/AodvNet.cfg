SPECIFICATION Spec
CONSTANTS
  a = a
  b = b
  c = c
  SeqMod = 16
  MoreIsBetter = FALSE
  Dest = {a, b, c}
  Hop = {a, b, c}
  NoHop = NoHop
  MaxMetric = 2
  DestOnly = FALSE
  HopCount = TRUE
  MaxSeq = 2
  MaxLosses = 1
  MaxRestarts = 1
  MaxLeases = 1
  Scenarios <- All
INVARIANT TypeOK
INVARIANT NextHopKnows
INVARIANT RrepFindsReverse
INVARIANT SeqBound
PROPERTY AnswersAreFresh
