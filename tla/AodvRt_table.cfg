SPECIFICATION RtSpec
CONSTANTS
  SeqMod = 8
  MoreIsBetter = FALSE
  Dest = {d1, d2}
  Hop = {h1, h2}
  NoHop = NoHop
  MaxMetric = 2
  MeshThread = {m1}
  SeqUsed = {1}
  MetricUsed = {1}
SYMMETRY Symmetry
INVARIANT RtTypeOK
INVARIANT InverseUnlessMoved
INVARIANT RoutesOverNeighbours
